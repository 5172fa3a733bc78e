----------------------------- MODULE GitPorcelain -----------------------------
(***************************************************************************)
(* The gitporcelain backend: every request runs git commands in one clone  *)
(* that all requests of the process share.  There is no lock.  A request   *)
(* pulls, looks at the work tree, changes it, and then adds, commits and   *)
(* pushes whatever is there by then.                                       *)
(*                                                                         *)
(* A git command is one step, except push, whose two ends are apart.  git  *)
(* is taken as it comes (2.33 and later): a pull of a branch that has      *)
(* diverged is refused, so no commit ever has two parents.                 *)
(***************************************************************************)
EXTENDS RestOperations, Naturals, Sequences

CONSTANTS
    Clones,       \* one per process of the backend, all of one remote
    Requests,     \* calls of the backend, each made once
    CloneOf,      \* the process a request is sent to
    OpsOf,        \* the operations a request may ask for
    Directories,  \* the paths that are directories of the repository
    Torn          \* what a file holds while it is being written

ASSUME PorcelainAssumption ==
    /\ CloneOf \in [Requests -> Clones]
    /\ OpsOf \in [Requests -> SUBSET Operations]
    /\ Directories \subseteq Paths
    /\ Torn \in Bodies
    /\ \A r \in Requests : \A o \in OpsOf[r] : o.body # Torn

VARIABLES
    commits,   \* every commit made: its ancestors, its tree, its request
    main,      \* the remote's main
    local,     \* main of each clone
    index,     \* what each clone would commit
    work,      \* the files of each clone
    pc, op, result,
    sent,      \* the push of a request that the remote has not looked at yet
    \* history, read by the properties only
    began,     \* the remote's main when a request was called
    late,      \* requests called when their clone had already diverged
    muddled,   \* clones whose calls overlapped, or where a write, an add, a
               \* commit or a pull broke off
    clashed    \* requests that overlapped another one of their clone and path

cloneVars == <<local, index, work>>
history   == <<began, late, muddled, clashed>>
vars == <<commits, main, cloneVars, pc, op, result, sent, history>>

Commit   == [past : SUBSET Nat, tree : Trees, by : Requests \cup {NoFile}]
NoAnswer == [code |-> "none", data |-> NoFile]
NoPush   == [old |-> 0, new |-> 0]

(* A commit and everything below it.                                        *)
History(c) == commits[c].past \cup {c}

Diverged(k) == main \notin History(local[k]) /\ local[k] \notin History(main)

(* Requests that are under way.                                             *)
Open == {r \in Requests : pc[r] \notin {"idle", "done"}}

(* NewBackend has cloned a repository, of which main exists.                *)
Init ==
    /\ \E tree \in Trees :
         /\ \A x \in Paths : tree[x] # Torn /\ (x \in Directories => tree[x] = NoFile)
         /\ commits = <<[past |-> {}, tree |-> tree, by |-> NoFile]>>
    /\ main = 1
    /\ local = [k \in Clones |-> 1]
    /\ index = [k \in Clones |-> commits[1].tree]
    /\ work = [k \in Clones |-> commits[1].tree]
    /\ pc = [r \in Requests |-> "idle"]
    /\ op \in {o \in [Requests -> Operations] :
                 \A r \in Requests : o[r] \in OpsOf[r]}
    /\ result = [r \in Requests |-> NoAnswer]
    /\ sent = [r \in Requests |-> NoPush]
    /\ began = [r \in Requests |-> 1]
    /\ late = {}
    /\ muddled = {}
    /\ clashed = {}

Goto(r, place) == pc' = [pc EXCEPT ![r] = place]

Finish(r, a) ==
    /\ result' = [result EXCEPT ![r] = a]
    /\ Goto(r, "done")

(* The request is answered, or goes on, and nothing else happens.           *)
Answer(r, a) ==
    Finish(r, a) /\ UNCHANGED <<commits, main, cloneVars, op, sent, history>>

Proceed(r, place) ==
    Goto(r, place) /\ UNCHANGED <<commits, main, cloneVars, op, result, sent, history>>

Call(r) ==
    LET here == {s \in Open : CloneOf[s] = CloneOf[r]}
        same == {s \in here : op[s].path = op[r].path}
    IN  /\ pc[r] = "idle"
        /\ Goto(r, "pull")
        /\ began' = [began EXCEPT ![r] = main]
        /\ late' = IF Diverged(CloneOf[r]) THEN late \cup {r} ELSE late
        /\ muddled' = IF here = {} THEN muddled ELSE muddled \cup {CloneOf[r]}
        /\ clashed' = IF same = {} THEN clashed ELSE clashed \cup same \cup {r}
        /\ UNCHANGED <<commits, main, cloneVars, op, result, sent>>

-----------------------------------------------------------------------------
(* pull.                                                                    *)

(* The remote has nothing new.  That local main may be ahead, with commits  *)
(* that were never pushed, does not matter to git.                          *)
PullUpToDate(r) ==
    /\ pc[r] = "pull"
    /\ main \in History(local[CloneOf[r]])
    /\ Proceed(r, "stat")

(* Mutant: pull overwrites what is in its way.                              *)
Overwritten(k, x) == TRUE

(* A path that the remote changed is brought up to date if nobody changed   *)
(* it here; a file that is just missing counts as unchanged and comes back. *)
Mergeable(k, x) ==
    LET mine   == commits[local[k]].tree[x]
        theirs == commits[main].tree[x]
    IN  \/ mine = theirs
        \/ index[k][x] = theirs
        \/ index[k][x] = mine /\ work[k][x] \in {mine, NoFile}

Behind(k) == local[k] # main /\ local[k] \in History(main)

(* The paths that a fast-forward touches.                                   *)
Moved(k) ==
    {x \in Paths : /\ commits[local[k]].tree[x] # commits[main].tree[x]
                   /\ index[k][x] # commits[main].tree[x]}

Updated(k, tree) ==
    [x \in Paths |-> IF x \in Moved(k) THEN commits[main].tree[x] ELSE tree[x]]

PullFastForward(r) ==
    LET k == CloneOf[r]
    IN  /\ pc[r] = "pull"
        /\ Behind(k)
        /\ \A x \in Paths : Mergeable(k, x)
        /\ local' = [local EXCEPT ![k] = main]
        /\ index' = [index EXCEPT ![k] = Updated(k, @)]
        /\ work' = [work EXCEPT ![k] = Updated(k, @)]
        /\ Goto(r, "stat")
        /\ UNCHANGED <<commits, main, op, result, sent, history>>

(* A fast-forward that breaks off: some files are changed and the index is  *)
(* not written, or both are done and the branch is not moved.               *)
PullBreaks(r) ==
    LET k == CloneOf[r]
    IN  /\ pc[r] = "pull"
        /\ Behind(k)
        /\ \A x \in Paths : Mergeable(k, x)
        /\ \/ /\ \E left \in [Moved(k) -> Bodies \cup {NoFile}] :
                   /\ \A x \in Moved(k) :
                        left[x] \in {work[k][x], NoFile, Torn, commits[main].tree[x]}
                   /\ work' = [work EXCEPT ![k] =
                        [x \in Paths |-> IF x \in Moved(k) THEN left[x] ELSE @[x]]]
              /\ UNCHANGED index
           \/ /\ work' = [work EXCEPT ![k] = Updated(k, @)]
              /\ index' = [index EXCEPT ![k] = Updated(k, @)]
        /\ Finish(r, Error)
        /\ muddled' = muddled \cup {k}
        /\ UNCHANGED <<commits, main, local, op, sent, began, late, clashed>>

(* A clone that has diverged, or files in the way.                          *)
PullRefused(r) ==
    LET k == CloneOf[r]
    IN  /\ pc[r] = "pull"
        /\ \/ Diverged(k)
           \/ Behind(k) /\ \E x \in Paths : ~Mergeable(k, x)
        /\ Answer(r, Error)

(* Mutant: an error of pull is not looked at.                               *)
PullFailsUnseen(r) ==
    /\ pc[r] = "pull"
    /\ Proceed(r, "stat")

(* The remote cannot be reached.                                            *)
PullFails(r) ==
    /\ pc[r] = "pull"
    /\ Answer(r, Error)

-----------------------------------------------------------------------------
(* The work tree.                                                           *)

(* Mutant: PUT does not mind what Stat says.                                *)
RefusalUnlessPut(o, tree) ==
    LET there == tree[o.path] # NoFile \/ o.path \in Directories
    IN  CASE o.verb = "POST" /\ there -> Conflict
          [] o.verb \in {"GET", "DELETE"} /\ ~there -> NotFound
          [] OTHER -> NoAnswer

(* os.Stat.  POST refuses whatever exists, the others a directory as well   *)
(* as what does not exist.                                                  *)
Refusal(o, tree) ==
    LET file == tree[o.path] # NoFile /\ o.path \notin Directories
        there == file \/ o.path \in Directories
    IN  CASE o.verb = "POST" /\ there -> Conflict
          [] o.verb # "POST" /\ ~file -> NotFound
          [] OTHER -> NoAnswer

Stat(r) ==
    LET refusal == Refusal(op[r], work[CloneOf[r]])
        next == CASE op[r].verb = "GET" -> "read"
                  [] op[r].verb = "DELETE" -> "remove"
                  [] OTHER -> "write"
    IN  /\ pc[r] = "stat"
        /\ IF refusal # NoAnswer THEN Answer(r, refusal) ELSE Proceed(r, next)

(* os.ReadFile; the file may have gone since Stat.                          *)
ReadFile(r) ==
    LET content == work[CloneOf[r]][op[r].path]
    IN  /\ pc[r] = "read"
        /\ Answer(r, IF content = NoFile THEN Error ELSE Ok(content))

Put(k, x, content) == work' = [work EXCEPT ![k][x] = content]

(* os.WriteFile empties the file, or creates it, and then fills it.         *)
WriteBegins(r) ==
    /\ pc[r] = "write"
    /\ Put(CloneOf[r], op[r].path, Torn)
    /\ Goto(r, "fill")
    /\ UNCHANGED <<commits, main, local, index, op, result, sent, history>>

WriteEnds(r) ==
    /\ pc[r] = "fill"
    /\ Put(CloneOf[r], op[r].path, op[r].body)
    /\ Goto(r, "add")
    /\ UNCHANGED <<commits, main, local, index, op, result, sent, history>>

(* The disk is full, say: what was written stays where it is.               *)
WriteBreaks(r) ==
    /\ pc[r] = "fill"
    /\ Finish(r, Error)
    /\ muddled' = muddled \cup {CloneOf[r]}
    /\ UNCHANGED <<commits, main, cloneVars, op, sent, began, late, clashed>>

(* os.Remove, which fails if the file has gone since Stat.                  *)
Remove(r) ==
    LET k == CloneOf[r]
    IN  /\ pc[r] = "remove"
        /\ IF work[k][op[r].path] = NoFile
             THEN Finish(r, Error) /\ UNCHANGED work
             ELSE Put(k, op[r].path, NoFile) /\ Goto(r, "add") /\ UNCHANGED result
        /\ UNCHANGED <<commits, main, local, index, op, sent, history>>

(* A call of the operating system fails and changes nothing, as WriteFile   *)
(* does below a directory that does not exist.                              *)
FileCallFails(r) ==
    /\ pc[r] \in {"stat", "read", "write", "remove"}
    /\ Answer(r, Error)

-----------------------------------------------------------------------------
(* commitAndPush.                                                           *)

(* git add --all takes every file of the clone, whoever changed it.         *)
Add(r) ==
    LET k == CloneOf[r]
    IN  /\ pc[r] = "add"
        /\ index' = [index EXCEPT ![k] = work[k]]
        /\ Goto(r, "commit")
        /\ UNCHANGED <<commits, main, local, work, op, result, sent, history>>

(* Mutant: the branch is moved to a commit that is not there.                *)
CommitIndexMissing(r) ==
    LET k == CloneOf[r]
    IN  /\ pc[r] = "commit"
        /\ index[k] # commits[local[k]].tree
        /\ local' = [local EXCEPT ![k] = Len(commits) + 1]
        /\ Goto(r, "push")
        /\ UNCHANGED <<commits, main, index, work, op, result, sent, history>>

CommitIndex(r) ==
    LET k == CloneOf[r]
        c == Len(commits) + 1
    IN  /\ pc[r] = "commit"
        /\ index[k] # commits[local[k]].tree
        /\ commits' = Append(commits, [past |-> History(local[k]),
                                       tree |-> index[k], by |-> r])
        /\ local' = [local EXCEPT ![k] = c]
        /\ Goto(r, "push")
        /\ UNCHANGED <<main, index, work, op, result, sent, history>>

(* Mutant: that there is nothing to commit is no error.                     *)
NothingToCommitOk(r) ==
    /\ pc[r] = "commit"
    /\ index[CloneOf[r]] = commits[local[CloneOf[r]]].tree
    /\ Answer(r, Ok(NoFile))

(* "nothing to commit" is an error: a PUT of what is there already, or a    *)
(* change that another request's commit took along.                         *)
NothingToCommit(r) ==
    /\ pc[r] = "commit"
    /\ index[CloneOf[r]] = commits[local[CloneOf[r]]].tree
    /\ Answer(r, Error)

(* git add or git commit fails: index.lock is there, of another request's   *)
(* command or left by one that was killed, the disk is full, git does not   *)
(* know who commits.  The changed file stays in the work tree and perhaps   *)
(* in the index, for the next request to read and to commit.  (A commit     *)
(* that is made and still answered with an error is CommitIndex and then    *)
(* PushFails.)                                                              *)
GitFails(r) ==
    /\ pc[r] \in {"add", "commit"}
    /\ Finish(r, Error)
    /\ muddled' = muddled \cup {CloneOf[r]}
    /\ UNCHANGED <<commits, main, cloneVars, op, sent, began, late, clashed>>

(* git push sends local main, with whatever else is below it by then.       *)
PushSends(r) ==
    LET head == local[CloneOf[r]]
    IN  /\ pc[r] = "push"
        /\ main # head
        /\ main \in History(head)
        /\ sent' = [sent EXCEPT ![r] = [old |-> main, new |-> head]]
        /\ Goto(r, "sent")
        /\ UNCHANGED <<commits, main, cloneVars, op, result, history>>

(* Another request's push took the commit along: "Everything up-to-date".   *)
PushUpToDate(r) ==
    /\ pc[r] = "push"
    /\ main = local[CloneOf[r]]
    /\ Answer(r, Ok(NoFile))

(* The remote has moved on: the push is refused and the commit stays.       *)
PushRejected(r) ==
    /\ pc[r] = "push"
    /\ main \notin History(local[CloneOf[r]])
    /\ Answer(r, Error)

(* Mutant: git push --force.                                                *)
LandsForced(r) == sent[r] # NoPush

(* The remote takes a push if main is still what the push says it was.      *)
Lands(r) == sent[r] # NoPush /\ sent[r].old = main

PushLands(r) ==
    /\ pc[r] = "sent"
    /\ Lands(r)
    /\ main' = sent[r].new
    /\ sent' = [sent EXCEPT ![r] = NoPush]
    /\ Finish(r, Ok(NoFile))
    /\ UNCHANGED <<commits, cloneVars, op, history>>

PushOvertaken(r) ==
    /\ pc[r] = "sent"
    /\ ~Lands(r)
    /\ sent' = [sent EXCEPT ![r] = NoPush]
    /\ Finish(r, Error)
    /\ UNCHANGED <<commits, main, cloneVars, op, history>>

(* The connection fails, before anything is sent or after.                  *)
PushFails(r) ==
    /\ pc[r] \in {"push", "sent"}
    /\ Answer(r, Error)

(* What was sent may be applied although nobody hears of it.                *)
PushUnheard(r) ==
    /\ pc[r] = "done"
    /\ Lands(r)
    /\ main' = sent[r].new
    /\ sent' = [sent EXCEPT ![r] = NoPush]
    /\ UNCHANGED <<commits, cloneVars, pc, op, result, history>>

-----------------------------------------------------------------------------
Next ==
    \E r \in Requests :
       \/ Call(r)
       \/ PullUpToDate(r) \/ PullFastForward(r) \/ PullBreaks(r)
       \/ PullRefused(r) \/ PullFails(r)
       \/ Stat(r) \/ ReadFile(r) \/ FileCallFails(r)
       \/ WriteBegins(r) \/ WriteEnds(r) \/ WriteBreaks(r) \/ Remove(r)
       \/ Add(r) \/ CommitIndex(r) \/ NothingToCommit(r) \/ GitFails(r)
       \/ PushSends(r) \/ PushUpToDate(r) \/ PushRejected(r)
       \/ PushLands(r) \/ PushOvertaken(r) \/ PushFails(r) \/ PushUnheard(r)

Spec == Init /\ [][Next]_vars

-----------------------------------------------------------------------------
(* Properties.                                                              *)

(* Every variable has its type.                                             *)
TypeOK ==
    /\ commits \in Seq(Commit)
    /\ main \in DOMAIN commits
    /\ local \in [Clones -> DOMAIN commits]
    /\ index \in [Clones -> Trees]
    /\ work \in [Clones -> Trees]
    /\ pc \in [Requests -> {"idle", "pull", "stat", "read", "write", "fill",
                            "remove", "add", "commit", "push", "sent", "done"}]
    /\ op \in [Requests -> Operations]
    /\ result \in [Requests -> Answers \cup {NoAnswer}]
    /\ sent \in [Requests -> [old : DOMAIN commits, new : DOMAIN commits] \cup {NoPush}]
    /\ began \in [Requests -> DOMAIN commits]
    /\ late \subseteq Requests
    /\ muddled \subseteq Clones
    /\ clashed \subseteq Requests

(* The remote never loses a commit, whatever the clones do to one another    *)
(* (git push without --force, :318).                                        *)
MainGrows == [][ main = main' \/ main \in commits'[main'].past ]_vars

(* However requests get in one another's way in the clone, a write answered  *)
(* with success has a commit of its own, and the remote has it (:307-323).   *)
SuccessIsPublished ==
    \A r \in Requests :
       pc[r] = "done" /\ IsWrite(op[r]) /\ result[r].code = "ok" =>
         \E c \in History(main) : commits[c].by = r

(* The body of a POST or PUT answered with success has been on main during   *)
(* the call or since, even if other requests used other paths of the clone   *)
(* meanwhile: their pulls, adds and commits leave it alone (:199, :266).     *)
(* Not so for DELETE, whose file a pull of another request brings back.      *)
BodyIsPublished ==
    \A r \in Requests \ clashed :
       /\ pc[r] = "done" /\ result[r].code = "ok"
       /\ op[r].verb \in {"POST", "PUT"}
       => \E d \in History(main) :
             /\ began[r] \in History(d)
             /\ commits[d].tree[op[r].path] = op[r].body

(* As long as no two calls of a clone overlap and no write, add, commit or   *)
(* pull breaks off, every commit is what its operation makes of the tree     *)
(* below it, and is allowed there: nothing else is taken along by add --all, *)
(* and a push that meets another clone's is refused, not merged (:307-323).  *)
(* The condition is needed: what a failed commit leaves behind goes into the *)
(* next request's.                                                          *)
LinearUnlessMuddled ==
    \A c \in DOMAIN commits :
       commits[c].by # NoFile /\ CloneOf[commits[c].by] \notin muddled =>
         LET o == op[commits[c].by]
             tree == commits[CHOOSE d \in commits[c].past :
                               commits[c].past = History(d)].tree
         IN  /\ o.path \notin Directories
             /\ Writes(o, tree)
             /\ commits[c].tree = Effect(o, tree)

(* In such a clone, a definite answer is what the operation calls for on a   *)
(* commit at least as new as the remote's main was at the time of the call:  *)
(* on main, or on commits of the clone that were never pushed.              *)
AnswersFresh ==
    [][ \A r \in Requests :
          /\ pc[r] # "done" /\ pc'[r] = "done"
          /\ CloneOf[r] \notin muddled
          /\ result'[r] # Error
          => \E d \in History(local[CloneOf[r]]) :
                /\ began[r] \in History(d)
                /\ LET refusal == Refusal(op[r], commits[d].tree)
                   IN  result'[r] = IF refusal # NoAnswer THEN refusal
                                    ELSE Outcome(op[r], commits[d].tree) ]_vars

(* A clone that has diverged, after a push that was refused or not heard of, *)
(* never serves again: every later call of it is answered with an error      *)
(* (:291-299).                                                              *)
DivergedServesErrors ==
    \A r \in late : pc[r] = "done" => result[r] = Error
=============================================================================
