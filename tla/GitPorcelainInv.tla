---------------------------- MODULE GitPorcelainInv ----------------------------
(***************************************************************************)
(* The inductive invariant of GitPorcelain, in named parts.  Two facts     *)
(* carry most of it: the commits below a commit form a line, because       *)
(* nothing ever merges, and a clone where no two calls overlapped and no   *)
(* write or git command broke off is clean between requests.               *)
(***************************************************************************)
EXTENDS GitPorcelain

(* The commits below a commit are older, closed downwards, and a line.      *)
LineOf(c) ==
    /\ commits[c].past \subseteq 1..(c - 1)
    /\ \A d \in commits[c].past : commits[d].past \subseteq commits[c].past
    /\ \A d, e \in commits[c].past : d \in History(e) \/ e \in History(d)

LineInv == \A c \in DOMAIN commits : LineOf(c)

(* The remote, or what was sent to it, has a commit of the request.         *)
Made(r, c) == \E d \in History(c) : commits[d].by = r

(* A push sends a commit of its request, on top of the main it names as old. *)
PushOf(r) ==
    /\ sent[r] # NoPush => sent[r].old \in commits[sent[r].new].past
    /\ pc[r] = "push" => Made(r, local[CloneOf[r]])
    /\ pc[r] = "sent" => sent[r] # NoPush /\ Made(r, sent[r].new)

PushInv == \A r \in Requests : PushOf(r)

(* Each operation goes its own way.                                         *)
VerbOf(r) ==
    /\ pc[r] = "read" => op[r].verb = "GET"
    /\ pc[r] \in {"write", "fill"} => op[r].verb \in {"POST", "PUT"}
    /\ pc[r] = "remove" => op[r].verb = "DELETE"
    /\ pc[r] \in {"add", "commit", "push", "sent"} => IsWrite(op[r])

VerbInv == \A r \in Requests : VerbOf(r)

(* A clone that had diverged when a request was called still has.            *)
LateOf(r) ==
    /\ Diverged(CloneOf[r])
    /\ pc[r] \in {"pull", "done"}
    /\ pc[r] = "done" => result[r] = Error

LateInv == \A r \in late : LateOf(r)

(* What a request finds after its pull is as new as main was at its call.    *)
Pulled == {"stat", "read", "write", "fill", "remove", "add", "commit", "push", "sent"}

BeganOf(r) ==
    /\ began[r] \in History(main)
    /\ pc[r] \in Pulled => began[r] \in History(local[CloneOf[r]])

BeganInv == \A r \in Requests : BeganOf(r)

(* In a clone that nobody muddled requests take turns.                       *)
TurnsInv ==
    \A r, s \in Open :
       CloneOf[r] = CloneOf[s] /\ CloneOf[r] \notin muddled => r = s

(* The files of such a clone are those of its commit between requests, and   *)
(* differ at one path while a request changes them.                          *)
HeadTree(k) == commits[local[k]].tree

Changing == {"fill", "add", "commit"}

CleanOf(k) ==
    (\A r \in Requests : CloneOf[r] = k => pc[r] \notin Changing) =>
        index[k] = HeadTree(k) /\ work[k] = HeadTree(k)

CleanInv == \A k \in Clones \ muddled : CleanOf(k)

(* What a request of such a clone has checked, and how far it has come.      *)
CheckedOf(r) ==
    LET k == CloneOf[r]
        with(content) == [HeadTree(k) EXCEPT ![op[r].path] = content]
    IN  /\ pc[r] \in {"read", "write", "fill", "remove", "add", "commit"} =>
             Refusal(op[r], HeadTree(k)) = NoAnswer
        /\ pc[r] \in {"fill", "add"} => index[k] = HeadTree(k)
        /\ pc[r] = "fill" => work[k] = with(Torn)
        /\ pc[r] \in {"add", "commit"} => work[k] = with(op[r].body)
        /\ pc[r] = "commit" => index[k] = work[k]
        /\ pc[r] \in {"push", "sent"} =>
             \E d \in History(local[k]) :
                began[r] \in History(d) /\ Refusal(op[r], commits[d].tree) = NoAnswer

CheckedInv == \A r \in Requests : CloneOf[r] \notin muddled => CheckedOf(r)

(* A commit of such a clone is what its operation makes of the one below.    *)
EffectOf(c) ==
    LET o == op[commits[c].by]
    IN  \E d \in commits[c].past :
           /\ commits[c].past = History(d)
           /\ o.path \notin Directories
           /\ Writes(o, commits[d].tree)
           /\ commits[c].tree = Effect(o, commits[d].tree)

EffectInv ==
    \A c \in DOMAIN commits :
       commits[c].by # NoFile /\ CloneOf[commits[c].by] \notin muddled => EffectOf(c)

(* Requests of one clone and path that are under way together are noted.    *)
ClashInv ==
    \A r, s \in Open :
       r # s /\ CloneOf[r] = CloneOf[s] /\ op[r].path = op[s].path => r \in clashed

(* The body of a request has been in a commit since main at its call.       *)
Held(r, c) ==
    \E d \in History(c) :
       began[r] \in History(d) /\ commits[d].tree[op[r].path] = op[r].body

(* Where the body of a POST or PUT is, if nobody else used its path.  A pull *)
(* overwrites it only if it was committed below before.                      *)
BodyOf(r) ==
    LET k == CloneOf[r]
        has(tree) == tree[op[r].path] = op[r].body
    IN  /\ pc[r] = "add" => has(work[k]) \/ Held(r, local[k])
        /\ pc[r] = "commit" => (has(work[k]) /\ has(index[k])) \/ Held(r, local[k])
        /\ pc[r] = "push" => Held(r, local[k])
        /\ pc[r] = "sent" => Held(r, sent[r].new)
        /\ pc[r] = "done" /\ result[r].code = "ok" => Held(r, main)

BodyInv ==
    \A r \in Requests \ clashed : op[r].verb \in {"POST", "PUT"} => BodyOf(r)

IInv ==
    /\ TypeOK /\ LineInv /\ PushInv /\ VerbInv /\ SuccessIsPublished
    /\ LateInv /\ BeganInv
    /\ TurnsInv /\ CleanInv /\ CheckedInv /\ EffectInv
    /\ ClashInv /\ BodyInv
=============================================================================
