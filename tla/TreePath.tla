------------------------------ MODULE TreePath ------------------------------
(***************************************************************************)
(* How the gitprotocol backend edits git trees: a path is a sequence of    *)
(* names, setTreePath rebuilds the trees along it, walkTree chooses what   *)
(* goes into the pack, and the remote takes the new tree only if every     *)
(* object below it has arrived or was there.  One request runs at a time   *)
(* here, and the network does not fail.                                    *)
(*                                                                         *)
(* An object is its own hash, so equal contents are one object, as in git. *)
(***************************************************************************)
EXTENDS RestOperations, Naturals, Sequences

SE == INSTANCE SequencesExt

CONSTANTS Names,        \* what stands between two slashes of a path
          OutsideNames, \* where the repository may hold entries at first
          OutsideDirs,  \* contents of directories that git itself has made
          Depth,        \* how deep directories are nested at most
          Between       \* pairs of names: the first is a beginning of the
                        \* second, and comes after it with a "/" behind

(* The paths a client asks for are sequences of names.                      *)
ASSUME PathAssumption == Paths \subseteq Seq(Names) \ {<<>>} /\ OutsideNames \subseteq Names
ASSUME OrderAssumption == Between \subseteq Names \X Names

VARIABLES head,     \* the entries of the top tree at the head of main
          due,      \* the tree of README.md: path to body
          last      \* the last call, what it answered and what was due

vars == <<head, due, last>>

-----------------------------------------------------------------------------
(* Objects and trees.                                                       *)

Blob(b)          == [kind |-> "blob", of |-> b]
TreeOf(entries)  == [kind |-> "tree", of |-> entries]
Entry(n, mode, o) == [name |-> n, mode |-> mode, obj |-> o]

(* The hash updateFile passes on for a DELETE.                              *)
ZeroHash == [kind |-> "none", of |-> {}]

Named(entries, name) == {e \in entries : e.name = name}

(* What is in the directories among the entries: those whose mode says so.   *)
Inside(entries) == UNION {e.obj.of : e \in {x \in entries : x.mode = "dir"}}

(* The entries of a tree, and of the directories in it, level by level.      *)
Levels(tree) ==
    LET at[k \in 0..Depth] == IF k = 0 THEN tree ELSE Inside(at[k-1])
    IN  at

(* No directory is deeper than that.                                         *)
ASSUME DepthAssumption ==
    Depth \in Nat \ {0} /\ \A d \in OutsideDirs : Inside(Levels(d)[Depth-1]) = {}

EntriesOf(tree) == UNION {Levels(tree)[k] : k \in 0..Depth}

(* git's own view.                                                           *)
Reachable(tree) == {TreeOf(tree)} \cup {e.obj : e \in EntriesOf(tree)}

(* getObjectAtPath: a file entry of the top tree whose name is the whole     *)
(* path.                                                                    *)
ObjectAtPath(tree, path) ==
    {e.obj : e \in {x \in tree : x.mode = "file" /\ <<x.name>> = path}}

(* tree.Tree(dirName): the entry's object, if it is a tree in the store;     *)
(* an empty tree is made otherwise.  The mode of the entry is not looked at. *)
SubTree(tree, name) ==
    UNION {e.obj.of : e \in {x \in Named(tree, name) : x.obj.kind = "tree"}}

(* The trees that setTreePath comes by on its way down the path.             *)
Along(tree, path) ==
    LET at[i \in 1..Len(path)] == IF i = 1 THEN tree ELSE SubTree(at[i-1], path[i-1])
    IN  at

(* Mutant: the entries beside the new one are not copied.                    *)
SetTreePathAlone(tree, path, hash) ==
    LET new[i \in 1..Len(path)] ==
          LET newHash == IF i = Len(path) THEN hash ELSE TreeOf(new[i+1])
          IN  IF hash = ZeroHash THEN {} ELSE {Entry(path[i], "file", newHash)}
    IN  new[1]

(* Mutant: the entry that was at the path is copied too.                     *)
SetTreePathAppend(tree, path, hash) ==
    LET old == Along(tree, path)
        new[i \in 1..Len(path)] ==
          LET newHash == IF i = Len(path) THEN hash ELSE TreeOf(new[i+1])
          IN  IF hash = ZeroHash THEN old[i] \ Named(old[i], path[i])
              ELSE old[i] \cup {Entry(path[i], "file", newHash)}
    IN  new[1]

(* setTreePath: on every level the entry on the path is replaced, added, or  *)
(* dropped for a DELETE, whatever it was; a rebuilt directory gets the mode   *)
(* of a file.                                                                *)
SetTreePath(tree, path, hash) ==
    LET old == Along(tree, path)
        new[i \in 1..Len(path)] ==
          LET others  == old[i] \ Named(old[i], path[i])
              newHash == IF i = Len(path) THEN hash ELSE TreeOf(new[i+1])
          IN  IF hash = ZeroHash THEN others
              ELSE others \cup {Entry(path[i], "file", newHash)}
    IN  new[1]

(* git sorts a directory as if its name ended in a slash.  setTreePath keeps *)
(* the order it finds, or sorts by the bare names when it adds an entry; a   *)
(* tree that is out of git's order then is not encoded.                      *)
Unsorted(tree, path, hash) ==
    LET Moved(entries, name) ==
          {e \in IF Named(entries, name) = {} THEN entries ELSE Named(entries, name) :
             e.mode = "dir"}
    IN  /\ hash # ZeroHash
        /\ \E i \in DOMAIN path :
             LET old == Along(tree, path)[i]
             IN  \E e \in Moved(old, path[i]), n \in {path[i]} \cup {f.name : f \in old} :
                   <<e.name, n>> \in Between

(* Mutant: the changed blob is not looked for.                               *)
WalkTreesOnly(tree, changed) ==
    {TreeOf(tree)} \cup {e.obj : e \in {x \in EntriesOf(tree) : x.mode = "dir"}}

(* walkTree: the tree, what is in it of directories, and the changed blob    *)
(* where an entry names it.                                                  *)
WalkTree(tree, changed) ==
    {TreeOf(tree)} \cup {e.obj : e \in {x \in EntriesOf(tree) :
                                       x.mode = "dir" \/ x.obj = changed}}

-----------------------------------------------------------------------------
(* The requests.                                                            *)

(* The repository as somebody made it with git: files, and directories.     *)
Dir(n, d) == Entry(n, "dir", TreeOf(d))

Heads ==
    LET At(n) == {{}} \cup {{Entry(n, "file", Blob(b))} : b \in Bodies}
                      \cup {{Dir(n, d)} : d \in OutsideDirs}
    IN  {UNION {h[n] : n \in OutsideNames} :
           h \in {g \in [OutsideNames -> UNION {At(n) : n \in OutsideNames}] :
                    \A n \in OutsideNames : g[n] \in At(n)}}

(* What a reader of the repository finds at a path, directories walked.      *)
FilesAt(tree, path) ==
    LET at[i \in 1..Len(path)] == Named(IF i = 1 THEN tree ELSE Inside(at[i-1]), path[i])
    IN  {e.obj.of : e \in {x \in at[Len(path)] : x.mode = "file"}}

(* What it holds at first are bodies too.                                    *)
ASSUME OutsideAssumption ==
    \A tree \in Heads, path \in Paths : FilesAt(tree, path) \subseteq Bodies

Documented(tree) ==
    [p \in Paths |-> IF FilesAt(tree, p) = {} THEN NoFile
                     ELSE CHOOSE b \in FilesAt(tree, p) : TRUE]

None == [o |-> [verb |-> "none"], answer |-> Error, right |-> Error]

Init ==
    /\ head \in Heads
    /\ due = Documented(head)
    /\ last = None

(* Every call is compared with what README.md says of the same tree.         *)
Answer(o, a) ==
    /\ last' = [o |-> o, answer |-> a, right |-> Outcome(o, due)]
    /\ due' = Effect(o, due)

(* simpleGET.                                                                *)
Get(o) ==
    LET found == ObjectAtPath(head, o.path)
    IN  /\ o.verb = "GET"
        /\ Answer(o, IF found = {} THEN NotFound
                     ELSE Ok((CHOOSE x \in found : TRUE).of))
        /\ UNCHANGED head

(* updateFile's checks.                                                      *)
Refused(o) ==
    LET objectExists == ObjectAtPath(head, o.path) # {}
    IN  IF o.verb = "POST" THEN objectExists ELSE ~objectExists

Refuse(o) ==
    /\ IsWrite(o)
    /\ Refused(o)
    /\ Answer(o, IF o.verb = "POST" THEN Conflict ELSE NotFound)
    /\ UNCHANGED head

(* addToTree, buildPackfile and the push.  The remote has what main reaches  *)
(* and the pack; what it kept of older commits is not counted on.  If it     *)
(* misses an object it refuses every retry as it refused the first push.     *)
(* A tree that cannot be encoded is not tried again.                         *)
Update(o) ==
    LET blobHash == IF o.verb = "DELETE" THEN ZeroHash ELSE Blob(o.body)
        newTree  == SetTreePath(head, o.path, blobHash)
        received == Reachable(head) \cup WalkTree(newTree, blobHash)
    IN  /\ IsWrite(o)
        /\ ~Refused(o)
        /\ IF Reachable(newTree) \subseteq received /\ ~Unsorted(head, o.path, blobHash)
             THEN head' = newTree /\ Answer(o, Ok(NoFile))
             ELSE UNCHANGED head /\ Answer(o, Error)

Next == \E o \in Operations : Get(o) \/ Refuse(o) \/ Update(o)

Spec == Init /\ [][Next]_vars

-----------------------------------------------------------------------------
(* Properties.                                                               *)

(* A tree holds one entry per name.                                          *)
TypeOK ==
    /\ \A e, f \in head : e.name = f.name => e = f
    /\ \A e \in head : e.name \in Names /\ e.mode \in {"file", "dir"}
    /\ due \in Trees

(* Every call answers what README.md's example and the map backend answer    *)
(* for the same sequence of calls: created, found, updated, deleted.         *)
AnswersAsDocumented == last.answer = last.right

(* A write changes what a reader of the repository finds at its own path and *)
(* below it, and nowhere else, in directories made by others either.         *)
OnlyAtPath ==
    [][ \A q \in Paths \cup {<<n, m>> : n, m \in Names} :
          FilesAt(head', q) # FilesAt(head, q) => SE!IsPrefix(last'.o.path, q) ]_vars
=============================================================================
