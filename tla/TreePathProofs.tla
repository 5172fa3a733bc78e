---------------------------- MODULE TreePathProofs ----------------------------
(***************************************************************************)
(* Proofs about TreePath for all names and bodies, and directories of any  *)
(* depth.                                                                  *)
(***************************************************************************)
EXTENDS TreePathInv, TLAPS, WellFoundedInduction

-----------------------------------------------------------------------------
(* The recursive functions exist, so they are what their definitions say.     *)

LEMMA Induction ==
    ASSUME NEW G, 0 \in G, \A n \in Nat : n \in G => n + 1 \in G
    PROVE  \A n \in Nat : n \in G
<1> DEFINE B == Nat \ G
<1>1. SUFFICES ASSUME B # {} PROVE FALSE
  OBVIOUS
<1> DEFINE R == OpToRel(<, Nat)
<1>2. IsWellFoundedOn(R, Nat)
  BY NatLessThanWellFounded
<1>3. \A x, y \in Nat : x < y => <<x, y>> \in R
  BY DEF OpToRel
<1>4. B \subseteq Nat
  OBVIOUS
<1> HIDE DEF B, R
<1>5. PICK n \in B : \A m \in B : <<m, n>> \notin R
  BY <1>1, <1>2, <1>4, WFMin
<1>6. n \in Nat /\ n \notin G
  BY <1>5 DEF B
<1>7. n # 0 /\ n - 1 \in Nat /\ n - 1 < n
  BY <1>6
<1>8. n - 1 \notin G
  BY <1>6, <1>7
<1>9. n - 1 \in B
  BY <1>7, <1>8 DEF B
<1>10. QED
  BY <1>3, <1>4, <1>5, <1>7, <1>9

LEMMA LevelsAre ==
    ASSUME NEW tree
    PROVE  Levels(tree) = [k \in 0..Depth |-> IF k = 0 THEN tree ELSE Inside(Levels(tree)[k-1])]
<1> DEFINE Is(f, n) == f = [k \in 0..n |-> IF k = 0 THEN tree ELSE Inside(f[k-1])]
           G == {n \in Nat : \E f : Is(f, n)}
<1>1. 0 \in G
  <2>1. Is([k \in 0..0 |-> tree], 0)
    OBVIOUS
  <2>2. QED
    BY <2>1
<1>2. ASSUME NEW n \in Nat, n \in G PROVE n + 1 \in G
  <2>1. PICK f : Is(f, n)
    BY <1>2
  <2> DEFINE g == [k \in 0..n+1 |-> IF k = 0 THEN tree ELSE Inside(f[k-1])]
  <2>2. \A k \in 0..n : g[k] = f[k]
    BY <2>1
  <2>3. \A k \in 0..n+1 : g[k] = IF k = 0 THEN tree ELSE Inside(g[k-1])
    <3>1. \A k \in 0..n+1 : k # 0 => k - 1 \in 0..n
      OBVIOUS
    <3>2. QED
      BY <2>2, <3>1
  <2>4. g = [k \in 0..n+1 |-> g[k]]
    OBVIOUS
  <2> HIDE DEF g
  <2>5. Is(g, n + 1)
    BY <2>3, <2>4
  <2>6. QED
    BY <2>5
<1> HIDE DEF G
<1>3. Depth \in G
  BY <1>1, <1>2, Induction, DepthAssumption
<1>4. \E f : Is(f, Depth)
  BY <1>3 DEF G
<1>5. QED
  BY <1>4 DEF Levels

LEMMA AlongIs ==
    ASSUME NEW tree, NEW path, Len(path) \in Nat
    PROVE  Along(tree, path) =
             [i \in 1..Len(path) |-> IF i = 1 THEN tree
                                     ELSE SubTree(Along(tree, path)[i-1], path[i-1])]
<1> DEFINE Is(f, n) == f = [i \in 1..n |-> IF i = 1 THEN tree ELSE SubTree(f[i-1], path[i-1])]
           G == {n \in Nat : \E f : Is(f, n)}
<1>1. 0 \in G
  <2>1. Is([i \in 1..0 |-> tree], 0)
    OBVIOUS
  <2>2. QED
    BY <2>1
<1>2. ASSUME NEW n \in Nat, n \in G PROVE n + 1 \in G
  <2>1. PICK f : Is(f, n)
    BY <1>2
  <2> DEFINE g == [i \in 1..n+1 |-> IF i = 1 THEN tree ELSE SubTree(f[i-1], path[i-1])]
  <2>2. \A i \in 1..n : g[i] = f[i]
    BY <2>1
  <2>3. \A i \in 1..n+1 : g[i] = IF i = 1 THEN tree ELSE SubTree(g[i-1], path[i-1])
    <3>1. \A i \in 1..n+1 : i # 1 => i - 1 \in 1..n
      OBVIOUS
    <3>2. QED
      BY <2>2, <3>1
  <2>4. g = [i \in 1..n+1 |-> g[i]]
    OBVIOUS
  <2> HIDE DEF g
  <2>5. Is(g, n + 1)
    BY <2>3, <2>4
  <2>6. QED
    BY <2>5
<1> HIDE DEF G
<1>3. Len(path) \in G
  BY <1>1, <1>2, Induction
<1>4. \E f : Is(f, Len(path))
  BY <1>3 DEF G
<1>5. QED
  BY <1>4 DEF Along

(* The entry of setTreePath on the level i of the path.                       *)
Others(old, path, i) == old[i] \ Named(old[i], path[i])
Rebuilt(old, path, hash, i, below) ==
    IF hash = ZeroHash THEN Others(old, path, i)
    ELSE Others(old, path, i) \cup
           {Entry(path[i], "file", IF i = Len(path) THEN hash ELSE TreeOf(below))}

(* What setTreePath makes of the top tree.                                    *)
LEMMA SetTreePathIs ==
    ASSUME NEW tree, NEW path, NEW hash, Len(path) \in Nat \ {0}
    PROVE  \E below : SetTreePath(tree, path, hash) =
                        Rebuilt(Along(tree, path), path, hash, 1, below)
<1> DEFINE old == Along(tree, path)
           len == Len(path)
           Is(f, n) == f = [i \in len-n..len |-> Rebuilt(old, path, hash, i, f[i+1])]
           G == {n \in Nat : \E f : Is(f, n)}
<1>1. 0 \in G
  <2> DEFINE f == [i \in len-0..len |-> Rebuilt(old, path, hash, i, {})]
  <2>1. \A i \in len-0..len : \A x, y : Rebuilt(old, path, hash, i, x) = Rebuilt(old, path, hash, i, y)
    BY DEF Rebuilt
  <2>2. Is(f, 0)
    BY <2>1
  <2>3. QED
    BY <2>2
<1>2. ASSUME NEW n \in Nat, n \in G PROVE n + 1 \in G
  <2>1. PICK f : Is(f, n)
    BY <1>2
  <2> DEFINE g == [i \in len-(n+1)..len |-> Rebuilt(old, path, hash, i, f[i+1])]
  <2>2. \A i \in len-n..len : g[i] = f[i]
    BY <2>1
  <2>3. \A i \in len-(n+1)..len : g[i] = Rebuilt(old, path, hash, i, g[i+1])
    <3>1. ASSUME NEW i \in len-(n+1)..len, i # len
          PROVE  g[i+1] = f[i+1]
      <4>1. i + 1 \in len-n..len
        BY <3>1
      <4>2. QED
        BY <2>2, <4>1
    <3>2. \A x, y : Rebuilt(old, path, hash, len, x) = Rebuilt(old, path, hash, len, y)
      BY DEF Rebuilt
    <3>3. QED
      BY <3>1, <3>2
  <2>4. g = [i \in len-(n+1)..len |-> g[i]]
    OBVIOUS
  <2> HIDE DEF g
  <2>5. Is(g, n + 1)
    BY <2>3, <2>4
  <2>6. QED
    BY <2>5
<1>3. len - 1 \in G
  <2> HIDE DEF G
  <2>1. QED
    BY <1>1, <1>2, Induction
<1>4. PICK f : f = [i \in 1..len |-> Rebuilt(old, path, hash, i, f[i+1])]
  <2>1. len - (len - 1) = 1
    OBVIOUS
  <2>2. QED
    BY <1>3, <2>1
<1> DEFINE new == CHOOSE g : g = [i \in 1..len |-> Rebuilt(old, path, hash, i, g[i+1])]
<1>5. new = [i \in 1..len |-> Rebuilt(old, path, hash, i, new[i+1])]
  BY <1>4
<1>6. SetTreePath(tree, path, hash) = new[1]
  BY DEF SetTreePath, Rebuilt, Others
<1> HIDE DEF new
<1>7. new[1] = Rebuilt(old, path, hash, 1, new[2])
  BY <1>5
<1>8. QED
  BY <1>6, <1>7

-----------------------------------------------------------------------------
(* Reading.                                                                  *)

LEMMA FilesAtTop ==
    ASSUME NEW tree, NEW path, Len(path) = 1
    PROVE  FilesAt(tree, path) =
             {e.obj.of : e \in {x \in Named(tree, path[1]) : x.mode = "file"}}
<1> DEFINE Is(f) == f = [i \in 1..Len(path) |-> Named(IF i = 1 THEN tree ELSE Inside(f[i-1]), path[i])]
           at == CHOOSE f : Is(f)
<1>1. Is([i \in 1..1 |-> Named(tree, path[i])])
  OBVIOUS
<1>2. Is(at)
  BY <1>1
<1>3. FilesAt(tree, path) = {e.obj.of : e \in {x \in at[Len(path)] : x.mode = "file"}}
  BY DEF FilesAt
<1> HIDE DEF at
<1>4. at[1] = Named(tree, path[1])
  BY <1>2
<1>5. QED
  BY <1>3, <1>4

LEMMA FilesAtNext ==
    ASSUME NEW tree, NEW n, NEW m
    PROVE  FilesAt(tree, <<n, m>>) =
             {e.obj.of : e \in {x \in Named(Inside(Named(tree, n)), m) : x.mode = "file"}}
<1> DEFINE path == <<n, m>>
           Is(f) == f = [i \in 1..Len(path) |-> Named(IF i = 1 THEN tree ELSE Inside(f[i-1]), path[i])]
           at == CHOOSE f : Is(f)
           g == [i \in 1..2 |-> IF i = 1 THEN Named(tree, n) ELSE Named(Inside(Named(tree, n)), m)]
<1>1. Len(path) = 2 /\ path[1] = n /\ path[2] = m
  OBVIOUS
<1>2. Is(g)
  <2>1. \A i \in 1..2 : g[i] = Named(IF i = 1 THEN tree ELSE Inside(g[i-1]), path[i])
    <3>1. g[1] = Named(tree, n) /\ g[2] = Named(Inside(g[1]), m)
      OBVIOUS
    <3>2. \A i \in 1..2 : i = 1 \/ (i = 2 /\ i - 1 = 1)
      OBVIOUS
    <3> HIDE DEF g
    <3>3. QED
      BY <1>1, <3>1, <3>2
  <2>2. g = [i \in 1..2 |-> g[i]]
    OBVIOUS
  <2> HIDE DEF g
  <2>3. QED
    BY <1>1, <2>1, <2>2
<1>3. Is(at)
  BY <1>2
<1>4. FilesAt(tree, path) = {e.obj.of : e \in {x \in at[Len(path)] : x.mode = "file"}}
  BY DEF FilesAt
<1> HIDE DEF at
<1>5. at[1] = Named(tree, n) /\ at[2] = Named(Inside(at[1]), m)
  <2>1. 1 \in 1..2 /\ 2 \in 1..2 /\ 2 - 1 = 1 /\ 2 # 1
    OBVIOUS
  <2> HIDE DEF path
  <2>2. QED
    BY <1>1, <1>3, <2>1
<1>6. QED
  BY <1>1, <1>4, <1>5

-----------------------------------------------------------------------------
(* Writing.                                                                  *)

LEMMA OperationTyped ==
    ASSUME NEW o \in Operations
    PROVE  /\ o.verb \in {"POST", "PUT", "GET", "DELETE"} /\ o.path \in Paths
           /\ o.verb \in {"POST", "PUT"} => o.body \in Bodies
           /\ o.verb = "DELETE" => o.body = NoFile
           /\ o.path \in Seq(Names) /\ Len(o.path) \in Nat \ {0} /\ o.path[1] \in Names
<1>1. /\ o.verb \in {"POST", "PUT", "GET", "DELETE"} /\ o.path \in Paths
      /\ o.verb \in {"POST", "PUT"} => o.body \in Bodies
      /\ o.verb = "DELETE" => o.body = NoFile
  BY DEF Operations
<1>2. o.path \in Seq(Names) /\ o.path # <<>>
  BY <1>1, PathAssumption
<1>3. Len(o.path) \in Nat \ {0} /\ o.path[1] \in Names
  BY <1>2
<1>4. QED
  BY <1>1, <1>2, <1>3

(* Whatever the path, the top tree keeps its other entries and has a file, or  *)
(* nothing, at the first name.                                               *)
LEMMA NewTree ==
    ASSUME NEW tree, NEW path, NEW hash, Len(path) \in Nat \ {0}
    PROVE  \E obj :
             /\ SetTreePath(tree, path, hash) =
                  {e \in tree : e.name # path[1]}
                    \cup (IF hash = ZeroHash THEN {} ELSE {Entry(path[1], "file", obj)})
             /\ Len(path) = 1 => obj = hash
<1>1. PICK below : SetTreePath(tree, path, hash) =
                     Rebuilt(Along(tree, path), path, hash, 1, below)
  BY SetTreePathIs
<1>2. Along(tree, path)[1] = tree
  <2>1. 1 \in 1..Len(path)
    OBVIOUS
  <2>2. QED
    BY <2>1, AlongIs
<1> DEFINE obj == IF 1 = Len(path) THEN hash ELSE TreeOf(below)
<1>3. Rebuilt(Along(tree, path), path, hash, 1, below) =
        {e \in tree : e.name # path[1]}
          \cup (IF hash = ZeroHash THEN {} ELSE {Entry(path[1], "file", obj)})
  BY <1>2 DEF Rebuilt, Others, Named
<1>4. Len(path) = 1 => obj = hash
  OBVIOUS
<1> HIDE DEF obj
<1>5. QED
  BY <1>1, <1>3, <1>4

(* A tree that differs from another in a file at the top has no new entries   *)
(* below.                                                                   *)
LEMMA LevelsBelow ==
    ASSUME NEW tree, NEW new, Inside(new) \subseteq Inside(tree)
    PROVE  \A k \in 1..Depth : Levels(new)[k] \subseteq Levels(tree)[k]
<1> DEFINE G == {n \in Nat : n + 1 \in 1..Depth => Levels(new)[n+1] \subseteq Levels(tree)[n+1]}
<1>1. Depth \in Nat
  BY DepthAssumption
<1>2. \A k \in 1..Depth : /\ Levels(new)[k] = Inside(Levels(new)[k-1])
                          /\ Levels(tree)[k] = Inside(Levels(tree)[k-1])
  <2>1. \A k \in 1..Depth : k \in 0..Depth /\ k # 0
    BY <1>1
  <2>2. QED
    BY <2>1, LevelsAre
<1>3. Levels(new)[0] = new /\ Levels(tree)[0] = tree
  <2>1. 0 \in 0..Depth
    BY <1>1
  <2>2. QED
    BY <2>1, LevelsAre
<1>4. 0 \in G
  BY <1>2, <1>3
<1>5. ASSUME NEW n \in Nat, n \in G PROVE n + 1 \in G
  <2>1. SUFFICES ASSUME (n + 1) + 1 \in 1..Depth
                 PROVE  Levels(new)[(n+1)+1] \subseteq Levels(tree)[(n+1)+1]
    OBVIOUS
  <2>2. n + 1 \in 1..Depth /\ ((n + 1) + 1) - 1 = n + 1
    BY <1>1, <2>1
  <2>3. Levels(new)[n+1] \subseteq Levels(tree)[n+1]
    BY <1>5, <2>2
  <2>4. Inside(Levels(new)[n+1]) \subseteq Inside(Levels(tree)[n+1])
    BY <2>3 DEF Inside
  <2>5. QED
    BY <1>2, <2>1, <2>2, <2>4
<1> HIDE DEF G
<1>6. \A n \in Nat : n \in G
  BY <1>4, <1>5, Induction
<1>7. SUFFICES ASSUME NEW k \in 1..Depth PROVE Levels(new)[k] \subseteq Levels(tree)[k]
  OBVIOUS
<1>8. k - 1 \in Nat /\ (k - 1) + 1 = k
  BY <1>1
<1>9. QED
  BY <1>6, <1>8 DEF G

(* The remote has every object of a tree with a new file at the top: the pack *)
(* of walkTree is complete.                                                  *)
LEMMA PackComplete ==
    ASSUME NEW tree, NEW new, NEW hash,
           \A e \in new \ tree : e.mode = "file" /\ e.obj = hash
    PROVE  Reachable(new) \subseteq Reachable(tree) \cup WalkTree(new, hash)
<1>1. Inside(new) \subseteq Inside(tree)
  <2>1. \A e \in new : e.mode = "dir" => e \in tree
    OBVIOUS
  <2>2. QED
    BY <2>1 DEF Inside
<1>2. Depth \in Nat /\ \A k \in 0..Depth : k = 0 \/ k \in 1..Depth
  BY DepthAssumption
<1>3. Levels(new)[0] = new /\ Levels(tree)[0] = tree
  <2>1. 0 \in 0..Depth
    BY <1>2
  <2>2. QED
    BY <2>1, LevelsAre
<1>4. ASSUME NEW e \in EntriesOf(new)
      PROVE  e \in EntriesOf(tree) \/ e.obj = hash
  <2>1. PICK k \in 0..Depth : e \in Levels(new)[k]
    BY DEF EntriesOf
  <2>2. CASE k = 0
    <3>1. e \in new
      BY <1>3, <2>1, <2>2
    <3>2. e \in tree => e \in EntriesOf(tree)
      BY <1>3, <2>2 DEF EntriesOf
    <3>3. QED
      BY <3>1, <3>2
  <2>3. CASE k \in 1..Depth
    <3>1. e \in Levels(tree)[k]
      BY <1>1, <2>1, <2>3, LevelsBelow
    <3>2. QED
      BY <3>1 DEF EntriesOf
  <2>4. QED
    BY <1>2, <2>2, <2>3
<1>5. QED
  BY <1>4 DEF Reachable, WalkTree

-----------------------------------------------------------------------------
(* Types.                                                                    *)

LEMMA HeadsAre ==
    ASSUME NEW tree \in Heads
    PROVE  /\ \A e, f \in tree : e.name = f.name => e = f
           /\ \A e \in tree : e.name \in Names /\ e.mode \in {"file", "dir"}
           /\ \A e \in tree : e.mode = "file" => \E b \in Bodies : e.obj = Blob(b)
<1> DEFINE At(n) == {{}} \cup {{Entry(n, "file", Blob(b))} : b \in Bodies}
                         \cup {{Dir(n, d)} : d \in OutsideDirs}
<1>1. PICK h : tree = UNION {h[n] : n \in OutsideNames} /\ \A n \in OutsideNames : h[n] \in At(n)
  BY DEF Heads
<1>2. ASSUME NEW n \in OutsideNames, NEW e \in h[n]
      PROVE  /\ h[n] = {e} /\ e.name = n /\ e.mode \in {"file", "dir"}
             /\ e.mode = "file" => \E b \in Bodies : e.obj = Blob(b)
  <2>1. h[n] \in At(n)
    BY <1>1
  <2>2. CASE \E b \in Bodies : h[n] = {Entry(n, "file", Blob(b))}
    BY <1>2, <2>2 DEF Entry
  <2>3. CASE \E d \in OutsideDirs : h[n] = {Dir(n, d)}
    BY <1>2, <2>3 DEF Dir, Entry
  <2>4. QED
    BY <1>2, <2>1, <2>2, <2>3
<1> HIDE DEF At
<1>3. \A e \in tree : \E n \in OutsideNames : e \in h[n]
  BY <1>1
<1>4. \A e, f \in tree : e.name = f.name => e = f
  <2>1. SUFFICES ASSUME NEW e \in tree, NEW f \in tree, e.name = f.name PROVE e = f
    OBVIOUS
  <2>2. PICK n \in OutsideNames : e \in h[n]
    BY <1>3
  <2>3. PICK m \in OutsideNames : f \in h[m]
    BY <1>3
  <2>4. n = m
    BY <1>2, <2>1, <2>2, <2>3
  <2>5. QED
    BY <1>2, <2>2, <2>3, <2>4
<1>5. \A e \in tree : e.name \in Names /\ e.mode \in {"file", "dir"}
  BY <1>2, <1>3, PathAssumption
<1>6. \A e \in tree : e.mode = "file" => \E b \in Bodies : e.obj = Blob(b)
  BY <1>2, <1>3
<1>7. QED
  BY <1>4, <1>5, <1>6

LEMMA DocumentedTyped ==
    ASSUME NEW tree \in Heads
    PROVE  Documented(tree) \in Trees
<1>1. \A p \in Paths : FilesAt(tree, p) \subseteq Bodies
  BY OutsideAssumption
<1>2. \A p \in Paths : Documented(tree)[p] \in Bodies \cup {NoFile}
  BY <1>1 DEF Documented
<1>3. Documented(tree) = [p \in Paths |-> Documented(tree)[p]]
  BY DEF Documented
<1>4. QED
  BY <1>2, <1>3 DEF Trees

LEMMA EffectTyped ==
    ASSUME NEW o \in Operations, due \in Trees
    PROVE  Effect(o, due) \in Trees
<1>1. o.path \in Paths /\ (IsWrite(o) => o.body \in Bodies \cup {NoFile})
  BY OperationTyped DEF IsWrite
<1>2. QED
  BY <1>1 DEF Effect, Writes, Trees

LEMMA NewTreeTyped ==
    ASSUME TypeOK, NEW o \in Operations, NEW hash
    PROVE  LET new == SetTreePath(head, o.path, hash)
           IN  /\ \A e, f \in new : e.name = f.name => e = f
               /\ \A e \in new : e.name \in Names /\ e.mode \in {"file", "dir"}
<1> DEFINE new == SetTreePath(head, o.path, hash)
           n == o.path[1]
<1>1. n \in Names /\ Len(o.path) \in Nat \ {0}
  BY OperationTyped
<1>2. PICK obj : new = {e \in head : e.name # n}
                         \cup (IF hash = ZeroHash THEN {} ELSE {Entry(n, "file", obj)})
  BY <1>1, NewTree
<1>3. Entry(n, "file", obj).name = n /\ Entry(n, "file", obj).mode = "file"
  BY DEF Entry
<1> DEFINE entry == Entry(n, "file", obj)
<1> HIDE DEF new, n, entry
<1>4. \A e \in new : (e \in head /\ e.name # n) \/ e = entry
  BY <1>2 DEF entry
<1>5. \A e, f \in new : e.name = f.name => e = f
  BY <1>3, <1>4 DEF TypeOK, entry
<1>6. \A e \in new : e.name \in Names /\ e.mode \in {"file", "dir"}
  BY <1>1, <1>3, <1>4 DEF TypeOK, entry
<1>7. QED
  BY <1>5, <1>6 DEF new

LEMMA TypeStep ==
    ASSUME TypeOK, [Next]_vars
    PROVE  TypeOK'
<1>1. CASE UNCHANGED vars
  BY <1>1 DEF TypeOK, vars
<1>2. ASSUME NEW o \in Operations, Get(o) \/ Refuse(o) \/ Update(o)
      PROVE  TypeOK'
  <2>1. due' = Effect(o, due)
    BY <1>2 DEF Get, Refuse, Update, Answer
  <2>2. due' \in Trees
    BY <2>1, EffectTyped DEF TypeOK
  <2>3. head' = head \/ \E hash : head' = SetTreePath(head, o.path, hash)
    BY <1>2 DEF Get, Refuse, Update
  <2>4. /\ \A e, f \in head' : e.name = f.name => e = f
        /\ \A e \in head' : e.name \in Names /\ e.mode \in {"file", "dir"}
    BY <2>3, NewTreeTyped DEF TypeOK
  <2>5. QED
    BY <2>2, <2>4 DEF TypeOK
<1>3. QED
  BY <1>1, <1>2 DEF Next

-----------------------------------------------------------------------------
(* Top-level names.                                                          *)

LEMMA FlatPath ==
    ASSUME Flat, NEW p \in Paths
    PROVE  Len(p) = 1 /\ p[1] \in Names /\ p = <<p[1]>>
<1>1. Len(p) = 1 /\ p \in Seq(Names)
  BY PathAssumption DEF Flat
<1>2. QED
  BY <1>1

LEMMA AtTop ==
    ASSUME Flat, NEW p \in Paths, NEW tree
    PROVE  ObjectAtPath(tree, p) = {e.obj : e \in {x \in tree : x.mode = "file" /\ x.name = p[1]}}
<1>1. \A x : <<x>> = p <=> x = p[1]
  BY FlatPath
<1>2. QED
  BY <1>1 DEF ObjectAtPath

LEMMA FilesAtInit ==
    ASSUME Flat, Init
    PROVE  FilesInv
<1>1. head \in Heads /\ due = Documented(head)
  BY DEF Init
<1>2. \A e \in head : e.mode = "file" => \E b \in Bodies : e.obj = Blob(b)
  BY <1>1, HeadsAre
<1>3. ASSUME NEW p \in Paths
      PROVE  ObjectAtPath(head, p) = IF due[p] = NoFile THEN {} ELSE {Blob(due[p])}
  <2> DEFINE at == {x \in head : x.mode = "file" /\ x.name = p[1]}
  <2>1. ObjectAtPath(head, p) = {e.obj : e \in at}
    BY AtTop
  <2>2. FilesAt(head, p) = {e.obj.of : e \in at}
    <3>1. FilesAt(head, p) = {e.obj.of : e \in {x \in Named(head, p[1]) : x.mode = "file"}}
      BY FlatPath, FilesAtTop
    <3>2. {x \in Named(head, p[1]) : x.mode = "file"} = at
      BY DEF Named
    <3>3. QED
      BY <3>1, <3>2
  <2>3. due[p] = IF FilesAt(head, p) = {} THEN NoFile ELSE CHOOSE b \in FilesAt(head, p) : TRUE
    BY <1>1 DEF Documented
  <2>4. CASE at = {}
    BY <2>1, <2>2, <2>3, <2>4
  <2>5. CASE at # {}
    <3>1. PICK e \in at : TRUE
      BY <2>5
    <3>2. at = {e}
      BY <1>1, <3>1, HeadsAre
    <3>3. PICK b \in Bodies : e.obj = Blob(b)
      BY <1>2, <3>1
    <3>4. FilesAt(head, p) = {b} /\ ObjectAtPath(head, p) = {Blob(b)}
      <4> HIDE DEF at
      <4>1. QED
        BY <2>1, <2>2, <3>2, <3>3 DEF Blob
    <3>5. due[p] = b /\ b # NoFile
      BY <2>3, <3>4, NoFileAssumption
    <3>6. QED
      BY <3>4, <3>5
  <2>6. QED
    BY <2>4, <2>5
<1>4. QED
  BY <1>2, <1>3 DEF FilesInv

(* With the top tree as it is due, the backend's two lookups agree with       *)
(* README.md's.                                                              *)
LEMMA LookupRight ==
    ASSUME FilesInv, TypeOK, NEW o \in Operations
    PROVE  /\ (ObjectAtPath(head, o.path) = {}) <=> (due[o.path] = NoFile)
           /\ due[o.path] # NoFile => ObjectAtPath(head, o.path) = {Blob(due[o.path])}
           /\ due \in Trees /\ o.path \in Paths
BY OperationTyped DEF FilesInv, TypeOK

LEMMA GetRight ==
    ASSUME FilesInv, TypeOK, NEW o \in Operations, Get(o)
    PROVE  FilesInv' /\ AnswersAsDocumented'
<1> DEFINE found == ObjectAtPath(head, o.path)
<1>1. o.verb = "GET" /\ head' = head /\ due' = due
  BY DEF Get, Answer, Effect, Writes, IsWrite
<1>2. last'.answer = (IF found = {} THEN NotFound ELSE Ok((CHOOSE x \in found : TRUE).of))
      /\ last'.right = Outcome(o, due)
  BY DEF Get, Answer
<1>3. Outcome(o, due) = IF due[o.path] # NoFile THEN Ok(due[o.path]) ELSE NotFound
  BY <1>1 DEF Outcome
<1>4. due[o.path] # NoFile => found = {Blob(due[o.path])}
  BY LookupRight
<1>5. found = {} <=> due[o.path] = NoFile
  BY LookupRight
<1> HIDE DEF found
<1>6. \A x : (CHOOSE y \in {x} : TRUE) = x
  OBVIOUS
<1>7. Blob(due[o.path]).of = due[o.path]
  BY DEF Blob
<1>8. last'.answer = last'.right
  BY <1>2, <1>3, <1>4, <1>5, <1>6, <1>7
<1>9. QED
  BY <1>1, <1>8 DEF FilesInv, AnswersAsDocumented

LEMMA RefuseRight ==
    ASSUME FilesInv, TypeOK, NEW o \in Operations, Refuse(o)
    PROVE  FilesInv' /\ AnswersAsDocumented'
<1>1. o.verb \in {"POST", "PUT", "DELETE"} /\ head' = head
  BY OperationTyped DEF Refuse, IsWrite
<1>2. /\ last'.answer = IF o.verb = "POST" THEN Conflict ELSE NotFound
      /\ last'.right = Outcome(o, due)
      /\ due' = Effect(o, due)
  BY DEF Refuse, Answer
<1>3. IF o.verb = "POST" THEN due[o.path] # NoFile ELSE due[o.path] = NoFile
  BY LookupRight DEF Refuse, Refused
<1>4. Outcome(o, due) = IF o.verb = "POST" THEN Conflict ELSE NotFound
  BY <1>1, <1>3 DEF Outcome
<1>5. due' = due
  BY <1>2, <1>4 DEF Effect, Writes, Conflict, NotFound
<1>6. QED
  BY <1>1, <1>2, <1>4, <1>5 DEF FilesInv, AnswersAsDocumented

(* A write to a top-level name is accepted by the remote.                     *)
LEMMA Accepted ==
    ASSUME Plain, NEW o \in Operations, Update(o)
    PROVE  LET hash == IF o.verb = "DELETE" THEN ZeroHash ELSE Blob(o.body)
           IN  /\ head' = {e \in head : e.name # o.path[1]}
                            \cup (IF hash = ZeroHash THEN {} ELSE {Entry(o.path[1], "file", hash)})
               /\ Answer(o, Ok(NoFile))
<1> DEFINE hash == IF o.verb = "DELETE" THEN ZeroHash ELSE Blob(o.body)
           new  == SetTreePath(head, o.path, hash)
           n    == o.path[1]
<1>1. Len(o.path) = 1
  BY OperationTyped DEF Plain, Flat
<1>2. new = {e \in head : e.name # n}
              \cup (IF hash = ZeroHash THEN {} ELSE {Entry(n, "file", hash)})
  <2> HIDE DEF hash
  <2>1. QED
    BY <1>1, NewTree
<1>3. \A e \in new \ head : e.mode = "file" /\ e.obj = hash
  BY <1>2 DEF Entry
<1>4. Reachable(new) \subseteq Reachable(head) \cup WalkTree(new, hash)
  <2> HIDE DEF hash, new
  <2>1. QED
    BY <1>3, PackComplete
<1>5. ~Unsorted(head, o.path, hash)
  BY DEF Unsorted, Plain
<1>6. head' = new /\ Answer(o, Ok(NoFile))
  <2>1. /\ Reachable(new) \subseteq Reachable(head) \cup WalkTree(new, hash)
           /\ ~Unsorted(head, o.path, hash)
        => head' = new /\ Answer(o, Ok(NoFile))
    BY DEF Update
  <2>2. QED
    BY <1>4, <1>5, <2>1
<1>7. QED
  BY <1>2, <1>6

LEMMA UpdateRight ==
    ASSUME Plain, FilesInv, TypeOK, NEW o \in Operations, Update(o)
    PROVE  FilesInv' /\ AnswersAsDocumented'
<1> DEFINE hash == IF o.verb = "DELETE" THEN ZeroHash ELSE Blob(o.body)
           n    == o.path[1]
           new  == Entry(n, "file", hash)
<1>1. o.verb \in {"POST", "PUT", "DELETE"} /\ o.path \in Paths
  BY OperationTyped DEF Update, IsWrite
<1>2. /\ head' = {e \in head : e.name # n} \cup (IF hash = ZeroHash THEN {} ELSE {new})
      /\ Answer(o, Ok(NoFile))
  BY Accepted
<1>3. IF o.verb = "POST" THEN due[o.path] = NoFile ELSE due[o.path] # NoFile
  BY LookupRight DEF Update, Refused
<1>4. Outcome(o, due) = Ok(NoFile)
  BY <1>1, <1>3 DEF Outcome
<1>5. due' = [due EXCEPT ![o.path] = o.body]
  BY <1>1, <1>2, <1>4 DEF Answer, Effect, Writes, IsWrite, Ok
<1>6. AnswersAsDocumented'
  BY <1>2, <1>4 DEF Answer, AnswersAsDocumented
<1>7. /\ o.verb = "DELETE" => hash = ZeroHash /\ o.body = NoFile
      /\ o.verb # "DELETE" => hash # ZeroHash /\ hash = Blob(o.body)
                              /\ o.body \in Bodies /\ o.body # NoFile
  BY <1>1, OperationTyped, NoFileAssumption DEF Blob, ZeroHash
<1>8. new.mode = "file" /\ new.name = n /\ new.obj = hash
  BY DEF Entry
<1> HIDE DEF hash, new
<1>9. \A e \in head' : e.mode = "file" => \E b \in Bodies : e.obj = Blob(b)
  BY <1>2, <1>7, <1>8 DEF FilesInv
<1>10. ASSUME NEW p \in Paths
       PROVE  ObjectAtPath(head', p) = IF due'[p] = NoFile THEN {} ELSE {Blob(due'[p])}
  <2>1. \A tree : ObjectAtPath(tree, p) =
                    {e.obj : e \in {x \in tree : x.mode = "file" /\ x.name = p[1]}}
    BY AtTop DEF Plain
  <2>2. p[1] = n <=> p = o.path
    BY <1>1, FlatPath DEF Plain
  <2>3. CASE p = o.path
    <3>1. {x \in head' : x.mode = "file" /\ x.name = p[1]} = IF hash = ZeroHash THEN {} ELSE {new}
      BY <1>2, <1>8, <2>2, <2>3
    <3>2. ObjectAtPath(head', p) = IF hash = ZeroHash THEN {} ELSE {hash}
      BY <1>8, <2>1, <3>1
    <3>3. due'[p] = o.body
      BY <1>5, <2>3, LookupRight DEF Trees
    <3>4. QED
      BY <1>7, <3>2, <3>3
  <2>4. CASE p # o.path
    <3>1. {x \in head' : x.mode = "file" /\ x.name = p[1]}
             = {x \in head : x.mode = "file" /\ x.name = p[1]}
      BY <1>2, <1>8, <2>2, <2>4
    <3>2. due'[p] = due[p]
      BY <1>5, <2>4, LookupRight DEF Trees
    <3>3. ObjectAtPath(head', p) = ObjectAtPath(head, p)
      BY <2>1, <3>1
    <3>4. QED
      BY <3>2, <3>3 DEF FilesInv
  <2>5. QED
    BY <2>3, <2>4
<1>11. QED
  BY <1>6, <1>9, <1>10 DEF FilesInv

-----------------------------------------------------------------------------
(* The theorems.                                                             *)

LEMMA InitInv == Init => IInv
<1> SUFFICES ASSUME Init PROVE IInv
  OBVIOUS
<1>1. head \in Heads /\ due = Documented(head) /\ last = None
  BY DEF Init
<1>2. TypeOK
  BY <1>1, HeadsAre, DocumentedTyped DEF TypeOK
<1>3. AnswersAsDocumented
  BY <1>1 DEF AnswersAsDocumented, None
<1>4. QED
  BY <1>2, <1>3, FilesAtInit DEF IInv, Plain

LEMMA NextInv == IInv /\ [Next]_vars => IInv'
<1> SUFFICES ASSUME IInv, [Next]_vars PROVE IInv'
  OBVIOUS
<1>1. TypeOK'
  BY TypeStep DEF IInv
<1>2. ASSUME Plain PROVE FilesInv' /\ AnswersAsDocumented'
  <2>1. TypeOK /\ FilesInv /\ AnswersAsDocumented
    BY <1>2 DEF IInv
  <2>2. CASE UNCHANGED vars
    BY <2>1, <2>2 DEF vars, FilesInv, AnswersAsDocumented
  <2>3. ASSUME NEW o \in Operations, Get(o) \/ Refuse(o) \/ Update(o)
        PROVE  FilesInv' /\ AnswersAsDocumented'
    BY <1>2, <2>1, <2>3, GetRight, RefuseRight, UpdateRight
  <2>4. QED
    BY <2>2, <2>3 DEF Next
<1>3. QED
  BY <1>1, <1>2 DEF IInv

(* Whatever is asked, and whatever directories others made, IInv holds: with  *)
(* plain names the files at the top are those that are due.                  *)
THEOREM Invariance == Spec => []IInv
<1>1. QED
  BY InitInv, NextInv, PTL DEF Spec

(* setTreePath leaves one entry per name in the top tree, for any path.       *)
THEOREM TypeCorrect == Spec => []TypeOK
<1>1. IInv => TypeOK
  BY DEF IInv
<1>2. QED
  BY <1>1, Invariance, PTL

(* As long as clients use top-level names only, and no name begins another,   *)
(* every call answers what README.md says: the pack that walkTree chose is   *)
(* complete, whatever directories the repository holds.                      *)
THEOREM AnswersAsDocumentedHolds == Plain => (Spec => []AnswersAsDocumented)
<1> SUFFICES ASSUME Plain PROVE Spec => []AnswersAsDocumented
  OBVIOUS
<1>1. IInv => AnswersAsDocumented
  BY DEF IInv
<1>2. QED
  BY <1>1, Invariance, PTL

LEMMA FilesElsewhere ==
    ASSUME Flat, NEW o \in Operations, NEW hash,
           NEW q \in Paths \cup {<<n, m>> : n, m \in Names},
           FilesAt(SetTreePath(head, o.path, hash), q) # FilesAt(head, q)
    PROVE  SE!IsPrefix(o.path, q)
<1> DEFINE new == SetTreePath(head, o.path, hash)
           n   == o.path[1]
<1>1. o.path \in Paths /\ Len(o.path) = 1 /\ n \in Names /\ o.path = <<n>>
  BY OperationTyped, FlatPath
<1>2. PICK obj : new = {e \in head : e.name # n}
                         \cup (IF hash = ZeroHash THEN {} ELSE {Entry(n, "file", obj)})
  BY <1>1, NewTree
<1>3. \A name : name # n => Named(new, name) = Named(head, name)
  <2>1. Entry(n, "file", obj).name = n
    BY DEF Entry
  <2> HIDE DEF new, n
  <2>2. QED
    BY <1>2, <2>1 DEF Named
<1> HIDE DEF new
<1>4. FilesAt(new, q) # FilesAt(head, q)
  BY DEF new
<1>5. CASE q \in Paths
  <2>1. Len(q) = 1 /\ q = <<q[1]>>
    BY <1>5, FlatPath
  <2> DEFINE F(S) == {e.obj.of : e \in {x \in S : x.mode = "file"}}
  <2>2. q[1] = n
    <3>1. \A tree : FilesAt(tree, q) = F(Named(tree, q[1]))
      BY <2>1, FilesAtTop
    <3> HIDE DEF F
    <3>2. QED
      BY <1>3, <1>4, <3>1
  <2>3. q = o.path
    BY <1>1, <2>1, <2>2
  <2>4. QED
    BY <1>1, <2>3 DEF SE!IsPrefix
<1>6. ASSUME NEW k \in Names, NEW m \in Names, q = <<k, m>>
      PROVE  SE!IsPrefix(o.path, q)
  <2>1. k = n
    <3> DEFINE F(S) == {e.obj.of : e \in {x \in Named(Inside(S), m) : x.mode = "file"}}
    <3>1. \A tree : FilesAt(tree, <<k, m>>) = F(Named(tree, k))
      BY FilesAtNext
    <3> HIDE DEF F
    <3>2. QED
      BY <1>3, <1>4, <1>6, <3>1
  <2>2. Len(q) = 2 /\ q[1] = n
    BY <1>6, <2>1
  <2>3. q \in Seq(Names)
    BY <1>6
  <2>4. SubSeq(q, 1, 1) = SubSeq(o.path, 1, 1)
    <3>1. o.path \in Seq(Names)
      BY OperationTyped
    <3>2. SubSeq(q, 1, 1) \in Seq(Names) /\ SubSeq(o.path, 1, 1) \in Seq(Names)
      BY <1>1, <2>2, <2>3, <3>1
    <3>3. Len(SubSeq(q, 1, 1)) = 1 /\ Len(SubSeq(o.path, 1, 1)) = 1
      BY <1>1, <2>2, <2>3, <3>1
    <3>4. SubSeq(q, 1, 1)[1] = q[1] /\ SubSeq(o.path, 1, 1)[1] = o.path[1]
      BY <1>1, <2>2, <2>3, <3>1
    <3>5. \A s, t \in Seq(Names) : Len(s) = 1 /\ Len(t) = 1 /\ s[1] = t[1] => s = t
      OBVIOUS
    <3>6. QED
      BY <2>2, <3>2, <3>3, <3>4, <3>5
  <2>5. QED
    BY <1>1, <2>2, <2>4 DEF SE!IsPrefix
<1>7. QED
  BY <1>5, <1>6

(* With top-level names only, a write changes what a reader finds at its own  *)
(* name and below it, and nowhere else: the directories that others made     *)
(* keep their files.                                                         *)
THEOREM OnlyAtPathHolds == Flat => (Spec => OnlyAtPath)
<1> SUFFICES ASSUME Flat PROVE Spec => OnlyAtPath
  OBVIOUS
<1> DEFINE Only == \A q \in Paths \cup {<<n, m>> : n, m \in Names} :
                     FilesAt(head', q) # FilesAt(head, q) => SE!IsPrefix(last'.o.path, q)
<1>1. ASSUME NEW o \in Operations, Get(o) \/ Refuse(o) \/ Update(o)
      PROVE  Only
  <2>1. last'.o = o
    BY <1>1 DEF Get, Refuse, Update, Answer
  <2>2. head' = head \/ \E hash : head' = SetTreePath(head, o.path, hash)
    BY <1>1 DEF Get, Refuse, Update
  <2>3. QED
    BY <2>1, <2>2, FilesElsewhere
<1>2. Next => Only
  BY <1>1 DEF Next
<1>3. [Next]_vars => [ \A q \in Paths \cup {<<n, m>> : n, m \in Names} :
                         FilesAt(head', q) # FilesAt(head, q) => SE!IsPrefix(last'.o.path, q) ]_vars
  BY <1>2
<1>4. QED
  BY <1>3, PTL DEF Spec, OnlyAtPath
=============================================================================
