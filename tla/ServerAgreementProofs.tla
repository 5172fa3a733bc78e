------------------------- MODULE ServerAgreementProofs -------------------------
(***************************************************************************)
(* Proofs about Server: the counters of the server and the statistics of   *)
(* its clients agree, for all clients, backends and bounds.                *)
(***************************************************************************)
EXTENDS ServerProofs, WellFoundedInduction

-----------------------------------------------------------------------------
(* Sums over finite sets.                                                    *)

(* Induction over the subsets of a finite set. *)
LEMMA SubsetInduction ==
    ASSUME NEW S, IsFiniteSet(S), NEW G,
           \A T \in SUBSET S : (\A U \in (SUBSET T) \ {T} : U \in G) => T \in G
    PROVE  \A T \in SUBSET S : T \in G
<1> DEFINE B == (SUBSET S) \ G
<1>1. SUFFICES ASSUME B # {} PROVE FALSE
  OBVIOUS
<1>2. B \subseteq FiniteSubsetsOf(S)
  BY FS_FiniteSubsetsOfFinite
<1>3. IsWellFoundedOn(StrictSubsetOrdering(S), FiniteSubsetsOf(S))
  BY FS_StrictSubsetOrderingWellFounded
<1> HIDE DEF B
<1>4. PICK T \in B : \A U \in B : ~(<<U, T>> \in StrictSubsetOrdering(S))
  BY <1>1, <1>2, <1>3, WFMin
<1>5. T \in SUBSET S /\ T \notin G
  BY DEF B
<1>6. ASSUME NEW U \in (SUBSET T) \ {T}, U \notin G PROVE FALSE
  <2>1. U \in B
    BY <1>5, <1>6 DEF B
  <2>2. <<U, T>> \in StrictSubsetOrdering(S)
    BY <1>5, <1>6 DEF StrictSubsetOrdering
  <2>3. QED
    BY <1>4, <2>1, <2>2
<1>7. QED
  BY <1>5, <1>6

Pick(s) == CHOOSE x \in s : TRUE

Solves(it, f, S) ==
    it = [s \in SUBSET S |-> IF s = {} THEN 0 ELSE f[Pick(s)] + it[s \ {Pick(s)}]]

Iter(f, S) == CHOOSE it : Solves(it, f, S)

Total(f, S) == LET term(x) == f[x] IN MapThenSumSet(term, S)

LEMMA Unfold == ASSUME NEW f, NEW S PROVE Total(f, S) = Iter(f, S)[S]
BY DEF Total, MapThenSumSet, MapThenFoldSet, Iter, Solves, Pick

LEMMA PickIn == ASSUME NEW s, s # {} PROVE Pick(s) \in s
BY DEF Pick

LEMMA Unique ==
    ASSUME NEW S, IsFiniteSet(S), NEW f, NEW g, NEW h, Solves(g, f, S), Solves(h, f, S)
    PROVE  g = h
<1> DEFINE G == {s \in SUBSET S : g[s] = h[s]}
<1>1. ASSUME NEW T \in SUBSET S, \A U \in (SUBSET T) \ {T} : U \in G
      PROVE  T \in G
  <2>1. CASE T = {}
    BY <2>1 DEF Solves
  <2>2. CASE T # {}
    <3>1. Pick(T) \in T
      BY <2>2, PickIn
    <3>2. T \ {Pick(T)} \in G
      BY <1>1, <3>1
    <3>3. g[T] = f[Pick(T)] + g[T \ {Pick(T)}] /\ h[T] = f[Pick(T)] + h[T \ {Pick(T)}]
      BY <2>2 DEF Solves
    <3>4. QED
      BY <3>2, <3>3
  <2>3. QED
    BY <2>1, <2>2
<1> HIDE DEF G
<1>2. \A T \in SUBSET S : T \in G
  BY <1>1, SubsetInduction
<1>3. \A T \in SUBSET S : g[T] = h[T]
  BY <1>2 DEF G
<1>4. QED
  BY <1>3 DEF Solves

(* A solution solves the sums of every subset. *)
LEMMA Restricted ==
    ASSUME NEW S, NEW f, NEW g, Solves(g, f, S), NEW T \in SUBSET S
    PROVE  Solves([s \in SUBSET T |-> g[s]], f, T)
<1> DEFINE h == [s \in SUBSET T |-> g[s]]
<1>1. ASSUME NEW s \in SUBSET T
      PROVE  h[s] = IF s = {} THEN 0 ELSE f[Pick(s)] + h[s \ {Pick(s)}]
  <2>1. s \in SUBSET S /\ s \ {Pick(s)} \in SUBSET T
    OBVIOUS
  <2>2. QED
    BY <2>1 DEF Solves
<1>2. QED
  BY <1>1 DEF Solves

(* Two solutions agree where both speak. *)
LEMMA Agree ==
    ASSUME NEW S, IsFiniteSet(S), NEW f, NEW g, Solves(g, f, S),
           NEW T \in SUBSET S, NEW h, Solves(h, f, T)
    PROVE  g[T] = h[T]
<1>1. Solves([s \in SUBSET T |-> g[s]], f, T)
  BY Restricted
<1>2. IsFiniteSet(T)
  BY FS_Subset
<1> DEFINE k == [s \in SUBSET T |-> g[s]]
<1>3. k[T] = g[T]
  OBVIOUS
<1>4. Solves(k, f, T)
  BY <1>1
<1> HIDE DEF k
<1>5. k = h
  BY <1>2, <1>4, Unique
<1>6. QED
  BY <1>3, <1>5

LEMMA Solvable ==
    ASSUME NEW S, IsFiniteSet(S), NEW f
    PROVE  Solves(Iter(f, S), f, S)
<1> DEFINE G == {T \in SUBSET S : \E g : Solves(g, f, T)}
<1>1. ASSUME NEW T \in SUBSET S, \A U \in (SUBSET T) \ {T} : U \in G
      PROVE  T \in G
  <2> DEFINE rest(s) == s \ {Pick(s)}
             g == [s \in SUBSET T |-> IF s = {} THEN 0
                                      ELSE f[Pick(s)] + Iter(f, rest(s))[rest(s)]]
  <2>1. ASSUME NEW U \in (SUBSET T) \ {T} PROVE Solves(Iter(f, U), f, U)
    <3>1. \E it : Solves(it, f, U)
      BY <1>1
    <3>2. QED
      BY <3>1 DEF Iter
  <2>2. ASSUME NEW s \in SUBSET T, s # {}
        PROVE  Iter(f, rest(s))[rest(s)] = g[rest(s)]
    <3> DEFINE u == rest(s)
    <3>1. Pick(s) \in s
      BY <2>2, PickIn
    <3>2. u \in (SUBSET T) \ {T}
      BY <3>1
    <3>3. Solves(Iter(f, u), f, u)
      BY <2>1, <3>2
    <3>4. CASE u = {}
      <4>1. Iter(f, u)[u] = 0
        BY <3>3, <3>4 DEF Solves
      <4>2. QED
        BY <3>2, <3>4, <4>1
    <3>5. CASE u # {}
      <4>1. Pick(u) \in u
        BY <3>5, PickIn
      <4>2. PICK w \in (SUBSET T) \ {T} : w = rest(u) /\ w \in SUBSET u
        BY <3>2, <4>1
      <4>3. Iter(f, u)[u] = f[Pick(u)] + Iter(f, u)[w]
        BY <3>3, <3>5, <4>2 DEF Solves
      <4>4. Solves(Iter(f, w), f, w)
        BY <2>1
      <4>5. IsFiniteSet(u)
        BY <3>2, FS_Subset
      <4> HIDE DEF u
      <4>6. Iter(f, u)[w] = Iter(f, w)[w]
        BY <3>3, <4>2, <4>4, <4>5, Agree
      <4>7. g[u] = f[Pick(u)] + Iter(f, w)[w]
        BY <3>2, <3>5, <4>2
      <4>8. QED
        BY <4>3, <4>6, <4>7 DEF u
    <3>6. QED
      BY <3>4, <3>5
  <2>3. Solves(g, f, T)
    <3>1. ASSUME NEW s \in SUBSET T
          PROVE  g[s] = IF s = {} THEN 0 ELSE f[Pick(s)] + g[rest(s)]
      BY <2>2
    <3> HIDE DEF g
    <3>2. g = [s \in SUBSET T |-> g[s]]
      BY DEF g
    <3>3. QED
      BY <3>1, <3>2 DEF Solves
  <2>4. QED
    BY <2>3
<1>2. \A T \in SUBSET S : T \in G
  <2> HIDE DEF G
  <2>1. QED
    BY <1>1, SubsetInduction
<1>3. \E it : Solves(it, f, S)
  BY <1>2
<1>4. QED
  BY <1>3 DEF Iter

(* A sum, one term taken off. *)
LEMMA TotalRest ==
    ASSUME NEW S, IsFiniteSet(S), NEW f
    PROVE  /\ S = {} => Total(f, S) = 0
           /\ S # {} => Total(f, S) = f[Pick(S)] + Total(f, S \ {Pick(S)})
<1>1. Solves(Iter(f, S), f, S)
  BY Solvable
<1>2. CASE S = {}
  BY <1>1, <1>2, Unfold DEF Solves
<1>3. CASE S # {}
  <2>1. PICK u \in SUBSET S : u = S \ {Pick(S)}
    OBVIOUS
  <2>2. IsFiniteSet(u)
    BY FS_Subset
  <2>3. Solves(Iter(f, u), f, u)
    BY <2>2, Solvable
  <2>4. Iter(f, S)[u] = Iter(f, u)[u]
    BY <1>1, <2>3, Agree
  <2>5. Iter(f, S)[S] = f[Pick(S)] + Iter(f, S)[u]
    BY <1>1, <1>3, <2>1 DEF Solves
  <2>6. QED
    BY <1>3, <2>1, <2>4, <2>5, Unfold
<1>4. QED
  BY <1>2, <1>3

LEMMA TotalTyped ==
    ASSUME NEW S, IsFiniteSet(S), NEW f, \A x \in S : f[x] \in Nat
    PROVE  Total(f, S) \in Nat
<1> DEFINE G == {T \in SUBSET S : Total(f, T) \in Nat}
<1>1. ASSUME NEW T \in SUBSET S, \A U \in (SUBSET T) \ {T} : U \in G
      PROVE  T \in G
  <2>1. IsFiniteSet(T)
    BY FS_Subset
  <2>2. CASE T = {}
    BY <2>1, <2>2, TotalRest
  <2>3. CASE T # {}
    <3>1. Pick(T) \in T
      BY <2>3, PickIn
    <3>2. Total(f, T \ {Pick(T)}) \in Nat
      BY <1>1, <3>1
    <3>3. QED
      BY <2>1, <2>3, <3>1, <3>2, TotalRest
  <2>4. QED
    BY <2>2, <2>3
<1> HIDE DEF G
<1>2. \A T \in SUBSET S : T \in G
  BY <1>1, SubsetInduction
<1>3. QED
  BY <1>2 DEF G

(* Whichever term is taken off. *)
LEMMA TotalSplit ==
    ASSUME NEW S, IsFiniteSet(S), NEW f, \A x \in S : f[x] \in Nat, NEW y \in S
    PROVE  Total(f, S) = f[y] + Total(f, S \ {y})
<1> DEFINE G == {T \in SUBSET S : \A x \in T : Total(f, T) = f[x] + Total(f, T \ {x})}
<1>1. ASSUME NEW T \in SUBSET S, \A U \in (SUBSET T) \ {T} : U \in G
      PROVE  T \in G
  <2>1. ASSUME NEW x \in T PROVE Total(f, T) = f[x] + Total(f, T \ {x})
    <3>1. PICK p \in T : p = Pick(T)
      BY PickIn
    <3>2. Total(f, T) = f[p] + Total(f, T \ {p})
      BY <3>1, FS_Subset, TotalRest
    <3>3. CASE p # x
      <4>1. T \ {p} \in G /\ T \ {x} \in G
        BY <1>1
      <4>2. Total(f, T \ {p}) = f[x] + Total(f, (T \ {p}) \ {x})
        BY <3>3, <4>1
      <4>3. Total(f, T \ {x}) = f[p] + Total(f, (T \ {x}) \ {p})
        BY <3>3, <4>1
      <4>4. (T \ {p}) \ {x} = (T \ {x}) \ {p}
        OBVIOUS
      <4>5. IsFiniteSet((T \ {x}) \ {p}) /\ (T \ {x}) \ {p} \subseteq S
        BY FS_Subset
      <4>6. Total(f, (T \ {x}) \ {p}) \in Nat
        BY <4>5, TotalTyped
      <4>7. f[x] \in Nat /\ f[p] \in Nat
        OBVIOUS
      <4>8. QED
        BY <3>2, <4>2, <4>3, <4>4, <4>6, <4>7
    <3>4. QED
      BY <3>2, <3>3
  <2>2. QED
    BY <2>1
<1> HIDE DEF G
<1>2. \A T \in SUBSET S : T \in G
  BY <1>1, SubsetInduction
<1>3. S \in G
  BY <1>2
<1>4. QED
  BY <1>3 DEF G

(* A sum depends on the terms it sums. *)
LEMMA TotalSame ==
    ASSUME NEW S, IsFiniteSet(S), NEW f, NEW g, \A x \in S : f[x] = g[x]
    PROVE  Total(f, S) = Total(g, S)
<1> DEFINE G == {T \in SUBSET S : Total(f, T) = Total(g, T)}
<1>1. ASSUME NEW T \in SUBSET S, \A U \in (SUBSET T) \ {T} : U \in G
      PROVE  T \in G
  <2>1. IsFiniteSet(T)
    BY FS_Subset
  <2>2. CASE T = {}
    BY <2>1, <2>2, TotalRest
  <2>3. CASE T # {}
    <3>1. Pick(T) \in T
      BY <2>3, PickIn
    <3>2. Total(f, T \ {Pick(T)}) = Total(g, T \ {Pick(T)})
      BY <1>1, <3>1
    <3>3. QED
      BY <2>1, <2>3, <3>1, <3>2, TotalRest
  <2>4. QED
    BY <2>2, <2>3
<1> HIDE DEF G
<1>2. \A T \in SUBSET S : T \in G
  BY <1>1, SubsetInduction
<1>3. QED
  BY <1>2 DEF G

LEMMA TotalZero ==
    ASSUME NEW S, IsFiniteSet(S), NEW f, \A x \in S : f[x] = 0
    PROVE  Total(f, S) = 0
<1> DEFINE G == {T \in SUBSET S : Total(f, T) = 0}
<1>1. ASSUME NEW T \in SUBSET S, \A U \in (SUBSET T) \ {T} : U \in G
      PROVE  T \in G
  <2>1. IsFiniteSet(T)
    BY FS_Subset
  <2>2. CASE T = {}
    BY <2>1, <2>2, TotalRest
  <2>3. CASE T # {}
    <3>1. Pick(T) \in T
      BY <2>3, PickIn
    <3>2. Total(f, T \ {Pick(T)}) = 0
      BY <1>1, <3>1
    <3>3. QED
      BY <2>1, <2>3, <3>1, <3>2, TotalRest
  <2>4. QED
    BY <2>2, <2>3
<1> HIDE DEF G
<1>2. \A T \in SUBSET S : T \in G
  BY <1>1, SubsetInduction
<1>3. QED
  BY <1>2 DEF G

(* Terms that are 0 do not count.                                            *)
Support(f, S) == {x \in S : f[x] # 0}

LEMMA SumTotal ==
    ASSUME NEW S, IsFiniteSet(S), NEW f, \A x \in S : f[x] \in Nat
    PROVE  SumOf(f, S) = Total(f, S)
<1> DEFINE G == {T \in SUBSET S : Total(f, Support(f, T)) = Total(f, T)}
<1>1. ASSUME NEW T \in SUBSET S, \A U \in (SUBSET T) \ {T} : U \in G
      PROVE  T \in G
  <2>1. IsFiniteSet(T)
    BY FS_Subset
  <2>2. CASE T = {}
    BY <2>2 DEF Support
  <2>3. CASE T # {}
    <3>1. PICK p \in T : p = Pick(T)
      BY <2>3, PickIn
    <3>2. Total(f, T) = f[p] + Total(f, T \ {p})
      BY <2>1, <2>3, <3>1, TotalRest
    <3>3. Total(f, Support(f, T \ {p})) = Total(f, T \ {p})
      BY <1>1
    <3>4. CASE f[p] = 0
      <4>1. Support(f, T) = Support(f, T \ {p})
        BY <3>4 DEF Support
      <4>2. Total(f, T \ {p}) \in Nat
        BY <2>1, FS_Subset, TotalTyped
      <4>3. QED
        BY <3>2, <3>3, <3>4, <4>1, <4>2
    <3>5. CASE f[p] # 0
      <4>1. p \in Support(f, T) /\ Support(f, T) \ {p} = Support(f, T \ {p})
        BY <3>5 DEF Support
      <4>2. Support(f, T) \subseteq T /\ IsFiniteSet(Support(f, T))
        BY <2>1, FS_Subset DEF Support
      <4>3. Total(f, Support(f, T)) = f[p] + Total(f, Support(f, T) \ {p})
        BY <4>1, <4>2, TotalSplit
      <4>4. QED
        BY <3>2, <3>3, <4>1, <4>3
    <3>6. QED
      BY <3>4, <3>5
  <2>4. QED
    BY <2>2, <2>3
<1> HIDE DEF G
<1>2. \A T \in SUBSET S : T \in G
  BY <1>1, SubsetInduction
<1>3. Total(f, Support(f, S)) = Total(f, S)
  BY <1>2 DEF G
<1>4. QED
  BY <1>3 DEF SumOf, Total, Support

LEMMA SumTyped ==
    ASSUME NEW S, IsFiniteSet(S), NEW f, \A x \in S : f[x] \in Nat
    PROVE  SumOf(f, S) \in Nat
BY SumTotal, TotalTyped

LEMMA SumSame ==
    ASSUME NEW S, IsFiniteSet(S), NEW f, NEW g, \A x \in S : f[x] = g[x]
    PROVE  SumOf(f, S) = SumOf(g, S)
<1>1. Support(f, S) = Support(g, S) /\ Support(f, S) \subseteq S
  BY DEF Support
<1>2. IsFiniteSet(Support(f, S))
  BY <1>1, FS_Subset
<1>3. \A x \in Support(f, S) : f[x] = g[x]
  BY <1>1
<1>4. Total(f, Support(f, S)) = Total(g, Support(g, S))
  BY <1>1, <1>2, <1>3, TotalSame
<1>5. QED
  BY <1>4 DEF SumOf, Total, Support

LEMMA SumZero ==
    ASSUME NEW S, IsFiniteSet(S), NEW f, \A x \in S : f[x] = 0
    PROVE  SumOf(f, S) = 0
BY SumTotal, TotalZero

(* One term that grows. *)
LEMMA SumGrows ==
    ASSUME NEW S, IsFiniteSet(S), NEW f, NEW g, NEW y, NEW d \in Nat,
           \A x \in S : f[x] \in Nat,
           \A x \in S \ {y} : g[x] = f[x],
           y \in S => g[y] = f[y] + d
    PROVE  SumOf(g, S) = SumOf(f, S) + IF y \in S THEN d ELSE 0
<1>1. CASE y \notin S
  <2>1. SumOf(g, S) = SumOf(f, S)
    BY <1>1, SumSame
  <2>2. QED
    BY <1>1, <2>1, SumTyped
<1>2. CASE y \in S
  <2>1. IsFiniteSet(S \ {y})
    BY FS_Subset
  <2>2. Total(g, S \ {y}) = Total(f, S \ {y})
    BY <2>1, TotalSame
  <2>3. Total(f, S \ {y}) \in Nat
    BY <2>1, TotalTyped
  <2>4. f[y] \in Nat /\ g[y] \in Nat
    BY <1>2
  <2>5. \A x \in S : g[x] \in Nat
    BY <2>4
  <2>6. Total(f, S) = f[y] + Total(f, S \ {y}) /\ Total(g, S) = g[y] + Total(g, S \ {y})
    BY <1>2, <2>5, TotalSplit
  <2>7. SumOf(f, S) = Total(f, S) /\ SumOf(g, S) = Total(g, S)
    BY <2>5, SumTotal
  <2>8. QED
    BY <1>2, <2>2, <2>3, <2>4, <2>6, <2>7
<1>3. QED
  BY <1>1, <1>2

(* The labels are finitely many.                                            *)
LEMMA LabelsFinite == IsFiniteSet(Labels) /\ IsFiniteSet(Successes)
<1> DEFINE outcomes == {"success", "error", ""}
           pairs == (Methods \X outcomes) \X BOOLEAN
           label == [p \in pairs |-> <<p[1][1], p[1][2], p[2]>>]
<1>1. IsFiniteSet({"GET", "POST", "PUT"}) /\ IsFiniteSet({"DELETE", "PATCH"})
  <2>1. IsFiniteSet({"GET"} \cup {"POST"}) /\ IsFiniteSet({"DELETE"} \cup {"PATCH"})
    BY FS_Singleton, FS_AddElement
  <2>2. IsFiniteSet(({"GET"} \cup {"POST"}) \cup {"PUT"})
    BY <2>1, FS_AddElement
  <2>3. /\ ({"GET"} \cup {"POST"}) \cup {"PUT"} = {"GET", "POST", "PUT"}
        /\ {"DELETE"} \cup {"PATCH"} = {"DELETE", "PATCH"}
    OBVIOUS
  <2>4. QED
    BY <2>1, <2>2, <2>3
<1>2. IsFiniteSet(Methods)
  <2>1. IsFiniteSet({"GET", "POST", "PUT"} \cup {"DELETE", "PATCH"})
    BY <1>1, FS_Union
  <2>2. {"GET", "POST", "PUT"} \cup {"DELETE", "PATCH"} = Methods
    BY DEF Methods
  <2>3. QED
    BY <2>1, <2>2
<1>3. IsFiniteSet(outcomes) /\ IsFiniteSet(BOOLEAN)
  <2>1. IsFiniteSet({"success"} \cup {"error"}) /\ IsFiniteSet({TRUE} \cup {FALSE})
    BY FS_Singleton, FS_AddElement
  <2>2. IsFiniteSet(({"success"} \cup {"error"}) \cup {""})
    BY <2>1, FS_AddElement
  <2>3. /\ ({"success"} \cup {"error"}) \cup {""} = outcomes
        /\ {TRUE} \cup {FALSE} = BOOLEAN
    OBVIOUS
  <2>4. QED
    BY <2>1, <2>2, <2>3
<1> HIDE DEF outcomes
<1>4. IsFiniteSet(pairs)
  <2>1. IsFiniteSet(Methods \X outcomes)
    BY <1>2, <1>3, FS_Product
  <2>2. QED
    BY <1>3, <2>1, FS_Product
<1>5. label \in Surjection(pairs, Labels)
  <2>1. label \in [pairs -> Labels]
    BY DEF Labels, outcomes
  <2>2. ASSUME NEW l \in Labels PROVE \E p \in pairs : label[p] = l
    <3>1. PICK v \in Methods, o \in outcomes, b \in BOOLEAN : l = <<v, o, b>>
      <4>1. Labels = Methods \X outcomes \X BOOLEAN
        BY DEF Labels, outcomes
      <4>2. QED
        BY <4>1
    <3>2. <<<<v, o>>, b>> \in pairs
      OBVIOUS
    <3>3. label[<<<<v, o>>, b>>] = l
      BY <3>1, <3>2
    <3>4. QED
      BY <3>2, <3>3
  <2> HIDE DEF label, pairs
  <2>3. QED
    BY <2>1, <2>2 DEF Surjection
<1> HIDE DEF label, pairs
<1>6. IsFiniteSet(Labels)
  BY <1>4, <1>5, FS_Surjection
<1>7. Successes \in SUBSET Labels
  BY DEF Successes
<1>8. QED
  BY <1>6, <1>7, FS_Subset

LEMMA ExpectedMeans ==
    ASSUME NEW verb \in Methods
    PROVE  /\ Expected(verb) \notin {NoReply, Broken}
           /\ verb # "GET" => Expected(verb) # 200
           /\ verb = "GET" => Expected(verb) = 200
BY DEF Methods, Expected, NoReply, Broken

LEMMA AskMethod ==
    ASSUME TypesInv, NEW c \in Clients
    PROVE  /\ AskOf(c) \in Asks /\ AskOf(c).verb \in Methods
           /\ ScriptOf[c] \in Seq(Asks) /\ step[c] \in 1..Len(ScriptOf[c])
           /\ Len(ScriptOf[c]) \in Nat /\ step[c] \in Nat
<1>1. /\ ScriptOf[c] \in Seq(Asks) /\ step[c] \in 1..Len(ScriptOf[c])
      /\ Len(ScriptOf[c]) \in Nat \ {0} /\ ScriptOf[c][step[c]] \in Asks
  BY Parts, AskTyped
<1>2. QED
  BY <1>1 DEF AskOf, Asks, Methods

LEMMA UnscrapedSame ==
    ASSUME NEW c, Unscraped(c), at'[c] = at[c], step'[c] = step[c], names'[c] = names[c],
           reply'[c] \in {reply[c], Broken}
    PROVE  Unscraped(c)'
BY DEF Unscraped, Busy, AskOf

LEMMA MetricsInvStep ==
    ASSUME TypesInv, HandlerInv, AskedInv, MetricsInv, Next
    PROVE  MetricsInv'
<1>1. SUFFICES ASSUME NEW e \in Clients PROVE Unscraped(e)'
  BY DEF MetricsInv
<1>2. Unscraped(e)
  BY DEF MetricsInv
<1>3. ASSUME NEW c \in Clients, Elsewhere(c), c # e PROVE Unscraped(e)'
  BY <1>2, <1>3, UnscrapedSame DEF Elsewhere
<1>4. ASSUME NEW c \in Clients, BeginAction(c) PROVE Unscraped(e)'
  <2>1. /\ at' = [at EXCEPT ![c] = "ready"] /\ step' = [step EXCEPT ![c] = 1]
        /\ reply' = reply
        /\ \E chosen \in NamesFor[c] : names' = [names EXCEPT ![c] = chosen]
    BY <1>4 DEF BeginAction
  <2>2. /\ at \in [Clients -> {"idle", "ready", "waiting"}] /\ step \in [Clients -> Nat]
        /\ names \in [Clients -> Paths \X Paths]
    BY DEF TypesInv, TypeOK
  <2>3. CASE c = e
    <3>1. at'[e] = "ready" /\ step'[e] = 1
      BY <2>1, <2>2, <2>3
    <3>2. QED
      BY <3>1 DEF Unscraped
  <2>4. CASE c # e
    BY <1>2, <2>1, <2>2, <2>4, UnscrapedSame
  <2>5. QED
    BY <2>3, <2>4
<1>5. ASSUME NEW c \in Clients, Send(c) PROVE Unscraped(e)'
  <2>1. /\ at' = [at EXCEPT ![c] = "waiting"] /\ at[c] = "ready"
        /\ UNCHANGED <<step, names, reply>>
    BY <1>5 DEF Send
  <2>2. at \in [Clients -> {"idle", "ready", "waiting"}]
    BY DEF TypesInv, TypeOK
  <2>3. CASE c = e
    <3>1. reply[e] = NoReply
      BY <2>1, <2>3 DEF AskedInv, Attended
    <3>2. QED
      BY <1>2, <2>1, <2>3, <3>1 DEF Unscraped, Busy, AskOf
  <2>4. CASE c # e
    BY <1>2, <2>1, <2>2, <2>4, UnscrapedSame
  <2>5. QED
    BY <2>3, <2>4
<1>6. ASSUME NEW c \in Clients, Fail(c), UNCHANGED <<names, serial>> PROVE Unscraped(e)'
  <2>1. Elsewhere(c) /\ at'[c] = "idle"
    BY <1>6, FailFrame
  <2>2. QED
    BY <1>3, <2>1 DEF Unscraped, Busy
<1>7. ASSUME NEW c \in Clients, Receive(c) PROVE Unscraped(e)'
  <2>1. CASE ~Good(c)
    <3>1. UNCHANGED <<names, serial>>
      BY <1>7 DEF Receive
    <3>2. QED
      BY <1>6, <1>7, <2>1, <3>1, ReceiveBad
  <2>2. CASE Good(c)
    <3>1. /\ Elsewhere(c) /\ names' = names
          /\ at'[c] # "idle" => at'[c] = "ready" /\ step'[c] = step[c] + 1
      BY <1>7, <2>2, ReceiveGood
    <3>2. ASSUME at'[c] = "ready", step'[c] = step[c] + 1 PROVE Unscraped(c)'
      <4>1. Unscraped(c) /\ at[c] = "waiting" /\ reply[c] # NoReply
        BY <1>7 DEF MetricsInv, Receive
      <4>2. AskOf(c).verb # "GET" => names[c][AskOf(c).name] # MetricsPath
        <5>1. reply[c] = Expected(AskOf(c).verb) /\ AskOf(c).verb \in Methods
          BY <2>2, AskMethod DEF Good
        <5>2. QED
          BY <4>1, <5>1, ExpectedMeans DEF Unscraped, Busy
      <4>3. step[c] \in Nat
        BY AskMethod
      <4>4. ASSUME NEW i \in 1..step'[c]-1, ScriptOf[c][i].verb # "GET"
            PROVE  names'[c][ScriptOf[c][i].name] # MetricsPath
        <5>1. i \in 1..step[c]-1 \/ i = step[c]
          BY <3>2, <4>3
        <5>2. QED
          BY <3>1, <4>1, <4>2, <4>4, <5>1 DEF Unscraped, Busy, AskOf
      <4>5. QED
        BY <3>2, <4>4 DEF Unscraped
    <3>3. QED
      BY <1>3, <3>1, <3>2 DEF Unscraped, Busy
  <2>3. QED
    BY <2>1, <2>2
<1>8. ASSUME NEW h \in handlers, Serving(h) \/ Counting(h) PROVE Unscraped(e)'
  <2>1. UNCHANGED <<at, step, names, reply>>
    BY <1>8, ServingFrame, CountTurns
  <2>2. QED
    BY <1>2, <2>1, UnscrapedSame
<1>9. ASSUME NEW h \in handlers, Flush(h) PROVE Unscraped(e)'
  <2>1. /\ UNCHANGED <<at, step, names>>
        /\ reply'[e] = IF e = h.from /\ Awaited(h) THEN h.code ELSE reply[e]
        /\ Answered(h)
    BY <1>9, FlushFrame DEF Answered
  <2>2. CASE e = h.from /\ Awaited(h)
    <3>1. AskedFor(h) /\ FitHandler(h) /\ Current(h)
      BY <2>2, AwaitedCurrent DEF AskedInv, HandlerInv
    <3>2. names[e][AskOf(e).name] = MetricsPath => reply'[e] = 200
      BY <2>1, <2>2, <3>1 DEF AskedFor, FitHandler, Answered
    <3>3. QED
      BY <1>2, <2>1, <3>2 DEF Unscraped, Busy, AskOf
  <2>3. CASE ~(e = h.from /\ Awaited(h))
    BY <1>2, <2>1, <2>3, UnscrapedSame
  <2>4. QED
    BY <2>2, <2>3
<1>10. CASE MapSpoiled \/ MapRace \/ RemoteApplies
  <2>1. UNCHANGED <<at, step, names>> /\ reply'[e] \in {reply[e], Broken}
    BY <1>10 DEF MapSpoiled, MapRace, RemoteApplies, clientVars
  <2>2. QED
    BY <1>2, <2>1, UnscrapedSame
<1>11. QED
  <2>1. ASSUME NEW c \in Clients, SendFails(c) \/ Timeout(c) PROVE Unscraped(e)'
    BY <1>6, <2>1 DEF SendFails, Timeout
  <2>2. QED
    BY <1>4, <1>5, <1>7, <1>8, <1>9, <1>10, <2>1
       DEF Next, Client, Handler, Serving, Counting

(* No GET of /metrics can pass for a success.                                 *)
LEMMA NoScrapeHoped ==
    ASSUME TypesInv, MetricsInv, ReadsFollow, NEW c \in Clients, Busy(c),
           names[c][AskOf(c).name] = MetricsPath
    PROVE  Expected(AskOf(c).verb) # 200
<1>1. AskOf(c).verb \in Methods /\ ScriptOf[c] \in Seq(Asks) /\ step[c] \in 1..Len(ScriptOf[c])
  BY AskMethod
<1>2. CASE AskOf(c).verb = "GET"
  <2>1. step[c] \in DOMAIN ScriptOf[c]
    BY <1>1
  <2>2. PICK j \in 1..step[c]-1 : /\ ScriptOf[c][j].verb # "GET"
                                  /\ ScriptOf[c][j].name = AskOf(c).name
    BY <1>2, <2>1 DEF ReadsFollow, AskOf
  <2>3. QED
    BY <2>2 DEF MetricsInv, Unscraped
<1>3. QED
  BY <1>1, <1>2, ExpectedMeans

-----------------------------------------------------------------------------
(* What is counted and what is seen.                                         *)

LEMMA SetsFinite ==
    ASSUME HandlerInv
    PROVE  /\ IsFiniteSet(Uncounted) /\ IsFiniteSet(Abandoned) /\ IsFiniteSet(ToSee)
           /\ Cardinality(Uncounted) \in Nat
           /\ Cardinality(Abandoned) \in Nat /\ Cardinality(ToSee) \in Nat
<1>1. IsFiniteSet(handlers) /\ IsFiniteSet(Clients)
  BY ServerAssumption DEF HandlerInv
<1>2. /\ Uncounted \subseteq handlers /\ Abandoned \subseteq handlers
      /\ ToSee \subseteq Clients
  BY DEF Uncounted, Abandoned, ToSee
<1>3. IsFiniteSet(Uncounted) /\ IsFiniteSet(Abandoned) /\ IsFiniteSet(ToSee)
  BY <1>1, <1>2, FS_Subset
<1>4. QED
  BY <1>3, FS_CardinalityType

LEMMA SumsTyped ==
    ASSUME TypesInv
    PROVE  /\ SumOf(requestCount, Labels) \in Nat /\ SumOf(requestCount, Successes) \in Nat
           /\ SumOf(Seen, Clients) \in Nat /\ arrived \in Nat /\ givenUp \in Nat
           /\ \A l \in Labels : requestCount[l] \in Nat
           /\ \A c \in Clients : Seen[c] \in Nat
<1>1. /\ \A l \in Labels : requestCount[l] \in Nat
      /\ \A c \in Clients : Seen[c] \in Nat
      /\ arrived \in Nat /\ givenUp \in Nat
  BY DEF TypesInv, TypeOK, Seen, Counts
<1>2. Successes \subseteq Labels /\ IsFiniteSet(Clients)
  BY ServerAssumption DEF Successes
<1>3. QED
  BY <1>1, <1>2, LabelsFinite, SumTyped

(* Taking out one element that is there, and adding one that is not.          *)
LEMMA OneLess ==
    ASSUME NEW S, IsFiniteSet(S), NEW x
    PROVE  /\ x \in S => Cardinality(S \ {x}) = Cardinality(S) - 1
           /\ x \notin S => Cardinality(S \ {x}) = Cardinality(S)
BY FS_RemoveElement

LEMMA OneMore ==
    ASSUME NEW S, IsFiniteSet(S), NEW x, x \notin S
    PROVE  Cardinality(S \cup {x}) = Cardinality(S) + 1
BY FS_AddElement

LEMMA Swapped ==
    ASSUME NEW S, IsFiniteSet(S), NEW x \in S, NEW y, y \notin S
    PROVE  Cardinality((S \ {x}) \cup {y}) = Cardinality(S)
<1>1. IsFiniteSet(S \ {x}) /\ Cardinality(S \ {x}) = Cardinality(S) - 1
  BY FS_RemoveElement
<1>2. Cardinality((S \ {x}) \cup {y}) = Cardinality(S) - 1 + 1
  BY <1>1, FS_AddElement
<1>3. Cardinality(S) \in Nat
  BY FS_CardinalityType
<1>4. QED
  BY <1>2, <1>3

(* Nobody's successes change.                                                 *)
LEMMA SeenSame ==
    ASSUME \A c \in Clients : stats'[c].requests.good = stats[c].requests.good
    PROVE  SumOf(Seen, Clients)' = SumOf(Seen, Clients)
<1>1. \A c \in Clients : Seen'[c] = Seen[c]
  BY DEF Seen
<1>2. SumOf(Seen', Clients) = SumOf(Seen, Clients)
  BY <1>1, ServerAssumption, SumSame
<1>3. QED
  BY <1>2

LEMMA SeenOneMore ==
    ASSUME TypesInv, NEW c \in Clients, Elsewhere(c),
           stats'[c].requests.good = stats[c].requests.good + 1
    PROVE  SumOf(Seen, Clients)' = SumOf(Seen, Clients) + 1
<1>1. /\ \A e \in Clients : Seen[e] \in Nat
      /\ \A e \in Clients \ {c} : Seen'[e] = Seen[e]
      /\ Seen'[c] = Seen[c] + 1
  BY SumsTyped DEF Seen, Elsewhere
<1>2. SumOf(Seen', Clients) = SumOf(Seen, Clients) + 1
  BY <1>1, ServerAssumption, SumGrows
<1>3. QED
  BY <1>2

(* A handler that has counted a success and has not sent it.                  *)
Coming(h) ==
    /\ h.path # MetricsPath /\ h.pc \in {"counted", "flush"} /\ h.code = Expected(h.verb)

LEMMA SureMeans ==
    ASSUME NEW c
    PROVE  Sure(c) <=>
             /\ at[c] = "waiting"
             /\ \/ Good(c)
                \/ /\ reply[c] = NoReply
                   /\ \E h \in handlers : h.from = c /\ Current(h) /\ Coming(h)
BY DEF Sure, Coming

(* A client is as sure as it was, if its own state and its handler's are.     *)
LEMMA SureSame ==
    ASSUME NEW c, at'[c] = at[c], reply'[c] = reply[c], Good(c)' <=> Good(c),
           (\E h \in handlers' : h.from = c /\ Current(h)' /\ Coming(h))
             <=> (\E h \in handlers : h.from = c /\ Current(h) /\ Coming(h))
    PROVE  Sure(c)' <=> Sure(c)
BY DEF Sure, Coming

(* The client of a request that is not counted sees no success yet.           *)
LEMMA NotYetSure ==
    ASSUME TypesInv, HandlerInv, AskedInv, NEW h \in handlers, Current(h),
           h.pc \notin {"counted", "flush"}
    PROVE  h.from \in Clients /\ ~Sure(h.from) /\ ~Good(h.from) /\ reply[h.from] = NoReply
<1>1. h.from \in Clients /\ reply[h.from] = NoReply
  BY DEF TypesInv, TypeOK, Handlers, AskedInv, AskedFor
<1>2. ~Good(h.from)
  BY <1>1, AskMethod, ExpectedMeans DEF Good
<1>3. \A e \in handlers : e.from = h.from /\ Current(e) => ~Coming(e)
  BY <1>1, OneCurrent DEF Coming
<1>4. QED
  BY <1>1, <1>2, <1>3, SureMeans

(* A step that changes no count, and none of the sets.                        *)
LEMMA SumsKept ==
    ASSUME TypesInv, HandlerInv, SumsInv,
           UNCHANGED <<up, requestCount, stats, arrived, givenUp>>,
           Cardinality(Uncounted') = Cardinality(Uncounted),
           Cardinality(Abandoned') = Cardinality(Abandoned),
           ToSee' = ToSee
    PROVE  SumsInv'
<1>1. SumOf(Seen, Clients)' = SumOf(Seen, Clients)
  BY SeenSame
<1>2. QED
  BY <1>1, SetsFinite, SumsTyped DEF SumsInv

LEMMA SumsServing ==
    ASSUME TypesInv, HandlerInv, HandlerInv', AskedInv, SumsInv,
           NEW h \in handlers, Serving(h)
    PROVE  SumsInv'
<1>1. PICK g : Turn(h, g) /\ Served(h, g) /\ ~Answered(h)
  BY ServingStep
<1>2. UNCHANGED <<up, requestCount, at, step, names, serial, reply, stats, arrived, givenUp>>
  BY ServingFrame
<1>3. /\ g \notin handlers /\ h.pc \notin {"counted", "flush"} /\ g.pc # "counted"
      /\ g.from = h.from /\ g.path = h.path
      /\ g.pc = "flush" <=> h.path = MetricsPath
  BY <1>1, ServedFits, TurnKeeps DEF Served, Turn, Answered
<1>4. \A e : Current(e)' <=> Current(e)
  BY <1>2 DEF Current
<1>5. Current(g) <=> Current(h)
  BY <1>1 DEF Turn, Current
<1>6. Uncounted' = IF h.path = MetricsPath THEN Uncounted ELSE (Uncounted \ {h}) \cup {g}
  BY <1>1, <1>3 DEF Uncounted, Turn
<1>7. h \in Uncounted <=> h.path # MetricsPath
  BY <1>3 DEF Uncounted
<1>8. Cardinality(Uncounted') = Cardinality(Uncounted)
  <2>1. IsFiniteSet(Uncounted) /\ g \notin Uncounted
    BY <1>3, SetsFinite DEF Uncounted
  <2>2. h \in Uncounted => Cardinality((Uncounted \ {h}) \cup {g}) = Cardinality(Uncounted)
    BY <2>1, Swapped
  <2>3. QED
    BY <1>6, <1>7, <2>2
<1>9. Abandoned' = IF h \in Abandoned THEN (Abandoned \ {h}) \cup {g} ELSE Abandoned
  BY <1>4, <1>5, <1>6, <1>7 DEF Abandoned
<1>10. Cardinality(Abandoned') = Cardinality(Abandoned)
  <2>1. IsFiniteSet(Abandoned) /\ g \notin Abandoned
    BY <1>3, SetsFinite DEF Abandoned, Uncounted
  <2>2. h \in Abandoned => Cardinality((Abandoned \ {h}) \cup {g}) = Cardinality(Abandoned)
    BY <2>1, Swapped
  <2>3. QED
    BY <1>9, <2>2
<1>11. ToSee' = ToSee
  <2>1. ASSUME NEW c \in Clients PROVE Sure(c)' <=> Sure(c)
    <3>1. ~Coming(g) /\ ~Coming(h)
      BY <1>3 DEF Coming
    <3>2. (\E e \in handlers' : e.from = c /\ Current(e)' /\ Coming(e))
            <=> \E e \in handlers : e.from = c /\ Current(e) /\ Coming(e)
      BY <1>1, <1>4, <3>1 DEF Turn
    <3>3. Good(c)' <=> Good(c)
      BY <1>2 DEF Good, AskOf
    <3>4. QED
      BY <1>2, <3>2, <3>3, SureSame
  <2>2. QED
    BY <2>1 DEF ToSee
<1>12. QED
  BY <1>2, <1>8, <1>10, <1>11, SumsKept

LEMMA SumsStill ==
    ASSUME TypesInv, HandlerInv, SumsInv,
           UNCHANGED <<up, handlers, requestCount, at, step, names, serial, reply, stats,
                       arrived, givenUp>>
    PROVE  SumsInv'
<1>1. Uncounted' = Uncounted /\ Abandoned' = Abandoned /\ ToSee' = ToSee
  BY DEF Uncounted, Abandoned, ToSee, Sure, Good, AskOf, Current
<1>2. QED
  BY <1>1, SumsKept

LEMMA SumsSend ==
    ASSUME TypesInv, HandlerInv, AskedInv, SumsInv, NEW c \in Clients, Send(c)
    PROVE  SumsInv'
<1>1. PICK h : /\ handlers' = handlers \cup {h} /\ h.from = c /\ h.pc = "received"
               /\ arrived' = IF h.path = MetricsPath THEN arrived ELSE arrived + 1
               /\ \A g \in handlers : g.from = c => g.n # serial'[c]
               /\ serial' = [serial EXCEPT ![c] = serial[c] + 1]
               /\ serial'[c] = h.n /\ h \notin handlers
  BY SendNew
<1>2. /\ at' = [at EXCEPT ![c] = "waiting"] /\ at[c] = "ready"
      /\ UNCHANGED <<up, requestCount, step, names, reply, stats, givenUp>>
      /\ reply[c] = NoReply
  BY DEF Send, AskedInv, Attended
<1>3. /\ at \in [Clients -> {"idle", "ready", "waiting"}] /\ serial \in [Clients -> Nat]
      /\ \A e \in handlers : e.from \in Clients
  BY DEF TypesInv, TypeOK, Handlers
<1>4. Current(h)' /\ at'[c] = "waiting"
  BY <1>1, <1>2, <1>3 DEF Current
<1>5. \A e \in handlers : Current(e)' <=> Current(e)
  <2>1. ASSUME NEW e \in handlers, e.from = c
        PROVE  ~Current(e) /\ ~Current(e)'
    BY <1>1, <1>2, <2>1 DEF Current
  <2>2. ASSUME NEW e \in handlers, e.from # c
        PROVE  Current(e)' <=> Current(e)
    BY <1>1, <1>2, <1>3, <2>2 DEF Current
  <2>3. QED
    BY <2>1, <2>2
<1>6. Uncounted' = IF h.path = MetricsPath THEN Uncounted ELSE Uncounted \cup {h}
  BY <1>1 DEF Uncounted
<1>7. Cardinality(Uncounted') = Cardinality(Uncounted) + (arrived' - arrived)
  <2>1. h \notin Uncounted
    BY <1>1 DEF Uncounted
  <2>2. QED
    BY <1>1, <1>6, <2>1, SetsFinite, SumsTyped, OneMore
<1>8. Abandoned' = Abandoned
  BY <1>4, <1>5, <1>6 DEF Abandoned, Uncounted
<1>9. ToSee' = ToSee
  <2>1. ASSUME NEW e \in Clients, e # c PROVE Sure(e)' <=> Sure(e)
    <3>1. (\E g \in handlers' : g.from = e /\ Current(g)' /\ Coming(g))
            <=> \E g \in handlers : g.from = e /\ Current(g) /\ Coming(g)
      BY <1>1, <1>5, <2>1
    <3>2. (Good(e)' <=> Good(e)) /\ at'[e] = at[e] /\ reply'[e] = reply[e]
      BY <1>2, <1>3, <2>1 DEF Good, AskOf
    <3>3. QED
      BY <3>1, <3>2, SureSame
  <2>2. ~Sure(c)
    BY <1>2 DEF Sure
  <2>3. ~Sure(c)'
    <3>1. ~Good(c)'
      <4>1. reply'[c] = NoReply /\ AskOf(c)' = AskOf(c) /\ AskOf(c).verb \in Methods
        BY <1>2, AskMethod DEF AskOf
      <4>2. QED
        BY <4>1, ExpectedMeans DEF Good
    <3>2. \A g \in handlers' : ~(g.from = c /\ Current(g)' /\ g.pc \in {"counted", "flush"})
      BY <1>1 DEF Current
    <3>3. QED
      BY <3>1, <3>2 DEF Sure
  <2>4. QED
    BY <2>1, <2>2, <2>3 DEF ToSee
<1>10. SumOf(Seen, Clients)' = SumOf(Seen, Clients)
  BY <1>2, SeenSame
<1>11. QED
  <2>1. arrived' \in Nat
    BY <1>1, SumsTyped
  <2>2. QED
    BY <1>2, <1>7, <1>8, <1>9, <1>10, <2>1, SetsFinite, SumsTyped DEF SumsInv

(* A client that stops waiting leaves its request, if it is still served, to  *)
(* be counted for nobody; it has no success to see then.                      *)
LEMMA Leaving ==
    ASSUME TypesInv, HandlerInv, AskedInv, NEW c \in Clients, Elsewhere(c),
           handlers' = handlers, at'[c] # "waiting"
    PROVE  /\ Uncounted' = Uncounted
           /\ ToSee' = ToSee \ {c}
           /\ \/ Abandoned' = Abandoned
              \/ \E e \in Uncounted : /\ at[c] = "waiting" /\ reply[c] = NoReply
                                      /\ e \notin Abandoned /\ c \notin ToSee
                                      /\ Abandoned' = Abandoned \cup {e}
<1>1. Uncounted' = Uncounted /\ Uncounted \subseteq handlers
  BY DEF Uncounted
<1>2. \A e \in handlers : /\ e.from \in Clients
                          /\ e.from # c => (Current(e)' <=> Current(e))
                          /\ e.from = c => ~Current(e)'
  BY DEF TypesInv, TypeOK, Handlers, Current, Elsewhere
<1>3. ToSee' = ToSee \ {c}
  <2>1. ~Sure(c)'
    BY DEF Sure
  <2>2. ASSUME NEW e \in Clients, e # c PROVE Sure(e)' <=> Sure(e)
    <3>1. (\E g \in handlers' : g.from = e /\ Current(g)' /\ Coming(g))
            <=> \E g \in handlers : g.from = e /\ Current(g) /\ Coming(g)
      BY <1>2, <2>2
    <3>2. (Good(e)' <=> Good(e)) /\ at'[e] = at[e] /\ reply'[e] = reply[e]
      BY <2>2 DEF Good, AskOf, Elsewhere
    <3>3. QED
      BY <3>1, <3>2, SureSame
  <2>3. QED
    BY <2>1, <2>2 DEF ToSee
<1>4. CASE \A e \in Uncounted : e.from = c => ~Current(e)
  <2>1. Abandoned' = Abandoned
    BY <1>1, <1>2, <1>4 DEF Abandoned
  <2>2. QED
    BY <1>1, <1>3, <2>1
<1>5. ASSUME NEW e \in Uncounted, e.from = c, Current(e)
      PROVE  /\ at[c] = "waiting" /\ reply[c] = NoReply
             /\ e \notin Abandoned /\ c \notin ToSee /\ Abandoned' = Abandoned \cup {e}
  <2>1. \A g \in Uncounted : g.from = c /\ Current(g) => g = e
    BY <1>1, <1>5, OneCurrent
  <2>2. Abandoned' = Abandoned \cup {e}
    BY <1>1, <1>2, <1>5, <2>1 DEF Abandoned
  <2>3. e.pc \notin {"counted", "flush"} /\ e \in handlers
    BY DEF Uncounted
  <2>4. c \notin ToSee /\ reply[c] = NoReply
    BY <1>5, <2>3, NotYetSure DEF ToSee
  <2>5. QED
    BY <1>5, <2>2, <2>4 DEF Abandoned, Current
<1>6. QED
  BY <1>1, <1>3, <1>4, <1>5

(* The same in numbers.                                                      *)
LEMMA LeavingCounts ==
    ASSUME TypesInv, HandlerInv, AskedInv, NEW c \in Clients, Elsewhere(c),
           handlers' = handlers, at'[c] # "waiting"
    PROVE  /\ Cardinality(Uncounted') = Cardinality(Uncounted)
           /\ Cardinality(ToSee') = Cardinality(ToSee) - IF c \in ToSee THEN 1 ELSE 0
           /\ \/ Cardinality(Abandoned') = Cardinality(Abandoned)
              \/ /\ Cardinality(Abandoned') = Cardinality(Abandoned) + 1
                 /\ at[c] = "waiting" /\ reply[c] = NoReply /\ c \notin ToSee
<1>1. /\ Uncounted' = Uncounted /\ ToSee' = ToSee \ {c}
      /\ \/ Abandoned' = Abandoned
         \/ \E e \in Uncounted : /\ at[c] = "waiting" /\ reply[c] = NoReply
                                 /\ e \notin Abandoned /\ c \notin ToSee
                                 /\ Abandoned' = Abandoned \cup {e}
  BY Leaving
<1>2. Cardinality(ToSee \ {c}) = Cardinality(ToSee) - IF c \in ToSee THEN 1 ELSE 0
  BY SetsFinite, OneLess
<1>3. ASSUME NEW e \in Uncounted, e \notin Abandoned
      PROVE  Cardinality(Abandoned \cup {e}) = Cardinality(Abandoned) + 1
  BY <1>3, SetsFinite, OneMore
<1>4. QED
  BY <1>1, <1>2, <1>3

LEMMA SumsClient ==
    ASSUME TypesInv, HandlerInv, AskedInv, SumsInv, NEW c \in Clients,
           BeginAction(c) \/ SendFails(c) \/ Timeout(c) \/ Receive(c)
    PROVE  SumsInv'
<1>1. UNCHANGED <<handlers, up, requestCount, arrived>>
  BY DEF BeginAction, SendFails, Timeout, Receive, serverVars, history
<1>2. CASE ~up
  BY <1>1, <1>2 DEF SumsInv
<1>3. CASE up /\ BeginAction(c)
  <2>1. /\ UNCHANGED <<handlers, serial, reply, stats, givenUp>> /\ at[c] = "idle"
        /\ at' = [at EXCEPT ![c] = "ready"] /\ step' = [step EXCEPT ![c] = 1]
        /\ \E chosen \in NamesFor[c] : names' = [names EXCEPT ![c] = chosen]
    BY <1>3 DEF BeginAction, serverVars
  <2>2. /\ at \in [Clients -> {"idle", "ready", "waiting"}] /\ step \in [Clients -> Nat]
        /\ names \in [Clients -> Paths \X Paths]
    BY DEF TypesInv, TypeOK
  <2>3. Elsewhere(c) /\ at'[c] = "ready"
    BY <2>1, <2>2 DEF Elsewhere
  <2>4. c \notin ToSee
    BY <2>1 DEF ToSee, Sure
  <2>5. /\ Cardinality(Uncounted') = Cardinality(Uncounted)
        /\ Cardinality(ToSee') = Cardinality(ToSee)
        /\ Cardinality(Abandoned') = Cardinality(Abandoned)
    BY <2>1, <2>3, <2>4, LeavingCounts, SetsFinite
  <2>6. SumOf(Seen, Clients)' = SumOf(Seen, Clients)
    BY <2>1, SeenSame
  <2>7. QED
    BY <1>1, <2>1, <2>5, <2>6, SetsFinite, SumsTyped DEF SumsInv
<1>4. CASE up /\ Timeout(c)
  <2>1. /\ Fail(c) /\ UNCHANGED <<names, serial>> /\ givenUp' = givenUp + 1
    BY <1>4 DEF Timeout
  <2>2. /\ Elsewhere(c) /\ at'[c] = "idle"
        /\ stats'[c].requests.good = stats[c].requests.good
    BY <2>1, FailFrame
  <2>3. SumOf(Seen, Clients)' = SumOf(Seen, Clients)
    BY <2>2, SeenSame DEF Elsewhere
  <2>4. /\ Cardinality(Uncounted') = Cardinality(Uncounted)
        /\ Cardinality(ToSee') <= Cardinality(ToSee) /\ Cardinality(ToSee') \in Int
        /\ Cardinality(Abandoned') + Cardinality(ToSee)
             <= Cardinality(Abandoned) + Cardinality(ToSee') + 1
        /\ Cardinality(Abandoned') \in Nat
    BY <1>1, <2>2, LeavingCounts, SetsFinite
  <2>5. QED
    BY <1>1, <2>1, <2>3, <2>4, SetsFinite, SumsTyped DEF SumsInv
<1>5. CASE up /\ Receive(c)
  <2>1. /\ Elsewhere(c) /\ at'[c] \in {"idle", "ready"}
        /\ at[c] = "waiting" /\ reply[c] # NoReply
    BY <1>5, ReceiveFrame
  <2>2. UNCHANGED givenUp
    BY <1>5 DEF Receive, history
  <2>3. /\ Cardinality(Uncounted') = Cardinality(Uncounted)
        /\ Cardinality(ToSee') = Cardinality(ToSee) - IF c \in ToSee THEN 1 ELSE 0
        /\ Cardinality(Abandoned') = Cardinality(Abandoned)
    BY <1>1, <2>1, LeavingCounts
  <2>4. c \in ToSee <=> Good(c)
    BY <2>1 DEF ToSee, Sure
  <2>5. CASE Good(c)
    <3>1. SumOf(Seen, Clients)' = SumOf(Seen, Clients) + 1
      BY <1>5, <2>1, <2>5, ReceiveGood, SeenOneMore
    <3>2. QED
      BY <1>1, <2>2, <2>3, <2>4, <2>5, <3>1, SetsFinite, SumsTyped DEF SumsInv
  <2>6. CASE ~Good(c)
    <3>1. stats'[c].requests.good = stats[c].requests.good
      <4>1. UNCHANGED <<names, serial>>
        BY <1>5 DEF Receive
      <4>2. QED
        BY <1>5, <2>6, <4>1, ReceiveBad, FailFrame
    <3>2. SumOf(Seen, Clients)' = SumOf(Seen, Clients)
      BY <2>1, <3>1, SeenSame DEF Elsewhere
    <3>3. QED
      BY <1>1, <2>2, <2>3, <2>4, <2>6, <3>2, SetsFinite, SumsTyped DEF SumsInv
  <2>7. QED
    BY <2>5, <2>6
<1>6. SendFails(c) => ~up
  BY DEF SendFails
<1>7. QED
  BY <1>2, <1>3, <1>4, <1>5, <1>6

LEMMA SumsFlush ==
    ASSUME TypesInv, HandlerInv, AskedInv, MetricsInv, ReadsFollow, SumsInv,
           NEW h \in handlers, Flush(h)
    PROVE  SumsInv'
<1>1. /\ UNCHANGED <<up, requestCount, at, step, names, serial, stats, arrived, givenUp>>
      /\ h.from \in Clients /\ handlers' = handlers \ {h} /\ h.pc = "flush"
      /\ \A c \in Clients : reply'[c] = IF c = h.from /\ Awaited(h) THEN h.code ELSE reply[c]
  BY FlushFrame
<1>2. AskedFor(h) /\ FitHandler(h)
  BY DEF AskedInv, HandlerInv
<1>3. Uncounted' = Uncounted
  BY <1>1 DEF Uncounted
<1>4. \A e \in handlers \ {h} : Current(e)' <=> Current(e)
  BY <1>1 DEF Current
<1>5. Abandoned' = Abandoned
  BY <1>1, <1>3, <1>4 DEF Abandoned, Uncounted
<1>6. ASSUME NEW c \in Clients PROVE Sure(c)' <=> Sure(c)
  <2>1. CASE c = h.from /\ Awaited(h)
    <3>1. /\ Current(h) /\ reply[c] = NoReply /\ reply'[c] = h.code /\ at[c] = "waiting"
          /\ h.verb = AskOf(c).verb /\ h.path = names[c][AskOf(c).name]
          /\ h.code # NoReply
      BY <1>1, <1>2, <2>1, AwaitedCurrent DEF AskedFor, Current, FitHandler, Answered
    <3>2. ~Good(c)
      BY <3>1, AskMethod, ExpectedMeans DEF Good
    <3>3. Sure(c) <=> Coming(h)
      <4>1. \A e \in handlers : e.from = c /\ Current(e) => e = h
        BY <2>1, <3>1, OneCurrent
      <4>2. QED
        BY <2>1, <3>1, <3>2, <4>1, SureMeans
    <3>4. Good(c)' <=> h.code = Expected(h.verb)
      BY <1>1, <3>1 DEF Good, AskOf
    <3>5. Sure(c)' <=> Good(c)'
      BY <1>1, <3>1 DEF Sure
    <3>6. h.path = MetricsPath => h.code # Expected(h.verb)
      <4>1. SUFFICES ASSUME h.path = MetricsPath PROVE h.code # Expected(h.verb)
        OBVIOUS
      <4>2. h.code = 200 /\ Busy(c)
        BY <1>1, <1>2, <3>1, <4>1 DEF FitHandler, Busy
      <4>3. Expected(AskOf(c).verb) # 200
        BY <3>1, <4>1, <4>2, NoScrapeHoped
      <4>4. QED
        BY <3>1, <4>2, <4>3
    <3>7. QED
      BY <1>1, <3>3, <3>4, <3>5, <3>6 DEF Coming
  <2>2. CASE ~(c = h.from /\ Awaited(h))
    <3>1. reply'[c] = reply[c]
      BY <1>1, <2>2
    <3>2. ~(h.from = c /\ Current(h))
      BY <1>2, <2>2, AwaitedCurrent DEF AskedFor
    <3>3. (\E e \in handlers' : e.from = c /\ Current(e)' /\ Coming(e))
            <=> \E e \in handlers : e.from = c /\ Current(e) /\ Coming(e)
      BY <1>1, <1>4, <3>2
    <3>4. (Good(c)' <=> Good(c)) /\ at'[c] = at[c]
      BY <1>1, <3>1 DEF Good, AskOf
    <3>5. QED
      BY <3>1, <3>3, <3>4, SureSame
  <2>3. QED
    BY <2>1, <2>2
<1>7. ToSee' = ToSee
  BY <1>6 DEF ToSee
<1>8. QED
  BY <1>1, <1>3, <1>5, <1>7, SumsKept

LEMMA CountLabel ==
    ASSUME TypesInv, NEW h \in handlers, CountRequest(h)
    PROVE  \E l \in Labels : /\ requestCount' = [requestCount EXCEPT ![l] = requestCount[l] + 1]
                             /\ l \in Successes <=> Success(h) \/ h.verb = "PATCH"
<1> DEFINE outcome == StatusOf(h)
           again == h.retries > 0
           l == <<h.verb, outcome, again>>
<1>1. h.verb \in Methods
  BY DEF TypesInv, TypeOK, Handlers
<1>2. requestCount' = [requestCount EXCEPT ![l] = requestCount[l] + 1]
  BY DEF CountRequest
<1>3. outcome \in {"success", "error", ""} /\ (outcome = "success" <=> Success(h))
  BY DEF StatusOf
<1>4. again \in BOOLEAN
  OBVIOUS
<1> HIDE DEF outcome, again
<1>5. l \in Labels
  BY <1>1, <1>3, <1>4 DEF Labels
<1>6. l[1] = h.verb /\ l[2] = outcome
  OBVIOUS
<1>7. l \in Successes <=> Success(h) \/ h.verb = "PATCH"
  BY <1>3, <1>5, <1>6 DEF Successes
<1> HIDE DEF l
<1>8. QED
  BY <1>2, <1>5, <1>7

LEMMA CountSums ==
    ASSUME TypesInv, NEW h \in handlers, CountRequest(h)
    PROVE  /\ SumOf(requestCount, Labels)' = SumOf(requestCount, Labels) + 1
           /\ SumOf(requestCount, Successes)' = SumOf(requestCount, Successes)
                + IF Success(h) \/ h.verb = "PATCH" THEN 1 ELSE 0
<1>1. PICK l \in Labels : /\ requestCount' = [requestCount EXCEPT ![l] = requestCount[l] + 1]
                          /\ l \in Successes <=> Success(h) \/ h.verb = "PATCH"
  BY CountLabel
<1>2. requestCount \in [Labels -> Nat] /\ Successes \subseteq Labels
  BY DEF TypesInv, TypeOK, Successes
<1>3. /\ \A k \in Labels : requestCount[k] \in Nat
      /\ \A k \in Labels \ {l} : requestCount'[k] = requestCount[k]
      /\ requestCount'[l] = requestCount[l] + 1
  BY <1>1, <1>2
<1>4. SumOf(requestCount', Labels) = SumOf(requestCount, Labels) + 1
  BY <1>3, LabelsFinite, SumGrows
<1>5. SumOf(requestCount', Successes) =
        SumOf(requestCount, Successes) + IF l \in Successes THEN 1 ELSE 0
  <2>1. /\ \A k \in Successes : requestCount[k] \in Nat
        /\ \A k \in Successes \ {l} : requestCount'[k] = requestCount[k]
    BY <1>2, <1>3
  <2>2. QED
    BY <1>3, <2>1, LabelsFinite, SumGrows
<1>6. Labels' = Labels /\ Successes' = Successes
  BY DEF Labels, Successes, Methods
<1>7. QED
  BY <1>1, <1>4, <1>5, <1>6

LEMMA SumsCount ==
    ASSUME TypesInv, HandlerInv, AskedInv, SumsInv, NEW h \in handlers, CountRequest(h)
    PROVE  SumsInv'
<1>1. PICK g : Turn(h, g) /\ Counted(h, g) /\ g.code = h.code
  BY CountTurns DEF Counting
<1>2. /\ h.pc = "count" /\ g.pc \in {"counted", "flush"}
      /\ UNCHANGED <<up, at, step, names, serial, reply, stats, arrived, givenUp>>
  BY <1>1, CountTurns DEF Counting, CountRequest, CountOne, Counted
<1>3. AskedFor(h) /\ FitHandler(h) /\ h.from \in Clients
  BY DEF AskedInv, HandlerInv, TypesInv, TypeOK, Handlers
<1>4. /\ h.path # MetricsPath /\ h \in Uncounted
      /\ h.code = Expected(h.verb) <=> Success(h) \/ h.verb = "PATCH"
  BY <1>2, <1>3 DEF FitHandler, Answered, Uncounted
<1>5. Uncounted' = Uncounted \ {h}
  BY <1>1, <1>2 DEF Uncounted, Turn
<1>6. \A e : Current(e)' <=> Current(e)
  BY <1>2 DEF Current
<1>7. Cardinality(Uncounted') = Cardinality(Uncounted) - 1
  BY <1>4, <1>5, SetsFinite, OneLess
<1>8. Cardinality(Abandoned') = Cardinality(Abandoned) - IF Current(h) THEN 0 ELSE 1
  <2>1. Abandoned' = Abandoned \ {h}
    BY <1>5, <1>6 DEF Abandoned
  <2>2. h \in Abandoned <=> ~Current(h)
    BY <1>4 DEF Abandoned
  <2>3. QED
    BY <2>1, <2>2, SetsFinite, OneLess
<1> DEFINE good == h.code = Expected(h.verb)
<1>9. /\ g.from = h.from /\ (Current(g) <=> Current(h))
      /\ handlers' = (handlers \ {h}) \cup {g}
      /\ ~Coming(h) /\ (Coming(g) <=> good)
  BY <1>1, <1>2, <1>4 DEF Turn, Current, Coming
<1>10. ASSUME NEW c \in Clients, ~(c = h.from /\ Current(h)) PROVE Sure(c)' <=> Sure(c)
  <2>1. (\E e \in handlers' : e.from = c /\ Current(e)' /\ Coming(e))
          <=> \E e \in handlers : e.from = c /\ Current(e) /\ Coming(e)
    BY <1>6, <1>9, <1>10
  <2>2. Good(c)' <=> Good(c)
    BY <1>2 DEF Good, AskOf
  <2>3. QED
    BY <1>2, <2>1, <2>2, SureSame
<1>11. ASSUME Current(h) PROVE ~Sure(h.from) /\ (Sure(h.from)' <=> good)
  <2>1. ~Sure(h.from) /\ ~Good(h.from) /\ reply[h.from] = NoReply
    BY <1>2, <1>11, NotYetSure
  <2>2. at[h.from] = "waiting"
    BY <1>11 DEF Current
  <2>3. ~Good(h.from)'
    BY <1>2, <2>1 DEF Good, AskOf
  <2>4. \A e \in handlers' : e.from = h.from /\ Current(e) => e = g
    BY <1>9, <1>11, OneCurrent
  <2>5. Sure(h.from)' <=> good
    BY <1>2, <1>6, <1>9, <1>11, <2>1, <2>2, <2>3, <2>4 DEF Sure, Coming
  <2>6. QED
    BY <2>1, <2>5
<1>12. Cardinality(ToSee') = Cardinality(ToSee) + IF Current(h) /\ good THEN 1 ELSE 0
  <2>1. CASE Current(h) /\ good
    <3>1. ToSee' = ToSee \cup {h.from} /\ h.from \notin ToSee
      BY <1>3, <1>10, <1>11, <2>1 DEF ToSee
    <3>2. QED
      BY <2>1, <3>1, SetsFinite, OneMore
  <2>2. CASE ~(Current(h) /\ good)
    <3>1. ToSee' = ToSee
      BY <1>3, <1>10, <1>11, <2>2 DEF ToSee
    <3>2. QED
      BY <2>2, <3>1, SetsFinite
  <2>3. QED
    BY <2>1, <2>2
<1>13. SumOf(Seen, Clients)' = SumOf(Seen, Clients)
  BY <1>2, SeenSame
<1>14. /\ SumOf(requestCount, Labels)' = SumOf(requestCount, Labels) + 1
       /\ SumOf(requestCount, Successes)' = SumOf(requestCount, Successes) + IF good THEN 1 ELSE 0
  BY <1>4, CountSums
<1> HIDE DEF good
<1>15. QED
  BY <1>2, <1>7, <1>8, <1>12, <1>13, <1>14, SetsFinite, SumsTyped DEF SumsInv

LEMMA SumsRetries ==
    ASSUME TypesInv, HandlerInv, AskedInv, SumsInv, NEW h \in handlers, CountRetries(h)
    PROVE  SumsInv'
<1>1. PICK g : Turn(h, g) /\ Counted(h, g) /\ g.code = h.code
  BY CountTurns DEF Counting
<1>2. /\ h.pc = "counted" /\ g.pc = "flush"
      /\ UNCHANGED <<up, requestCount, at, step, names, serial, reply, stats, arrived, givenUp>>
  BY <1>1, CountTurns DEF Counting, CountRetries, Counted
<1>3. Uncounted' = Uncounted
  BY <1>1, <1>2 DEF Uncounted, Turn
<1>4. \A e : Current(e)' <=> Current(e)
  BY <1>2 DEF Current
<1>5. Abandoned' = Abandoned
  BY <1>3, <1>4 DEF Abandoned
<1>6. /\ g.from = h.from /\ (Current(g) <=> Current(h)) /\ (Coming(g) <=> Coming(h))
      /\ handlers' = (handlers \ {h}) \cup {g}
  BY <1>1, <1>2 DEF Turn, Current, Coming
<1>7. ASSUME NEW c \in Clients PROVE Sure(c)' <=> Sure(c)
  <2>1. (\E e \in handlers' : e.from = c /\ Current(e)' /\ Coming(e))
          <=> \E e \in handlers : e.from = c /\ Current(e) /\ Coming(e)
    BY <1>4, <1>6
  <2>2. Good(c)' <=> Good(c)
    BY <1>2 DEF Good, AskOf
  <2>3. QED
    BY <1>2, <2>1, <2>2, SureSame
<1>8. ToSee' = ToSee
  BY <1>7 DEF ToSee
<1>9. QED
  BY <1>2, <1>3, <1>5, <1>8, SumsKept

LEMMA SumsInvStep ==
    ASSUME TypesInv, HandlerInv, HandlerInv', AskedInv, MetricsInv, ReadsFollow, SumsInv, Next
    PROVE  SumsInv'
<1>1. CASE MapRace
  BY <1>1 DEF MapRace, SumsInv
<1>2. CASE MapSpoiled \/ RemoteApplies
  BY <1>2, SumsStill DEF MapSpoiled, RemoteApplies, clientVars, history
<1>3. QED
  BY <1>1, <1>2, SumsClient, SumsSend, SumsServing, SumsCount, SumsRetries, SumsFlush
     DEF Next, Client, Handler, Serving

LEMMA CountsInit ==
    ASSUME Init
    PROVE  MetricsInv /\ SumsInv
<1>1. handlers = {} /\ \A c \in Clients : at[c] = "idle" /\ reply[c] = NoReply
  BY DEF Init
<1>2. MetricsInv
  BY <1>1 DEF MetricsInv, Unscraped, Busy
<1>3. Uncounted = {} /\ Abandoned = {} /\ ToSee = {}
  BY <1>1 DEF Uncounted, Abandoned, ToSee, Sure
<1>4. /\ SumOf(requestCount, Labels) = 0 /\ SumOf(requestCount, Successes) = 0
      /\ SumOf(Seen, Clients) = 0
  <2>1. ASSUME NEW S, IsFiniteSet(S), NEW f, \A x \in S : f[x] = 0
        PROVE  SumOf(f, S) = 0
    BY <2>1, SumZero
  <2>2. /\ \A l \in Labels : requestCount[l] = 0
        /\ \A c \in Clients : Seen[c] = 0
        /\ Successes \subseteq Labels
    BY DEF Init, Seen, Successes
  <2>3. QED
    BY <2>1, <2>2, LabelsFinite, ServerAssumption
<1>5. SumsInv
  BY <1>3, <1>4, FS_EmptySet DEF SumsInv, Init
<1>6. QED
  BY <1>2, <1>5

CountsInv == MetricsInv /\ (ReadsFollow => SumsInv)

LEMMA CountsStep ==
    TypesInv /\ RequestsInv /\ RequestsInv' /\ CountsInv /\ [Next]_vars => CountsInv'
<1> SUFFICES ASSUME TypesInv, RequestsInv, RequestsInv', CountsInv, [Next]_vars
             PROVE  CountsInv'
  OBVIOUS
<1>1. HandlerInv /\ HandlerInv' /\ AskedInv /\ MetricsInv /\ (ReadsFollow => SumsInv)
  BY DEF CountsInv, RequestsInv
<1>2. CASE Next
  <2>1. MetricsInv'
    BY <1>1, <1>2, MetricsInvStep
  <2>2. ReadsFollow => SumsInv'
    BY <1>1, <1>2, SumsInvStep
  <2>3. ReadsFollow' <=> ReadsFollow
    BY DEF ReadsFollow
  <2>4. QED
    BY <2>1, <2>2, <2>3 DEF CountsInv
<1>3. CASE UNCHANGED vars
  <2>1. UNCHANGED <<backend, up, data, strays, handlers, requestCount, at, step, names, serial,
                    reply, stats, arrived, givenUp, excused>>
    BY <1>3 DEF vars, serverVars, clientVars, history
  <2>2. MetricsInv'
    BY <1>1, <2>1 DEF MetricsInv, Unscraped, Busy, AskOf
  <2>3. ReadsFollow => SumsInv'
    BY <1>1, <2>1, SumsStill
  <2>4. ReadsFollow' <=> ReadsFollow
    BY DEF ReadsFollow
  <2>5. QED
    BY <2>2, <2>3, <2>4 DEF CountsInv
<1>4. QED
  BY <1>2, <1>3

LEMMA CountsInvariance == Spec => [](TypesInv /\ RequestsInv /\ CountsInv)
<1>1. Init => CountsInv
  BY CountsInit DEF CountsInv
<1>2. QED
  BY <1>1, CountsStep, RequestsInvariance, PTL DEF Spec

(* The inductive invariant holds in every reachable state, for all clients and *)
(* scripts; its part about the sums if the scripts read what they tried before. *)
THEOREM FullInvariance == Spec => []IInv
<1>1. TypesInv /\ RequestsInv /\ CountsInv /\ RetriesAreOfSuccesses => IInv
  BY DEF IInv, RequestsInv, CountsInv
<1>2. QED
  BY <1>1, CountsInvariance, RetriesAreOfSuccessesHolds, PTL

(* What the counters of the server say and what its clients have seen agree,  *)
(* whatever is in flight or lost with its client (server.go:34-66), if no     *)
(* script reads a name before it has tried something else there: a GET of    *)
(* /metrics succeeds and is not counted.                                     *)
THEOREM CountersAgreeHolds == ReadsFollow => (Spec => []CountersAgree)
<1>1. SUFFICES ASSUME ReadsFollow PROVE Spec => []CountersAgree
  OBVIOUS
<1>2. TypesInv /\ RequestsInv /\ CountsInv => CountersAgree
  <2>1. SUFFICES ASSUME TypesInv, HandlerInv, SumsInv PROVE CountersAgree
    BY <1>1 DEF CountsInv, RequestsInv
  <2> DEFINE waiting == {c \in Clients : at[c] = "waiting"}
  <2>2. IsFiniteSet(waiting) /\ ToSee \subseteq waiting
    <3>1. IsFiniteSet(Clients) /\ waiting \subseteq Clients
      BY ServerAssumption
    <3>2. QED
      BY <3>1, FS_Subset DEF ToSee, Sure
  <2> HIDE DEF waiting
  <2>3. Cardinality(ToSee) <= Cardinality(waiting) /\ Cardinality(waiting) \in Nat
    BY <2>2, FS_Subset, FS_CardinalityType
  <2>4. up => /\ SumOf(requestCount, Labels) + Cardinality(Uncounted) = arrived
              /\ SumOf(Seen, Clients) <= SumOf(requestCount, Successes)
              /\ SumOf(requestCount, Successes)
                   <= SumOf(Seen, Clients) + Cardinality(waiting) + givenUp
    BY <2>1, <2>3, SetsFinite, SumsTyped DEF SumsInv
  <2>5. QED
    BY <2>4 DEF CountersAgree, waiting
<1>3. QED
  BY <1>2, CountsInvariance, PTL
=============================================================================
