-------------------------- MODULE LeastCounterexample --------------------------
(***************************************************************************)
(* Facts that other proofs need and that are shown by a smallest            *)
(* counterexample: the branches of a tree of blocks, and sums over finite   *)
(* sets, which count bytes and USDC.                                        *)
(*                                                                          *)
(* MapThenSumSet is a recursive function on the subsets of its set.  That   *)
(* such a function exists, and what it computes, follows from the subset of *)
(* fewest elements for which it does not.                                   *)
(***************************************************************************)
EXTENDS FiniteSetsExt, FiniteSetTheorems, WellFoundedInduction, TLAPS

-----------------------------------------------------------------------------
(* Smallest counterexamples.                                                *)

LEMMA LeastNumber ==
  ASSUME NEW S \in SUBSET Nat, S # {}
  PROVE  \E n \in S : \A m \in S : n <= m
<1> DEFINE R == OpToRel(<, Nat)
<1>1. IsWellFoundedOn(R, Nat)
  BY NatLessThanWellFounded
<1> HIDE DEF R
<1>2. PICK n \in S : \A m \in S : <<m, n>> \notin R
  BY <1>1, WFMin
<1>3. ASSUME NEW m \in S, m < n PROVE FALSE
  <2>1. <<m, n>> \in R
    BY <1>3 DEF R, OpToRel
  <2> QED
    BY <1>2, <2>1
<1> QED
  BY <1>2, <1>3

(* One subset of a family has no element without which it is still in it.   *)
LEMMA MinimalSubset ==
  ASSUME NEW S, IsFiniteSet(S), NEW Bad \in SUBSET (SUBSET S), Bad # {}
  PROVE  \E s \in Bad : \A x \in s : s \ {x} \notin Bad
<1> DEFINE sizes == {Cardinality(s) : s \in Bad}
<1>1. \A s \in Bad : IsFiniteSet(s) /\ Cardinality(s) \in Nat
  <2> SUFFICES ASSUME NEW s \in Bad PROVE IsFiniteSet(s) /\ Cardinality(s) \in Nat
    OBVIOUS
  <2>1. IsFiniteSet(s)
    BY FS_Subset
  <2> QED
    BY <2>1, FS_CardinalityType
<1>2. PICK n \in sizes : \A m \in sizes : n <= m
  <2>1. sizes \in SUBSET Nat /\ sizes # {}
    BY <1>1
  <2> QED
    BY <2>1, LeastNumber
<1>3. PICK s \in Bad : n = Cardinality(s)
  OBVIOUS
<1>4. ASSUME NEW x \in s, s \ {x} \in Bad PROVE FALSE
  <2>1. Cardinality(s \ {x}) = Cardinality(s) - 1
    BY <1>1, FS_RemoveElement
  <2>2. n <= Cardinality(s \ {x})
    BY <1>2, <1>4
  <2>3. Cardinality(s) \in Nat
    BY <1>1
  <2> HIDE DEF sizes
  <2> QED
    BY <1>3, <2>1, <2>2, <2>3
<1> QED
  BY <1>3, <1>4

-----------------------------------------------------------------------------
(* Branches.                                                                *)

(* In a tree where each node's path is the node and its parent's path, a    *)
(* path holds the paths of its nodes and one node of each depth.            *)
LEMMA PathsNested ==
  ASSUME NEW Nodes, NEW Root \in Nodes,
         NEW Depth \in [Nodes -> Nat], NEW Up,
         NEW Path \in [Nodes -> SUBSET Nodes],
         Path[Root] = {Root}, Depth[Root] = 0,
         \A b \in Nodes \ {Root} :
           /\ Up[b] \in Nodes
           /\ Depth[b] = Depth[Up[b]] + 1
           /\ Path[b] = {b} \cup Path[Up[b]]
  PROVE  \A b \in Nodes :
           /\ \A x \in Path[b] : Path[x] \subseteq Path[b] /\ Depth[x] <= Depth[b]
           /\ \A x, y \in Path[b] : Depth[x] = Depth[y] => x = y
           /\ \A n \in 0..Depth[b] : \E x \in Path[b] : Depth[x] = n
<1> DEFINE Good(b) ==
             /\ \A x \in Path[b] : Path[x] \subseteq Path[b] /\ Depth[x] <= Depth[b]
             /\ \A x, y \in Path[b] : Depth[x] = Depth[y] => x = y
             /\ \A n \in 0..Depth[b] : \E x \in Path[b] : Depth[x] = n
           Bad == {b \in Nodes : ~Good(b)}
           depths == {Depth[b] : b \in Bad}
<1> SUFFICES ASSUME Bad # {} PROVE FALSE
  OBVIOUS
<1>1. PICK n \in depths : \A m \in depths : n <= m
  <2>1. depths \in SUBSET Nat /\ depths # {}
    OBVIOUS
  <2> HIDE DEF depths
  <2> QED
    BY <2>1, LeastNumber
<1>2. PICK b \in Bad : n = Depth[b]
  OBVIOUS
<1>3. b \in Nodes /\ ~Good(b)
  OBVIOUS
<1>4. ASSUME NEW a \in Nodes, Depth[a] < Depth[b] PROVE Good(a)
  <2>1. Depth[a] \in Nat /\ Depth[b] \in Nat
    BY <1>3
  <2>2. Depth[a] \notin depths
    <3> HIDE DEF depths, Bad
    <3> QED
      BY <1>1, <1>2, <1>4, <2>1
  <2> HIDE DEF Good
  <2> QED
    BY <2>2
<1>5. CASE b = Root
  BY <1>3, <1>5
<1>6. CASE b # Root
  <2> DEFINE a == Up[b]
  <2>1. /\ a \in Nodes /\ Depth[a] \in Nat
        /\ Depth[b] = Depth[a] + 1
        /\ Path[b] = {b} \cup Path[a]
    BY <1>3, <1>6
  <2> HIDE DEF a
  <2>2. Good(a)
    BY <1>4, <2>1
  <2>3. \A x \in Path[a] : Depth[x] <= Depth[a] /\ Depth[x] \in Nat
    BY <2>1, <2>2
  <2>4. \A x \in Path[b] : Path[x] \subseteq Path[b] /\ Depth[x] <= Depth[b]
    BY <2>1, <2>2, <2>3
  <2>5. \A x, y \in Path[b] : Depth[x] = Depth[y] => x = y
    BY <2>1, <2>2, <2>3
  <2>6. ASSUME NEW m \in 0..Depth[b] PROVE \E x \in Path[b] : Depth[x] = m
    <3>1. CASE m = Depth[b]
      BY <2>1, <3>1
    <3>2. CASE m # Depth[b]
      <4>1. m \in 0..Depth[a]
        BY <2>1, <3>2
      <4> QED
        BY <2>1, <2>2, <4>1
    <3> QED
      BY <3>1, <3>2
  <2> QED
    BY <1>3, <2>4, <2>5, <2>6
<1> QED
  BY <1>5, <1>6

-----------------------------------------------------------------------------
(* The recursive function.                                                  *)

SumOver(f, S) == MapThenSumSet(LAMBDA x : f[x], S)

Pick(s) == CHOOSE x \in s : TRUE

(* g sums f over every subset of S.                                         *)
Sums(f, S, g) ==
  g = [s \in SUBSET S |-> IF s = {} THEN 0 ELSE f[Pick(s)] + g[s \ {Pick(s)}]]

Agree(f, h, A) == \A x \in A : f[x] = h[x]

LEMMA AgreeItself == \A f, A : Agree(f, f, A)
  BY DEF Agree

LEMMA SumIsChosen ==
  ASSUME NEW f, NEW S
  PROVE  SumOver(f, S) = (CHOOSE g : Sums(f, S, g))[S]
BY DEF SumOver, MapThenSumSet, MapThenFoldSet, Sums, Pick

(* A sum, one element off.                                                  *)
LEMMA SumsStep ==
  ASSUME NEW f, NEW S, NEW g, Sums(f, S, g), NEW s \in SUBSET S
  PROVE  /\ g[s] = IF s = {} THEN 0 ELSE f[Pick(s)] + g[s \ {Pick(s)}]
         /\ s = {} => g[s] = 0
         /\ s # {} => /\ Pick(s) \in s
                      /\ g[s] = f[Pick(s)] + g[s \ {Pick(s)}]
BY DEF Sums, Pick

(* Functions that agree on a set have the same sum over it.                 *)
LEMMA SumsUnique ==
  ASSUME NEW A, IsFiniteSet(A), NEW f, NEW h, Agree(f, h, A),
         NEW S, A \in SUBSET S, NEW g, Sums(f, S, g),
         NEW T, A \in SUBSET T, NEW k, Sums(h, T, k)
  PROVE  g[A] = k[A]
<1> DEFINE Bad == {s \in SUBSET A : g[s] # k[s]}
<1> SUFFICES ASSUME Bad # {} PROVE FALSE
  <2>1. A \in SUBSET A
    OBVIOUS
  <2> QED
    BY <2>1
<1>1. PICK s \in Bad : \A x \in s : s \ {x} \notin Bad
  <2>1. Bad \in SUBSET (SUBSET A)
    OBVIOUS
  <2> HIDE DEF Bad
  <2> QED
    BY <2>1, MinimalSubset
<1>2. s \in SUBSET A /\ s \in SUBSET S /\ s \in SUBSET T /\ g[s] # k[s]
  OBVIOUS
<1>3. s # {}
  BY <1>2, SumsStep
<1>4. /\ Pick(s) \in s
      /\ g[s] = f[Pick(s)] + g[s \ {Pick(s)}]
      /\ k[s] = h[Pick(s)] + k[s \ {Pick(s)}]
  BY <1>2, <1>3, SumsStep
<1>5. g[s \ {Pick(s)}] = k[s \ {Pick(s)}]
  BY <1>1, <1>2, <1>4
<1>6. f[Pick(s)] = h[Pick(s)]
  BY <1>2, <1>4 DEF Agree
<1> QED
  BY <1>2, <1>4, <1>5, <1>6

(* A sum over a set sums over its subsets.                                  *)
LEMMA SumsRestrict ==
  ASSUME NEW f, NEW S, NEW g, Sums(f, S, g), NEW T \in SUBSET S
  PROVE  Sums(f, T, [s \in SUBSET T |-> g[s]])
<1> DEFINE k == [s \in SUBSET T |-> g[s]]
<1>1. ASSUME NEW s \in SUBSET T
      PROVE  k[s] = IF s = {} THEN 0 ELSE f[Pick(s)] + k[s \ {Pick(s)}]
  <2>1. s \in SUBSET S /\ s \ {Pick(s)} \in SUBSET T
    OBVIOUS
  <2>2. k[s] = g[s] /\ k[s \ {Pick(s)}] = g[s \ {Pick(s)}]
    BY <2>1
  <2> HIDE DEF k
  <2>3. g[s] = IF s = {} THEN 0 ELSE f[Pick(s)] + g[s \ {Pick(s)}]
    BY <2>1, SumsStep
  <2> QED
    BY <2>2, <2>3
<1> HIDE DEF k
<1>2. k = [s \in SUBSET T |-> k[s]]
  BY DEF k
<1>3. k = [s \in SUBSET T |->
             IF s = {} THEN 0 ELSE f[Pick(s)] + k[s \ {Pick(s)}]]
  BY <1>1, <1>2
<1> QED
  BY <1>3 DEF Sums, k

(* The recursion defines a function on every finite set: on a smallest set  *)
(* without one, the functions of its smaller subsets would make one.        *)
LEMMA SumsExist ==
  ASSUME NEW f, NEW S, IsFiniteSet(S)
  PROVE  \E g : Sums(f, S, g)
<1> DEFINE Bad == {T \in SUBSET S : ~ \E g : Sums(f, T, g)}
<1> SUFFICES ASSUME Bad # {} PROVE FALSE
  OBVIOUS
<1>1. PICK T \in Bad : \A x \in T : T \ {x} \notin Bad
  <2>1. Bad \in SUBSET (SUBSET S)
    OBVIOUS
  <2> HIDE DEF Bad
  <2> QED
    BY <2>1, MinimalSubset
<1> DEFINE h(u) == CHOOSE g : Sums(f, u, g)
<1>2. ASSUME NEW u \in SUBSET T, u # T
      PROVE  Sums(f, u, h(u)) /\ IsFiniteSet(u)
  <2>1. PICK x \in T : x \notin u
    BY <1>2
  <2>2. T \ {x} \in SUBSET S /\ T \ {x} \notin Bad
    BY <1>1
  <2>3. PICK g : Sums(f, T \ {x}, g)
    BY <2>2
  <2>4. u \in SUBSET (T \ {x})
    BY <2>1
  <2>5. \E k : Sums(f, u, k)
    BY <2>3, <2>4, SumsRestrict
  <2>6. u \in SUBSET S
    OBVIOUS
  <2> QED
    BY <2>5, <2>6, FS_Subset
<1> DEFINE rest(s) == s \ {Pick(s)}
           G == [s \in SUBSET T |->
                   IF s = {} THEN 0 ELSE f[Pick(s)] + h(rest(s))[rest(s)]]
<1>3. ASSUME NEW s \in SUBSET T, s # {}
      PROVE  Pick(s) \in s /\ rest(s) \in SUBSET T /\ rest(s) # T
  BY <1>3 DEF Pick
<1>4. ASSUME NEW u \in SUBSET T, u # T
      PROVE  G[u] = h(u)[u]
  <2> HIDE DEF h
  <2>1. Sums(f, u, h(u)) /\ IsFiniteSet(u) /\ u \in SUBSET u
    BY <1>2, <1>4
  <2>2. CASE u = {}
    BY <2>1, <2>2, SumsStep
  <2>3. CASE u # {}
    <3>1. /\ Pick(u) \in u
          /\ h(u)[u] = f[Pick(u)] + h(u)[rest(u)]
      BY <2>1, <2>3, SumsStep
    <3>2. rest(u) \in SUBSET T /\ rest(u) # T /\ rest(u) \subseteq u
      BY <1>3, <2>3
    <3> HIDE DEF rest
    <3>3. Sums(f, rest(u), h(rest(u))) /\ IsFiniteSet(rest(u))
      BY <1>2, <3>2
    <3>4. rest(u) \in SUBSET u /\ rest(u) \in SUBSET rest(u)
      BY <3>2
    <3>5. h(u)[rest(u)] = h(rest(u))[rest(u)]
      BY <2>1, <3>3, <3>4, AgreeItself, SumsUnique
    <3>6. G[u] = f[Pick(u)] + h(rest(u))[rest(u)]
      BY <2>3
    <3> QED
      BY <3>1, <3>5, <3>6
  <2> QED
    BY <2>2, <2>3
<1>5. ASSUME NEW s \in SUBSET T
      PROVE  G[s] = IF s = {} THEN 0 ELSE f[Pick(s)] + G[rest(s)]
  <2>1. s # {} => G[rest(s)] = h(rest(s))[rest(s)]
    <3> HIDE DEF G, h
    <3> QED
      BY <1>3, <1>4
  <2> QED
    BY <2>1
<1> HIDE DEF h, G
<1>6. G = [s \in SUBSET T |-> G[s]]
  BY DEF G
<1>7. G = [s \in SUBSET T |->
             IF s = {} THEN 0 ELSE f[Pick(s)] + G[s \ {Pick(s)}]]
  BY <1>5, <1>6
<1>8. Sums(f, T, G)
  BY <1>7 DEF Sums
<1> QED
  BY <1>1, <1>8

-----------------------------------------------------------------------------
(* Sums of natural numbers.                                                 *)

(* The sum over a set is the one that any sum over a larger set gives it.   *)
LEMMA SumOverIs ==
  ASSUME NEW f, NEW S, IsFiniteSet(S), NEW T, S \in SUBSET T,
         NEW g, Sums(f, T, g)
  PROVE  SumOver(f, S) = g[S]
<1> DEFINE k == CHOOSE h : Sums(f, S, h)
<1>1. SumOver(f, S) = k[S]
  BY SumIsChosen
<1>2. Sums(f, S, k)
  BY SumsExist
<1> HIDE DEF k
<1>3. S \in SUBSET S
  OBVIOUS
<1>4. k[S] = g[S]
  BY <1>2, <1>3, AgreeItself, SumsUnique
<1> QED
  BY <1>1, <1>4

(* Nothing sums to 0.                                                       *)
LEMMA SumEmpty == ASSUME NEW f PROVE SumOver(f, {}) = 0
<1>1. IsFiniteSet({})
  BY FS_EmptySet
<1>2. PICK g : Sums(f, {}, g)
  BY <1>1, SumsExist
<1>3. {} \in SUBSET {}
  OBVIOUS
<1>4. SumOver(f, {}) = g[{}]
  BY <1>1, <1>2, <1>3, SumOverIs
<1>5. g[{}] = 0
  BY <1>2, <1>3, SumsStep
<1> QED
  BY <1>4, <1>5

(* Natural numbers sum to a natural number.                                 *)
LEMMA SumType ==
  ASSUME NEW f, NEW S, IsFiniteSet(S), \A x \in S : f[x] \in Nat
  PROVE  SumOver(f, S) \in Nat
<1>1. PICK g : Sums(f, S, g)
  BY SumsExist
<1> DEFINE Bad == {s \in SUBSET S : g[s] \notin Nat}
<1>2. Bad = {}
  <2> SUFFICES ASSUME Bad # {} PROVE FALSE
    OBVIOUS
  <2>1. PICK s \in Bad : \A x \in s : s \ {x} \notin Bad
    <3>1. Bad \in SUBSET (SUBSET S)
      OBVIOUS
    <3> HIDE DEF Bad
    <3> QED
      BY <3>1, MinimalSubset
  <2>2. CASE s = {}
    <3>1. s \in SUBSET S /\ g[s] \notin Nat
      OBVIOUS
    <3>2. g[s] = 0
      BY <1>1, <2>2, <3>1, SumsStep
    <3> QED
      BY <3>1, <3>2
  <2>3. CASE s # {}
    <3>1. Pick(s) \in s /\ g[s] = f[Pick(s)] + g[s \ {Pick(s)}]
      BY <1>1, <2>3, SumsStep
    <3>2. g[s \ {Pick(s)}] \in Nat /\ f[Pick(s)] \in Nat
      BY <2>1, <3>1
    <3> QED
      BY <3>1, <3>2
  <2> QED
    BY <2>2, <2>3
<1>3. S \in SUBSET S
  OBVIOUS
<1>4. g[S] \in Nat
  BY <1>2, <1>3
<1> QED
  BY <1>1, <1>3, <1>4, SumOverIs

(* Functions that agree on a set have the same sum.                         *)
LEMMA SumSame ==
  ASSUME NEW f, NEW h, NEW S, IsFiniteSet(S), Agree(f, h, S)
  PROVE  SumOver(f, S) = SumOver(h, S)
<1>1. PICK g : Sums(f, S, g)
  BY SumsExist
<1>2. PICK k : Sums(h, S, k)
  BY SumsExist
<1>3. S \in SUBSET S
  OBVIOUS
<1>4. g[S] = k[S]
  BY <1>1, <1>2, <1>3, SumsUnique
<1>5. SumOver(f, S) = g[S]
  BY <1>1, <1>3, SumOverIs
<1>6. SumOver(h, S) = k[S]
  BY <1>2, <1>3, SumOverIs
<1> QED
  BY <1>4, <1>5, <1>6

(* Whichever element is taken out, the rest sums to the difference: the     *)
(* order of the summands does not matter.                                   *)
LEMMA SumTakeOut ==
  ASSUME NEW f, NEW S, IsFiniteSet(S), \A x \in S : f[x] \in Nat, NEW y \in S
  PROVE  SumOver(f, S) = f[y] + SumOver(f, S \ {y})
<1>1. PICK g : Sums(f, S, g)
  BY SumsExist
<1>2. \A s \in SUBSET S : g[s] \in Nat
  <2> SUFFICES ASSUME NEW s \in SUBSET S PROVE g[s] \in Nat
    OBVIOUS
  <2>1. IsFiniteSet(s)
    BY FS_Subset
  <2>2. SumOver(f, s) \in Nat
    BY <2>1, SumType
  <2>3. SumOver(f, s) = g[s]
    BY <1>1, <2>1, SumOverIs
  <2> QED
    BY <2>2, <2>3
<1> DEFINE Bad == {s \in SUBSET S : \E x \in s : g[s] # f[x] + g[s \ {x}]}
<1>3. Bad = {}
  <2> SUFFICES ASSUME Bad # {} PROVE FALSE
    OBVIOUS
  <2>1. PICK s \in Bad : \A x \in s : s \ {x} \notin Bad
    <3>1. Bad \in SUBSET (SUBSET S)
      OBVIOUS
    <3> HIDE DEF Bad
    <3> QED
      BY <3>1, MinimalSubset
  <2>2. PICK x \in s : g[s] # f[x] + g[s \ {x}]
    OBVIOUS
  <2> DEFINE p == Pick(s)
  <2>3. s \in SUBSET S /\ p \in s /\ g[s] = f[p] + g[s \ {p}]
    <3>1. s \in SUBSET S /\ s # {}
      OBVIOUS
    <3> HIDE DEF Bad
    <3> QED
      BY <1>1, <3>1, SumsStep
  <2>4. p # x
    BY <2>2, <2>3
  <2>5. s \ {p} \notin Bad /\ s \ {x} \notin Bad
    BY <2>1, <2>3
  <2> HIDE DEF p
  <2>6. g[s \ {p}] = f[x] + g[(s \ {p}) \ {x}]
    BY <2>3, <2>4, <2>5
  <2>7. g[s \ {x}] = f[p] + g[(s \ {x}) \ {p}]
    BY <2>3, <2>4, <2>5
  <2>8. (s \ {p}) \ {x} = (s \ {x}) \ {p}
    OBVIOUS
  <2>9. /\ f[x] \in Nat /\ f[p] \in Nat
        /\ g[(s \ {x}) \ {p}] \in Nat
    BY <1>2, <2>3
  <2>10. PICK w \in Nat : g[s \ {p}] = f[x] + w /\ g[s \ {x}] = f[p] + w
    BY <2>6, <2>7, <2>8, <2>9
  <2> HIDE DEF Bad
  <2>11. g[s] = f[p] + (f[x] + w) /\ g[s] # f[x] + (f[p] + w)
    BY <2>2, <2>3, <2>10
  <2> QED
    BY <2>9, <2>11
<1>4. S \in SUBSET S /\ S \ {y} \in SUBSET S /\ IsFiniteSet(S \ {y})
  BY FS_Subset
<1>5. g[S] = f[y] + g[S \ {y}]
  BY <1>3, <1>4
<1>6. SumOver(f, S) = g[S]
  BY <1>1, <1>4, SumOverIs
<1>7. SumOver(f, S \ {y}) = g[S \ {y}]
  BY <1>1, <1>4, SumOverIs
<1> QED
  BY <1>5, <1>6, <1>7

(* One element more.                                                        *)
LEMMA SumAdd ==
  ASSUME NEW f, NEW S, IsFiniteSet(S), NEW y, y \notin S,
         \A x \in S \cup {y} : f[x] \in Nat
  PROVE  /\ IsFiniteSet(S \cup {y})
         /\ SumOver(f, S \cup {y}) = f[y] + SumOver(f, S)
<1> DEFINE T == S \cup {y}
<1>1. IsFiniteSet(T)
  BY FS_AddElement
<1>2. T \ {y} = S /\ y \in T
  OBVIOUS
<1>3. \A x \in T : f[x] \in Nat
  OBVIOUS
<1> HIDE DEF T
<1>4. SumOver(f, T) = f[y] + SumOver(f, T \ {y})
  BY <1>1, <1>2, <1>3, SumTakeOut
<1> QED
  BY <1>1, <1>2, <1>4 DEF T

(* A subset sums to no more.                                                *)
LEMMA SumMonotone ==
  ASSUME NEW f, NEW S, IsFiniteSet(S), \A x \in S : f[x] \in Nat,
         NEW T \in SUBSET S
  PROVE  SumOver(f, T) <= SumOver(f, S)
<1> DEFINE Bad == {u \in SUBSET (S \ T) : SumOver(f, T) > SumOver(f, T \cup u)}
<1>1. IsFiniteSet(T) /\ IsFiniteSet(S \ T)
  BY FS_Subset, FS_Difference
<1>2. Bad = {}
  <2> SUFFICES ASSUME Bad # {} PROVE FALSE
    OBVIOUS
  <2>1. PICK u \in Bad : \A x \in u : u \ {x} \notin Bad
    <3>1. Bad \in SUBSET (SUBSET (S \ T))
      OBVIOUS
    <3> HIDE DEF Bad
    <3> QED
      BY <1>1, <3>1, MinimalSubset
  <2>2. u \in SUBSET (S \ T) /\ SumOver(f, T) > SumOver(f, T \cup u)
    OBVIOUS
  <2>3. SumOver(f, T) \in Nat
    BY <1>1, SumType
  <2>4. PICK x \in u : TRUE
    <3>1. u # {}
      <4> SUFFICES ASSUME u = {} PROVE FALSE
        OBVIOUS
      <4>1. T \cup u = T
        OBVIOUS
      <4> HIDE DEF Bad
      <4> QED
        BY <2>2, <2>3, <4>1
    <3> QED
      BY <3>1
  <2> DEFINE v == T \cup (u \ {x})
  <2>5. u \ {x} \in SUBSET (S \ T) /\ u \ {x} \notin Bad
    BY <2>1, <2>2
  <2>6. ~ (SumOver(f, T) > SumOver(f, v))
    BY <2>5
  <2>7. IsFiniteSet(v) /\ x \notin v /\ v \cup {x} = T \cup u
        /\ \A y \in v \cup {x} : f[y] \in Nat
    <3>1. v \in SUBSET S
      BY <2>2
    <3> QED
      BY <2>2, <3>1, FS_Subset
  <2> HIDE DEF v, Bad
  <2>8. SumOver(f, T \cup u) = f[x] + SumOver(f, v)
    BY <2>7, SumAdd
  <2>9. SumOver(f, v) \in Nat /\ f[x] \in Nat
    BY <2>7, SumType
  <2> QED
    BY <2>2, <2>3, <2>6, <2>8, <2>9
<1>3. S \ T \in SUBSET (S \ T) /\ T \cup (S \ T) = S
  OBVIOUS
<1>4. ~ (SumOver(f, T) > SumOver(f, S))
  BY <1>2, <1>3
<1>5. SumOver(f, T) \in Nat /\ SumOver(f, S) \in Nat
  BY <1>1, SumType
<1> QED
  BY <1>4, <1>5

=============================================================================
