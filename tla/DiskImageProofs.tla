---------------------------- MODULE DiskImageProofs ----------------------------
(***************************************************************************)
(* Proofs about the host tool, for every set of files, every order of the  *)
(* host's failures and any number of runs: what the emulator is given is a *)
(* whole image, a failure leaves the previous image alone until every file *)
(* is on the volume, and the volume is too small only if its own           *)
(* structures, directories and cluster ends need more than the slack.      *)
(***************************************************************************)
EXTENDS DiskImage, FiniteSetTheorems, WellFoundedInduction, TLAPS

LEMMA LeastNatural ==
  ASSUME NEW T, T \subseteq Nat, T # {}
  PROVE  \E x \in T : \A y \in T : x <= y
<1>1. PICK x \in T : \A y \in T : ~(<<y, x>> \in OpToRel(<, Nat))
  BY NatLessThanWellFounded, WFMin
<1>2. \A y \in T : ~(y < x)
  BY <1>1 DEF OpToRel
<1> QED
  BY <1>2

-----------------------------------------------------------------------------
(***************************************************************************)
(* Sums.  SumFunctionOnSet is a recursive function on the subsets of a     *)
(* finite set; that there is one, and that it is one, is proved by the     *)
(* least size of a subset for which it is not so.                          *)
(***************************************************************************)
Pick(s) == CHOOSE x \in s : TRUE

Body(f, g, s) == IF s = {} THEN 0 ELSE f[Pick(s)] + g[s \ {Pick(s)}]

IsSum(g, f, S) == g = [s \in SUBSET S |-> Body(f, g, s)]

Small(S, n) == {s \in SUBSET S : Cardinality(s) <= n}

LEMMA PickIn == ASSUME NEW s, s # {} PROVE Pick(s) \in s
BY DEF Pick

LEMMA Smaller ==
  ASSUME NEW S, IsFiniteSet(S), NEW s \in SUBSET S, NEW x \in s
  PROVE  /\ IsFiniteSet(s) /\ Cardinality(s) \in Nat /\ s \ {x} \in SUBSET S
         /\ Cardinality(s) > 0 /\ Cardinality(s \ {x}) = Cardinality(s) - 1
<1>1. IsFiniteSet(s)
  BY FS_Subset
<1>2. Cardinality(s) \in Nat /\ Cardinality(s \ {x}) = Cardinality(s) - 1
  BY <1>1, FS_CardinalityType, FS_RemoveElement
<1>3. Cardinality(s) # 0
  BY <1>1, FS_EmptySet
<1> QED
  BY <1>1, <1>2, <1>3

LEMMA SumExists ==
  ASSUME NEW f, NEW S, IsFiniteSet(S)
  PROVE  \E g : g = [s \in SUBSET S |-> Body(f, g, s)]
<1> DEFINE B == {n \in Nat : ~ \E g : g = [s \in Small(S, n) |-> Body(f, g, s)]}
<1>1. B = {}
  <2> SUFFICES ASSUME B # {} PROVE FALSE
    OBVIOUS
  <2>1. PICK n \in B : \A m \in B : n <= m
    BY LeastNatural
  <2>2. CASE n = 0
    <3> DEFINE g == [s \in Small(S, 0) |-> 0]
    <3>1. \A s \in Small(S, 0) : s = {}
      <4> SUFFICES ASSUME NEW s \in Small(S, 0), s # {} PROVE FALSE
        OBVIOUS
      <4>1. s \in SUBSET S /\ Cardinality(s) <= 0 /\ Pick(s) \in s
        BY PickIn DEF Small
      <4>2. Cardinality(s) \in Nat /\ Cardinality(s) > 0
        BY <4>1, Smaller
      <4> QED
        BY <4>1, <4>2
    <3>2. g = [s \in Small(S, 0) |-> Body(f, g, s)]
      BY <3>1 DEF Body
    <3> QED
      BY <2>2, <3>2
  <2>3. CASE n # 0
    <3>1. n \in Nat /\ n - 1 \in Nat /\ ~(n <= n - 1)
      BY <2>3
    <3>2. PICK h : h = [s \in Small(S, n - 1) |-> Body(f, h, s)]
      BY <2>1, <3>1
    <3> DEFINE g == [s \in Small(S, n) |-> Body(f, h, s)]
    <3>5. g = [s \in Small(S, n) |-> Body(f, h, s)]
      OBVIOUS
    <3> HIDE DEF g
    <3>3. \A s \in Small(S, n) : Body(f, g, s) = Body(f, h, s)
      <4> SUFFICES ASSUME NEW s \in Small(S, n), s # {} PROVE g[s \ {Pick(s)}] = h[s \ {Pick(s)}]
        BY DEF Body
      <4> DEFINE t == s \ {Pick(s)}
      <4>1. s \in SUBSET S /\ Cardinality(s) <= n /\ Pick(s) \in s
        BY PickIn DEF Small
      <4>2. t \in SUBSET S /\ Cardinality(t) <= n - 1 /\ Cardinality(t) <= n
        BY <3>1, <4>1, Smaller
      <4> HIDE DEF t
      <4>3. t \in Small(S, n) /\ t \in Small(S, n - 1)
        BY <4>2 DEF Small
      <4>4. h[t] = Body(f, h, t)
        BY <3>2, <4>3
      <4> QED
        BY <3>5, <4>3, <4>4 DEF t
    <3>4. g = [s \in Small(S, n) |-> Body(f, g, s)]
      BY <3>3, <3>5
    <3> QED
      BY <3>4
  <2> QED
    BY <2>2, <2>3
<1>2. Cardinality(S) \in Nat /\ \A s \in SUBSET S : Cardinality(s) <= Cardinality(S)
  BY FS_CardinalityType, FS_Subset
<1>3. Small(S, Cardinality(S)) = SUBSET S
  BY <1>2 DEF Small
<1>4. \E g : g = [s \in Small(S, Cardinality(S)) |-> Body(f, g, s)]
  BY <1>1, <1>2
<1> QED
  BY <1>3, <1>4

\* It is the same whatever set it is taken on.
LEMMA SumUnique ==
  ASSUME NEW f, NEW S, IsFiniteSet(S), NEW T \in SUBSET S,
         NEW g, IsSum(g, f, S), NEW h, IsSum(h, f, T)
  PROVE  \A s \in SUBSET T : g[s] = h[s]
<1> USE DEF IsSum
<1> DEFINE B == {n \in Nat : \E s \in SUBSET T : Cardinality(s) = n /\ g[s] # h[s]}
<1>1. B = {}
  <2> SUFFICES ASSUME B # {} PROVE FALSE
    OBVIOUS
  <2>1. PICK n \in B : \A m \in B : n <= m
    BY LeastNatural
  <2>2. PICK s \in SUBSET T : Cardinality(s) = n /\ g[s] # h[s]
    BY <2>1
  <2>3. s \in SUBSET S /\ g[s] = Body(f, g, s) /\ h[s] = Body(f, h, s)
    <3>1. s \in SUBSET S
      OBVIOUS
    <3> QED
      BY <3>1
  <2>4. s # {} /\ Pick(s) \in s
    BY <2>2, <2>3, PickIn DEF Body
  <2> DEFINE t == s \ {Pick(s)}
  <2>5. t \in SUBSET T /\ Cardinality(t) = n - 1 /\ n - 1 \in Nat /\ n \in Nat
    BY <2>2, <2>3, <2>4, Smaller
  <2>6. n - 1 \notin B
    <3> HIDE DEF B, t
    <3>1. ~(n <= n - 1)
      BY <2>5
    <3> QED
      BY <2>1, <3>1
  <2>7. g[t] = h[t]
    BY <2>5, <2>6
  <2> QED
    BY <2>2, <2>3, <2>4, <2>7 DEF Body
<1>2. \A s \in SUBSET T : Cardinality(s) \in Nat
  BY FS_Subset, FS_CardinalityType
<1> QED
  BY <1>1, <1>2

LEMMA SumChosen ==
  ASSUME NEW f, NEW S, IsFiniteSet(S)
  PROVE  \E g : IsSum(g, f, S) /\ SumFunctionOnSet(f, S) = g[S]
<1> DEFINE g == CHOOSE g : g = [s \in SUBSET S |-> IF s = {} THEN 0
                                  ELSE f[CHOOSE x \in s : TRUE] + g[s \ {CHOOSE x \in s : TRUE}]]
<1>1. SumFunctionOnSet(f, S) = g[S]
  BY DEF SumFunctionOnSet, FoldFunctionOnSet, MapThenFoldSet
<1>2. \E k : k = [s \in SUBSET S |-> IF s = {} THEN 0
                                  ELSE f[CHOOSE x \in s : TRUE] + k[s \ {CHOOSE x \in s : TRUE}]]
  <2>1. PICK k : k = [s \in SUBSET S |-> Body(f, k, s)]
    BY SumExists
  <2>2. k = [s \in SUBSET S |-> IF s = {} THEN 0
                                  ELSE f[CHOOSE x \in s : TRUE] + k[s \ {CHOOSE x \in s : TRUE}]]
    BY <2>1 DEF Body, Pick
  <2> QED
    BY <2>2
<1>3. g = [s \in SUBSET S |-> IF s = {} THEN 0
                                  ELSE f[CHOOSE x \in s : TRUE] + g[s \ {CHOOSE x \in s : TRUE}]]
  BY <1>2
<1>4. IsSum(g, f, S)
  BY <1>3 DEF Body, Pick, IsSum
<1> QED
  BY <1>1, <1>4

Sum(f, S) == SumFunctionOnSet(f, S)

\* A sum with one element taken out, the one that CHOOSE takes first.
LEMMA SumPick ==
  ASSUME NEW f, NEW S, IsFiniteSet(S)
  PROVE  Sum(f, S) = IF S = {} THEN 0 ELSE f[Pick(S)] + Sum(f, S \ {Pick(S)})
<1>1. PICK g : IsSum(g, f, S) /\ Sum(f, S) = g[S]
  BY SumChosen DEF Sum
<1>2. g[S] = Body(f, g, S)
  BY <1>1 DEF IsSum
<1>3. CASE S = {}
  BY <1>1, <1>2, <1>3 DEF Body
<1>4. CASE S # {}
  <2> DEFINE T == S \ {Pick(S)}
  <2>1. IsFiniteSet(T) /\ T \in SUBSET S
    BY FS_Subset
  <2>2. PICK h : IsSum(h, f, T) /\ Sum(f, T) = h[T]
    BY <2>1, SumChosen DEF Sum
  <2>3. g[T] = h[T]
    <3> HIDE DEF T
    <3>1. \A s \in SUBSET T : g[s] = h[s]
      BY <1>1, <2>1, <2>2, SumUnique
    <3> QED
      BY <3>1
  <2> QED
    BY <1>1, <1>2, <1>4, <2>2, <2>3 DEF Body
<1> QED
  BY <1>3, <1>4

LEMMA SubsetInduction ==
  ASSUME NEW S, IsFiniteSet(S), NEW G, {} \in G,
         \A s \in SUBSET S : s # {} /\ (\A x \in s : s \ {x} \in G) => s \in G
  PROVE  \A s \in SUBSET S : s \in G
<1> DEFINE B == {n \in Nat : \E s \in SUBSET S : Cardinality(s) = n /\ s \notin G}
<1>1. B = {}
  <2> SUFFICES ASSUME B # {} PROVE FALSE
    OBVIOUS
  <2>1. PICK n \in B : \A m \in B : n <= m
    BY LeastNatural
  <2>2. PICK s \in SUBSET S : Cardinality(s) = n /\ s \notin G
    BY <2>1
  <2>3. s # {}
    BY <2>2
  <2>4. PICK x \in s : s \ {x} \notin G
    BY <2>2, <2>3
  <2> DEFINE t == s \ {x}
  <2>7. Cardinality(t) = Cardinality(s) - 1 /\ Cardinality(s) > 0 /\ Cardinality(s) \in Nat
    BY Smaller
  <2>5. t \in SUBSET S /\ Cardinality(t) = n - 1 /\ n - 1 \in Nat /\ n \in Nat
    BY <2>2, <2>7
  <2>6. n - 1 \in B
    BY <2>4, <2>5
  <2> HIDE DEF B, t
  <2> QED
    BY <2>1, <2>5, <2>6
<1>2. \A s \in SUBSET S : Cardinality(s) \in Nat
  BY FS_Subset, FS_CardinalityType
<1> QED
  BY <1>1, <1>2

Counts(f, S) == IsFiniteSet(S) /\ \A x \in S : f[x] \in Nat

LEMMA SumEmpty ==
  ASSUME NEW f
  PROVE  Sum(f, {}) = 0
<1>1. IsFiniteSet({})
  BY FS_EmptySet
<1> QED
  BY <1>1, SumPick

LEMMA SumNat ==
  ASSUME NEW f, NEW S, Counts(f, S)
  PROVE  Sum(f, S) \in Nat
<1> DEFINE G == {s \in SUBSET S : Sum(f, s) \in Nat}
<1>0. IsFiniteSet(S) /\ \A x \in S : f[x] \in Nat
  BY DEF Counts
<1>1. {} \in G
  BY SumEmpty
<1>2. ASSUME NEW s \in SUBSET S, s # {}, \A x \in s : s \ {x} \in G
      PROVE  s \in G
  <2>1. Pick(s) \in s /\ IsFiniteSet(s)
    BY <1>0, <1>2, PickIn, FS_Subset
  <2>2. Sum(f, s) = f[Pick(s)] + Sum(f, s \ {Pick(s)})
    BY <1>2, <2>1, SumPick
  <2>3. f[Pick(s)] \in Nat /\ Sum(f, s \ {Pick(s)}) \in Nat
    BY <1>0, <1>2, <2>1
  <2> QED
    BY <2>2, <2>3
<1> HIDE DEF G
<1>3. \A s \in SUBSET S : s # {} /\ (\A x \in s : s \ {x} \in G) => s \in G
  BY <1>2
<1>4. IsFiniteSet(S)
  BY <1>0
<1>5. S \in G
  BY <1>1, <1>3, <1>4, SubsetInduction
<1> QED
  BY <1>5 DEF G

LEMMA CountsSubset ==
  ASSUME NEW f, NEW S, Counts(f, S), NEW T \in SUBSET S
  PROVE  Counts(f, T)
BY FS_Subset DEF Counts

\* A sum does not depend on the order of its terms.
LEMMA SumTake ==
  ASSUME NEW f, NEW S, Counts(f, S), NEW y \in S
  PROVE  Sum(f, S) = f[y] + Sum(f, S \ {y})
<1> DEFINE G == {s \in SUBSET S : \A x \in s : Sum(f, s) = f[x] + Sum(f, s \ {x})}
<1>0. IsFiniteSet(S) /\ \A x \in S : f[x] \in Nat
  BY DEF Counts
<1>1. {} \in G
  OBVIOUS
<1>2. ASSUME NEW s \in SUBSET S, s # {}, \A x \in s : s \ {x} \in G
      PROVE  s \in G
  <2> SUFFICES ASSUME NEW x \in s PROVE Sum(f, s) = f[x] + Sum(f, s \ {x})
    OBVIOUS
  <2> DEFINE p == Pick(s)
  <2>1. p \in s /\ IsFiniteSet(s)
    BY <1>0, <1>2, PickIn, FS_Subset
  <2>2. Sum(f, s) = f[p] + Sum(f, s \ {p})
    BY <1>2, <2>1, SumPick
  <2> HIDE DEF p
  <2>3. CASE p = x
    BY <2>2, <2>3
  <2>4. CASE p # x
    <3>1. Sum(f, s \ {p}) = f[x] + Sum(f, (s \ {p}) \ {x})
      BY <1>2, <2>1, <2>4
    <3>2. Sum(f, s \ {x}) = f[p] + Sum(f, (s \ {x}) \ {p})
      BY <1>2, <2>1, <2>4
    <3>3. (s \ {x}) \ {p} = (s \ {p}) \ {x}
      OBVIOUS
    <3>4. f[x] \in Nat /\ f[p] \in Nat /\ Sum(f, (s \ {p}) \ {x}) \in Nat
      BY <1>0, <2>1, CountsSubset, SumNat
    <3> QED
      BY <2>2, <3>1, <3>2, <3>3, <3>4
  <2> QED
    BY <2>3, <2>4
<1> HIDE DEF G
<1>3. \A s \in SUBSET S : s # {} /\ (\A x \in s : s \ {x} \in G) => s \in G
  BY <1>2
<1>4. IsFiniteSet(S)
  BY <1>0
<1>5. S \in G
  BY <1>1, <1>3, <1>4, SubsetInduction
<1> QED
  BY <1>5 DEF G

LEMMA SumSame ==
  ASSUME NEW f, NEW g, NEW S, IsFiniteSet(S), \A x \in S : f[x] = g[x]
  PROVE  Sum(f, S) = Sum(g, S)
<1> DEFINE G == {s \in SUBSET S : Sum(f, s) = Sum(g, s)}
<1>1. {} \in G
  BY SumEmpty
<1>2. ASSUME NEW s \in SUBSET S, s # {}, \A x \in s : s \ {x} \in G
      PROVE  s \in G
  <2>1. Pick(s) \in s /\ IsFiniteSet(s)
    BY <1>2, PickIn, FS_Subset
  <2>2. /\ Sum(f, s) = f[Pick(s)] + Sum(f, s \ {Pick(s)})
        /\ Sum(g, s) = g[Pick(s)] + Sum(g, s \ {Pick(s)})
    BY <1>2, <2>1, SumPick
  <2>3. Sum(f, s \ {Pick(s)}) = Sum(g, s \ {Pick(s)}) /\ f[Pick(s)] = g[Pick(s)]
    BY <1>2, <2>1
  <2> QED
    BY <2>2, <2>3
<1> HIDE DEF G
<1>3. S \in G
  BY <1>1, <1>2, SubsetInduction
<1> QED
  BY <1>3 DEF G

LEMMA SumUnion ==
  ASSUME NEW f, NEW A, Counts(f, A), NEW S, Counts(f, S), A \cap S = {}
  PROVE  Sum(f, A \cup S) = Sum(f, A) + Sum(f, S)
<1> DEFINE G == {s \in SUBSET S : Sum(f, A \cup s) = Sum(f, A) + Sum(f, s)}
<1>0. /\ IsFiniteSet(S) /\ \A x \in S : f[x] \in Nat
      /\ IsFiniteSet(A) /\ \A x \in A : f[x] \in Nat
      /\ Sum(f, A) \in Nat
  BY SumNat DEF Counts
<1>1. {} \in G
  <2>1. Sum(f, {}) = 0 /\ A \cup {} = A
    BY SumEmpty
  <2> QED
    BY <1>0, <2>1
<1>2. ASSUME NEW s \in SUBSET S, s # {}, \A x \in s : s \ {x} \in G
      PROVE  s \in G
  <2>1. PICK x \in s : TRUE
    BY <1>2
  <2>2. IsFiniteSet(s) /\ IsFiniteSet(A \cup s) /\ IsFiniteSet(s \ {x})
    BY <1>0, FS_Subset, FS_Union
  <2>3. Counts(f, s) /\ Counts(f, A \cup s) /\ Counts(f, s \ {x})
    BY <1>0, <2>2 DEF Counts
  <2>4. Sum(f, s) = f[x] + Sum(f, s \ {x}) /\ Sum(f, A \cup s) = f[x] + Sum(f, (A \cup s) \ {x})
    BY <2>3, SumTake
  <2>5. (A \cup s) \ {x} = A \cup (s \ {x})
    OBVIOUS
  <2>6. Sum(f, A \cup (s \ {x})) = Sum(f, A) + Sum(f, s \ {x})
    BY <1>2
  <2>7. f[x] \in Nat /\ Sum(f, s \ {x}) \in Nat
    BY <1>0, <2>3, SumNat
  <2> QED
    BY <1>0, <2>4, <2>5, <2>6, <2>7
<1> HIDE DEF G
<1>3. \A s \in SUBSET S : s # {} /\ (\A x \in s : s \ {x} \in G) => s \in G
  BY <1>2
<1>4. IsFiniteSet(S)
  BY <1>0
<1>5. S \in G
  BY <1>1, <1>3, <1>4, SubsetInduction
<1> QED
  BY <1>5 DEF G

LEMMA SumSubset ==
  ASSUME NEW f, NEW S, Counts(f, S), NEW T \in SUBSET S
  PROVE  Sum(f, T) <= Sum(f, S)
<1>1. Counts(f, T) /\ Counts(f, S \ T) /\ T \cup (S \ T) = S /\ T \cap (S \ T) = {}
  BY CountsSubset
<1>2. Sum(f, S) = Sum(f, T) + Sum(f, S \ T)
  BY <1>1, SumUnion
<1> QED
  BY <1>1, <1>2, SumNat

LEMMA SumOnes ==
  ASSUME NEW f, NEW S, IsFiniteSet(S), \A x \in S : f[x] = 1
  PROVE  Sum(f, S) = Cardinality(S)
<1> DEFINE G == {s \in SUBSET S : Sum(f, s) = Cardinality(s)}
<1>1. {} \in G
  BY SumEmpty, FS_EmptySet
<1>2. ASSUME NEW s \in SUBSET S, s # {}, \A x \in s : s \ {x} \in G
      PROVE  s \in G
  <2>1. Pick(s) \in s /\ IsFiniteSet(s)
    BY <1>2, PickIn, FS_Subset
  <2>2. Sum(f, s) = f[Pick(s)] + Sum(f, s \ {Pick(s)})
    BY <1>2, <2>1, SumPick
  <2>3. Cardinality(s \ {Pick(s)}) = Cardinality(s) - 1 /\ Cardinality(s) \in Nat
    BY <2>1, Smaller
  <2>4. Sum(f, s \ {Pick(s)}) = Cardinality(s \ {Pick(s)}) /\ f[Pick(s)] = 1
    BY <1>2, <2>1
  <2> QED
    BY <2>2, <2>3, <2>4
<1> HIDE DEF G
<1>3. S \in G
  BY <1>1, <1>2, SubsetInduction
<1> QED
  BY <1>3 DEF G

LEMMA SumOf ==
  ASSUME NEW S, NEW e(_)
  PROVE  SumFunction([x \in S |-> e(x)]) = Sum([x \in S |-> e(x)], S)
BY DEF SumFunction, Sum

-----------------------------------------------------------------------------
(***************************************************************************)
(* Destinations in their order, paths, clusters.                           *)
(***************************************************************************)
LEMMA IndexOf ==
  ASSUME NEW d \in Range(Destinations)
  PROVE  index(d) \in 1 .. Len(Destinations) /\ Destinations[index(d)] = d
<1>1. DOMAIN Destinations = 1 .. Len(Destinations)
  BY DestinationsAssumption
<1>2. \E i \in DOMAIN Destinations : Destinations[i] = d
  BY DEF Range
<1> QED
  BY <1>1, <1>2 DEF index

LEMMA FirstIn ==
  ASSUME NEW S \in SUBSET Range(Destinations), S # {}
  PROVE  /\ first(S) \in S
         /\ \A e \in S \ {first(S)} : index(first(S)) < index(e)
<1> DEFINE I == {index(d) : d \in S}
<1>1. I \subseteq Nat /\ I # {}
  BY IndexOf
<1>2. PICK i \in I : \A j \in I : i <= j
  <2> HIDE DEF I
  <2> QED
    BY <1>1, LeastNatural
<1>3. \E d \in S : \A e \in S : index(d) <= index(e)
  BY <1>2
<1>4. first(S) \in S /\ \A e \in S : index(first(S)) <= index(e)
  BY <1>3 DEF first
<1>5. ASSUME NEW e \in S \ {first(S)}
      PROVE  index(first(S)) < index(e)
  <2>1. index(first(S)) \in Nat /\ index(e) \in Nat /\ index(first(S)) <= index(e)
    BY <1>4, IndexOf
  <2>2. index(first(S)) # index(e)
    BY <1>4, IndexOf
  <2> QED
    BY <2>1, <2>2
<1> QED
  BY <1>4, <1>5

LEMMA DestinationsFinite == IsFiniteSet(Range(Destinations))
<1>1. IsFiniteSet(1 .. Len(Destinations))
  BY FS_Interval, DestinationsAssumption
<1>2. DOMAIN Destinations = 1 .. Len(Destinations)
  BY DestinationsAssumption
<1>3. Destinations \in Surjection(1 .. Len(Destinations), Range(Destinations))
  BY <1>2, DestinationsAssumption DEF Surjection, Range
<1> QED
  BY <1>1, <1>3, FS_Surjection

LEMMA AncestorsFinite ==
  ASSUME NEW d \in Range(Destinations)
  PROVE  IsFiniteSet(ancestors(d.path))
<1>1. Len(d.path) \in Nat
  BY DestinationsAssumption
<1>2. IsFiniteSet(1 .. Len(d.path) - 1)
  BY <1>1, FS_Interval
<1> DEFINE f == [k \in 1 .. Len(d.path) - 1 |-> SubSeq(d.path, 1, k)]
<1>3. f \in Surjection(1 .. Len(d.path) - 1, ancestors(d.path))
  BY DEF ancestors, Surjection
<1> QED
  BY <1>2, <1>3, FS_Surjection

LEMMA Division ==
  ASSUME NEW a \in Int, NEW c \in Nat \ {0}
  PROVE  a \div c \in Int /\ c * (a \div c) <= a /\ a < c * (a \div c) + c
OBVIOUS

\* A file takes its length and less than one cluster more, a directory one.
LEMMA ClusterBound ==
  ASSUME NEW n \in Nat
  PROVE  /\ (n + CLUSTER - 1) \div CLUSTER \in Nat
         /\ CLUSTER * ((n + CLUSTER - 1) \div CLUSTER) <= n + CLUSTER
         /\ n = 1 => (n + CLUSTER - 1) \div CLUSTER = 1
<1>1. CLUSTER \in Nat \ {0}
  BY SizesAssumption
<1> DEFINE a == n + CLUSTER - 1
<1>2. a \in Nat /\ a <= n + CLUSTER
  BY <1>1
<1>3. a \div CLUSTER \in Int /\ CLUSTER * (a \div CLUSTER) <= a /\ a < CLUSTER * (a \div CLUSTER) + CLUSTER
  BY <1>1, <1>2, Division
<1>4. CLUSTER * (a \div CLUSTER) \in Int
  BY <1>1, <1>3
<1> DEFINE q == a \div CLUSTER
<1>5. q >= 0
  <2> SUFFICES ASSUME q < 0 PROVE FALSE
    BY <1>3
  <2>1. q <= 0 - 1
    BY <1>3
  <2>2. CLUSTER * q <= CLUSTER * (0 - 1)
    <3> HIDE DEF q, a
    <3> QED
      BY <1>1, <1>3, <2>1 DEF q
  <2> QED
    BY <1>1, <1>2, <1>3, <1>4, <2>2
<1>6. ASSUME n = 1 PROVE q = 1
  <2>1. a = CLUSTER
    BY <1>1, <1>6
  <2>2. q # 0
    BY <1>1, <1>3, <2>1
  <2>3. ASSUME q >= 2 PROVE FALSE
    <3>1. CLUSTER * q >= CLUSTER * 2
      <4> HIDE DEF q, a
      <4> QED
        BY <1>1, <1>3, <2>3 DEF q
    <3> QED
      BY <1>1, <1>3, <1>4, <2>1, <3>1
  <2> QED
    BY <1>3, <1>5, <2>2, <2>3
<1> QED
  BY <1>1, <1>2, <1>3, <1>4, <1>5, <1>6

LEMMA RoomBound ==
  ASSUME NEW a \in Int, NEW n \in Nat, ~(n <= a \div CLUSTER)
  PROVE  CLUSTER * n > a
<1>1. CLUSTER \in Nat \ {0}
  BY SizesAssumption
<1>2. a \div CLUSTER \in Int /\ CLUSTER * (a \div CLUSTER) \in Int /\ a < CLUSTER * (a \div CLUSTER) + CLUSTER
  BY <1>1, Division
<1> DEFINE q == a \div CLUSTER
<1>3. n >= q + 1
  BY <1>2
<1>4. CLUSTER * n >= CLUSTER * (q + 1) /\ CLUSTER * (q + 1) = CLUSTER * q + CLUSTER
  <2> HIDE DEF q
  <2> QED
    BY <1>1, <1>2, <1>3 DEF q
<1> QED
  BY <1>1, <1>2, <1>4

-----------------------------------------------------------------------------
(***************************************************************************)
(* What create_file does to a volume: one file, and a directory for every  *)
(* ancestor that was not there.                                            *)
(***************************************************************************)
DirsOf(fs) == {p \in DOMAIN fs : fs[p].kind = "dir"}

Sizes(fs) == [p \in DOMAIN fs |-> (fs[p].len + CLUSTER - 1) \div CLUSTER]

LEMMA ClustersSum ==
  ASSUME NEW fs
  PROVE  clusters(fs) = Sum(Sizes(fs), DOMAIN fs)
<1>1. DOMAIN Sizes(fs) = DOMAIN fs
  BY DEF Sizes
<1>2. clusters(fs) = SumFunction(Sizes(fs))
  BY DEF clusters, Sizes
<1> QED
  BY <1>1, <1>2 DEF SumFunction, Sum

Measurable(fs) == IsFiniteSet(DOMAIN fs) /\ \A p \in DOMAIN fs : fs[p].len \in Nat

LEMMA SizesCount ==
  ASSUME NEW fs, Measurable(fs)
  PROVE  Counts(Sizes(fs), DOMAIN fs) /\ clusters(fs) \in Nat
<1>1. \A p \in DOMAIN fs : Sizes(fs)[p] \in Nat
  BY ClusterBound DEF Measurable, Sizes
<1>2. Counts(Sizes(fs), DOMAIN fs)
  BY <1>1 DEF Counts, Measurable
<1> QED
  BY <1>2, SumNat, ClustersSum

NewDirs(fs, path) == ancestors(path) \ (DOMAIN fs \cup {path})

Created(fs, path, source, n, fs2) ==
  /\ DOMAIN fs2 = ((DOMAIN fs \ {path}) \cup NewDirs(fs, path)) \cup {path}
  /\ \A p \in DOMAIN fs \ {path} : fs2[p] = fs[p]
  /\ \A p \in NewDirs(fs, path) : fs2[p].kind = "dir" /\ fs2[p].len = 1
  /\ fs2[path].kind = "file" /\ fs2[path].source = source /\ fs2[path].len = n

LEMMA CreateFile ==
  ASSUME NEW fs, NEW path, NEW source
  PROVE  Created(fs, path, source, len(source), create_file(fs, path, source))
BY DEF create_file, NewDirs, Created

LEMMA CreateGrows ==
  ASSUME NEW fs, Measurable(fs), NEW path, IsFiniteSet(ancestors(path)),
         NEW source, len(source) \in Nat
  PROVE  LET fs2 == create_file(fs, path, source)
         IN  /\ Measurable(fs2)
             /\ CLUSTER * clusters(fs2) <= CLUSTER * clusters(fs) + len(source) + CLUSTER
                                             + CLUSTER * Cardinality(NewDirs(fs, path))
<1> DEFINE fs2 == create_file(fs, path, source)
           A == DOMAIN fs \ {path}
           N == NewDirs(fs, path)
           c == (len(source) + CLUSTER - 1) \div CLUSTER
<1>0. /\ DOMAIN fs2 = (A \cup N) \cup {path}
      /\ \A p \in A : fs2[p] = fs[p]
      /\ \A p \in N : fs2[p].kind = "dir" /\ fs2[p].len = 1
      /\ fs2[path].kind = "file" /\ fs2[path].source = source /\ fs2[path].len = len(source)
  <2>1. Created(fs, path, source, len(source), fs2)
    BY CreateFile
  <2> HIDE DEF fs2
  <2> QED
    BY <2>1 DEF Created
<1>1. /\ DOMAIN fs2 = (A \cup N) \cup {path}
      /\ \A p \in A : fs2[p] = fs[p]
      /\ \A p \in N : fs2[p].len = 1
      /\ fs2[path].len = len(source)
  <2> HIDE DEF fs2, A, N
  <2> QED
    BY <1>0
<1>2. A \cap N = {} /\ (A \cup N) \cap {path} = {}
  BY DEF NewDirs
<1>3. A \in SUBSET DOMAIN fs /\ N \in SUBSET ancestors(path)
  BY DEF NewDirs
<1>4. IsFiniteSet(A) /\ IsFiniteSet(N) /\ IsFiniteSet({path}) /\ IsFiniteSet(DOMAIN fs)
  BY <1>3, FS_Subset, FS_Singleton DEF Measurable
<1>5. /\ \A p \in A : p \in DOMAIN fs2 /\ p \in DOMAIN fs
      /\ \A p \in N : p \in DOMAIN fs2
      /\ path \in DOMAIN fs2
  BY <1>1
<1>6. IsFiniteSet(A \cup N)
  BY <1>4, FS_Union
<1>7. IsFiniteSet((A \cup N) \cup {path})
  BY <1>4, <1>6, FS_Union
<1> HIDE DEF fs2, A, N
<1>8. Measurable(fs2)
  BY <1>1, <1>5, <1>7 DEF Measurable
<1>9. Counts(Sizes(fs2), DOMAIN fs2) /\ Counts(Sizes(fs), DOMAIN fs)
  BY <1>8, SizesCount
<1>10. /\ Counts(Sizes(fs2), A) /\ Counts(Sizes(fs2), N) /\ Counts(Sizes(fs2), A \cup N)
       /\ Counts(Sizes(fs2), {path})
  <2>1. A \in SUBSET DOMAIN fs2 /\ N \in SUBSET DOMAIN fs2 /\ A \cup N \in SUBSET DOMAIN fs2
        /\ {path} \in SUBSET DOMAIN fs2
    BY <1>1
  <2> QED
    BY <1>9, <2>1, CountsSubset
<1>11. clusters(fs2) = (Sum(Sizes(fs2), A) + Sum(Sizes(fs2), N)) + Sum(Sizes(fs2), {path})
  <2>1. Sum(Sizes(fs2), (A \cup N) \cup {path}) = Sum(Sizes(fs2), A \cup N) + Sum(Sizes(fs2), {path})
    BY <1>2, <1>10, SumUnion
  <2>2. Sum(Sizes(fs2), A \cup N) = Sum(Sizes(fs2), A) + Sum(Sizes(fs2), N)
    BY <1>2, <1>10, SumUnion
  <2> QED
    BY <1>1, <2>1, <2>2, ClustersSum
<1>12. Sum(Sizes(fs2), A) <= clusters(fs)
  <2>1. \A p \in A : Sizes(fs2)[p] = Sizes(fs)[p]
    BY <1>1, <1>5 DEF Sizes
  <2>2. Sum(Sizes(fs2), A) = Sum(Sizes(fs), A)
    BY <1>4, <2>1, SumSame
  <2>3. Sum(Sizes(fs), A) <= Sum(Sizes(fs), DOMAIN fs)
    BY <1>3, <1>9, SumSubset
  <2> QED
    BY <2>2, <2>3, ClustersSum
<1>13. Sum(Sizes(fs2), N) = Cardinality(N)
  <2>1. \A p \in N : Sizes(fs2)[p] = 1
    BY <1>1, <1>5, ClusterBound DEF Sizes
  <2> QED
    BY <1>4, <2>1, SumOnes
<1>14. Sum(Sizes(fs2), {path}) = c /\ c \in Nat /\ CLUSTER * c <= len(source) + CLUSTER
  <2>1. Sizes(fs2)[path] = c
    BY <1>1, <1>5 DEF Sizes
  <2>2. Sum(Sizes(fs2), {path}) = Sizes(fs2)[path] + Sum(Sizes(fs2), {path} \ {path})
    BY <1>10, SumTake
  <2>3. {path} \ {path} = {} /\ Sum(Sizes(fs2), {}) = 0
    BY SumEmpty
  <2>4. c \in Nat /\ CLUSTER * c <= len(source) + CLUSTER
    BY ClusterBound
  <2>5. Sum(Sizes(fs2), {path} \ {path}) = 0
    BY <2>3
  <2> HIDE DEF c
  <2> QED
    BY <2>1, <2>2, <2>4, <2>5
<1>15. CLUSTER \in Nat /\ clusters(fs) \in Nat /\ clusters(fs2) \in Nat /\ Cardinality(N) \in Nat
  BY <1>4, <1>8, SizesCount, SizesAssumption, FS_CardinalityType
<1> HIDE DEF c
<1>16. clusters(fs2) <= clusters(fs) + Cardinality(N) + c
  <2>1. Sum(Sizes(fs2), A) \in Nat
    BY <1>10, SumNat
  <2> QED
    BY <1>11, <1>12, <1>13, <1>14, <1>15, <2>1
<1>17. /\ CLUSTER * clusters(fs2) <= CLUSTER * (clusters(fs) + Cardinality(N) + c)
       /\ CLUSTER * (clusters(fs) + Cardinality(N) + c)
            = CLUSTER * clusters(fs) + CLUSTER * Cardinality(N) + CLUSTER * c
  BY <1>14, <1>15, <1>16
<1>18. /\ CLUSTER * clusters(fs2) \in Nat /\ CLUSTER * clusters(fs) \in Nat
       /\ CLUSTER * Cardinality(N) \in Nat /\ CLUSTER * c \in Nat
  BY <1>14, <1>15
<1>19. CLUSTER * clusters(fs2) <= CLUSTER * clusters(fs) + len(source) + CLUSTER + CLUSTER * Cardinality(N)
  BY <1>14, <1>15, <1>17, <1>18
<1> QED
  BY <1>8, <1>19 DEF fs2, N

LEMMA CreateDirs ==
  ASSUME NEW fs, Measurable(fs), NEW path, IsFiniteSet(ancestors(path)), NEW source,
         ~(path \in DOMAIN fs /\ fs[path].kind = "dir")
  PROVE  LET fs2 == create_file(fs, path, source)
         IN  /\ DirsOf(fs2) = DirsOf(fs) \cup NewDirs(fs, path)
             /\ Cardinality(DirsOf(fs2)) = Cardinality(DirsOf(fs)) + Cardinality(NewDirs(fs, path))
             /\ IsFiniteSet(DirsOf(fs)) /\ IsFiniteSet(DirsOf(fs2)) /\ IsFiniteSet(NewDirs(fs, path))
<1> DEFINE fs2 == create_file(fs, path, source)
           N == NewDirs(fs, path)
<1>0. /\ DOMAIN fs2 = ((DOMAIN fs \ {path}) \cup N) \cup {path}
      /\ \A p \in DOMAIN fs \ {path} : fs2[p] = fs[p]
      /\ \A p \in N : fs2[p].kind = "dir" /\ fs2[p].len = 1
      /\ fs2[path].kind = "file" /\ fs2[path].source = source /\ fs2[path].len = len(source)
  <2>1. Created(fs, path, source, len(source), fs2)
    BY CreateFile
  <2> HIDE DEF fs2
  <2> QED
    BY <2>1 DEF Created
<1>1. /\ DOMAIN fs2 = ((DOMAIN fs \ {path}) \cup N) \cup {path}
      /\ \A p \in DOMAIN fs \ {path} : fs2[p] = fs[p]
      /\ \A p \in N : fs2[p].kind = "dir"
      /\ fs2[path].kind = "file"
  <2> HIDE DEF fs2, N
  <2> QED
    BY <1>0
<1>2. DirsOf(fs2) = DirsOf(fs) \cup N
  <2> HIDE DEF fs2, N
  <2> QED
    BY <1>1 DEF DirsOf
<1>3. DirsOf(fs) \in SUBSET DOMAIN fs /\ N \in SUBSET ancestors(path) /\ DirsOf(fs) \cap N = {}
  BY DEF DirsOf, NewDirs
<1>4. IsFiniteSet(DirsOf(fs)) /\ IsFiniteSet(N)
  BY <1>3, FS_Subset DEF Measurable
<1>5. IsFiniteSet(DirsOf(fs) \cup N)
      /\ Cardinality(DirsOf(fs) \cup N)
           = Cardinality(DirsOf(fs)) + Cardinality(N) - Cardinality(DirsOf(fs) \cap N)
  BY <1>4, FS_Union
<1>6. Cardinality(DirsOf(fs) \cap N) = 0
  BY <1>3, FS_EmptySet
<1>7. Cardinality(DirsOf(fs)) \in Nat /\ Cardinality(N) \in Nat
  BY <1>4, FS_CardinalityType
<1> HIDE DEF fs2, N
<1>8. Cardinality(DirsOf(fs2)) = Cardinality(DirsOf(fs)) + Cardinality(N)
  BY <1>2, <1>5, <1>6, <1>7
<1> QED
  BY <1>2, <1>4, <1>5, <1>8 DEF fs2, N

-----------------------------------------------------------------------------
(***************************************************************************)
(* The inductive invariant.                                                *)
(***************************************************************************)
Volume == {"add_files", "open_image", "set_len", "mbr", "partition", "write_gpt", "copy", "close"}
Formatted == {"format"} \cup Volume
Measured == {"open_fat"} \cup Formatted
Building == {"configure", "create", "create_temp", "measure"} \cup Measured
Ended == {"returned", "spawn", "emulator", "exited"}

All == DOMAIN local_map
Sources == {File(p) : p \in HostFiles} \cup {Data(n) : n \in Contents}
Dirs == UNION {ancestors(d.path) : d \in All}
Lens == [d \in All |-> len(local_map[d])]

TypeInv ==
  /\ host \in [HostFiles -> Lengths \cup {None}]
  /\ DOMAIN files \subseteq Range(Destinations) /\ KERNEL_FILE_NAME \in DOMAIN files
  /\ \A d \in DOMAIN files : files[d] \in Sources
  /\ needed_size \in Nat /\ todo \subseteq All
  /\ pc \in Building \cup Ended
  /\ runs \in 1 .. MaxRuns /\ rebuilt \subseteq HostFiles /\ leaked \in BOOLEAN

RunInv ==
  /\ pc \in Building => result = None /\ leaked = FALSE
  /\ result # None => result.status \in {"ok", "err", "panic"} /\ result.cause # "no_blocks"

TempInv ==
  /\ temp = [exists |-> temp.exists, len |-> temp.len, overhead |-> temp.overhead, fs |-> temp.fs]
  /\ pc \notin {"measure"} \cup Measured => temp = NoTemp
  /\ pc \in {"measure", "open_fat"} => temp = [NoTemp EXCEPT !.exists = TRUE]
  /\ pc \in Formatted =>
       temp.exists = TRUE /\ temp.len = fat_size_padded_and_rounded /\ temp.overhead \in Nat
  /\ pc = "format" => temp.fs = <<>>

\* The file at path p of a volume is the one of a destination e of S.
FileOf(fs, p, S) ==
  \E e \in S :
    /\ e.path = p /\ fs[p].source = local_map[e]
    /\ local_map[e].path \notin rebuilt => fs[p].len = Lens[e]

\* A volume with the files of S, of which the last one at a path stays.
Holds(fs, S) ==
  /\ Measurable(fs)
  /\ \A d \in S : d.path \in DOMAIN fs /\ fs[d.path].kind = "file"
  /\ \A p \in DOMAIN fs :
       \/ fs[p].kind = "file" /\ ancestors(p) \subseteq DOMAIN fs /\ FileOf(fs, p, S)
       \/ fs[p].kind = "dir" /\ p \in Dirs
  /\ BOOTLOADER_FILE_NAME \in S => fs[BOOTLOADER_FILE_NAME.path].source = File(initium)

VolumeInv ==
  /\ pc \in Volume =>
       /\ Holds(temp.fs, All \ todo)
       /\ \A e \in All \ todo : \A d \in todo : index(e) < index(d)
  /\ pc \in Volume \ {"add_files"} => todo = {}

\* While no file was replaced, the volume is no larger than this.
SlackInv ==
  rebuilt = {} =>
    /\ pc \in Measured => Counts(Lens, All) /\ needed_size = Sum(Lens, All)
    /\ pc \in Volume =>
         CLUSTER * clusters(temp.fs) <=
           Sum(Lens, All \ todo) + CLUSTER * (Cardinality(All \ todo) + Cardinality(DirsOf(temp.fs)))

Blank == [len |-> 0, mbr |-> FALSE, partition |-> None, fs |-> None, fs_at |-> None]

GoodImage ==
  /\ image.mbr
  /\ image.partition.start >= GPT_FRONT
  /\ image.partition.start + image.partition.len <= image.len - GPT_BACK
  /\ image.fs_at = image.partition.start
  /\ Holds(image.fs, All)

ImageInv ==
  /\ image # None => image.len % BLOCK = 0 /\ image.mbr \in BOOLEAN
  /\ pc = "set_len" => image = Blank
  /\ pc = "mbr" => image = [Blank EXCEPT !.len = disk_size]
  /\ pc \in {"partition", "write_gpt"} => image = [Blank EXCEPT !.len = disk_size, !.mbr = TRUE]
  /\ pc = "copy" =>
       image = [Blank EXCEPT !.len = disk_size, !.mbr = TRUE,
                             !.partition = [start |-> GPT_FRONT, len |-> temp.len]]
  /\ pc = "close" =>
       image = [len |-> disk_size, mbr |-> TRUE, partition |-> [start |-> GPT_FRONT, len |-> temp.len],
                fs |-> temp.fs, fs_at |-> GPT_FRONT]
  /\ (pc = "returned" /\ result.status = "ok") \/ pc \in {"spawn", "emulator"} => GoodImage

IInv == TypeInv /\ RunInv /\ TempInv /\ VolumeInv /\ SlackInv /\ ImageInv /\ NoSpaceExplained

-----------------------------------------------------------------------------
(***************************************************************************)
(* The destinations and their sources.                                     *)
(***************************************************************************)
LEMMA AllIs ==
  /\ All = {BOOTLOADER_FILE_NAME} \cup DOMAIN files
  /\ local_map[BOOTLOADER_FILE_NAME] = File(initium)
  /\ \A d \in DOMAIN files \ {BOOTLOADER_FILE_NAME} : local_map[d] = files[d]
BY DEF All, local_map, internal_files

LEMMA AllFinite ==
  ASSUME TypeInv
  PROVE  All \subseteq Range(Destinations) /\ IsFiniteSet(All)
<1>1. All \in SUBSET Range(Destinations)
  BY AllIs, DestinationsAssumption DEF TypeInv
<1> QED
  BY <1>1, DestinationsFinite, FS_Subset

LEMMA SourcesTyped ==
  ASSUME TypeInv
  PROVE  \A d \in All : local_map[d] \in Sources
<1>1. File(initium) \in Sources
  BY DEF Sources, HostFiles
<1> QED
  BY <1>1, AllIs DEF TypeInv

LEMMA SourceLen ==
  ASSUME TypeInv, NEW s \in Sources, ~is_missing(s)
  PROVE  len(s) \in Nat
<1>1. CASE \E p \in HostFiles : s = File(p)
  <2>1. PICK p \in HostFiles : s = File(p)
    BY <1>1
  <2>2. s.kind = "file" /\ s.path = p
    BY <2>1 DEF File
  <2>3. host[p] \in Lengths \cup {None} /\ host[p] # None
    BY <2>2 DEF TypeInv, is_missing
  <2> QED
    BY <2>2, <2>3, SizesAssumption DEF len
<1>2. CASE \E n \in Contents : s = Data(n)
  <2>1. PICK n \in Contents : s = Data(n)
    BY <1>2
  <2>2. s.kind = "data" /\ s.len = n
    BY <2>1 DEF Data
  <2> QED
    BY <2>2, SizesAssumption DEF len
<1> QED
  BY <1>1, <1>2 DEF Sources

LEMMA DirsFinite ==
  ASSUME TypeInv
  PROVE  IsFiniteSet(Dirs)
<1> DEFINE A == {ancestors(d.path) : d \in All}
           f == [d \in All |-> ancestors(d.path)]
<1>1. f \in Surjection(All, A)
  BY DEF Surjection
<1>2. IsFiniteSet(A)
  BY <1>1, AllFinite, FS_Surjection
<1>3. \A a \in A : IsFiniteSet(a)
  BY AllFinite, AncestorsFinite
<1> QED
  BY <1>2, <1>3, FS_UNION DEF Dirs

LEMMA FatSize ==
  ASSUME needed_size \in Nat
  PROVE  /\ fat_size_padded_and_rounded \in Nat /\ fat_size_padded_and_rounded % MB = 0
         /\ fat_size_padded_and_rounded >= needed_size + 64 * KB
BY DEF fat_size_padded_and_rounded, MB, KB

LEMMA LensSum ==
  SumFunction([d \in DOMAIN local_map |-> len(local_map[d])]) = Sum(Lens, All)
<1>1. DOMAIN Lens = All
  BY DEF Lens
<1> QED
  BY <1>1 DEF SumFunction, Sum, Lens, All

-----------------------------------------------------------------------------
(***************************************************************************)
(* One more file.                                                          *)
(***************************************************************************)
LEMMA NextTodo ==
  ASSUME TypeInv, VolumeInv, pc = "add_files", NEW d, d = first(todo), todo # {}
  PROVE  /\ d \in todo /\ d \in All
         /\ All \ (todo \ {d}) = (All \ todo) \cup {d}
         /\ \A e \in (All \ todo) \cup {d} : \A x \in todo \ {d} : index(e) < index(x)
<1>1. todo \in SUBSET Range(Destinations) /\ todo \subseteq All
  BY AllFinite DEF TypeInv
<1>2. d \in todo /\ \A x \in todo \ {d} : index(d) < index(x)
  BY <1>1, FirstIn
<1>3. \A e \in All \ todo : \A x \in todo : index(e) < index(x)
  BY DEF VolumeInv, Volume
<1> QED
  BY <1>1, <1>2, <1>3

LEMMA LoaderStays ==
  ASSUME TypeInv, VolumeInv, pc = "add_files", NEW d, d = first(todo), todo # {},
         BOOTLOADER_FILE_NAME \in All \ todo
  PROVE  d.path # BOOTLOADER_FILE_NAME.path
<1>1. d \in todo /\ d \in All
  BY NextTodo
<1>2. index(BOOTLOADER_FILE_NAME) < index(d)
  BY <1>1 DEF VolumeInv, Volume
<1>3. d \in Range(Destinations) /\ BOOTLOADER_FILE_NAME \in Range(Destinations)
  BY <1>1, AllFinite, DestinationsAssumption
<1>4. index(d) \in Nat /\ index(BOOTLOADER_FILE_NAME) \in Nat
  BY <1>3, IndexOf
<1>5. d.path = BOOTLOADER_FILE_NAME.path => index(d) <= index(BOOTLOADER_FILE_NAME)
  BY <1>3, DestinationsAssumption
<1> QED
  BY <1>2, <1>4, <1>5

LEMMA AddHolds ==
  ASSUME TypeInv, VolumeInv, pc = "add_files", NEW d, d = first(todo), todo # {},
         ~conflicts(temp.fs, d.path), ~is_missing(local_map[d])
  PROVE  Holds(create_file(temp.fs, d.path, local_map[d]), (All \ todo) \cup {d})
<1> DEFINE fs == temp.fs
           s == local_map[d]
           path == d.path
           fs2 == create_file(fs, path, s)
           S == All \ todo
           S2 == S \cup {d}
           N == NewDirs(fs, path)
<1>1. d \in todo /\ d \in All /\ d \in Range(Destinations) /\ s \in Sources
  BY NextTodo, AllFinite, SourcesTyped
<1>2. len(s) \in Nat
  BY <1>1, SourceLen
<1>3. Holds(fs, S)
  BY DEF VolumeInv, Volume
<1>4. IsFiniteSet(ancestors(path))
  BY <1>1, AncestorsFinite
<1>5. Measurable(fs2)
  BY <1>2, <1>3, <1>4, CreateGrows DEF Holds
<1>6. Created(fs, path, s, len(s), fs2)
  BY CreateFile
<1>7. Lens[d] = len(s)
  BY <1>1 DEF Lens
<1>8. ~(path \in DOMAIN fs /\ fs[path].kind = "dir") /\ \A a \in ancestors(path) \cap DOMAIN fs : fs[a].kind # "file"
  BY DEF conflicts
<1>9. BOOTLOADER_FILE_NAME \in S => path # BOOTLOADER_FILE_NAME.path
  BY LoaderStays
<1>10. d = BOOTLOADER_FILE_NAME => s = File(initium)
  BY AllIs
<1>11. ancestors(path) \subseteq Dirs
  BY <1>1 DEF Dirs
<1> HIDE DEF fs, s, path, fs2, S
<1>12. DOMAIN fs2 = ((DOMAIN fs \ {path}) \cup N) \cup {path} /\ N = ancestors(path) \ (DOMAIN fs \cup {path})
  BY <1>6 DEF Created, NewDirs
<1>13. DOMAIN fs \subseteq DOMAIN fs2 /\ ancestors(path) \subseteq DOMAIN fs2 /\ path \in DOMAIN fs2
  BY <1>12
<1> HIDE DEF N
<1>14. \A p \in DOMAIN fs \ {path} : fs2[p] = fs[p]
  BY <1>6 DEF Created
<1>15. fs2[path].kind = "file" /\ fs2[path].source = s /\ fs2[path].len = len(s)
  BY <1>6 DEF Created
<1>16. ASSUME NEW e \in S2
       PROVE  e.path \in DOMAIN fs2 /\ fs2[e.path].kind = "file"
  <2>1. CASE e.path = path
    BY <1>13, <1>15, <2>1
  <2>2. CASE e.path # path
    <3>1. e \in S
      BY <2>2 DEF path
    <3> QED
      BY <1>3, <1>13, <1>14, <2>2, <3>1 DEF Holds
  <2> QED
    BY <2>1, <2>2
<1>17. ASSUME NEW p \in DOMAIN fs2
       PROVE  \/ fs2[p].kind = "file" /\ ancestors(p) \subseteq DOMAIN fs2 /\ FileOf(fs2, p, S2)
              \/ fs2[p].kind = "dir" /\ p \in Dirs
  <2>1. CASE p = path
    <3>1. FileOf(fs2, p, S2)
      BY <1>7, <1>15, <2>1 DEF FileOf, path, s
    <3> QED
      BY <1>13, <1>15, <2>1, <3>1
  <2>2. CASE p \in DOMAIN fs \ {path}
    <3>1. fs2[p] = fs[p]
      BY <1>14, <2>2
    <3>2. FileOf(fs, p, S) => FileOf(fs2, p, S2)
      BY <3>1 DEF FileOf
    <3>3. \/ fs[p].kind = "file" /\ ancestors(p) \subseteq DOMAIN fs /\ FileOf(fs, p, S)
          \/ fs[p].kind = "dir" /\ p \in Dirs
      BY <1>3, <2>2 DEF Holds
    <3> QED
      BY <1>13, <3>1, <3>2, <3>3
  <2>3. CASE p \in N
    <3>1. fs2[p].kind = "dir"
      BY <1>6, <2>3 DEF Created, N
    <3> QED
      BY <1>11, <1>12, <2>3, <3>1
  <2> QED
    BY <1>12, <2>1, <2>2, <2>3
<1>18. ASSUME BOOTLOADER_FILE_NAME \in S2
       PROVE  fs2[BOOTLOADER_FILE_NAME.path].source = File(initium)
  <2>1. CASE d = BOOTLOADER_FILE_NAME
    BY <1>10, <1>15, <2>1 DEF path
  <2>2. CASE d # BOOTLOADER_FILE_NAME
    <3>1. BOOTLOADER_FILE_NAME \in S
      BY <1>18, <2>2
    <3> QED
      BY <1>3, <1>9, <1>14, <3>1 DEF Holds
  <2> QED
    BY <2>1, <2>2
<1> QED
  BY <1>5, <1>16, <1>17, <1>18 DEF Holds, fs2, S, fs, path, s

LEMMA AddSlack ==
  ASSUME TypeInv, VolumeInv, SlackInv, rebuilt = {}, pc = "add_files",
         NEW d, d = first(todo), todo # {},
         ~conflicts(temp.fs, d.path), ~is_missing(local_map[d])
  PROVE  LET fs2 == create_file(temp.fs, d.path, local_map[d])
             S2 == (All \ todo) \cup {d}
         IN  CLUSTER * clusters(fs2) <= Sum(Lens, S2) + CLUSTER * (Cardinality(S2) + Cardinality(DirsOf(fs2)))
<1> DEFINE fs == temp.fs
           s == local_map[d]
           path == d.path
           fs2 == create_file(fs, path, s)
           S == All \ todo
           S2 == S \cup {d}
           N == NewDirs(fs, path)
<1>1. d \in todo /\ d \in All /\ d \in Range(Destinations) /\ s \in Sources
  BY NextTodo, AllFinite, SourcesTyped
<1>2. len(s) \in Nat
  BY <1>1, SourceLen
<1>3. Measurable(fs)
  BY DEF VolumeInv, Volume, Holds
<1>4. IsFiniteSet(ancestors(path))
  BY <1>1, AncestorsFinite
<1>5. Measurable(fs2)
      /\ CLUSTER * clusters(fs2) <= CLUSTER * clusters(fs) + len(s) + CLUSTER + CLUSTER * Cardinality(N)
  BY <1>2, <1>3, <1>4, CreateGrows
<1>6. ~(path \in DOMAIN fs /\ fs[path].kind = "dir")
  BY DEF conflicts
<1>7. /\ Cardinality(DirsOf(fs2)) = Cardinality(DirsOf(fs)) + Cardinality(N)
      /\ IsFiniteSet(DirsOf(fs)) /\ IsFiniteSet(N)
  BY <1>3, <1>4, <1>6, CreateDirs
<1>8. Counts(Lens, All)
      /\ CLUSTER * clusters(fs) <= Sum(Lens, S) + CLUSTER * (Cardinality(S) + Cardinality(DirsOf(fs)))
  BY DEF SlackInv, Volume, Measured, Formatted
<1>9. S2 \in SUBSET All /\ S \in SUBSET All /\ S2 \ {d} = S /\ d \in S2 /\ d \notin S
  BY <1>1
<1>10. Lens[d] = len(s)
  BY <1>1 DEF Lens
<1> HIDE DEF fs, s, path, fs2, S, S2, N
<1>11. Counts(Lens, S2) /\ Counts(Lens, S)
  BY <1>8, <1>9, CountsSubset
<1>12. Sum(Lens, S2) = len(s) + Sum(Lens, S)
  BY <1>9, <1>10, <1>11, SumTake
<1>13. IsFiniteSet(S) /\ IsFiniteSet(S2)
  BY <1>11 DEF Counts
<1>14. Cardinality(S) = Cardinality(S2) - 1
  BY <1>9, <1>13, FS_RemoveElement
<1>15. /\ Cardinality(S) \in Nat /\ Cardinality(S2) \in Nat /\ Cardinality(DirsOf(fs)) \in Nat
       /\ Cardinality(N) \in Nat /\ Sum(Lens, S) \in Nat /\ CLUSTER \in Nat
       /\ clusters(fs) \in Nat /\ clusters(fs2) \in Nat
  BY <1>3, <1>5, <1>7, <1>11, <1>13, FS_CardinalityType, SumNat, SizesCount, SizesAssumption
<1> DEFINE a == Cardinality(S)
           b == Cardinality(DirsOf(fs))
           n == Cardinality(N)
<1>16. CLUSTER * (Cardinality(S2) + Cardinality(DirsOf(fs2))) = CLUSTER * (a + b) + CLUSTER + CLUSTER * n
  <2>1. Cardinality(S2) + Cardinality(DirsOf(fs2)) = (a + b) + 1 + n
    BY <1>7, <1>14, <1>15
  <2>2. CLUSTER * ((a + b) + 1 + n) = CLUSTER * (a + b) + CLUSTER + CLUSTER * n
    <3> HIDE DEF a, b, n
    <3> QED
      BY <1>15 DEF a, b, n
  <2> QED
    BY <2>1, <2>2
<1>17. /\ CLUSTER * clusters(fs2) \in Nat /\ CLUSTER * clusters(fs) \in Nat
       /\ CLUSTER * n \in Nat /\ CLUSTER * (a + b) \in Nat
  BY <1>15
<1>18. CLUSTER * clusters(fs2) <= Sum(Lens, S2) + CLUSTER * (Cardinality(S2) + Cardinality(DirsOf(fs2)))
  BY <1>2, <1>5, <1>8, <1>12, <1>15, <1>16, <1>17
<1> QED
  BY <1>18 DEF fs, s, path, fs2, S, S2

\* A volume that holds no more than this is too small only if its structures,
\* directories and cluster ends need more than the slack.
LEMMA NoSpaceMeans ==
  ASSUME TypeInv, TempInv, VolumeInv, SlackInv, rebuilt = {}, pc = "add_files",
         NEW d, d = first(todo), todo # {},
         ~conflicts(temp.fs, d.path), ~is_missing(local_map[d]),
         ~fits(create_file(temp.fs, d.path, local_map[d]))
  PROVE  temp.overhead + CLUSTER * (Cardinality(All) + Cardinality(Dirs)) > 64 * KB
<1> DEFINE fs2 == create_file(temp.fs, d.path, local_map[d])
           S2 == (All \ todo) \cup {d}
<1>1. CLUSTER * clusters(fs2) <= Sum(Lens, S2) + CLUSTER * (Cardinality(S2) + Cardinality(DirsOf(fs2)))
  BY AddSlack
<1>2. Holds(fs2, S2)
  BY AddHolds
<1>3. ~(clusters(fs2) <= (temp.len - temp.overhead) \div CLUSTER)
  BY DEF fits
<1> HIDE DEF fs2
<1>4. clusters(fs2) \in Nat
  BY <1>2, SizesCount DEF Holds
<1>5. needed_size \in Nat /\ temp.len \in Nat /\ temp.overhead \in Nat /\ temp.len >= needed_size + 64 * KB
  BY FatSize DEF TypeInv, TempInv, Formatted, Volume
<1>6. CLUSTER * clusters(fs2) > temp.len - temp.overhead
  <2>1. temp.len - temp.overhead \in Int
    BY <1>5
  <2> QED
    BY <1>3, <1>4, <2>1, RoomBound
<1>7. DirsOf(fs2) \in SUBSET Dirs /\ IsFiniteSet(Dirs)
  BY <1>2, DirsFinite DEF Holds, DirsOf
<1>8. IsFiniteSet(DirsOf(fs2)) /\ Cardinality(DirsOf(fs2)) <= Cardinality(Dirs)
  BY <1>7, FS_Subset
<1>9. S2 \in SUBSET All /\ IsFiniteSet(All)
  BY NextTodo, AllFinite
<1>10. IsFiniteSet(S2) /\ Cardinality(S2) <= Cardinality(All)
  BY <1>9, FS_Subset
<1>11. Counts(Lens, All) /\ needed_size = Sum(Lens, All)
  BY DEF SlackInv, Measured, Formatted, Volume
<1>12. Sum(Lens, S2) <= needed_size
  BY <1>9, <1>11, SumSubset
<1>13. Sum(Lens, S2) \in Nat
  BY <1>9, <1>11, CountsSubset, SumNat
<1>14. /\ Cardinality(All) \in Nat /\ Cardinality(S2) \in Nat /\ Cardinality(Dirs) \in Nat
       /\ Cardinality(DirsOf(fs2)) \in Nat /\ CLUSTER \in Nat
  BY <1>7, <1>8, <1>9, <1>10, FS_CardinalityType, SizesAssumption
<1> DEFINE a == Cardinality(S2) + Cardinality(DirsOf(fs2))
           b == Cardinality(All) + Cardinality(Dirs)
<1>15. a \in Nat /\ b \in Nat /\ a <= b
  BY <1>8, <1>10, <1>14
<1> HIDE DEF a, b, S2
<1>16. CLUSTER * a <= CLUSTER * b /\ CLUSTER * a \in Nat /\ CLUSTER * b \in Nat
  BY <1>14, <1>15
<1>17. CLUSTER * clusters(fs2) \in Nat
  BY <1>4, <1>14
<1>18. CLUSTER * clusters(fs2) <= Sum(Lens, S2) + CLUSTER * a
  BY <1>1 DEF a
<1>19. temp.overhead + CLUSTER * b > 64 * KB
  BY <1>5, <1>6, <1>12, <1>13, <1>16, <1>17, <1>18 DEF KB
<1> QED
  BY <1>19 DEF b

-----------------------------------------------------------------------------
(***************************************************************************)
(* What does not change.                                                   *)
(***************************************************************************)
LEMMA SameMap ==
  ASSUME UNCHANGED files
  PROVE  All' = All /\ local_map' = local_map /\ Dirs' = Dirs
<1>1. local_map' = local_map
  BY DEF local_map, internal_files, File
<1>2. All' = All
  BY <1>1 DEF All
<1> QED
  BY <1>1, <1>2 DEF Dirs, ancestors

LEMMA SameLens ==
  ASSUME UNCHANGED <<host, files>>
  PROVE  Lens' = Lens
BY SameMap DEF Lens, len

LEMMA SameVolume ==
  ASSUME UNCHANGED <<host, files, rebuilt, todo, temp>>
  PROVE  Holds(temp.fs, All \ todo) => Holds(temp.fs, All \ todo)'
BY SameMap, SameLens DEF Holds, FileOf, Measurable, ancestors, File

LEMMA SameImage ==
  ASSUME UNCHANGED <<host, files, rebuilt, image>>, GoodImage
  PROVE  GoodImage'
BY SameMap, SameLens DEF GoodImage, Holds, FileOf, Measurable, ancestors, File, GPT_FRONT, GPT_BACK, BLOCK

LEMMA NoSpaceKept ==
  ASSUME NoSpaceExplained, UNCHANGED <<files, result>>, rebuilt \subseteq rebuilt'
  PROVE  NoSpaceExplained'
<1>1. All' = All /\ Dirs' = Dirs
  BY SameMap
<1>2. /\ result # None => result.cause # "no_blocks"
      /\ result # None /\ result.cause = "no_space" =>
           rebuilt # {} \/ result.overhead + CLUSTER * (Cardinality(All) + Cardinality(Dirs)) > 64 * KB
  BY DEF NoSpaceExplained, All, Dirs
<1>3. /\ result' # None => result'.cause # "no_blocks"
      /\ result' # None /\ result'.cause = "no_space" =>
           rebuilt' # {} \/ result'.overhead + CLUSTER * (Cardinality(All') + Cardinality(Dirs')) > 64 * KB
  BY <1>1, <1>2
<1> QED
  BY <1>3 DEF NoSpaceExplained, All, Dirs, KB

LEMMA ResultNone ==
  ASSUME result' = None
  PROVE  NoSpaceExplained'
BY DEF NoSpaceExplained

LEMMA NotMeasured ==
  ASSUME pc' \notin Measured
  PROVE  VolumeInv' /\ SlackInv'
BY DEF VolumeInv, SlackInv, Measured, Formatted, Volume

\* A step of a run that goes on.
LEMMA GoesKeeps ==
  ASSUME IInv, NEW from \in Building, NEW to \in Building, Goes(from, to),
         needed_size' \in Nat, todo' \subseteq All
  PROVE  TypeInv' /\ RunInv' /\ NoSpaceExplained'
<1>1. All' = All
  BY SameMap DEF Goes
<1>2. TypeInv'
  BY <1>1 DEF IInv, TypeInv, Goes, histories, Sources, File, Data, HostFiles
<1>3. RunInv'
  BY DEF IInv, RunInv, Goes, histories
<1>4. NoSpaceExplained'
  BY NoSpaceKept DEF IInv, Goes, histories
<1> QED
  BY <1>2, <1>3, <1>4

\* A step over a finished volume.
LEMMA VolumeKept ==
  ASSUME IInv, UNCHANGED <<host, files, rebuilt, todo, temp, needed_size>>,
         pc \in Volume, pc' \in Volume, todo = {}
  PROVE  VolumeInv' /\ SlackInv'
<1>1. Holds(temp.fs, All \ todo)'
  BY SameVolume DEF IInv, VolumeInv
<1>2. VolumeInv'
  BY <1>1 DEF VolumeInv
<1>3. All' = All /\ Lens' = Lens /\ (All \ todo)' = All \ todo
  BY SameMap, SameLens
<1>4. SlackInv'
  BY <1>3 DEF IInv, SlackInv, Measured, Formatted, clusters, DirsOf
<1> QED
  BY <1>2, <1>4

-----------------------------------------------------------------------------
(***************************************************************************)
(* The steps before there is a volume.                                     *)
(***************************************************************************)
LEMMA InitInv == Init => IInv
<1> SUFFICES ASSUME Init PROVE IInv
  OBVIOUS
<1>1. TypeInv
  <2>1. DOMAIN files = {KERNEL_FILE_NAME} /\ files[KERNEL_FILE_NAME] = File(nukleus)
    BY DEF Init, new
  <2>2. KERNEL_FILE_NAME \in Range(Destinations) /\ File(nukleus) \in Sources
    BY DestinationsAssumption DEF Sources, HostFiles
  <2>3. 1 \in 1 .. MaxRuns
    BY SizesAssumption
  <2>4. /\ host \in [HostFiles -> Lengths \cup {None}] /\ needed_size = 0 /\ todo = {}
        /\ pc = "configure" /\ runs = 1 /\ rebuilt = {} /\ leaked = FALSE
    BY DEF Init
  <2>5. \A d \in DOMAIN files : files[d] \in Sources
    BY <2>1, <2>2
  <2>6. pc \in Building
    BY <2>4 DEF Building
  <2> QED
    BY <2>1, <2>2, <2>3, <2>4, <2>5, <2>6 DEF TypeInv
<1>2. RunInv /\ TempInv /\ NoSpaceExplained
  BY DEF Init, RunInv, TempInv, NoTemp, NoSpaceExplained, Measured, Formatted, Volume
<1>3. VolumeInv /\ SlackInv
  BY DEF Init, VolumeInv, SlackInv, Measured, Formatted, Volume
<1>4. ImageInv
  BY DEF Init, ImageInv
<1> QED
  BY <1>1, <1>2, <1>3, <1>4 DEF IInv

LEMMA SetsOne ==
  ASSUME TypeInv, NEW d \in Range(Destinations), NEW s \in Sources, set_file_source(d, s)
  PROVE  /\ DOMAIN files' \subseteq Range(Destinations) /\ KERNEL_FILE_NAME \in DOMAIN files'
         /\ \A e \in DOMAIN files' : files'[e] \in Sources
         /\ DOMAIN files \subseteq DOMAIN files'
BY DEF TypeInv, set_file_source

LEMMA ConfigureStep ==
  ASSUME IInv, Configure
  PROVE  IInv'
<1>1. \E d \in Range(Destinations) : \E s \in Sources : set_file_source(d, s)
  BY DestinationsAssumption
     DEF Configure, set_kernel, set_ramdisk, set_file, set_file_contents, Sources, HostFiles
<1>2. PICK d \in Range(Destinations) : \E s \in Sources : set_file_source(d, s)
  BY <1>1
<1>3. PICK s \in Sources : set_file_source(d, s)
  BY <1>2
<1>4. /\ DOMAIN files' \subseteq Range(Destinations) /\ KERNEL_FILE_NAME \in DOMAIN files'
      /\ \A e \in DOMAIN files' : files'[e] \in Sources
      /\ DOMAIN files \subseteq DOMAIN files'
  BY <1>3, SetsOne DEF IInv
<1>5. /\ pc = "configure" /\ pc' = "configure"
      /\ UNCHANGED <<host, result, needed_size, todo, temp, image, runs, rebuilt, leaked>>
  BY DEF Configure, outputs, histories
<1>6. All \subseteq All'
  <2>1. All' = {BOOTLOADER_FILE_NAME} \cup DOMAIN files'
    BY DEF All, local_map, internal_files
  <2> QED
    BY <1>4, <2>1, AllIs
<1>7. Sources' = Sources
  BY DEF Sources, File, Data, HostFiles
<1>8. TypeInv'
  BY <1>4, <1>5, <1>6, <1>7 DEF IInv, TypeInv
<1>9. RunInv' /\ TempInv' /\ ImageInv'
  BY <1>5 DEF IInv, RunInv, TempInv, ImageInv, NoTemp, Measured, Formatted, Volume
<1>10. VolumeInv' /\ SlackInv'
  BY <1>5, NotMeasured DEF Measured, Formatted, Volume
<1>11. NoSpaceExplained'
  BY <1>5, ResultNone DEF IInv, RunInv, Building
<1> QED
  BY <1>8, <1>9, <1>10, <1>11 DEF IInv

LEMMA CallCreateStep ==
  ASSUME IInv, CallCreate
  PROVE  IInv'
<1>1. Goes("configure", "create") /\ pc = "configure" /\ pc' = "create" /\ UNCHANGED <<needed_size, todo, temp, image>>
  BY DEF CallCreate, Goes, outputs
<1>2. TypeInv' /\ RunInv' /\ NoSpaceExplained'
  <2>1. needed_size' \in Nat /\ todo' \subseteq All
    BY <1>1 DEF IInv, TypeInv
  <2> QED
    BY <1>1, <2>1, GoesKeeps DEF Building
<1>3. VolumeInv' /\ SlackInv'
  BY <1>1, NotMeasured DEF Measured, Formatted, Volume
<1>4. TempInv' /\ ImageInv'
  BY <1>1 DEF IInv, TempInv, ImageInv, NoTemp, Measured, Formatted, Volume
<1> QED
  BY <1>2, <1>3, <1>4 DEF IInv

LEMMA CreateTempStep ==
  ASSUME IInv, CreateTemp
  PROVE  IInv'
<1>1. /\ Goes("create_temp", "measure") /\ pc = "create_temp" /\ pc' = "measure"
      /\ UNCHANGED <<needed_size, todo, image>> /\ temp' = [NoTemp EXCEPT !.exists = TRUE]
  BY DEF CreateTemp, Goes
<1>2. TypeInv' /\ RunInv' /\ NoSpaceExplained'
  <2>1. needed_size' \in Nat /\ todo' \subseteq All
    BY <1>1 DEF IInv, TypeInv
  <2> QED
    BY <1>1, <2>1, GoesKeeps DEF Building
<1>3. VolumeInv' /\ SlackInv'
  BY <1>1, NotMeasured DEF Measured, Formatted, Volume
<1>4. TempInv' /\ ImageInv'
  BY <1>1 DEF IInv, TempInv, ImageInv, NoTemp, Measured, Formatted, Volume
<1> QED
  BY <1>2, <1>3, <1>4 DEF IInv

LEMMA OpenFatStep ==
  ASSUME IInv, OpenFat
  PROVE  IInv'
<1>1. /\ Goes("open_fat", "format") /\ pc = "open_fat" /\ pc' = "format"
      /\ UNCHANGED <<host, files, rebuilt, needed_size, todo, image>>
      /\ temp' = [temp EXCEPT !.len = fat_size_padded_and_rounded]
  BY DEF OpenFat, Goes, histories
<1>2. TypeInv' /\ RunInv' /\ NoSpaceExplained'
  <2>1. needed_size' \in Nat /\ todo' \subseteq All
    BY <1>1 DEF IInv, TypeInv
  <2> QED
    BY <1>1, <2>1, GoesKeeps DEF Building, Measured, Formatted
<1>3. VolumeInv'
  BY <1>1 DEF VolumeInv, Volume
<1>4. SlackInv'
  <2>1. All' = All /\ Lens' = Lens
    BY <1>1, SameMap, SameLens
  <2> QED
    BY <1>1, <2>1 DEF IInv, SlackInv, Measured, Formatted, Volume, Counts
<1>5. temp = [NoTemp EXCEPT !.exists = TRUE]
  BY <1>1 DEF IInv, TempInv
<1>6. fat_size_padded_and_rounded' = fat_size_padded_and_rounded
  BY <1>1 DEF fat_size_padded_and_rounded, KB, MB
<1>7. temp' = [exists |-> TRUE, len |-> fat_size_padded_and_rounded, overhead |-> 0, fs |-> <<>>]
  BY <1>1, <1>5 DEF NoTemp
<1>10. /\ temp'.exists = TRUE /\ temp'.len = fat_size_padded_and_rounded' /\ temp'.overhead = 0
       /\ temp'.fs = <<>>
       /\ temp' = [exists |-> temp'.exists, len |-> temp'.len, overhead |-> temp'.overhead, fs |-> temp'.fs]
  BY <1>6, <1>7
<1>11. pc' \in {"measure"} \cup Measured /\ pc' \notin {"measure", "open_fat"}
  BY <1>1 DEF Measured, Formatted
<1>8. TempInv'
  BY <1>10, <1>11 DEF TempInv
<1>9. ImageInv'
  BY <1>1 DEF IInv, ImageInv
<1> QED
  BY <1>2, <1>3, <1>4, <1>8, <1>9 DEF IInv

LEMMA FormatStep ==
  ASSUME IInv, FormatVolume
  PROVE  IInv'
<1>1. /\ Goes("format", "add_files") /\ pc = "format" /\ pc' = "add_files"
      /\ UNCHANGED <<host, files, rebuilt, needed_size, image>> /\ todo' = All
  BY DEF FormatVolume, Goes, histories, All
<1>2. PICK n \in Overheads : temp' = [temp EXCEPT !.overhead = n]
  BY DEF FormatVolume
<1>3. TypeInv' /\ RunInv' /\ NoSpaceExplained'
  <2>1. needed_size' \in Nat /\ todo' \subseteq All
    BY <1>1 DEF IInv, TypeInv
  <2> QED
    BY <1>1, <2>1, GoesKeeps DEF Building, Measured, Formatted, Volume
<1>4. /\ temp.exists = TRUE /\ temp.len = fat_size_padded_and_rounded /\ temp.fs = <<>>
      /\ temp = [exists |-> temp.exists, len |-> temp.len, overhead |-> temp.overhead, fs |-> temp.fs]
  BY <1>1 DEF IInv, TempInv, Formatted
<1>5. temp' = [exists |-> TRUE, len |-> fat_size_padded_and_rounded, overhead |-> n, fs |-> <<>>]
  BY <1>2, <1>4
<1>6. fat_size_padded_and_rounded' = fat_size_padded_and_rounded
  BY <1>1 DEF fat_size_padded_and_rounded, KB, MB
<1>7. TempInv'
  BY <1>1, <1>5, <1>6, SizesAssumption DEF TempInv, Measured, Formatted, Volume
<1>8. All' = All /\ Lens' = Lens /\ All' \ todo' = {}
  BY <1>1, SameMap, SameLens
<1>9. DOMAIN temp'.fs = {}
  BY <1>5
<1>10. Measurable(temp.fs)'
  BY <1>9, FS_EmptySet DEF Measurable
<1>11. VolumeInv'
  BY <1>1, <1>8, <1>9, <1>10 DEF VolumeInv, Holds
<1>12. SlackInv'
  <2>1. DirsOf(temp'.fs) = {} /\ Cardinality({}) = 0
    BY <1>9, FS_EmptySet DEF DirsOf
  <2>2. clusters(temp'.fs) = 0
    BY <1>9, ClustersSum, SumEmpty
  <2>3. Sum(Lens', All' \ todo') = 0
    BY <1>8, SumEmpty
  <2>4. CLUSTER * 0 = 0 /\ CLUSTER * (0 + 0) = 0
    BY SizesAssumption
  <2>5. CLUSTER * clusters(temp'.fs) <=
          Sum(Lens', All' \ todo') + CLUSTER * (Cardinality(All' \ todo') + Cardinality(DirsOf(temp'.fs)))
    BY <1>8, <2>1, <2>2, <2>3, <2>4
  <2>6. rebuilt = {} => Counts(Lens, All) /\ needed_size = Sum(Lens, All)
    BY <1>1 DEF IInv, SlackInv, Measured, Formatted
  <2> QED
    BY <1>1, <1>8, <2>5, <2>6 DEF SlackInv, Counts
<1>13. ImageInv'
  BY <1>1 DEF IInv, ImageInv
<1> QED
  BY <1>3, <1>7, <1>11, <1>12, <1>13 DEF IInv

-----------------------------------------------------------------------------
(***************************************************************************)
(* The steps that end a run.                                               *)
(***************************************************************************)
LEMMA LeaveStep ==
  ASSUME IInv, pc \in Building, NEW status \in {"err", "panic"}, NEW cause, Leave(status, cause),
         cause # "no_blocks",
         cause = "no_space" =>
           rebuilt # {} \/ temp.overhead + CLUSTER * (Cardinality(All) + Cardinality(Dirs)) > 64 * KB,
         UNCHANGED <<host, files, needed_size, todo, image, runs, rebuilt>>
  PROVE  IInv'
<1>1. /\ result' = [status |-> status, cause |-> cause,
                    overhead |-> IF cause = "no_space" THEN temp.overhead ELSE 0]
      /\ pc' = "returned" /\ temp' = NoTemp /\ leaked' \in {FALSE, temp.exists}
  BY DEF Leave
<1>2. temp.exists \in BOOLEAN
  <2>1. CASE pc \notin {"measure"} \cup Measured
    <3>1. temp = NoTemp
      BY <2>1 DEF IInv, TempInv
    <3>2. NoTemp.exists = FALSE
      BY DEF NoTemp
    <3> QED
      BY <3>1, <3>2
  <2>2. CASE pc \in {"measure", "open_fat"}
    BY <2>2 DEF IInv, TempInv, NoTemp
  <2>3. CASE pc \in Formatted
    BY <2>3 DEF IInv, TempInv
  <2> QED
    BY <2>1, <2>2, <2>3 DEF Measured
<1>3. All' = All /\ Dirs' = Dirs
  BY SameMap
<1>4. Sources' = Sources
  BY DEF Sources, File, Data, HostFiles
<1>5. TypeInv'
  BY <1>1, <1>2, <1>3, <1>4 DEF IInv, TypeInv, Ended
<1>6. RunInv'
  BY <1>1 DEF RunInv, Building, Measured, Formatted, Volume
<1>7. TempInv'
  BY <1>1 DEF TempInv, NoTemp, Measured, Formatted, Volume
<1>8. VolumeInv' /\ SlackInv'
  BY <1>1, NotMeasured DEF Measured, Formatted, Volume
<1>9. ImageInv'
  BY <1>1 DEF IInv, ImageInv
<1>10. /\ result' # None => result'.cause # "no_blocks"
       /\ result' # None /\ result'.cause = "no_space" =>
            rebuilt' # {} \/ result'.overhead + CLUSTER * (Cardinality(All') + Cardinality(Dirs')) > 64 * KB
  BY <1>1, <1>3
<1>11. NoSpaceExplained'
  BY <1>10 DEF NoSpaceExplained, All, Dirs, KB
<1> QED
  BY <1>5, <1>6, <1>7, <1>8, <1>9, <1>11 DEF IInv

LEMMA HostFailsStep ==
  ASSUME IInv, HostFails
  PROVE  IInv'
<1>1. pc \in Building /\ UNCHANGED <<host, files, needed_size, todo, image, runs, rebuilt>>
  BY DEF HostFails, HostSteps, Building, Measured, Formatted, Volume
<1>2. \E status \in {"err", "panic"} : Leave(status, "host")
  BY DEF HostFails
<1> QED
  BY <1>1, <1>2, LeaveStep

LEMMA CreateUefiStep ==
  ASSUME IInv, create_uefi_image
  PROVE  IInv'
<1>1. pc = "create" /\ UNCHANGED <<host, files, needed_size, todo, image, runs, rebuilt>>
  BY DEF create_uefi_image
<1>2. CASE Leave("err", "overwrites_internal")
  BY <1>1, <1>2, LeaveStep DEF Building
<1>3. CASE pc' = "create_temp" /\ UNCHANGED <<temp, leaked, result>>
  <2>1. Goes("create", "create_temp") /\ needed_size' \in Nat /\ todo' \subseteq All
    BY <1>1, <1>3 DEF Goes, histories, IInv, TypeInv
  <2>2. TypeInv' /\ RunInv' /\ NoSpaceExplained'
    BY <2>1, GoesKeeps DEF Building
  <2>3. VolumeInv' /\ SlackInv'
    BY <1>3, NotMeasured DEF Measured, Formatted, Volume
  <2>4. TempInv' /\ ImageInv'
    BY <1>1, <1>3 DEF IInv, TempInv, ImageInv, NoTemp, Measured, Formatted, Volume
  <2> QED
    BY <2>2, <2>3, <2>4 DEF IInv
<1> QED
  BY <1>2, <1>3 DEF create_uefi_image

LEMMA MeasureStep ==
  ASSUME IInv, Measure
  PROVE  IInv'
<1> DEFINE missing == \E d \in DOMAIN local_map : is_missing(local_map[d])
<1>1. CASE /\ Goes("measure", "open_fat") /\ ~missing
           /\ needed_size' = SumFunction([d \in DOMAIN local_map |-> len(local_map[d])])
           /\ UNCHANGED <<todo, temp, image>>
  <2>1. \A d \in All : Lens[d] \in Nat
    <3> SUFFICES ASSUME NEW d \in All PROVE Lens[d] \in Nat
      OBVIOUS
    <3>1. ~is_missing(local_map[d]) /\ local_map[d] \in Sources
      BY <1>1, SourcesTyped DEF All, IInv
    <3>2. len(local_map[d]) \in Nat
      BY <3>1, SourceLen DEF IInv
    <3> QED
      BY <3>2 DEF Lens
  <2>2. Counts(Lens, All)
    BY <2>1, AllFinite DEF Counts, IInv
  <2>3. needed_size' = Sum(Lens, All) /\ needed_size' \in Nat
    BY <1>1, <2>2, LensSum, SumNat
  <2>4. pc = "measure" /\ pc' = "open_fat" /\ UNCHANGED <<host, files, rebuilt, todo, temp, image>>
    BY <1>1 DEF Goes, histories
  <2>5. TypeInv' /\ RunInv' /\ NoSpaceExplained'
    <3>1. todo' \subseteq All
      BY <2>4 DEF IInv, TypeInv
    <3> QED
      BY <1>1, <2>3, <3>1, GoesKeeps DEF Building, Measured
  <2>6. All' = All /\ Lens' = Lens
    BY <2>4, SameMap, SameLens
  <2>7. VolumeInv' /\ SlackInv'
    BY <2>2, <2>3, <2>4, <2>6 DEF VolumeInv, SlackInv, Volume, Counts
  <2>8. TempInv' /\ ImageInv'
    BY <2>4 DEF IInv, TempInv, ImageInv, NoTemp, Measured, Formatted, Volume
  <2> QED
    BY <2>5, <2>7, <2>8 DEF IInv
<1>2. CASE /\ pc = "measure" /\ missing
           /\ Leave("err", "missing")
           /\ UNCHANGED <<host, files, needed_size, todo, image, runs, rebuilt>>
  <2>1. pc \in Building
    BY <1>2 DEF Building
  <2> QED
    BY <1>2, <2>1, LeaveStep
<1> QED
  BY <1>1, <1>2 DEF Measure

-----------------------------------------------------------------------------
(***************************************************************************)
(* The steps over a volume.                                                *)
(***************************************************************************)
LEMMA AddFileStep ==
  ASSUME IInv, AddFile
  PROVE  IInv'
<1> DEFINE d == first(todo)
           path == d.path
           source == local_map[d]
           fs == create_file(temp.fs, path, source)
<1>1. pc = "add_files" /\ todo # {} /\ pc \in Building /\ pc \in Volume
  BY DEF AddFile, Building, Measured, Formatted, Volume
<1>2. ASSUME NEW cause \in {"conflict", "missing"}, Leave("err", cause),
             UNCHANGED <<host, files, needed_size, todo, image, runs, rebuilt>>
      PROVE  IInv'
  <2>1. cause # "no_blocks" /\ cause # "no_space"
    OBVIOUS
  <2> QED
    BY <1>1, <1>2, <2>1, LeaveStep
<1>3. CASE /\ ~conflicts(temp.fs, path) /\ ~is_missing(source) /\ ~fits(fs)
           /\ Leave("err", "no_space")
           /\ UNCHANGED <<host, files, needed_size, todo, image, runs, rebuilt>>
  <2>1. rebuilt # {} \/ temp.overhead + CLUSTER * (Cardinality(All) + Cardinality(Dirs)) > 64 * KB
    BY <1>1, <1>3, NoSpaceMeans DEF IInv
  <2> QED
    BY <1>1, <1>3, <2>1, LeaveStep
<1>4. CASE /\ ~conflicts(temp.fs, path) /\ ~is_missing(source)
           /\ temp' = [temp EXCEPT !.fs = fs] /\ todo' = todo \ {d}
           /\ UNCHANGED <<host, files, pc, needed_size, image, result>> /\ UNCHANGED histories
  <2>1. Goes("add_files", "add_files")
    BY <1>1, <1>4 DEF Goes
  <2>2. d \in todo /\ d \in All
        /\ All \ (todo \ {d}) = (All \ todo) \cup {d}
        /\ \A e \in (All \ todo) \cup {d} : \A x \in todo \ {d} : index(e) < index(x)
    BY <1>1, NextTodo DEF IInv
  <2>3. TypeInv' /\ RunInv' /\ NoSpaceExplained'
    <3>1. needed_size' \in Nat /\ todo' \subseteq All
      BY <1>4 DEF IInv, TypeInv
    <3> QED
      BY <1>1, <2>1, <3>1, GoesKeeps
  <2>4. All' = All /\ local_map' = local_map /\ Lens' = Lens /\ Dirs' = Dirs /\ rebuilt' = rebuilt
    BY <1>4, SameMap, SameLens DEF histories
  <2>5. Holds(fs, (All \ todo) \cup {d})
    BY <1>1, <1>4, AddHolds DEF IInv
  <2>6. rebuilt = {} =>
          CLUSTER * clusters(fs) <= Sum(Lens, (All \ todo) \cup {d})
            + CLUSTER * (Cardinality((All \ todo) \cup {d}) + Cardinality(DirsOf(fs)))
    BY <1>1, <1>4, AddSlack DEF IInv
  <2>7. /\ temp.exists = TRUE /\ temp.len = fat_size_padded_and_rounded /\ temp.overhead \in Nat
        /\ temp = [exists |-> temp.exists, len |-> temp.len, overhead |-> temp.overhead, fs |-> temp.fs]
    BY <1>1 DEF IInv, TempInv, Formatted
  <2> HIDE DEF fs
  <2>8. /\ temp' = [exists |-> temp.exists, len |-> temp.len, overhead |-> temp.overhead, fs |-> fs]
        /\ temp'.fs = fs /\ temp'.exists = TRUE /\ temp'.overhead \in Nat /\ temp'.len = temp.len
    BY <1>4, <2>7
  <2>9. All' \ todo' = (All \ todo) \cup {d}
    BY <1>4, <2>2, <2>4
  <2>10. Holds(temp.fs, All \ todo)'
    BY <2>4, <2>5, <2>8, <2>9 DEF Holds, FileOf, Measurable, ancestors, File
  <2>11. VolumeInv'
    BY <1>1, <1>4, <2>2, <2>9, <2>10 DEF VolumeInv
  <2>12. SlackInv'
    <3>1. rebuilt = {} => Counts(Lens, All) /\ needed_size = Sum(Lens, All)
      BY <1>1 DEF IInv, SlackInv, Measured, Formatted
    <3> QED
      BY <1>4, <2>4, <2>6, <2>8, <2>9, <3>1 DEF SlackInv, Counts, clusters, DirsOf
  <2>13. fat_size_padded_and_rounded' = fat_size_padded_and_rounded
    BY <1>4 DEF fat_size_padded_and_rounded, KB, MB
  <2>14. temp' = [exists |-> temp'.exists, len |-> temp'.len, overhead |-> temp'.overhead, fs |-> temp'.fs]
    BY <2>8
  <2>15. pc' = "add_files" /\ pc' \in Measured
    BY <1>1, <1>4 DEF Measured, Formatted
  <2>16. TempInv'
    BY <2>7, <2>8, <2>13, <2>14, <2>15 DEF TempInv
  <2>17. ImageInv'
    BY <1>1, <1>4 DEF IInv, ImageInv
  <2> QED
    BY <2>3, <2>11, <2>12, <2>16, <2>17 DEF IInv
<1> QED
  BY <1>2, <1>3, <1>4 DEF AddFile

\* The steps that change only pc and the image, after the last file.
LEMMA OverVolume ==
  ASSUME IInv, NEW from \in Volume, NEW to \in Volume \ {"add_files"}, Goes(from, to), todo = {},
         UNCHANGED <<needed_size, todo, temp>>, ImageInv'
  PROVE  IInv'
<1>1. pc = from /\ pc' = to /\ UNCHANGED <<host, files, rebuilt>>
  BY DEF Goes, histories
<1>2. TypeInv' /\ RunInv' /\ NoSpaceExplained'
  <2>1. needed_size' \in Nat /\ todo' \subseteq All /\ from \in Building /\ to \in Building
    BY DEF IInv, TypeInv, Building, Measured, Formatted
  <2> QED
    BY <2>1, GoesKeeps
<1>3. VolumeInv' /\ SlackInv'
  BY <1>1, VolumeKept
<1>4. fat_size_padded_and_rounded' = fat_size_padded_and_rounded
  BY DEF fat_size_padded_and_rounded, KB, MB
<1>5. from \in Formatted /\ to \in Formatted /\ to \in Measured /\ to \notin {"measure", "open_fat", "format"}
  BY DEF Volume, Formatted, Measured
<1>6. TempInv'
  BY <1>1, <1>4, <1>5 DEF IInv, TempInv
<1> QED
  BY <1>2, <1>3, <1>6 DEF IInv

\* The sizes of a volume and of the disk around it.
LEMMA DiskSize ==
  ASSUME IInv, pc \in Formatted
  PROVE  /\ temp.len \in Nat /\ temp.len % MB = 0 /\ disk_size % BLOCK = 0 /\ disk_size \in Nat
         /\ GPT_FRONT + temp.len <= disk_size - GPT_BACK
<1>1. temp.len \in Nat /\ temp.len % MB = 0
  BY FatSize DEF IInv, TypeInv, TempInv
<1> QED
  BY <1>1 DEF disk_size, MB, KB, BLOCK, GPT_FRONT, GPT_BACK

LEMMA FilesAddedStep ==
  ASSUME IInv, FilesAdded
  PROVE  IInv'
<1>1. Goes("add_files", "open_image") /\ todo = {} /\ pc = "add_files" /\ pc' = "open_image"
      /\ UNCHANGED <<needed_size, todo, temp, image>>
  BY DEF FilesAdded, Goes, outputs
<1>2. ImageInv'
  BY <1>1 DEF IInv, ImageInv
<1> QED
  BY <1>1, <1>2, OverVolume DEF Volume

LEMMA OpenImageStep ==
  ASSUME IInv, OpenImage
  PROVE  IInv'
<1>1. Goes("open_image", "set_len") /\ pc = "open_image" /\ pc' = "set_len" /\ image' = Blank
      /\ UNCHANGED <<needed_size, todo, temp>>
  BY DEF OpenImage, Goes, Blank
<1>2. todo = {}
  BY <1>1 DEF IInv, VolumeInv, Volume
<1>3. image'.len % BLOCK = 0 /\ image'.mbr \in BOOLEAN
  BY <1>1 DEF Blank, BLOCK
<1>4. ImageInv'
  BY <1>1, <1>3 DEF ImageInv, Blank, BLOCK
<1> QED
  BY <1>1, <1>2, <1>4, OverVolume DEF Volume

LEMMA SetLenStep ==
  ASSUME IInv, SetLen
  PROVE  IInv'
<1>1. Goes("set_len", "mbr") /\ pc = "set_len" /\ pc' = "mbr"
      /\ image' = [image EXCEPT !.len = disk_size] /\ UNCHANGED <<needed_size, todo, temp>>
  BY DEF SetLen, Goes
<1>2. todo = {} /\ image = Blank /\ pc \in Formatted
  BY <1>1 DEF IInv, VolumeInv, ImageInv, Volume, Formatted
<1>3. disk_size' = disk_size /\ disk_size % BLOCK = 0
  BY <1>1, <1>2, DiskSize DEF disk_size, KB
<1>4. image' = [Blank EXCEPT !.len = disk_size'] /\ image'.len = disk_size /\ image'.mbr = FALSE
  BY <1>1, <1>2, <1>3 DEF Blank
<1>5. ImageInv'
  BY <1>1, <1>3, <1>4 DEF ImageInv, Blank, BLOCK
<1> QED
  BY <1>1, <1>2, <1>5, OverVolume DEF Volume

LEMMA WriteMbrStep ==
  ASSUME IInv, WriteMbr
  PROVE  IInv'
<1>1. Goes("mbr", "partition") /\ pc = "mbr" /\ pc' = "partition"
      /\ image' = [image EXCEPT !.mbr = TRUE] /\ UNCHANGED <<needed_size, todo, temp>>
  BY DEF WriteMbr, Goes
<1>2. todo = {} /\ image = [Blank EXCEPT !.len = disk_size] /\ pc \in Formatted
  BY <1>1 DEF IInv, VolumeInv, ImageInv, Volume, Formatted
<1>3. disk_size' = disk_size /\ disk_size % BLOCK = 0
  BY <1>1, <1>2, DiskSize DEF disk_size, KB
<1>4. image' = [Blank EXCEPT !.len = disk_size', !.mbr = TRUE] /\ image'.len = disk_size /\ image'.mbr = TRUE
  BY <1>1, <1>2, <1>3 DEF Blank
<1>5. ImageInv'
  BY <1>1, <1>3, <1>4 DEF ImageInv, Blank, BLOCK
<1> QED
  BY <1>1, <1>2, <1>5, OverVolume DEF Volume

\* The GPT always fits: add_partition does not fail.
LEMMA AddPartitionStep ==
  ASSUME IInv, AddPartition
  PROVE  IInv'
<1>1. pc = "partition" /\ UNCHANGED <<host, files, needed_size, todo, image, runs, rebuilt>>
  BY DEF AddPartition
<1>2. todo = {} /\ image = [Blank EXCEPT !.len = disk_size, !.mbr = TRUE] /\ pc \in Formatted
  BY <1>1 DEF IInv, VolumeInv, ImageInv, Volume, Formatted
<1>3. image.len = disk_size
  BY <1>2 DEF Blank
<1>4. GPT_FRONT + temp.len <= image.len - GPT_BACK
  BY <1>2, <1>3, DiskSize
<1>5. pc' = "write_gpt" /\ UNCHANGED <<temp, leaked, result>>
  BY <1>4 DEF AddPartition
<1>6. Goes("partition", "write_gpt")
  BY <1>1, <1>5 DEF Goes, histories
<1>7. disk_size' = disk_size
  BY <1>5 DEF disk_size, KB
<1>8. ImageInv'
  BY <1>1, <1>5, <1>7 DEF IInv, ImageInv, Blank, BLOCK
<1> QED
  BY <1>1, <1>2, <1>5, <1>6, <1>8, OverVolume DEF Volume

LEMMA WriteGptStep ==
  ASSUME IInv, WriteGpt
  PROVE  IInv'
<1>1. Goes("write_gpt", "copy") /\ pc = "write_gpt" /\ pc' = "copy"
      /\ image' = [image EXCEPT !.partition = [start |-> GPT_FRONT, len |-> temp.len]]
      /\ UNCHANGED <<needed_size, todo, temp>>
  BY DEF WriteGpt, Goes
<1>2. todo = {} /\ image = [Blank EXCEPT !.len = disk_size, !.mbr = TRUE] /\ pc \in Formatted
  BY <1>1 DEF IInv, VolumeInv, ImageInv, Volume, Formatted
<1>3. disk_size' = disk_size /\ disk_size % BLOCK = 0 /\ GPT_FRONT' = GPT_FRONT
  BY <1>1, <1>2, DiskSize DEF disk_size, KB, GPT_FRONT
<1>4. /\ image' = [Blank EXCEPT !.len = disk_size', !.mbr = TRUE,
                                !.partition = [start |-> GPT_FRONT, len |-> temp'.len]]
      /\ image'.len = disk_size /\ image'.mbr = TRUE
  BY <1>1, <1>2, <1>3 DEF Blank
<1>5. ImageInv'
  BY <1>1, <1>3, <1>4 DEF ImageInv, Blank, BLOCK, GPT_FRONT
<1> QED
  BY <1>1, <1>2, <1>5, OverVolume DEF Volume

LEMMA CopyFatStep ==
  ASSUME IInv, CopyFat
  PROVE  IInv'
<1>1. Goes("copy", "close") /\ pc = "copy" /\ pc' = "close"
      /\ image' = [image EXCEPT !.fs = temp.fs, !.fs_at = image.partition.start]
      /\ UNCHANGED <<needed_size, todo, temp>>
  BY DEF CopyFat, Goes
<1>2. /\ todo = {} /\ pc \in Formatted
      /\ image = [Blank EXCEPT !.len = disk_size, !.mbr = TRUE,
                               !.partition = [start |-> GPT_FRONT, len |-> temp.len]]
  BY <1>1 DEF IInv, VolumeInv, ImageInv, Volume, Formatted
<1>3. disk_size' = disk_size /\ disk_size % BLOCK = 0
  BY <1>1, <1>2, DiskSize DEF disk_size, KB
<1>4. /\ image' = [len |-> disk_size', mbr |-> TRUE, partition |-> [start |-> GPT_FRONT, len |-> temp'.len],
                   fs |-> temp'.fs, fs_at |-> GPT_FRONT]
      /\ image'.len = disk_size /\ image'.mbr = TRUE
  BY <1>1, <1>2, <1>3 DEF Blank
<1>5. ImageInv'
  BY <1>1, <1>3, <1>4 DEF ImageInv, BLOCK, GPT_FRONT
<1> QED
  BY <1>1, <1>2, <1>5, OverVolume DEF Volume

\* What CloseTemp leaves is a whole image.
LEMMA CloseGood ==
  ASSUME IInv, pc = "close"
  PROVE  GoodImage
<1>1. image = [len |-> disk_size, mbr |-> TRUE, partition |-> [start |-> GPT_FRONT, len |-> temp.len],
               fs |-> temp.fs, fs_at |-> GPT_FRONT]
  BY DEF IInv, ImageInv
<1>2. pc \in Formatted /\ todo = {} /\ Holds(temp.fs, All \ todo)
  BY DEF IInv, VolumeInv, Formatted, Volume
<1>3. GPT_FRONT + temp.len <= disk_size - GPT_BACK
  BY <1>2, DiskSize
<1>4. All \ todo = All
  BY <1>2
<1>5. Holds(image.fs, All)
  BY <1>1, <1>2, <1>4
<1>6. /\ image.mbr = TRUE /\ image.partition.start = GPT_FRONT /\ image.partition.len = temp.len
      /\ image.len = disk_size /\ image.fs_at = GPT_FRONT
  BY <1>1
<1> QED
  BY <1>3, <1>5, <1>6 DEF GoodImage, GPT_FRONT, BLOCK

\* Steps to a state of the tool in which no build is under way.
LEMMA EndStep ==
  ASSUME IInv, pc' \in Ended, temp' = NoTemp, leaked' \in BOOLEAN,
         UNCHANGED <<host, files, needed_size, todo, image, runs, rebuilt>>,
         result' # None => result'.status \in {"ok", "err", "panic"} /\ result'.cause # "no_blocks",
         NoSpaceExplained',
         (pc' = "returned" /\ result'.status = "ok") \/ pc' \in {"spawn", "emulator"} => GoodImage
  PROVE  IInv'
<1>1. All' = All /\ Sources' = Sources
  BY SameMap DEF Sources, File, Data, HostFiles
<1>2. TypeInv'
  BY <1>1 DEF IInv, TypeInv
<1>3. pc' \notin Building /\ pc' \notin {"measure"} \cup Measured
      /\ pc' \notin {"set_len", "mbr", "partition", "write_gpt", "copy", "close"}
  BY DEF Ended, Building, Measured, Formatted, Volume
<1>4. RunInv'
  BY <1>3 DEF RunInv
<1>5. TempInv'
  BY <1>3 DEF TempInv, NoTemp, Measured, Formatted
<1>6. VolumeInv' /\ SlackInv'
  BY <1>3, NotMeasured
<1>7. GoodImage => GoodImage'
  BY SameImage
<1>8. image' # None => image'.len % BLOCK' = 0 /\ image'.mbr \in BOOLEAN
  BY DEF IInv, ImageInv, BLOCK
<1>9. ImageInv'
  BY <1>3, <1>7, <1>8 DEF ImageInv
<1> QED
  BY <1>2, <1>4, <1>5, <1>6, <1>9 DEF IInv

LEMMA CloseTempStep ==
  ASSUME IInv, CloseTemp
  PROVE  IInv'
<1>1. /\ pc = "close" /\ pc' = "returned" /\ temp' = NoTemp
      /\ UNCHANGED <<host, files, needed_size, todo, image, runs, rebuilt>>
  BY DEF CloseTemp
<1>2. GoodImage
  BY <1>1, CloseGood
<1>3. leaked' \in BOOLEAN
  BY DEF CloseTemp, IInv, TypeInv
<1>4. result'.status \in {"ok", "err", "panic"} /\ result'.cause \in {"none", "host"}
  BY DEF CloseTemp
<1>5. NoSpaceExplained'
  BY <1>4 DEF NoSpaceExplained
<1> QED
  BY <1>1, <1>2, <1>3, <1>4, <1>5, EndStep DEF Ended

\* Steps that only move pc on, after the build.
LEMMA AfterStep ==
  ASSUME IInv, pc \in Ended, pc' \in Ended \ {"returned"}, UNCHANGED <<host, files, result>>,
         UNCHANGED outputs, UNCHANGED histories, pc' \in {"spawn", "emulator"} => GoodImage
  PROVE  IInv'
<1>1. /\ UNCHANGED <<host, files, needed_size, todo, image, runs, rebuilt>>
      /\ temp' = temp /\ leaked' = leaked /\ result' = result
  BY DEF outputs, histories
<1>2. temp' = NoTemp
  BY <1>1 DEF IInv, TempInv, Ended, Measured, Formatted, Volume
<1>3. leaked' \in BOOLEAN
  BY <1>1 DEF IInv, TypeInv
<1>4. NoSpaceExplained'
  BY <1>1, NoSpaceKept DEF IInv
<1>5. result' # None => result'.status \in {"ok", "err", "panic"} /\ result'.cause # "no_blocks"
  BY <1>1 DEF IInv, RunInv
<1> QED
  BY <1>1, <1>2, <1>3, <1>4, <1>5, EndStep

LEMMA MainSteps ==
  ASSUME IInv, Unwrap \/ SpawnEmulator \/ EmulatorExits
  PROVE  IInv'
<1>1. CASE Unwrap
  <2>1. pc = "returned" /\ pc' = (IF result.status = "ok" THEN "spawn" ELSE "exited")
        /\ UNCHANGED <<host, files, result>> /\ UNCHANGED outputs /\ UNCHANGED histories
    BY <1>1 DEF Unwrap
  <2>2. pc' = "spawn" => GoodImage
    BY <2>1 DEF IInv, ImageInv
  <2> QED
    BY <2>1, <2>2, AfterStep DEF Ended
<1>2. CASE SpawnEmulator
  <2>1. pc = "spawn" /\ pc' \in {"emulator", "exited"}
        /\ UNCHANGED <<host, files, result>> /\ UNCHANGED outputs /\ UNCHANGED histories
    BY <1>2 DEF SpawnEmulator
  <2>2. GoodImage
    BY <2>1 DEF IInv, ImageInv
  <2> QED
    BY <2>1, <2>2, AfterStep DEF Ended
<1>3. CASE EmulatorExits
  BY <1>3, AfterStep DEF EmulatorExits, Goes, Ended
<1> QED
  BY <1>1, <1>2, <1>3

LEMMA KillStep ==
  ASSUME IInv, Kill
  PROVE  IInv'
<1>1. /\ pc' = "exited" /\ temp' = NoTemp /\ leaked' = (leaked \/ temp.exists)
      /\ UNCHANGED <<host, files, needed_size, todo, image, runs, rebuilt>> /\ result' = result
  BY DEF Kill
<1>2. leaked' \in BOOLEAN
  BY <1>1
<1>3. NoSpaceExplained'
  BY <1>1, NoSpaceKept DEF IInv
<1>4. result' # None => result'.status \in {"ok", "err", "panic"} /\ result'.cause # "no_blocks"
  BY <1>1 DEF IInv, RunInv
<1> QED
  BY <1>1, <1>2, <1>3, <1>4, EndStep DEF Ended

LEMMA RunAgainStep ==
  ASSUME IInv, RunAgain
  PROVE  IInv'
<1>1. /\ pc = "exited" /\ pc' = "create" /\ runs < MaxRuns /\ runs' = runs + 1
      /\ result' = None /\ rebuilt' = {} /\ leaked' = FALSE
      /\ UNCHANGED <<host, files, needed_size, todo, temp, image>>
  BY DEF RunAgain, outputs
<1>2. All' = All /\ Sources' = Sources
  BY <1>1, SameMap DEF Sources, File, Data, HostFiles
<1>3. runs' \in 1 .. MaxRuns
  BY <1>1, SizesAssumption DEF IInv, TypeInv
<1>4. pc' \in Building
  BY <1>1 DEF Building
<1>5. TypeInv'
  BY <1>1, <1>2, <1>3, <1>4 DEF IInv, TypeInv
<1>6. RunInv' /\ NoSpaceExplained'
  BY <1>1, ResultNone DEF RunInv
<1>7. VolumeInv' /\ SlackInv'
  BY <1>1, NotMeasured DEF Measured, Formatted, Volume
<1>8. TempInv' /\ ImageInv'
  BY <1>1 DEF IInv, TempInv, ImageInv, NoTemp, Measured, Formatted, Volume, BLOCK
<1> QED
  BY <1>5, <1>6, <1>7, <1>8 DEF IInv

\* A build replaces a file: what the volume holds of it may be old.
LEMMA RebuildStep ==
  ASSUME IInv, Rebuild
  PROVE  IInv'
<1>1. /\ pc \in {"open_fat", "format", "add_files", "exited"}
      /\ UNCHANGED <<files, pc, result, runs, leaked, needed_size, todo, temp, image>>
  BY DEF Rebuild, outputs
<1>2. PICK p \in HostFiles : \E n \in Lengths \cup {None} :
         host' = [host EXCEPT ![p] = n] /\ rebuilt' = rebuilt \cup {p}
  BY DEF Rebuild
<1>3. PICK n \in Lengths \cup {None} : host' = [host EXCEPT ![p] = n] /\ rebuilt' = rebuilt \cup {p}
  BY <1>2
<1>4. All' = All /\ local_map' = local_map /\ Dirs' = Dirs
  BY <1>1, SameMap
<1>5. Sources' = Sources
  BY DEF Sources, File, Data, HostFiles
<1>6. host \in [HostFiles -> Lengths \cup {None}]
  BY DEF IInv, TypeInv
<1>7. host' \in [HostFiles -> Lengths \cup {None}] /\ \A q \in HostFiles \ {p} : host'[q] = host[q]
  BY <1>3, <1>6
<1>8. TypeInv'
  BY <1>1, <1>3, <1>4, <1>5, <1>7 DEF IInv, TypeInv, HostFiles
<1>9. RunInv' /\ NoSpaceExplained'
  <2>1. RunInv'
    BY <1>1 DEF IInv, RunInv
  <2> QED
    BY <1>1, <1>3, <2>1, NoSpaceKept DEF IInv
<1>10. TempInv'
  <2>1. fat_size_padded_and_rounded' = fat_size_padded_and_rounded
    BY <1>1 DEF fat_size_padded_and_rounded, KB, MB
  <2> QED
    BY <1>1, <2>1 DEF IInv, TempInv, NoTemp
<1>11. \A e \in All : local_map[e].path # p => Lens'[e] = Lens[e]
  <2> SUFFICES ASSUME NEW e \in All, local_map[e].path # p PROVE Lens'[e] = Lens[e]
    OBVIOUS
  <2>1. local_map[e] \in Sources
    BY SourcesTyped DEF IInv
  <2>2. Lens[e] = len(local_map[e])
    BY DEF Lens
  <2>3. Lens'[e] = IF local_map[e].kind = "file" THEN host'[local_map[e].path] ELSE local_map[e].len
    BY <1>4 DEF Lens, len
  <2>4. local_map[e].kind = "file" => local_map[e].path \in HostFiles
    BY <2>1 DEF Sources, File, Data
  <2> QED
    BY <1>7, <2>2, <2>3, <2>4 DEF len
<1>12. VolumeInv'
  <2>1. CASE pc \notin Volume
    BY <1>1, <2>1 DEF VolumeInv
  <2>2. CASE pc \in Volume
    <3> DEFINE fs == temp.fs
               S == All \ todo
    <3>1. Holds(fs, S)
      BY <2>2 DEF IInv, VolumeInv
    <3>2. fs' = fs /\ S' = S /\ S \subseteq All
      BY <1>1, <1>4
    <3> HIDE DEF fs, S
    <3>3. ASSUME NEW q, FileOf(fs, q, S)
          PROVE  \E e \in S : /\ e.path = q /\ fs[q].source = local_map'[e]
                              /\ local_map'[e].path \notin rebuilt' => fs[q].len = Lens'[e]
      <4>1. PICK e \in S : /\ e.path = q /\ fs[q].source = local_map[e]
                           /\ local_map[e].path \notin rebuilt => fs[q].len = Lens[e]
        BY <3>3 DEF FileOf
      <4> QED
        BY <1>3, <1>4, <1>11, <3>2, <4>1
    <3>5. \A q : FileOf(fs, q, S) => FileOf(fs, q, S)'
      BY <3>2, <3>3 DEF FileOf
    <3>4. Holds(fs, S)'
      BY <1>4, <3>1, <3>2, <3>5 DEF Holds, Measurable, ancestors, File
    <3> QED
      BY <1>1, <2>2, <3>2, <3>4 DEF IInv, VolumeInv, fs, S
  <2> QED
    BY <2>1, <2>2
<1>13. SlackInv'
  BY <1>3 DEF SlackInv
<1>14. ImageInv'
  BY <1>1 DEF IInv, ImageInv, BLOCK
<1> QED
  BY <1>8, <1>9, <1>10, <1>12, <1>13, <1>14 DEF IInv

LEMMA NextKeeps == IInv /\ [Next]_vars => IInv'
<1> SUFFICES ASSUME IInv, [Next]_vars PROVE IInv'
  OBVIOUS
<1>1. CASE UNCHANGED vars
  <2>1. UNCHANGED <<host, files, pc, needed_size, todo, temp, image, result, runs, rebuilt, leaked>>
    BY <1>1 DEF vars
  <2>2. /\ All' = All /\ local_map' = local_map /\ Dirs' = Dirs /\ Lens' = Lens
        /\ Sources' = Sources /\ fat_size_padded_and_rounded' = fat_size_padded_and_rounded
        /\ disk_size' = disk_size
    BY <2>1, SameMap, SameLens
       DEF Sources, File, Data, HostFiles, fat_size_padded_and_rounded, disk_size, KB, MB
  <2>3. TypeInv' /\ RunInv' /\ TempInv'
    BY <2>1, <2>2 DEF IInv, TypeInv, RunInv, TempInv, NoTemp, HostFiles
  <2>4. NoSpaceExplained'
    BY <2>1, NoSpaceKept DEF IInv
  <2>5. VolumeInv'
    BY <2>1, <2>2, SameVolume DEF IInv, VolumeInv
  <2>6. SlackInv'
    BY <2>1, <2>2 DEF IInv, SlackInv, Counts, clusters, DirsOf
  <2>7. ImageInv'
    <3>1. GoodImage => GoodImage'
      BY <2>1, SameImage
    <3>2. Blank' = Blank /\ GPT_FRONT' = GPT_FRONT /\ BLOCK' = BLOCK
      BY DEF Blank, GPT_FRONT, BLOCK
    <3>3. ImageInv
      BY DEF IInv
    <3>4. image' # None => image'.len % BLOCK' = 0 /\ image'.mbr \in BOOLEAN
      BY <2>1, <3>2, <3>3 DEF ImageInv
    <3>5. (pc' = "returned" /\ result'.status = "ok") \/ pc' \in {"spawn", "emulator"} => GoodImage'
      BY <2>1, <3>1, <3>3 DEF ImageInv
    <3> QED
      BY <2>1, <2>2, <3>2, <3>3, <3>4, <3>5 DEF ImageInv
  <2> QED
    BY <2>3, <2>4, <2>5, <2>6, <2>7 DEF IInv
<1>2. CASE Configure \/ CallCreate \/ create_uefi_image \/ CreateTemp \/ Measure \/ OpenFat
           \/ FormatVolume \/ AddFile \/ FilesAdded
  BY <1>2, ConfigureStep, CallCreateStep, CreateUefiStep, CreateTempStep, MeasureStep, OpenFatStep,
     FormatStep, AddFileStep, FilesAddedStep
<1>3. CASE OpenImage \/ SetLen \/ WriteMbr \/ AddPartition \/ WriteGpt \/ CopyFat \/ CloseTemp
  BY <1>3, OpenImageStep, SetLenStep, WriteMbrStep, AddPartitionStep, WriteGptStep, CopyFatStep,
     CloseTempStep
<1>4. CASE HostFails \/ Unwrap \/ SpawnEmulator \/ EmulatorExits \/ Kill \/ RunAgain \/ Rebuild
  BY <1>4, HostFailsStep, MainSteps, KillStep, RunAgainStep, RebuildStep
<1> QED
  BY <1>1, <1>2, <1>3, <1>4 DEF Next

-----------------------------------------------------------------------------
(***************************************************************************)
(* The invariant holds in every state of every run of the tool: whatever   *)
(* create_disk_image was given, wherever the host fails, the tool is killed *)
(* or a build replaces a file.                                             *)
(***************************************************************************)
THEOREM ToolInvariant == Spec => []IInv
<1>1. Init => IInv
  BY InitInv
<1>2. IInv /\ [Next]_vars => IInv'
  BY NextKeeps
<1> QED
  BY <1>1, <1>2, PTL DEF Spec

(***************************************************************************)
(* Types, and that the volume has whole MiBs and room for what was         *)
(* measured, whatever happens to the files meanwhile (fat_fs.rs).          *)
(***************************************************************************)
THEOREM ImageTyped == Spec => []TypeOK
<1>1. IInv => TypeOK
  <2> SUFFICES ASSUME IInv PROVE TypeOK
    OBVIOUS
  <2>1. temp.len % MB = 0 /\ (temp.fs # <<>> => temp.len >= needed_size)
    <3>1. CASE pc \in Formatted
      <4>1. temp.len = fat_size_padded_and_rounded /\ needed_size \in Nat
        BY <3>1 DEF IInv, TempInv, TypeInv
      <4> QED
        BY <4>1, FatSize DEF KB
    <3>2. CASE pc \notin Formatted
      <4>1. temp = NoTemp \/ temp = [NoTemp EXCEPT !.exists = TRUE]
        BY <3>2 DEF IInv, TempInv, Measured
      <4>2. temp.len = 0 /\ temp.fs = <<>>
        BY <4>1 DEF NoTemp
      <4> QED
        BY <4>2 DEF MB, KB
    <3> QED
      BY <3>1, <3>2
  <2>2. image # None => image.len % BLOCK = 0 /\ image.mbr \in BOOLEAN
    BY DEF IInv, ImageInv
  <2>3. result # None => result.status \in {"ok", "err", "panic"}
    BY DEF IInv, RunInv
  <2> QED
    BY <2>1, <2>2, <2>3 DEF IInv, TypeInv, TypeOK, All
<1> QED
  BY <1>1, ToolInvariant, PTL

(***************************************************************************)
(* main gives the emulator a whole image, made from all the files, with    *)
(* the loader where the firmware looks for it and the partition clear of   *)
(* both partition tables (create_gpt_disk, add_files_to_image): for every  *)
(* set of files and any number of runs that failed before.                 *)
(***************************************************************************)
THEOREM EmulatorGetsWholeImage == Spec => []BootsWholeImage
<1>1. IInv => BootsWholeImage
  <2> SUFFICES ASSUME IInv, pc = "emulator" PROVE BootsWholeImage
    BY DEF BootsWholeImage
  <2>1. GoodImage
    BY DEF IInv, ImageInv
  <2>2. Holds(image.fs, All) /\ BOOTLOADER_FILE_NAME \in All
    BY <2>1, AllIs DEF GoodImage
  <2>3. ASSUME NEW d \in All PROVE HasFile(d)
    <3>1. d.path \in DOMAIN image.fs /\ image.fs[d.path].kind = "file"
      BY <2>2 DEF Holds
    <3>2. FileOf(image.fs, d.path, All)
      BY <2>2, <3>1 DEF Holds
    <3>3. PICK e \in All : /\ e.path = d.path /\ image.fs[d.path].source = local_map[e]
                           /\ local_map[e].path \notin rebuilt => image.fs[d.path].len = Lens[e]
      BY <3>2 DEF FileOf
    <3>4. Lens[e] = len(local_map[e])
      BY DEF Lens
    <3> QED
      BY <3>1, <3>3, <3>4 DEF HasFile, SameFile, All
  <2>4. image.fs[BOOTLOADER_FILE_NAME.path].source = File(initium)
    BY <2>2 DEF Holds
  <2>5. \A p \in DOMAIN image.fs : image.fs[p].kind = "file" => ancestors(p) \subseteq DOMAIN image.fs
    BY <2>2 DEF Holds
  <2> QED
    BY <2>1, <2>3, <2>4, <2>5 DEF BootsWholeImage, GoodImage, All
<1> QED
  BY <1>1, ToolInvariant, PTL

(***************************************************************************)
(* The 64 KiB that create_fat_filesystem adds to the measured size are     *)
(* enough unless a file grew, or the volume's own structures, directories  *)
(* and cluster ends need more than that; and the 64 KiB that               *)
(* create_gpt_disk adds always hold the partition tables.                  *)
(***************************************************************************)
THEOREM SlackSuffices == Spec => []NoSpaceExplained
<1>1. IInv => NoSpaceExplained
  BY DEF IInv
<1> QED
  BY <1>1, ToolInvariant, PTL

\* The image changes only over a finished volume.
LEMMA ImageChanges ==
  ASSUME IInv, [Next]_vars, image' # image
  PROVE  temp.exists /\ todo = {} /\ \A d \in DOMAIN local_map : d.path \in DOMAIN temp.fs
<1>1. pc \in Volume \ {"add_files"}
  BY DEF Next, vars, outputs, histories, Goes, Leave, Configure, CallCreate, create_uefi_image,
         CreateTemp, Measure, OpenFat, FormatVolume, AddFile, FilesAdded, OpenImage, SetLen,
         WriteMbr, AddPartition, WriteGpt, CopyFat, CloseTemp, HostFails, Unwrap, SpawnEmulator,
         EmulatorExits, Kill, RunAgain, Rebuild, Volume
<1>2. todo = {} /\ Holds(temp.fs, All \ todo)
  BY <1>1 DEF IInv, VolumeInv
<1>3. temp.exists = TRUE
  BY <1>1 DEF IInv, TempInv, Formatted
<1> QED
  BY <1>2, <1>3 DEF Holds, All

\* create_disk_image returns through Leave or CloseTemp only.
LEMMA Returns ==
  ASSUME IInv, [Next]_vars, pc' = "returned", pc # "returned"
  PROVE  /\ temp' = NoTemp
         /\ result'.status = "ok" =>
              ~leaked' /\ \A d \in DOMAIN local_map : d.path \in DOMAIN image'.fs
<1>1. CloseTemp \/ \E status \in {"err", "panic"} : \E cause : Leave(status, cause)
  BY DEF Next, vars, outputs, histories, Goes, Configure, CallCreate, create_uefi_image,
         CreateTemp, Measure, OpenFat, FormatVolume, AddFile, FilesAdded, OpenImage, SetLen,
         WriteMbr, AddPartition, WriteGpt, CopyFat, HostFails, Unwrap, SpawnEmulator,
         EmulatorExits, Kill, RunAgain, Rebuild
<1>2. CASE CloseTemp
  <2>1. pc = "close" /\ temp' = NoTemp /\ image' = image
    BY <1>2 DEF CloseTemp
  <2>2. leaked = FALSE
    BY <2>1 DEF IInv, RunInv, Building, Measured, Formatted, Volume
  <2>3. Holds(image.fs, All)
    BY <2>1, CloseGood DEF GoodImage
  <2>4. result'.status = "ok" => leaked' = leaked
    BY <1>2 DEF CloseTemp
  <2> QED
    BY <2>1, <2>2, <2>3, <2>4 DEF Holds, All
<1>3. CASE \E status \in {"err", "panic"} : \E cause : Leave(status, cause)
  BY <1>3 DEF Leave
<1> QED
  BY <1>1, <1>2, <1>3

(***************************************************************************)
(* The previous image stays as it is until every file is on the volume,    *)
(* and create_disk_image keeps its temporary file only if the host refuses *)
(* to delete it: in every step of every run.                               *)
(***************************************************************************)
THEOREM FailuresAreClean == Spec => FailsCleanly
<1> DEFINE A == /\ image' # image =>
                     temp.exists /\ todo = {} /\ \A d \in DOMAIN local_map : d.path \in DOMAIN temp.fs
                /\ pc' = "returned" /\ pc # "returned" =>
                     /\ temp' = NoTemp
                     /\ result'.status = "ok" =>
                          ~leaked' /\ \A d \in DOMAIN local_map : d.path \in DOMAIN image'.fs
<1>1. IInv /\ [Next]_vars => [A]_vars
  BY ImageChanges, Returns
<1> QED
  BY <1>1, ToolInvariant, PTL DEF Spec, FailsCleanly
=============================================================================
