-------------------------- MODULE RuntimeCache_proofs --------------------------
(***************************************************************************)
(* Theorems about RuntimeCache for every set of keys and every graph of    *)
(* required dependencies.  Swept and Size are recursive functions: what    *)
(* they compute is proved by taking a least counterexample, which exists   *)
(* among the subsets of a finite set.                                      *)
(***************************************************************************)
EXTENDS RuntimeCache, FiniteSetTheorems, WellFoundedInduction, TLAPS

\* Among sets of subsets of a finite set, some set has no other below it.
LEMMA LeastSubset ==
  ASSUME NEW S, IsFiniteSet(S), NEW T, T \subseteq SUBSET S, T # {}
  PROVE  \E K \in T : \A L \in T : L \subseteq K => L = K
<1>1. IsWellFoundedOn(StrictSubsetOrdering(S), FiniteSubsetsOf(S))
  BY FS_StrictSubsetOrderingWellFounded
<1>2. T \subseteq FiniteSubsetsOf(S)
  BY FS_Subset DEF FiniteSubsetsOf
<1>3. \E K \in T : \A L \in T : ~ (<<L, K>> \in StrictSubsetOrdering(S))
  BY <1>1, <1>2, WFMin
<1> QED
  BY <1>3 DEF StrictSubsetOrdering

LEMMA LeastNumber ==
  ASSUME NEW N \in Nat, NEW T, T \subseteq 0..N, T # {}
  PROVE  \E n \in T : \A m \in T : n <= m
<1> DEFINE below == {0..n : n \in T}
<1>1. IsFiniteSet(0..N)
  BY FS_Interval
<1>2. \A n \in T : n \in Nat /\ n <= N /\ 0..n \in SUBSET (0..N) /\ 0..n \in below
  OBVIOUS
<1>3. below \subseteq SUBSET (0..N) /\ below # {} /\ \A K \in below : \E n \in T : K = 0..n
  BY <1>2
<1> HIDE DEF below
<1>4. PICK K \in below : \A L \in below : L \subseteq K => L = K
  BY <1>1, <1>3, LeastSubset
<1>5. PICK n \in T : K = 0..n
  BY <1>3
<1>6. ASSUME NEW m \in T, m < n PROVE FALSE
  <2>1. 0..m \in below /\ 0..m \subseteq 0..n /\ n \in 0..n /\ n \notin 0..m
    BY <1>2, <1>6
  <2> QED BY <2>1, <1>4, <1>5
<1> QED BY <1>2, <1>6

-----------------------------------------------------------------------------
(* Sums over finite sets.                                                  *)

First(s) == CHOOSE x \in s : TRUE

\* g sums w over the subsets of S, one element after the other.
Sums(w, S, g) == g = [s \in SUBSET S |-> IF s = {} THEN 0 ELSE w[First(s)] + g[s \ {First(s)}]]

Sum(w, S) == (CHOOSE g : Sums(w, S, g))[S]

LEMMA SumsAgree ==
  ASSUME NEW w, NEW S, NEW T, IsFiniteSet(S), NEW g, NEW h, Sums(w, S, g), Sums(w, T, h),
         NEW s \in SUBSET S, s \in SUBSET T
  PROVE  g[s] = h[s]
<1> DEFINE Apart == {r \in SUBSET s : g[r] # h[r]}
<1>1. SUFFICES ASSUME Apart # {} PROVE FALSE
  OBVIOUS
<1>2. IsFiniteSet(s) /\ Apart \subseteq SUBSET s
  BY FS_Subset
<1>3. PICK r \in Apart : \A q \in Apart : q \subseteq r => q = r
  <2> HIDE DEF Apart
  <2> QED BY <1>1, <1>2, LeastSubset
<1>4. /\ g[r] = IF r = {} THEN 0 ELSE w[First(r)] + g[r \ {First(r)}]
      /\ h[r] = IF r = {} THEN 0 ELSE w[First(r)] + h[r \ {First(r)}]
  <2>1. r \in SUBSET S /\ r \in SUBSET T
    OBVIOUS
  <2> QED BY <2>1 DEF Sums
<1>5. r # {}
  BY <1>4
<1>6. First(r) \in r
  BY <1>5 DEF First
<1>7. r \ {First(r)} \notin Apart
  BY <1>3, <1>6
<1> QED BY <1>4, <1>5, <1>7

LEMMA SumsExist ==
  ASSUME NEW w, NEW S, IsFiniteSet(S)
  PROVE  \E g : Sums(w, S, g)
<1> DEFINE Lacking == {s \in SUBSET S : ~\E g : Sums(w, s, g)}
<1>1. SUFFICES ASSUME Lacking # {} PROVE FALSE
  OBVIOUS
<1>2. PICK s \in Lacking : \A r \in Lacking : r \subseteq s => r = s
  <2>1. Lacking \subseteq SUBSET S
    OBVIOUS
  <2> HIDE DEF Lacking
  <2> QED BY <1>1, <2>1, LeastSubset
<1> DEFINE part(r) == CHOOSE g : Sums(w, r, g)
<1>3. \A r \in SUBSET s : r # s => Sums(w, r, part(r))
  BY <1>2
<1> HIDE DEF part
<1> DEFINE rest(r) == r \ {First(r)}
           whole == [r \in SUBSET s |-> IF r = {} THEN 0 ELSE w[First(r)] + part(rest(r))[rest(r)]]
<1>4. ASSUME NEW r \in SUBSET s, r # {}
      PROVE  whole[rest(r)] = part(rest(r))[rest(r)]
  <2>1. First(r) \in r /\ rest(r) \in SUBSET s /\ rest(r) # s
    BY <1>4 DEF First
  <2>2. Sums(w, rest(r), part(rest(r)))
    BY <2>1, <1>3
  <2>3. part(rest(r))[rest(r)] = IF rest(r) = {} THEN 0
            ELSE w[First(rest(r))] + part(rest(r))[rest(rest(r))]
    BY <2>2 DEF Sums
  <2>4. whole[rest(r)] = IF rest(r) = {} THEN 0
            ELSE w[First(rest(r))] + part(rest(rest(r)))[rest(rest(r))]
    BY <2>1
  <2>5. CASE rest(r) = {}
    BY <2>3, <2>4, <2>5
  <2>6. CASE rest(r) # {}
    <3>1. /\ rest(rest(r)) \in SUBSET s /\ rest(rest(r)) # s
          /\ rest(rest(r)) \in SUBSET rest(r)
          /\ rest(rest(r)) \in SUBSET rest(rest(r))
          /\ IsFiniteSet(rest(r))
      BY <2>1, FS_Subset
    <3>2. Sums(w, rest(rest(r)), part(rest(rest(r))))
      BY <3>1, <1>3
    <3>3. part(rest(r))[rest(rest(r))] = part(rest(rest(r)))[rest(rest(r))]
      <4> HIDE DEF rest
      <4> QED BY <3>1, <3>2, <2>2, SumsAgree
    <3> QED BY <3>3, <2>3, <2>4, <2>6
  <2> QED BY <2>5, <2>6
<1>5. Sums(w, s, whole)
  <2>1. \A r \in SUBSET s : whole[r] = IF r = {} THEN 0 ELSE w[First(r)] + whole[rest(r)]
    BY <1>4
  <2> HIDE DEF whole
  <2>2. whole = [r \in SUBSET s |-> whole[r]]
    BY DEF whole
  <2> QED BY <2>1, <2>2 DEF Sums
<1> QED BY <1>5, <1>2

\* What a sum is, whichever function computes it.
LEMMA SumIs ==
  ASSUME NEW w, NEW S, IsFiniteSet(S), NEW g, Sums(w, S, g), NEW s \in SUBSET S
  PROVE  g[s] = Sum(w, s)
<1>1. IsFiniteSet(s)
  BY FS_Subset
<1>2. Sums(w, s, CHOOSE h : Sums(w, s, h))
  BY <1>1, SumsExist
<1> QED BY <1>1, <1>2, SumsAgree DEF Sum

LEMMA SumStep ==
  ASSUME NEW w, NEW S, IsFiniteSet(S)
  PROVE  /\ Sum(w, {}) = 0
         /\ S # {} => First(S) \in S /\ Sum(w, S) = w[First(S)] + Sum(w, S \ {First(S)})
<1>1. PICK g : Sums(w, S, g)
  BY SumsExist
<1>2. g[{}] = 0 /\ g[{}] = Sum(w, {})
  <2>1. \A s \in SUBSET S : g[s] = Sum(w, s)
    BY <1>1, SumIs
  <2>2. {} \in SUBSET S
    OBVIOUS
  <2>3. g[{}] = 0
    BY <1>1, <2>2 DEF Sums
  <2> QED BY <2>1, <2>2, <2>3
<1>3. ASSUME S # {}
      PROVE  First(S) \in S /\ Sum(w, S) = w[First(S)] + Sum(w, S \ {First(S)})
  <2>1. First(S) \in S
    BY <1>3 DEF First
  <2>2. g[S] = w[First(S)] + g[S \ {First(S)}]
    BY <1>1, <1>3 DEF Sums
  <2>3. g[S] = Sum(w, S) /\ g[S \ {First(S)}] = Sum(w, S \ {First(S)})
    <3>1. \A s \in SUBSET S : g[s] = Sum(w, s)
      BY <1>1, SumIs
    <3>2. S \in SUBSET S /\ S \ {First(S)} \in SUBSET S
      OBVIOUS
    <3> QED BY <3>1, <3>2
  <2> QED BY <2>1, <2>2, <2>3
<1> QED BY <1>2, <1>3

\* The sum does not depend on the order in which the elements are taken.
LEMMA SumWithout ==
  ASSUME NEW S, IsFiniteSet(S), NEW w, \A x \in S : w[x] \in Int, NEW x \in S
  PROVE  Sum(w, S) = w[x] + Sum(w, S \ {x}) /\ Sum(w, S \ {x}) \in Int
<1> DEFINE Typed(s) == Sum(w, s) \in Int
           Bad == {s \in SUBSET S : ~(Typed(s) /\ \A y \in s : Sum(w, s) = w[y] + Sum(w, s \ {y}))}
<1>1. SUFFICES ASSUME Bad # {} PROVE FALSE
  <2>1. S \in SUBSET S /\ S \ {x} \in SUBSET S
    OBVIOUS
  <2>2. Bad = {} => S \notin Bad /\ S \ {x} \notin Bad
    OBVIOUS
  <2> QED BY <2>1, <2>2
<1>2. PICK s \in Bad : \A r \in Bad : r \subseteq s => r = s
  <2>1. Bad \subseteq SUBSET S
    OBVIOUS
  <2> HIDE DEF Bad
  <2> QED BY <1>1, <2>1, LeastSubset
<1>3. IsFiniteSet(s) /\ s \in SUBSET S
  BY FS_Subset
<1>4. ASSUME NEW r \in SUBSET s, r # s
      PROVE  Sum(w, r) \in Int /\ \A y \in r : Sum(w, r) = w[y] + Sum(w, r \ {y})
  BY <1>2, <1>4
<1>5. CASE s = {}
  <2>1. Sum(w, {}) = 0
    BY FS_EmptySet, SumStep
  <2>2. Sum(w, s) \in Int /\ \A y \in s : Sum(w, s) = w[y] + Sum(w, s \ {y})
    BY <1>5, <2>1
  <2> QED BY <2>2, <1>2
<1>6. CASE s # {}
  <2>1. First(s) \in s /\ Sum(w, s) = w[First(s)] + Sum(w, s \ {First(s)})
    BY <1>3, <1>6, SumStep
  <2> DEFINE c == First(s)
  <2> HIDE DEF c
  <2>2. c \in s /\ Sum(w, s) = w[c] + Sum(w, s \ {c}) /\ w[c] \in Int
    BY <2>1, <1>3 DEF c
  <2>3. Sum(w, s \ {c}) \in Int
    BY <1>4, <2>2
  <2>4. ASSUME NEW y \in s PROVE Sum(w, s) = w[y] + Sum(w, s \ {y})
    <3>1. CASE y = c
      BY <3>1, <2>2
    <3>2. CASE y # c
      <4>1. Sum(w, s \ {c}) = w[y] + Sum(w, (s \ {c}) \ {y})
        BY <1>4, <2>2, <3>2
      <4>2. Sum(w, s \ {y}) = w[c] + Sum(w, (s \ {y}) \ {c})
        BY <1>4, <2>2, <3>2
      <4>3. (s \ {c}) \ {y} = (s \ {y}) \ {c} /\ (s \ {c}) \ {y} # s
        BY <2>2
      <4>4. Sum(w, (s \ {c}) \ {y}) \in Int /\ w[y] \in Int
        BY <1>4, <4>3, <1>3
      <4> DEFINE q == Sum(w, (s \ {c}) \ {y})
      <4>5. Sum(w, s) = w[c] + (w[y] + q) /\ w[y] + Sum(w, s \ {y}) = w[y] + (w[c] + q)
        BY <4>1, <4>2, <4>3, <2>2
      <4>6. q \in Int /\ w[y] \in Int /\ w[c] \in Int
        BY <4>4, <2>2
      <4> HIDE DEF q
      <4> QED BY <4>5, <4>6
    <3> QED BY <3>1, <3>2
  <2>5. Sum(w, s) \in Int
    BY <2>2, <2>3
  <2> QED BY <2>4, <2>5, <1>2
<1> QED BY <1>5, <1>6

LEMMA SumInt ==
  ASSUME NEW S, IsFiniteSet(S), NEW w, \A x \in S : w[x] \in Int
  PROVE  Sum(w, S) \in Int
<1>1. CASE S = {}
  <2>1. Sum(w, {}) = 0
    BY FS_EmptySet, SumStep
  <2> QED BY <1>1, <2>1
<1>2. CASE S # {}
  <2>1. PICK x \in S : TRUE
    BY <1>2
  <2>2. Sum(w, S) = w[x] + Sum(w, S \ {x}) /\ Sum(w, S \ {x}) \in Int
    BY SumWithout
  <2> QED BY <2>2
<1> QED BY <1>1, <1>2

LEMMA SumNat ==
  ASSUME NEW S, IsFiniteSet(S), NEW w, \A x \in S : w[x] \in Nat
  PROVE  Sum(w, S) \in Nat
<1> DEFINE Bad == {s \in SUBSET S : Sum(w, s) \notin Nat}
<1>1. SUFFICES ASSUME Bad # {} PROVE FALSE
  <2>1. S \in SUBSET S /\ (Bad = {} => S \notin Bad)
    OBVIOUS
  <2> QED BY <2>1
<1>2. PICK s \in Bad : \A r \in Bad : r \subseteq s => r = s
  <2>1. Bad \subseteq SUBSET S
    OBVIOUS
  <2> HIDE DEF Bad
  <2> QED BY <1>1, <2>1, LeastSubset
<1>3. IsFiniteSet(s) /\ s \in SUBSET S /\ Sum(w, s) \notin Nat
  BY FS_Subset
<1>4. CASE s = {}
  <2>1. Sum(w, s) = 0
    BY <1>4, <1>3, SumStep
  <2> QED BY <2>1, <1>3
<1>5. CASE s # {}
  <2>1. PICK x \in s : TRUE
    BY <1>5
  <2>2. Sum(w, s) = w[x] + Sum(w, s \ {x})
    BY <1>3, <2>1, SumWithout
  <2>3. Sum(w, s \ {x}) \in Nat
    BY <1>2, <1>3, <2>1
  <2>4. w[x] \in Nat
    BY <1>3, <2>1
  <2> QED BY <2>2, <2>3, <2>4, <1>3
<1> QED BY <1>4, <1>5

\* A sum depends on what is summed alone.
LEMMA SumSame ==
  ASSUME NEW S, IsFiniteSet(S), NEW v, NEW w, \A x \in S : v[x] = w[x]
  PROVE  Sum(v, S) = Sum(w, S)
<1>1. PICK g : Sums(w, S, g)
  BY SumsExist
<1>2. \A s \in SUBSET S : s # {} => First(s) \in S
  BY DEF First
<1>3. Sums(v, S, g)
  BY <1>1, <1>2 DEF Sums
<1>4. \A s \in SUBSET S : g[s] = Sum(v, s)
  BY <1>3, SumIs
<1>5. \A s \in SUBSET S : g[s] = Sum(w, s)
  BY <1>1, SumIs
<1> QED BY <1>4, <1>5

LEMMA SumUnion ==
  ASSUME NEW S, IsFiniteSet(S), NEW T, IsFiniteSet(T), S \cap T = {},
         NEW w, \A x \in S \cup T : w[x] \in Int
  PROVE  Sum(w, S \cup T) = Sum(w, S) + Sum(w, T)
<1> DEFINE Bad == {t \in SUBSET T : Sum(w, S \cup t) # Sum(w, S) + Sum(w, t)}
<1>1. SUFFICES ASSUME Bad # {} PROVE FALSE
  <2>1. T \in SUBSET T /\ (Bad = {} => T \notin Bad)
    OBVIOUS
  <2> QED BY <2>1
<1>2. PICK t \in Bad : \A r \in Bad : r \subseteq t => r = t
  <2>1. Bad \subseteq SUBSET T
    OBVIOUS
  <2> HIDE DEF Bad
  <2> QED BY <1>1, <2>1, LeastSubset
<1>3. IsFiniteSet(t) /\ t \in SUBSET T /\ IsFiniteSet(S \cup t)
  BY FS_Subset, FS_Union
<1>4. Sum(w, S) \in Int
  BY SumInt
<1>5. CASE t = {}
  <2>1. S \cup t = S /\ Sum(w, t) = 0
    BY <1>5, <1>3, SumStep
  <2>2. Sum(w, S \cup t) # Sum(w, S) + Sum(w, t)
    BY <1>2
  <2>3. Sum(w, S \cup t) = Sum(w, S)
    BY <2>1
  <2> QED BY <2>1, <2>2, <2>3, <1>4
<1>6. CASE t # {}
  <2>1. PICK x \in t : TRUE
    BY <1>6
  <2>2. Sum(w, t) = w[x] + Sum(w, t \ {x}) /\ Sum(w, t \ {x}) \in Int
    BY <1>3, <2>1, SumWithout
  <2>3. Sum(w, S \cup t) = w[x] + Sum(w, (S \cup t) \ {x})
    <3>1. x \in S \cup t /\ \A y \in S \cup t : w[y] \in Int
      BY <1>3
    <3> QED BY <3>1, <1>3, SumWithout
  <2>4. (S \cup t) \ {x} = S \cup (t \ {x})
    BY <1>3, <2>1
  <2>5. Sum(w, S \cup (t \ {x})) = Sum(w, S) + Sum(w, t \ {x})
    BY <1>2, <1>3, <2>1
  <2>6. w[x] \in Int
    BY <1>3, <2>1
  <2> QED BY <2>2, <2>3, <2>4, <2>5, <2>6, <1>2, <1>4
<1> QED BY <1>5, <1>6

-----------------------------------------------------------------------------
(* The size of entries and of what a load adds is such a sum.              *)

Weights(f) == [k \in Keys |-> Bytes[<<k, f[k].version>>]]

LEMMA SizeIsSum ==
  ASSUME NEW f, NEW K \in SUBSET Keys
  PROVE  Size(f, K) = Sum(Weights(f), K)
<1> DEFINE Solves(g) == g = [s \in SUBSET K |-> IF s = {} THEN 0
              ELSE Bytes[<<First(s), f[First(s)].version>>] + g[s \ {First(s)}]]
<1>1. Size(f, K) = (CHOOSE g : Solves(g))[K]
  BY Zenon DEF Size, MapThenSumSet, MapThenFoldSet, First
<1>2. IsFiniteSet(K)
  BY CacheAssumption, FS_Subset
<1>3. \A s \in SUBSET K : s # {} => Weights(f)[First(s)] = Bytes[<<First(s), f[First(s)].version>>]
  BY DEF Weights, First
<1>4. \A g : Solves(g) <=> Sums(Weights(f), K, g)
  BY <1>3 DEF Sums
<1>5. Sums(Weights(f), K, CHOOSE g : Solves(g))
  BY <1>2, <1>4, SumsExist
<1> HIDE DEF Solves
<1>6. K \in SUBSET K
  OBVIOUS
<1> QED BY <1>1, <1>2, <1>5, <1>6, SumIs

LEMMA AddedIsSum ==
  ASSUME NEW l, DOMAIN l \in SUBSET Keys
  PROVE  AddedBytes(l) = Sum([k \in Keys |-> Bytes[<<k, l[k]>>]], DOMAIN l \ Present(entries))
<1> DEFINE K == DOMAIN l \ Present(entries)
           w == [k \in Keys |-> Bytes[<<k, l[k]>>]]
           Solves(g) == g = [s \in SUBSET K |-> IF s = {} THEN 0
              ELSE Bytes[<<First(s), l[First(s)]>>] + g[s \ {First(s)}]]
<1>1. AddedBytes(l) = (CHOOSE g : Solves(g))[K]
  BY Zenon DEF AddedBytes, MapThenSumSet, MapThenFoldSet, First
<1>2. IsFiniteSet(K) /\ K \in SUBSET Keys
  BY CacheAssumption, FS_Subset
<1>3. \A s \in SUBSET K : s # {} => w[First(s)] = Bytes[<<First(s), l[First(s)]>>]
  BY <1>2 DEF First
<1> HIDE DEF w, K
<1>4. \A g : Solves(g) <=> Sums(w, K, g)
  BY <1>3 DEF Sums
<1>5. Sums(w, K, CHOOSE g : Solves(g))
  BY <1>2, <1>4, SumsExist
<1>6. (CHOOSE g : Solves(g))[K] = Sum(w, K)
  <2> HIDE DEF Solves
  <2>1. K \in SUBSET K
    OBVIOUS
  <2> QED BY <1>2, <1>5, <2>1, SumIs
<1> QED BY <1>1, <1>6 DEF w, K

-----------------------------------------------------------------------------
(* Sweep.                                                                  *)

Requirers(f, d) == {k \in Present(f) : d \in RequiredOf(f, k)}

AbsentAreEmpty(f) == \A k \in Keys \ Present(f) : f[k] = NoEntry
CountsAreExact(f) == \A d \in Present(f) : f[d].dep = Cardinality(Requirers(f, d))
RequiredArePresent(f) == \A k \in Present(f) : RequiredOf(f, k) \subseteq Present(f)
NoCycle(f) ==
    \A K \in SUBSET Present(f) : K # {} => \E k \in K : RequiredOf(f, k) \cap K = {}

\* What holds of the entries between the calls, and between the passes of Sweep.
Sound(f) ==
    /\ f \in [Keys -> EntryRecords]
    /\ AbsentAreEmpty(f)
    /\ CountsAreExact(f)
    /\ RequiredArePresent(f)
    /\ NoCycle(f)

\* g is f without some entries that no caller retains.
Kept(f, g) ==
    /\ Present(g) \subseteq Present(f)
    /\ \A k \in Present(g) : g[k].version = f[k].version
    /\ \A k \in Keys : g[k].req = f[k].req /\ g[k].ext = f[k].ext

LEMMA EntryTypes ==
  ASSUME NEW f \in [Keys -> EntryRecords]
  PROVE  /\ Present(f) \subseteq Keys /\ IsFiniteSet(Present(f))
         /\ \A k \in Keys : f[k].req \in Nat /\ f[k].ext \in Nat /\ f[k].dep \in Nat
         /\ \A k \in Present(f) : f[k].version \in Versions /\ RequiredOf(f, k) \subseteq Keys
         /\ \A d : IsFiniteSet(Requirers(f, d)) /\ Cardinality(Requirers(f, d)) \in Nat
<1>1. Present(f) \subseteq Keys /\ IsFiniteSet(Present(f))
  BY CacheAssumption, FS_Subset DEF Present
<1>2. \A k \in Keys : /\ f[k].req \in Nat /\ f[k].ext \in Nat /\ f[k].dep \in Nat
                      /\ f[k].version \in Versions \cup {NoVersion}
  BY DEF EntryRecords
<1>3. \A k \in Present(f) : f[k].version \in Versions
  BY <1>1, <1>2 DEF Present
<1>4. \A k \in Present(f) : RequiredOf(f, k) \subseteq Keys
  BY <1>1, <1>3, CacheAssumption DEF RequiredOf
<1>5. ASSUME NEW d PROVE IsFiniteSet(Requirers(f, d)) /\ Cardinality(Requirers(f, d)) \in Nat
  <2>1. Requirers(f, d) \in SUBSET Present(f)
    BY DEF Requirers
  <2> QED BY <2>1, <1>1, FS_Subset, FS_CardinalityType
<1> QED BY <1>1, <1>2, <1>3, <1>4, <1>5

LEMMA KeptFrom ==
  /\ \A f : Kept(f, f)
  /\ \A f, g, h : Kept(f, g) /\ Kept(g, h) => Kept(f, h)
  BY DEF Kept

\* One pass: an entry goes, and what it required counts one retention less.
LEMMA ErasedIsSound ==
  ASSUME NEW f, Sound(f), NEW k \in Unretained(f)
  PROVE  /\ Sound(Erased(f, k)) /\ Kept(f, Erased(f, k))
         /\ Present(Erased(f, k)) = Present(f) \ {k}
<1> DEFINE g == Erased(f, k)
           Taken(d) == d \in RequiredOf(f, k) \cap Present(f) /\ f[d].dep > 0
<1>1. f \in [Keys -> EntryRecords] /\ k \in Present(f) /\ k \in Keys
  BY EntryTypes DEF Sound, Unretained
<1>2. f[k].req = 0 /\ f[k].ext = 0 /\ f[k].dep = 0
  BY DEF Unretained
<1>3. ASSUME NEW d \in Keys, d # k
      PROVE  /\ g[d] \in EntryRecords /\ g[d].version = f[d].version
             /\ g[d].req = f[d].req /\ g[d].ext = f[d].ext
             /\ g[d].dep = IF Taken(d) THEN f[d].dep - 1 ELSE f[d].dep
  <2>1. g[d] = IF Taken(d) THEN [f[d] EXCEPT !.dep = @ - 1] ELSE f[d]
    BY <1>3 DEF Erased
  <2>2. f[d] \in EntryRecords
    BY <1>1
  <2> QED BY <2>1, <2>2 DEF EntryRecords
<1>4. g[k] = NoEntry /\ NoEntry \in EntryRecords /\ NoEntry.version = NoVersion
      /\ NoEntry.req = 0 /\ NoEntry.ext = 0
  BY <1>1 DEF Erased, NoEntry, EntryRecords
<1>5. g = [d \in Keys |-> g[d]]
  BY DEF Erased
<1>6. g \in [Keys -> EntryRecords]
  <2>1. \A d \in Keys : g[d] \in EntryRecords
    BY <1>3, <1>4
  <2> HIDE DEF g
  <2> QED BY <1>5, <2>1
<1> HIDE DEF g, Taken
<1>7. Present(g) = Present(f) \ {k}
  BY <1>3, <1>4 DEF Present
<1>8. Kept(f, g)
  <2>1. \A d \in Keys : g[d].req = f[d].req /\ g[d].ext = f[d].ext
    BY <1>2, <1>3, <1>4
  <2>2. \A d \in Present(g) : g[d].version = f[d].version
    BY <1>1, <1>3, <1>7, EntryTypes
  <2> QED BY <1>7, <2>1, <2>2 DEF Kept
<1>9. \A d \in Present(g) : RequiredOf(g, d) = RequiredOf(f, d)
  BY <1>8 DEF Kept, RequiredOf
<1>10. Requirers(f, k) = {}
  <2>1. Cardinality(Requirers(f, k)) = 0
    BY <1>1, <1>2 DEF Sound, CountsAreExact
  <2> QED BY <2>1, <1>1, EntryTypes, FS_EmptySet
<1>11. AbsentAreEmpty(g)
  <2> SUFFICES ASSUME NEW d \in Keys \ Present(g) PROVE g[d] = NoEntry
    BY DEF AbsentAreEmpty
  <2>1. CASE d = k
    BY <2>1, <1>4
  <2>2. CASE d # k
    <3>1. d \notin Present(f) /\ f[d] = NoEntry
      BY <2>2, <1>7 DEF Sound, AbsentAreEmpty
    <3>2. g[d] = f[d]
      BY <2>2, <3>1 DEF g, Erased
    <3> QED BY <3>1, <3>2
  <2> QED BY <2>1, <2>2
<1>12. RequiredArePresent(g)
  <2> SUFFICES ASSUME NEW x \in Present(g), NEW d \in RequiredOf(g, x) PROVE d \in Present(g)
    BY DEF RequiredArePresent
  <2>1. x \in Present(f) /\ d \in RequiredOf(f, x)
    BY <1>7, <1>9
  <2>2. d \in Present(f)
    BY <2>1 DEF Sound, RequiredArePresent
  <2>3. d # k
    BY <2>1, <1>10 DEF Requirers
  <2> QED BY <2>2, <2>3, <1>7
<1>13. CountsAreExact(g)
  <2> SUFFICES ASSUME NEW d \in Present(g) PROVE g[d].dep = Cardinality(Requirers(g, d))
    BY DEF CountsAreExact
  <2>1. d \in Present(f) /\ d # k /\ d \in Keys
    BY <1>1, <1>7, EntryTypes
  <2>2. Requirers(g, d) = Requirers(f, d) \ {k}
    BY <1>7, <1>9 DEF Requirers
  <2>3. f[d].dep = Cardinality(Requirers(f, d)) /\ IsFiniteSet(Requirers(f, d))
        /\ f[d].dep \in Nat
    BY <2>1, <1>1, EntryTypes DEF Sound, CountsAreExact
  <2>4. g[d].dep = IF Taken(d) THEN f[d].dep - 1 ELSE f[d].dep
    BY <2>1, <1>3
  <2>5. CASE k \in Requirers(f, d)
    <3>1. Cardinality(Requirers(g, d)) = f[d].dep - 1
      BY <2>2, <2>3, <2>5, FS_RemoveElement
    <3>2. Cardinality(Requirers(g, d)) \in Nat
      BY <1>6, EntryTypes
    <3>3. Taken(d)
      BY <3>1, <3>2, <2>1, <2>3, <2>5 DEF Taken, Requirers
    <3> QED BY <3>1, <3>3, <2>4
  <2>6. CASE k \notin Requirers(f, d)
    <3>1. ~Taken(d)
      BY <2>6, <1>1 DEF Taken, Requirers
    <3>2. Requirers(g, d) = Requirers(f, d)
      BY <2>2, <2>6
    <3> QED BY <3>1, <3>2, <2>3, <2>4
  <2> QED BY <2>5, <2>6
<1>14. NoCycle(g)
  <2> SUFFICES ASSUME NEW K \in SUBSET Present(g), K # {}
               PROVE  \E x \in K : RequiredOf(g, x) \cap K = {}
    BY DEF NoCycle
  <2>1. K \in SUBSET Present(f)
    BY <1>7
  <2>2. PICK x \in K : RequiredOf(f, x) \cap K = {}
    BY <2>1 DEF Sound, NoCycle
  <2> QED BY <2>2, <1>9
<1>15. Sound(g)
  BY <1>6, <1>11, <1>12, <1>13, <1>14 DEF Sound
<1> QED BY <1>7, <1>8, <1>15 DEF g

LEMMA EraseOneIsSound ==
  ASSUME NEW f, Sound(f)
  PROVE  /\ Sound(EraseOne(f)) /\ Kept(f, EraseOne(f))
         /\ Unretained(f) = {} => EraseOne(f) = f
         /\ Unretained(f) # {} =>
                Cardinality(Present(EraseOne(f))) = Cardinality(Present(f)) - 1
<1>1. CASE Unretained(f) = {}
  BY <1>1, KeptFrom DEF EraseOne
<1>2. CASE Unretained(f) # {}
  <2>1. PICK k \in Unretained(f) : EraseOne(f) = Erased(f, k)
    BY <1>2 DEF EraseOne
  <2>2. k \in Present(f) /\ IsFiniteSet(Present(f))
    BY EntryTypes DEF Unretained, Sound
  <2>3. Cardinality(Present(f) \ {k}) = Cardinality(Present(f)) - 1
    BY <2>2, FS_RemoveElement
  <2> QED BY <1>2, <2>1, <2>3, ErasedIsSound
<1> QED BY <1>1, <1>2

\* p holds what the passes of Sweep leave of f, up to the pass N.
Passes(f, N, p) == p = [n \in 0..N |-> IF n = 0 THEN f ELSE EraseOne(p[n - 1])]

LEMMA PassesExist ==
  ASSUME NEW f, NEW N \in Nat
  PROVE  \E p : Passes(f, N, p)
<1> DEFINE Lacking == {n \in 0..N : ~\E p : Passes(f, n, p)}
<1>1. SUFFICES ASSUME Lacking # {} PROVE FALSE
  <2>1. N \in 0..N /\ (Lacking = {} => N \notin Lacking)
    OBVIOUS
  <2> QED BY <2>1
<1>2. PICK n \in Lacking : \A m \in Lacking : n <= m
  <2>1. Lacking \subseteq 0..N
    OBVIOUS
  <2> HIDE DEF Lacking
  <2> QED BY <1>1, <2>1, LeastNumber
<1>3. n \in 0..N /\ ~\E p : Passes(f, n, p)
  OBVIOUS
<1>4. CASE n = 0
  <2>1. Passes(f, 0, [m \in 0..0 |-> f])
    BY DEF Passes
  <2> QED BY <2>1, <1>3, <1>4
<1>5. CASE n # 0
  <2>1. n - 1 \in 0..N /\ n - 1 \notin Lacking
    BY <1>2, <1>3, <1>5
  <2>2. PICK p : Passes(f, n - 1, p)
    BY <2>1
  <2> DEFINE q == [m \in 0..n |-> IF m = 0 THEN f ELSE EraseOne(p[m - 1])]
  <2>3. ASSUME NEW m \in 0..n, m # 0 PROVE q[m - 1] = p[m - 1]
    <3>1. m - 1 \in 0..n /\ m - 1 \in 0..(n - 1)
      BY <2>3, <1>3
    <3>2. p[m - 1] = IF m - 1 = 0 THEN f ELSE EraseOne(p[m - 1 - 1])
      BY <2>2, <3>1 DEF Passes
    <3> QED BY <3>1, <3>2
  <2>4. \A m \in 0..n : q[m] = IF m = 0 THEN f ELSE EraseOne(q[m - 1])
    BY <2>3
  <2>5. q = [m \in 0..n |-> q[m]]
    OBVIOUS
  <2> HIDE DEF q
  <2>6. Passes(f, n, q)
    BY <2>4, <2>5 DEF Passes
  <2> QED BY <2>6, <1>3
<1> QED BY <1>4, <1>5

\* Sweep ends with nothing unretained, and has erased nothing that was retained.
LEMMA SweptIsSound ==
  ASSUME NEW f, Sound(f)
  PROVE  Sound(Swept(f)) /\ Kept(f, Swept(f)) /\ Unretained(Swept(f)) = {}
<1> DEFINE N == Cardinality(Keys)
<1>1. N \in Nat
  BY CacheAssumption, FS_CardinalityType
<1>2. PICK p : Passes(f, N, p) /\ Swept(f) = p[N]
  <2>1. Swept(f) = (CHOOSE p : Passes(f, N, p))[N]
    BY Zenon DEF Swept, Passes
  <2> HIDE DEF N
  <2>2. Passes(f, N, CHOOSE p : Passes(f, N, p))
    BY <1>1, PassesExist
  <2> QED BY <2>1, <2>2
<1> HIDE DEF N
<1> DEFINE Done(g, n) == Unretained(g) = {} \/ Cardinality(Present(g)) <= N - n
           Good(n) == Sound(p[n]) /\ Kept(f, p[n]) /\ Done(p[n], n)
           Bad == {n \in 0..N : ~Good(n)}
<1>3. Good(0)
  <2>1. p[0] = f
    BY <1>1, <1>2 DEF Passes
  <2>2. Present(f) \in SUBSET Keys
    BY EntryTypes DEF Sound
  <2>3. Cardinality(Present(f)) <= N /\ Cardinality(Present(f)) \in Nat
    BY <2>2, CacheAssumption, FS_Subset, FS_CardinalityType DEF N
  <2> QED BY <2>1, <2>3, <1>1, KeptFrom
<1>4. ASSUME NEW n \in 0..N, n # 0, Good(n - 1) PROVE Good(n)
  <2>1. p[n] = EraseOne(p[n - 1])
    BY <1>1, <1>2, <1>4 DEF Passes
  <2>2. Sound(p[n]) /\ Kept(p[n - 1], p[n])
    BY <2>1, <1>4, EraseOneIsSound
  <2>3. Kept(f, p[n])
    BY <2>2, <1>4, KeptFrom
  <2>4. CASE Unretained(p[n - 1]) = {}
    BY <2>1, <2>4, <2>2, <2>3, <1>4, EraseOneIsSound
  <2>5. CASE Unretained(p[n - 1]) # {}
    <3>1. Cardinality(Present(p[n])) = Cardinality(Present(p[n - 1])) - 1
      BY <2>1, <2>5, <1>4, EraseOneIsSound
    <3>2. Cardinality(Present(p[n - 1])) <= N - (n - 1)
      BY <2>5, <1>4
    <3>3. Cardinality(Present(p[n - 1])) \in Nat
      BY <1>4, EntryTypes, FS_CardinalityType DEF Sound
    <3>4. Cardinality(Present(p[n])) <= N - n
      BY <3>1, <3>2, <3>3, <1>1
    <3> QED BY <3>4, <2>2, <2>3
  <2> QED BY <2>4, <2>5
<1>5. Bad = {}
  <2> SUFFICES ASSUME Bad # {} PROVE FALSE
    OBVIOUS
  <2>1. PICK n \in Bad : \A m \in Bad : n <= m
    <3>1. Bad \subseteq 0..N
      OBVIOUS
    <3> HIDE DEF Bad
    <3> QED BY <1>1, <3>1, LeastNumber
  <2>2. n \in 0..N /\ ~Good(n)
    OBVIOUS
  <2> HIDE DEF Good
  <2>3. n # 0
    BY <2>2, <1>3
  <2>4. n - 1 \in 0..N /\ n - 1 \notin Bad
    BY <2>1, <2>2, <2>3, <1>1
  <2> QED BY <2>2, <2>3, <2>4, <1>4
<1>6. Good(N)
  <2>1. N \in 0..N /\ N \notin Bad
    BY <1>1, <1>5
  <2> QED BY <2>1
<1>7. Unretained(p[N]) = {}
  <2>1. Cardinality(Present(p[N])) <= 0 => Present(p[N]) = {}
    <3>1. IsFiniteSet(Present(p[N])) /\ Cardinality(Present(p[N])) \in Nat
      BY <1>6, EntryTypes, FS_CardinalityType DEF Sound
    <3> QED BY <3>1, FS_EmptySet
  <2>2. Present(p[N]) = {} => Unretained(p[N]) = {}
    BY DEF Unretained
  <2> QED BY <2>1, <2>2, <1>1, <1>6
<1> QED BY <1>2, <1>6, <1>7

-----------------------------------------------------------------------------
(* What the calls do to sound entries.                                     *)

\* Retentions of callers do not matter to soundness, nor to sizes.
LEMMA RecountedIsSound ==
  ASSUME NEW f, Sound(f), NEW g \in [Keys -> EntryRecords],
         \A k \in Keys : g[k].version = f[k].version /\ g[k].dep = f[k].dep,
         \A k \in Keys \ Present(f) : g[k] = f[k]
  PROVE  /\ Sound(g) /\ Present(g) = Present(f)
         /\ \A K \in SUBSET Keys : Size(g, K) = Size(f, K)
<1>1. Present(g) = Present(f) /\ Present(f) \subseteq Keys
  BY DEF Present
<1>2. \A k \in Present(f) : RequiredOf(g, k) = RequiredOf(f, k)
  BY <1>1 DEF RequiredOf
<1>3. \A d : Requirers(g, d) = Requirers(f, d)
  BY <1>1, <1>2 DEF Requirers
<1>4. AbsentAreEmpty(g)
  BY <1>1 DEF Sound, AbsentAreEmpty
<1>5. CountsAreExact(g)
  BY <1>1, <1>3 DEF Sound, CountsAreExact
<1>6. RequiredArePresent(g)
  BY <1>1, <1>2 DEF Sound, RequiredArePresent
<1>7. NoCycle(g)
  <2> SUFFICES ASSUME NEW K \in SUBSET Present(f), K # {}
               PROVE  \E k \in K : RequiredOf(g, k) \cap K = {}
    BY <1>1 DEF NoCycle
  <2>1. PICK k \in K : RequiredOf(f, k) \cap K = {}
    BY DEF Sound, NoCycle
  <2> QED BY <2>1, <1>2
<1>8. ASSUME NEW K \in SUBSET Keys PROVE Size(g, K) = Size(f, K)
  <2>1. \A k \in K : Weights(g)[k] = Weights(f)[k]
    BY DEF Weights
  <2>2. IsFiniteSet(K)
    BY CacheAssumption, FS_Subset
  <2>3. Sum(Weights(g), K) = Sum(Weights(f), K)
    BY <2>1, <2>2, SumSame
  <2> QED BY <2>3, SizeIsSum
<1> QED BY <1>1, <1>4, <1>5, <1>6, <1>7, <1>8 DEF Sound

LEMMA WeightTypes ==
  ASSUME NEW f, f \in [Keys -> EntryRecords]
  PROVE  \A k \in Present(f) : Weights(f)[k] \in Nat
<1> SUFFICES ASSUME NEW k \in Present(f) PROVE Weights(f)[k] \in Nat
  OBVIOUS
<1>1. k \in Keys /\ f[k].version \in Versions
  BY EntryTypes
<1>2. Bytes[<<k, f[k].version>>] \in Nat
  BY <1>1, CacheAssumption
<1> QED BY <1>1, <1>2 DEF Weights

\* The size of what is kept is that of everything without what is not.
LEMMA KeptSize ==
  ASSUME NEW f, Sound(f), NEW g, Sound(g), Kept(f, g)
  PROVE  /\ Size(f, Present(f) \ Present(g)) \in Nat /\ Size(f, Present(f)) \in Nat
         /\ Size(g, Present(g)) = Size(f, Present(f)) - Size(f, Present(f) \ Present(g))
<1> DEFINE K == Present(g)
           E == Present(f) \ Present(g)
           w == Weights(f)
<1>1. /\ K \subseteq Present(f) /\ IsFiniteSet(K) /\ IsFiniteSet(E) /\ IsFiniteSet(Present(f))
      /\ Present(f) \in SUBSET Keys /\ K \cup E = Present(f) /\ K \cap E = {}
  BY EntryTypes, FS_Difference DEF Sound, Kept
<1>2. \A k \in Present(f) : w[k] \in Nat
  BY WeightTypes DEF Sound
<1>3. \A k \in K : Weights(g)[k] = w[k]
  BY <1>1 DEF Weights, Kept
<1> HIDE DEF w, K, E
<1>4. Sum(w, K) \in Nat /\ Sum(w, E) \in Nat /\ Sum(w, Present(f)) \in Nat
  <2>1. (\A k \in K : w[k] \in Nat) /\ (\A k \in E : w[k] \in Nat)
    BY <1>1, <1>2
  <2> QED BY <2>1, <1>1, <1>2, SumNat
<1>5. Sum(w, K \cup E) = Sum(w, K) + Sum(w, E)
  <2>1. \A k \in K \cup E : w[k] \in Int
    BY <1>1, <1>2
  <2> QED BY <2>1, <1>1, SumUnion
<1>6. Size(g, K) = Sum(w, K)
  <2>1. Size(g, K) = Sum(Weights(g), K)
    BY <1>1, SizeIsSum
  <2>2. Sum(Weights(g), K) = Sum(w, K)
    BY <1>1, <1>3, SumSame
  <2> QED BY <2>1, <2>2
<1>7. Size(f, E) = Sum(w, E) /\ Size(f, Present(f)) = Sum(w, Present(f))
  <2>1. E \in SUBSET Keys
    BY <1>1
  <2> QED BY <2>1, <1>1, SizeIsSum DEF w
<1>8. Size(g, K) = Size(f, Present(f)) - Size(f, E)
  <2>1. Size(f, Present(f)) = Size(g, K) + Size(f, E)
    BY <1>1, <1>5, <1>6, <1>7
  <2>2. Size(g, K) \in Nat /\ Size(f, E) \in Nat
    BY <1>4, <1>6, <1>7
  <2> QED BY <2>1, <2>2
<1> QED BY <1>4, <1>7, <1>8 DEF K, E

\* A release: the entries with a retention less are swept.
LEMMA SweepFromKeeps ==
  ASSUME Sound(entries), BytesAreExact, bytes \in Int,
         NEW f, Sound(f), Present(f) = Present(entries),
         Size(f, Present(f)) = Size(entries, Present(entries)), SweepFrom(f)
  PROVE  /\ Sound(entries') /\ Kept(f, entries') /\ Unretained(entries') = {}
         /\ bytes' \in Int /\ BytesAreExact'
<1>1. entries' = Swept(f) /\ bytes' = bytes - Size(f, Present(f) \ Present(entries'))
  BY DEF SweepFrom
<1>2. Sound(entries') /\ Kept(f, entries') /\ Unretained(entries') = {}
  BY <1>1, SweptIsSound
<1>3. /\ Size(f, Present(f) \ Present(entries')) \in Nat /\ Size(f, Present(f)) \in Nat
      /\ Size(entries', Present(entries')) =
            Size(f, Present(f)) - Size(f, Present(f) \ Present(entries'))
  BY <1>2, KeptSize
<1>4. bytes = Size(f, Present(f)) /\ bytes <= MaximumPayloadBytes /\ MaximumPayloadBytes \in Nat
  BY CacheAssumption DEF BytesAreExact
<1>5. bytes' = Size(entries', Present(entries')) /\ bytes' <= bytes /\ bytes' \in Int
  <2> DEFINE old == Size(f, Present(f))
             lost == Size(f, Present(f) \ Present(entries'))
             new == Size(entries', Present(entries'))
  <2>1. old \in Nat /\ lost \in Nat /\ new = old - lost /\ bytes = old /\ bytes' = bytes - lost
    BY <1>1, <1>3, <1>4
  <2> HIDE DEF old, lost, new
  <2>2. bytes' = new /\ bytes' <= bytes /\ bytes' \in Int
    BY <2>1
  <2> QED BY <2>2 DEF new
<1>6. BytesAreExact'
  <2>1. bytes' <= MaximumPayloadBytes
    BY <1>4, <1>5
  <2> QED BY <2>1, <1>5 DEF BytesAreExact
<1> QED BY <1>2, <1>5, <1>6

\* Where nothing in a set of cached entries is required by the rest of it: graphs whose
\* sets all have an end have a start in each set too.
LEMMA SomeEntryIsFirst ==
  ASSUME NEW f, Sound(f), NEW D \in SUBSET Present(f), D # {}
  PROVE  \E d \in D : \A x \in D : d \notin RequiredOf(f, x)
<1> DEFINE HasFirst(K) == \E d \in K : \A x \in K : d \notin RequiredOf(f, x)
           Bad == {K \in SUBSET D : K # {} /\ ~HasFirst(K)}
<1>1. SUFFICES ASSUME Bad # {} PROVE FALSE
  <2>1. D \in SUBSET D /\ (Bad = {} => D \notin Bad)
    OBVIOUS
  <2> QED BY <2>1
<1>2. IsFiniteSet(D)
  BY EntryTypes, FS_Subset DEF Sound
<1>3. PICK K \in Bad : \A L \in Bad : L \subseteq K => L = K
  <2>1. Bad \subseteq SUBSET D
    OBVIOUS
  <2> HIDE DEF Bad
  <2> QED BY <1>1, <1>2, <2>1, LeastSubset
<1>4. K \in SUBSET D /\ K # {} /\ ~HasFirst(K)
  OBVIOUS
<1>5. PICK s \in K : RequiredOf(f, s) \cap K = {}
  <2>1. K \in SUBSET Present(f)
    BY <1>4
  <2> QED BY <2>1, <1>4 DEF Sound, NoCycle
<1>6. CASE K = {s}
  <2>1. HasFirst(K)
    BY <1>5, <1>6
  <2> QED BY <2>1, <1>4
<1>7. CASE K # {s}
  <2> DEFINE L == K \ {s}
  <2>1. L \in SUBSET D /\ L # {} /\ L \subseteq K /\ L # K
    BY <1>4, <1>5, <1>7
  <2> HIDE DEF L
  <2>2. L \notin Bad
    BY <1>3, <2>1
  <2>3. PICK d \in L : \A x \in L : d \notin RequiredOf(f, x)
    BY <2>1, <2>2
  <2>4. d \notin RequiredOf(f, s)
    BY <1>5, <2>1, <2>3
  <2>5. \A x \in K : x = s \/ x \in L
    BY DEF L
  <2>6. HasFirst(K)
    BY <2>1, <2>3, <2>4, <2>5
  <2> QED BY <2>6, <1>4
<1> QED BY <1>6, <1>7

\* Swept entries are what callers hold and what that requires.
LEMMA SweptAreRetained ==
  ASSUME TypeOK, Sound(entries), RetentionIsExact, ~cleared, Unretained(entries) = {}
  PROVE  OnlyRetained
<1> SUFFICES ASSUME NEW K \in SUBSET Present(entries),
                    \A k \in Keys : interests[k] + handles[k] > 0 => k \in K,
                    \A k \in K : RequiredOf(entries, k) \subseteq K,
                    Present(entries) \ K # {}
             PROVE  FALSE
  BY DEF OnlyRetained
<1>1. PICK d \in Present(entries) \ K :
        \A x \in Present(entries) \ K : d \notin RequiredOf(entries, x)
  <2> DEFINE D == Present(entries) \ K
  <2>1. D \in SUBSET Present(entries) /\ D # {}
    OBVIOUS
  <2> HIDE DEF D
  <2>2. \E d \in D : \A x \in D : d \notin RequiredOf(entries, x)
    BY <2>1, SomeEntryIsFirst
  <2> QED BY <2>2 DEF D
<1>2. d \in Keys /\ interests[d] \in Nat /\ handles[d] \in Nat
  BY DEF Present, TypeOK
<1>3. entries[d].req = 0 /\ entries[d].ext = 0
  BY <1>2 DEF RetentionIsExact
<1>4. Requirers(entries, d) = {}
  BY <1>1 DEF Requirers
<1>5. entries[d].dep = 0
  BY <1>4, FS_EmptySet DEF Sound, CountsAreExact
<1> QED BY <1>3, <1>5 DEF Unretained

-----------------------------------------------------------------------------
(* Publish.                                                                *)

PublishedEntries(root, l, n) ==
    [k \in Keys |->
        LET version == IF k \in DOMAIN l THEN l[k] ELSE entries[k].version
            more == IF k = root THEN n ELSE 0
        IN  [version |-> version, req |-> entries[k].req + more, ext |-> entries[k].ext,
             dep |-> entries[k].dep + CountedRequired(l, k)]]

LEMMA LoadTypes ==
  ASSUME NEW root \in Keys, NEW l \in LoadsOf[root]
  PROVE  /\ DOMAIN l \in SUBSET Keys /\ root \in DOMAIN l
         /\ \A k \in DOMAIN l : l[k] \in Versions /\ Required[<<k, l[k]>>] \subseteq Keys
         /\ \A K \in SUBSET DOMAIN l : K # {} => \E k \in K : Required[<<k, l[k]>>] \cap K = {}
<1>1. l \in Loads /\ IsLoadOf(root, l)
  BY DEF LoadsOf
<1>2. PICK K \in SUBSET Keys : l \in [K -> Versions]
  BY <1>1 DEF Loads
<1>3. \A k \in DOMAIN l : Required[<<k, l[k]>>] \subseteq Keys
  BY <1>2, CacheAssumption
<1>4. root \in DOMAIN l
  BY <1>1 DEF IsLoadOf
<1>5. \A L \in SUBSET DOMAIN l : L # {} => \E k \in L : Required[<<k, l[k]>>] \cap L = {}
  BY <1>1 DEF IsLoadOf
<1> QED BY <1>2, <1>3, <1>4, <1>5

LEMMA PublishedIsSound ==
  ASSUME Sound(entries), NEW root \in Keys, NEW l \in LoadsOf[root], NEW n \in Nat,
         SameVersions(l), DependenciesFound(l)
  PROVE  LET g == PublishedEntries(root, l, n)
         IN  /\ Sound(g) /\ Present(g) = Present(entries) \cup DOMAIN l
             /\ \A k \in Keys : /\ g[k].req = entries[k].req + (IF k = root THEN n ELSE 0)
                                /\ g[k].ext = entries[k].ext
             /\ \A k \in Present(entries) : g[k].version = entries[k].version
             /\ \A k \in DOMAIN l : g[k].version = l[k]
<1> DEFINE g == PublishedEntries(root, l, n)
           New == DOMAIN l \ Present(entries)
           Arriving(d) == {k \in New : d \in Required[<<k, l[k]>>]}
<1>1. /\ entries \in [Keys -> EntryRecords] /\ Present(entries) \subseteq Keys
      /\ \A k \in Keys : entries[k].req \in Nat /\ entries[k].ext \in Nat /\ entries[k].dep \in Nat
  BY EntryTypes DEF Sound
<1>2. /\ DOMAIN l \in SUBSET Keys /\ \A k \in DOMAIN l : l[k] \in Versions
      /\ New \subseteq Keys /\ IsFiniteSet(New)
  <2>1. DOMAIN l \in SUBSET Keys /\ \A k \in DOMAIN l : l[k] \in Versions
    BY LoadTypes
  <2>2. New \in SUBSET Keys
    BY <2>1
  <2> HIDE DEF New
  <2> QED BY <2>1, <2>2, CacheAssumption, FS_Subset
<1>3. \A d : /\ IsFiniteSet(Arriving(d)) /\ Cardinality(Arriving(d)) \in Nat
             /\ CountedRequired(l, d) = Cardinality(Arriving(d))
  <2>1. \A d : Arriving(d) \in SUBSET New
    OBVIOUS
  <2>2. \A d : CountedRequired(l, d) = Cardinality(Arriving(d))
    BY DEF CountedRequired
  <2> HIDE DEF Arriving, New
  <2> QED BY <2>1, <2>2, <1>2, FS_Subset, FS_CardinalityType
<1>4. \A k \in Keys : /\ g[k].version = IF k \in DOMAIN l THEN l[k] ELSE entries[k].version
                      /\ g[k].req = entries[k].req + (IF k = root THEN n ELSE 0)
                      /\ g[k].ext = entries[k].ext
                      /\ g[k].dep = entries[k].dep + Cardinality(Arriving(k))
  BY <1>3 DEF PublishedEntries
<1>5. g = [k \in Keys |-> g[k]] /\ \A k \in Keys : g[k] \in EntryRecords
  <2>1. g = [k \in Keys |-> g[k]]
    BY DEF PublishedEntries
  <2>2. ASSUME NEW k \in Keys PROVE g[k] \in EntryRecords
    <3>1. \E v, r, e, d : g[k] = [version |-> v, req |-> r, ext |-> e, dep |-> d]
      BY DEF PublishedEntries
    <3>2. PICK v, r, e, d : g[k] = [version |-> v, req |-> r, ext |-> e, dep |-> d]
      BY <3>1
    <3>3. g[k].version \in Versions \cup {NoVersion}
      BY <1>1, <1>2, <1>4 DEF EntryRecords
    <3>4. g[k].req \in Nat /\ g[k].ext \in Nat /\ g[k].dep \in Nat
      <4> HIDE DEF g, Arriving
      <4>1. entries[k].req \in Nat /\ entries[k].ext \in Nat /\ entries[k].dep \in Nat
            /\ Cardinality(Arriving(k)) \in Nat /\ (IF k = root THEN n ELSE 0) \in Nat
        BY <1>1, <1>3
      <4> QED BY <4>1, <1>4
    <3> HIDE DEF g
    <3> QED BY <3>2, <3>3, <3>4 DEF EntryRecords
  <2> QED BY <2>1, <2>2
<1> HIDE DEF g
<1>6. g \in [Keys -> EntryRecords]
  BY <1>5
<1>7. Present(g) = Present(entries) \cup DOMAIN l
  BY <1>1, <1>2, <1>4, CacheAssumption DEF Present
<1>8. /\ \A k \in Present(entries) : g[k].version = entries[k].version
      /\ \A k \in DOMAIN l : g[k].version = l[k]
  BY <1>1, <1>2, <1>4 DEF SameVersions
<1>9. /\ \A k \in Present(entries) : RequiredOf(g, k) = RequiredOf(entries, k)
      /\ \A k \in DOMAIN l : RequiredOf(g, k) = Required[<<k, l[k]>>]
  BY <1>8 DEF RequiredOf
<1>10. AbsentAreEmpty(g)
  <2> SUFFICES ASSUME NEW k \in Keys \ Present(g) PROVE g[k] = NoEntry
    BY DEF AbsentAreEmpty
  <2>1. k \notin DOMAIN l /\ entries[k] = NoEntry /\ k # root
    BY <1>7, LoadTypes DEF Sound, AbsentAreEmpty
  <2>2. Arriving(k) = {}
    BY <1>7, <1>9, <2>1 DEF DependenciesFound
  <2>3. CountedRequired(l, k) = 0
    BY <2>2, <1>3, FS_EmptySet
  <2> QED BY <2>1, <2>3 DEF g, PublishedEntries, NoEntry
<1>11. RequiredArePresent(g)
  <2> SUFFICES ASSUME NEW k \in Present(g) PROVE RequiredOf(g, k) \subseteq Present(g)
    BY DEF RequiredArePresent
  <2>1. CASE k \in Present(entries)
    BY <2>1, <1>7, <1>9 DEF Sound, RequiredArePresent
  <2>2. CASE k \in DOMAIN l
    BY <2>2, <1>7, <1>9 DEF DependenciesFound
  <2> QED BY <2>1, <2>2, <1>7
<1>12. CountsAreExact(g)
  <2> SUFFICES ASSUME NEW d \in Present(g) PROVE g[d].dep = Cardinality(Requirers(g, d))
    BY DEF CountsAreExact
  <2>0. d \in Keys
    BY <1>1, <1>2, <1>7
  <2>1. Requirers(g, d) = Requirers(entries, d) \cup Arriving(d)
    BY <1>7, <1>9 DEF Requirers
  <2>2. Requirers(entries, d) \cap Arriving(d) = {}
    BY DEF Requirers
  <2>3. entries[d].dep = Cardinality(Requirers(entries, d)) /\ IsFiniteSet(Requirers(entries, d))
    <3>1. CASE d \in Present(entries)
      BY <3>1, <1>1, EntryTypes DEF Sound, CountsAreExact
    <3>2. CASE d \notin Present(entries)
      <4>1. Requirers(entries, d) = {}
        BY <3>2 DEF Requirers, Sound, RequiredArePresent
      <4>2. entries[d].dep = 0
        BY <3>2, <2>0 DEF Sound, AbsentAreEmpty, NoEntry
      <4> QED BY <4>1, <4>2, FS_EmptySet
    <3> QED BY <3>1, <3>2
  <2> HIDE DEF Arriving
  <2>4. Cardinality(Requirers(g, d)) =
            Cardinality(Requirers(entries, d)) + Cardinality(Arriving(d))
    <3>1. Cardinality(Requirers(entries, d)) \in Nat /\ Cardinality(Arriving(d)) \in Nat
      BY <1>3, <2>3, FS_CardinalityType
    <3>2. Cardinality(Requirers(entries, d) \cap Arriving(d)) = 0
      BY <2>2, FS_EmptySet
    <3>3. Cardinality(Requirers(entries, d) \cup Arriving(d)) =
              Cardinality(Requirers(entries, d)) + Cardinality(Arriving(d))
              - Cardinality(Requirers(entries, d) \cap Arriving(d))
      BY <1>3, <2>3, FS_Union
    <3> QED BY <2>1, <3>1, <3>2, <3>3
  <2> QED BY <2>0, <2>3, <2>4, <1>4
<1>13. NoCycle(g)
  <2> SUFFICES ASSUME NEW K \in SUBSET Present(g), K # {}
               PROVE  \E k \in K : RequiredOf(g, k) \cap K = {}
    BY DEF NoCycle
  <2>1. CASE K \cap Present(entries) # {}
    <3>1. PICK k \in K \cap Present(entries) :
            RequiredOf(entries, k) \cap (K \cap Present(entries)) = {}
      BY <2>1 DEF Sound, NoCycle
    <3>2. RequiredOf(g, k) = RequiredOf(entries, k)
          /\ RequiredOf(entries, k) \subseteq Present(entries)
      BY <1>9 DEF Sound, RequiredArePresent
    <3> QED BY <3>1, <3>2
  <2>2. CASE K \cap Present(entries) = {}
    <3>1. K \in SUBSET DOMAIN l
      BY <2>2, <1>7
    <3>2. PICK k \in K : Required[<<k, l[k]>>] \cap K = {}
      BY <3>1, LoadTypes
    <3> QED BY <3>1, <3>2, <1>9
  <2> QED BY <2>1, <2>2
<1> QED BY <1>4, <1>6, <1>7, <1>8, <1>10, <1>11, <1>12, <1>13 DEF g, Sound

LEMMA PublishedSize ==
  ASSUME Sound(entries), NEW root \in Keys, NEW l \in LoadsOf[root],
         NEW g, Sound(g), Present(g) = Present(entries) \cup DOMAIN l,
         \A k \in Present(entries) : g[k].version = entries[k].version,
         \A k \in DOMAIN l : g[k].version = l[k]
  PROVE  /\ Size(g, Present(g)) = Size(entries, Present(entries)) + AddedBytes(l)
         /\ Size(entries, Present(entries)) \in Int /\ AddedBytes(l) \in Int
<1> DEFINE K == Present(entries)
           New == DOMAIN l \ K
           w == Weights(g)
           added == [k \in Keys |-> Bytes[<<k, l[k]>>]]
<1>1. /\ K \in SUBSET Keys /\ IsFiniteSet(K) /\ New \in SUBSET Keys /\ IsFiniteSet(New)
      /\ DOMAIN l \in SUBSET Keys /\ Present(g) \in SUBSET Keys
      /\ Present(g) = K \cup New /\ K \cap New = {}
  BY EntryTypes, LoadTypes, CacheAssumption, FS_Subset DEF Sound
<1>2. \A k \in K \cup New : w[k] \in Nat
  BY <1>1, WeightTypes DEF Sound
<1>3. (\A k \in K : Weights(entries)[k] = w[k]) /\ (\A k \in New : added[k] = w[k])
  BY <1>1 DEF Weights
<1>4. AddedBytes(l) = Sum(added, New)
  BY <1>1, AddedIsSum
<1>5. Size(entries, K) = Sum(Weights(entries), K) /\ Size(g, Present(g)) = Sum(w, Present(g))
  BY <1>1, SizeIsSum
<1> HIDE DEF K, New, w, added
<1>6. Sum(added, New) = Sum(w, New) /\ Sum(Weights(entries), K) = Sum(w, K)
  BY <1>1, <1>3, SumSame
<1>7. Sum(w, K \cup New) = Sum(w, K) + Sum(w, New)
  <2>1. \A k \in K \cup New : w[k] \in Int
    BY <1>2
  <2> QED BY <2>1, <1>1, SumUnion
<1>8. Sum(w, K) \in Int /\ Sum(w, New) \in Int
  <2>1. (\A k \in K : w[k] \in Int) /\ (\A k \in New : w[k] \in Int)
    BY <1>2
  <2> QED BY <2>1, <1>1, SumInt
<1> QED BY <1>1, <1>4, <1>5, <1>6, <1>7, <1>8 DEF K

-----------------------------------------------------------------------------
(* The invariant and the theorems.                                         *)

ClearedIsEmpty == cleared => \A k \in Keys : entries[k] = NoEntry

CacheInv ==
    TypeOK /\ Sound(entries) /\ BytesAreExact /\ RetentionIsExact /\ ClearedIsEmpty

LEMMA EmptyIsSound ==
  ASSUME NEW f, f = [k \in Keys |-> NoEntry]
  PROVE  Sound(f) /\ Present(f) = {} /\ Size(f, Present(f)) = 0
<1>1. NoEntry \in EntryRecords /\ NoEntry.version = NoVersion
  BY DEF NoEntry, EntryRecords
<1>2. f \in [Keys -> EntryRecords] /\ Present(f) = {}
  BY <1>1 DEF Present
<1>3. Size(f, Present(f)) = 0
  <2>1. Size(f, {}) = Sum(Weights(f), {})
    BY SizeIsSum
  <2>2. Sum(Weights(f), {}) = 0
    BY FS_EmptySet, SumStep
  <2> QED BY <2>1, <2>2, <1>2
<1> QED BY <1>2, <1>3 DEF Sound, AbsentAreEmpty, CountsAreExact, RequiredArePresent, NoCycle

LEMMA CacheInvInit == Init => CacheInv
<1> SUFFICES ASSUME Init PROVE CacheInv
  OBVIOUS
<1>1. Sound(entries) /\ Size(entries, Present(entries)) = 0
  BY EmptyIsSound DEF Init
<1>2. bytes = 0 /\ 0 <= MaximumPayloadBytes
  BY CacheAssumption DEF Init
<1>3. BytesAreExact
  BY <1>1, <1>2 DEF BytesAreExact
<1>4. RetentionIsExact
  BY DEF RetentionIsExact, Init, NoEntry
<1>5. TypeOK
  <2>1. entries \in [Keys -> EntryRecords]
    BY <1>1 DEF Sound
  <2>2. bytes \in Int /\ interests \in [Keys -> Nat] /\ handles \in [Keys -> Nat]
    BY DEF Init
  <2>3. cleared \in BOOLEAN
    BY DEF Init
  <2> QED BY <2>1, <2>2, <2>3 DEF TypeOK
<1> QED BY <1>1, <1>3, <1>4, <1>5 DEF CacheInv, ClearedIsEmpty, Init

\* A caller gives back a retention that it has, and that the entry counts unless the cache
\* is cleared.
LEMMA GivenBack ==
  ASSUME CacheInv, NEW k \in Keys, NEW f, SweepFrom(f), UNCHANGED cleared,
         f \in [Keys -> EntryRecords],
         \A d \in Keys : f[d].version = entries[d].version /\ f[d].dep = entries[d].dep,
         \A d \in Keys \ Present(entries) : f[d] = entries[d],
         interests' \in [Keys -> Nat], handles' \in [Keys -> Nat],
         ~cleared => \A d \in Keys : f[d].req = interests'[d] /\ f[d].ext = handles'[d]
  PROVE  CacheInv' /\ (~cleared => OnlyRetained')
<1>1. /\ Sound(f) /\ Present(f) = Present(entries) /\ Present(f) \in SUBSET Keys
      /\ Size(f, Present(f)) = Size(entries, Present(entries))
  <2>1. /\ Sound(f) /\ Present(f) = Present(entries)
        /\ \A K \in SUBSET Keys : Size(f, K) = Size(entries, K)
    BY RecountedIsSound DEF CacheInv
  <2>2. Present(f) \in SUBSET Keys
    BY EntryTypes
  <2> QED BY <2>1, <2>2
<1>2. /\ Sound(entries') /\ Kept(f, entries') /\ Unretained(entries') = {}
      /\ bytes' \in Int /\ BytesAreExact'
  BY <1>1, SweepFromKeeps DEF CacheInv, TypeOK
<1>3. TypeOK'
  BY <1>2 DEF CacheInv, TypeOK, Sound
<1>4. RetentionIsExact'
  BY <1>2 DEF RetentionIsExact, Kept
<1>5. ClearedIsEmpty'
  <2> SUFFICES ASSUME cleared, NEW d \in Keys PROVE entries'[d] = NoEntry
    BY DEF ClearedIsEmpty
  <2>1. Present(entries) = {}
    BY DEF CacheInv, ClearedIsEmpty, Present, NoEntry
  <2>2. d \notin Present(entries')
    BY <2>1, <1>1, <1>2 DEF Kept
  <2> QED BY <2>2, <1>2 DEF Sound, AbsentAreEmpty
<1>6. ~cleared => OnlyRetained'
  <2> SUFFICES ASSUME ~cleared PROVE OnlyRetained'
    OBVIOUS
  <2>1. TypeOK' /\ Sound(entries)' /\ RetentionIsExact' /\ ~cleared' /\ (Unretained(entries) = {})'
    BY <1>2, <1>3, <1>4
  <2> QED BY <2>1, SweptAreRetained, PTL
<1> QED BY <1>2, <1>3, <1>4, <1>5, <1>6 DEF CacheInv

LEMMA PublishKeeps ==
  ASSUME CacheInv, NEW root \in Keys, NEW l \in LoadsOf[root], NEW n \in 1..MaxRetentions,
         Publish(root, l, n)
  PROVE  CacheInv'
<1>1. /\ ~cleared /\ ~cleared' /\ SameVersions(l) /\ DependenciesFound(l)
      /\ bytes + AddedBytes(l) <= MaximumPayloadBytes
      /\ bytes' = bytes + AddedBytes(l)
      /\ interests' = [interests EXCEPT ![root] = @ + n] /\ handles' = handles
      /\ cleared' = cleared
  BY DEF Publish, Fits
<1>2. entries' = PublishedEntries(root, l, n)
  BY DEF Publish, PublishedEntries
<1>3. n \in Nat
  BY CacheAssumption
<1>4. /\ Sound(entries') /\ Present(entries') = Present(entries) \cup DOMAIN l
      /\ \A k \in Keys : /\ entries'[k].req = entries[k].req + (IF k = root THEN n ELSE 0)
                         /\ entries'[k].ext = entries[k].ext
      /\ \A k \in Present(entries) : entries'[k].version = entries[k].version
      /\ \A k \in DOMAIN l : entries'[k].version = l[k]
  BY <1>1, <1>2, <1>3, PublishedIsSound DEF CacheInv
<1>5. /\ Size(entries', Present(entries')) = Size(entries, Present(entries)) + AddedBytes(l)
      /\ Size(entries, Present(entries)) \in Int /\ AddedBytes(l) \in Int
  BY <1>4, PublishedSize DEF CacheInv
<1>6. bytes = Size(entries, Present(entries))
  BY DEF CacheInv, BytesAreExact
<1>7. BytesAreExact' /\ bytes' \in Int
  BY <1>1, <1>5, <1>6 DEF BytesAreExact
<1>8. interests \in [Keys -> Nat] /\ handles \in [Keys -> Nat] /\ cleared \in BOOLEAN
  BY DEF CacheInv, TypeOK
<1>9. TypeOK'
  <2>1. interests' \in [Keys -> Nat]
    BY <1>1, <1>3, <1>8
  <2>2. entries' \in [Keys -> EntryRecords]
    BY <1>4 DEF Sound
  <2> QED BY <2>1, <2>2, <1>1, <1>7, <1>8 DEF TypeOK
<1>10. RetentionIsExact'
  <2> SUFFICES ASSUME NEW k \in Keys
               PROVE  entries'[k].req = interests'[k] /\ entries'[k].ext = handles'[k]
    BY DEF RetentionIsExact
  <2>1. entries[k].req = interests[k] /\ entries[k].ext = handles[k]
    BY <1>1 DEF CacheInv, RetentionIsExact
  <2>2. interests'[k] = interests[k] + (IF k = root THEN n ELSE 0)
    BY <1>1, <1>3, <1>8
  <2> QED BY <2>1, <2>2, <1>1, <1>4
<1> QED BY <1>1, <1>4, <1>7, <1>9, <1>10 DEF CacheInv, ClearedIsEmpty

LEMMA AcquireKeeps ==
  ASSUME CacheInv, NEW k \in Keys, AcquireRequest(k) \/ AcquireExternal(k)
  PROVE  CacheInv'
<1>1. /\ entries \in [Keys -> EntryRecords] /\ interests \in [Keys -> Nat]
      /\ handles \in [Keys -> Nat] /\ bytes \in Int /\ cleared \in BOOLEAN
  BY DEF CacheInv, TypeOK
<1>2. k \in Present(entries) /\ UNCHANGED <<bytes, cleared>>
  BY DEF AcquireRequest, AcquireExternal
<1>3. ASSUME AcquireRequest(k)
      PROVE  /\ \A d \in Keys : d # k => entries'[d] = entries[d] /\ interests'[d] = interests[d]
             /\ entries'[k] = [entries[k] EXCEPT !.req = @ + 1]
             /\ interests'[k] = interests[k] + 1 /\ handles' = handles
             /\ entries' = [d \in Keys |-> entries'[d]] /\ interests' \in [Keys -> Nat]
  <2>1. /\ entries' = [entries EXCEPT ![k].req = @ + 1]
        /\ interests' = [interests EXCEPT ![k] = @ + 1] /\ UNCHANGED handles
    BY <1>3 DEF AcquireRequest
  <2>2. \A d \in Keys : d # k => entries'[d] = entries[d] /\ interests'[d] = interests[d]
    BY <2>1, <1>1
  <2>3. entries'[k] = [entries[k] EXCEPT !.req = @ + 1] /\ interests'[k] = interests[k] + 1
    BY <2>1, <1>1
  <2>4. entries' = [d \in Keys |-> entries'[d]]
    BY <2>1, <1>1
  <2>5. interests' \in [Keys -> Nat]
    BY <2>1, <1>1
  <2> QED BY <2>1, <2>2, <2>3, <2>4, <2>5
<1>4. ASSUME AcquireExternal(k)
      PROVE  /\ \A d \in Keys : d # k => entries'[d] = entries[d] /\ handles'[d] = handles[d]
             /\ entries'[k] = [entries[k] EXCEPT !.ext = @ + 1]
             /\ handles'[k] = handles[k] + 1 /\ interests' = interests
             /\ entries' = [d \in Keys |-> entries'[d]] /\ handles' \in [Keys -> Nat]
  <2>1. /\ entries' = [entries EXCEPT ![k].ext = @ + 1]
        /\ handles' = [handles EXCEPT ![k] = @ + 1] /\ UNCHANGED interests
    BY <1>4 DEF AcquireExternal
  <2>2. \A d \in Keys : d # k => entries'[d] = entries[d] /\ handles'[d] = handles[d]
    BY <2>1, <1>1
  <2>3. entries'[k] = [entries[k] EXCEPT !.ext = @ + 1] /\ handles'[k] = handles[k] + 1
    BY <2>1, <1>1
  <2>4. entries' = [d \in Keys |-> entries'[d]]
    BY <2>1, <1>1
  <2>5. handles' \in [Keys -> Nat]
    BY <2>1, <1>1
  <2> QED BY <2>1, <2>2, <2>3, <2>4, <2>5
<1>5. /\ entries'[k] \in EntryRecords
      /\ entries'[k].version = entries[k].version /\ entries'[k].dep = entries[k].dep
      /\ AcquireRequest(k) => /\ entries'[k].req = entries[k].req + 1
                              /\ entries'[k].ext = entries[k].ext
      /\ ~AcquireRequest(k) => /\ entries'[k].ext = entries[k].ext + 1
                               /\ entries'[k].req = entries[k].req
  <2>1. entries[k] \in EntryRecords
    BY <1>1
  <2> QED BY <2>1, <1>3, <1>4 DEF EntryRecords
<1>6. /\ entries' \in [Keys -> EntryRecords]
      /\ \A d \in Keys : /\ entries'[d].version = entries[d].version
                         /\ entries'[d].dep = entries[d].dep
      /\ \A d \in Keys \ Present(entries) : entries'[d] = entries[d]
  <2>1. \A d \in Keys : d # k => entries'[d] = entries[d]
    BY <1>3, <1>4
  <2>2. entries' = [d \in Keys |-> entries'[d]]
    BY <1>3, <1>4
  <2>3. \A d \in Keys : entries'[d] \in EntryRecords
    BY <2>1, <1>1, <1>5
  <2> QED BY <2>1, <2>2, <2>3, <1>2, <1>5
<1>7. /\ Sound(entries') /\ Present(entries') = Present(entries)
      /\ Size(entries', Present(entries')) = Size(entries, Present(entries))
  <2>1. /\ Sound(entries') /\ Present(entries') = Present(entries)
        /\ \A K \in SUBSET Keys : Size(entries', K) = Size(entries, K)
    BY <1>6, RecountedIsSound DEF CacheInv
  <2>2. Present(entries) \in SUBSET Keys
    BY <1>1, EntryTypes
  <2> QED BY <2>1, <2>2
<1>8. BytesAreExact'
  BY <1>2, <1>7 DEF CacheInv, BytesAreExact
<1>9. TypeOK'
  BY <1>1, <1>2, <1>3, <1>4, <1>6 DEF TypeOK
<1>10. RetentionIsExact'
  <2> SUFFICES ASSUME ~cleared, NEW d \in Keys
               PROVE  entries'[d].req = interests'[d] /\ entries'[d].ext = handles'[d]
    BY <1>2 DEF RetentionIsExact
  <2>1. entries[d].req = interests[d] /\ entries[d].ext = handles[d]
    BY DEF CacheInv, RetentionIsExact
  <2> QED BY <2>1, <1>3, <1>4, <1>5
<1>11. ClearedIsEmpty'
  <2>1. ~cleared
    BY <1>2 DEF CacheInv, ClearedIsEmpty, Present, NoEntry
  <2> QED BY <2>1, <1>2 DEF ClearedIsEmpty
<1> QED BY <1>7, <1>8, <1>9, <1>10, <1>11 DEF CacheInv

LEMMA ReleaseRequestKeeps ==
  ASSUME CacheInv, NEW k \in Keys, ReleaseRequest(k)
  PROVE  CacheInv' /\ (~cleared => OnlyRetained')
<1> DEFINE f == IF k \in Present(entries) /\ entries[k].req > 0
                THEN [entries EXCEPT ![k].req = @ - 1] ELSE entries
<1>1. /\ entries \in [Keys -> EntryRecords] /\ interests \in [Keys -> Nat]
      /\ handles \in [Keys -> Nat]
  BY DEF CacheInv, TypeOK
<1>2. /\ interests[k] > 0 /\ interests' = [interests EXCEPT ![k] = @ - 1]
      /\ UNCHANGED <<handles, cleared>> /\ SweepFrom(f)
  BY DEF ReleaseRequest
<1>3. entries[k] \in EntryRecords /\ entries[k].req \in Nat
  BY <1>1 DEF EntryRecords
<1>4. \A d \in Keys : d # k => f[d] = entries[d]
  BY <1>1
<1>5. /\ f[k] \in EntryRecords /\ f[k].version = entries[k].version
      /\ f[k].dep = entries[k].dep /\ f[k].ext = entries[k].ext
      /\ k \in Present(entries) /\ entries[k].req > 0 => f[k].req = entries[k].req - 1
      /\ k \notin Present(entries) => f[k] = entries[k]
  <2>1. CASE k \in Present(entries) /\ entries[k].req > 0
    <3>1. f[k] = [entries[k] EXCEPT !.req = @ - 1]
      BY <2>1, <1>1
    <3> HIDE DEF f
    <3> QED BY <2>1, <3>1, <1>3 DEF EntryRecords
  <2>2. CASE ~(k \in Present(entries) /\ entries[k].req > 0)
    BY <2>2, <1>3
  <2> QED BY <2>1, <2>2
<1>6. f = [d \in Keys |-> f[d]]
  BY <1>1
<1> HIDE DEF f
<1>7. f \in [Keys -> EntryRecords]
  <2>1. \A d \in Keys : f[d] \in EntryRecords
    BY <1>1, <1>4, <1>5
  <2> QED BY <1>6, <2>1
<1>8. interests' \in [Keys -> Nat] /\ handles' \in [Keys -> Nat]
  <2>1. interests[k] - 1 \in Nat
    BY <1>1, <1>2
  <2> QED BY <1>1, <1>2, <2>1
<1>9. ~cleared => \A d \in Keys : f[d].req = interests'[d] /\ f[d].ext = handles'[d]
  <2> SUFFICES ASSUME ~cleared, NEW d \in Keys
               PROVE  f[d].req = interests'[d] /\ f[d].ext = handles'[d]
    OBVIOUS
  <2>1. /\ entries[d].req = interests[d] /\ entries[d].ext = handles[d]
        /\ entries[k].req = interests[k]
    BY DEF CacheInv, RetentionIsExact
  <2>2. CASE d = k
    <3>1. k \in Present(entries)
      BY <2>1, <1>2 DEF CacheInv, Sound, AbsentAreEmpty, NoEntry
    <3>2. f[k].req = interests[k] - 1
      BY <2>1, <3>1, <1>2, <1>5
    <3> QED BY <2>1, <2>2, <3>2, <1>1, <1>2, <1>5
  <2>3. CASE d # k
    BY <2>1, <2>3, <1>1, <1>2, <1>4
  <2> QED BY <2>2, <2>3
<1>10. \A d \in Keys : f[d].version = entries[d].version /\ f[d].dep = entries[d].dep
  BY <1>4, <1>5
<1>11. \A d \in Keys \ Present(entries) : f[d] = entries[d]
  BY <1>4, <1>5
<1> QED BY <1>2, <1>7, <1>8, <1>9, <1>10, <1>11, GivenBack

LEMMA ReleaseExternalKeeps ==
  ASSUME CacheInv, NEW k \in Keys, ReleaseExternal(k)
  PROVE  CacheInv' /\ (~cleared => OnlyRetained')
<1> DEFINE f == IF k \in Present(entries) /\ entries[k].ext > 0
                THEN [entries EXCEPT ![k].ext = @ - 1] ELSE entries
<1>1. /\ entries \in [Keys -> EntryRecords] /\ handles \in [Keys -> Nat]
      /\ interests \in [Keys -> Nat]
  BY DEF CacheInv, TypeOK
<1>2. /\ handles[k] > 0 /\ handles' = [handles EXCEPT ![k] = @ - 1]
      /\ UNCHANGED <<interests, cleared>> /\ SweepFrom(f)
  BY DEF ReleaseExternal
<1>3. entries[k] \in EntryRecords /\ entries[k].ext \in Nat
  BY <1>1 DEF EntryRecords
<1>4. \A d \in Keys : d # k => f[d] = entries[d]
  BY <1>1
<1>5. /\ f[k] \in EntryRecords /\ f[k].version = entries[k].version
      /\ f[k].dep = entries[k].dep /\ f[k].req = entries[k].req
      /\ k \in Present(entries) /\ entries[k].ext > 0 => f[k].ext = entries[k].ext - 1
      /\ k \notin Present(entries) => f[k] = entries[k]
  <2>1. CASE k \in Present(entries) /\ entries[k].ext > 0
    <3>1. f[k] = [entries[k] EXCEPT !.ext = @ - 1]
      BY <2>1, <1>1
    <3> HIDE DEF f
    <3> QED BY <2>1, <3>1, <1>3 DEF EntryRecords
  <2>2. CASE ~(k \in Present(entries) /\ entries[k].ext > 0)
    BY <2>2, <1>3
  <2> QED BY <2>1, <2>2
<1>6. f = [d \in Keys |-> f[d]]
  BY <1>1
<1> HIDE DEF f
<1>7. f \in [Keys -> EntryRecords]
  <2>1. \A d \in Keys : f[d] \in EntryRecords
    BY <1>1, <1>4, <1>5
  <2> QED BY <1>6, <2>1
<1>8. handles' \in [Keys -> Nat] /\ interests' \in [Keys -> Nat]
  <2>1. handles[k] - 1 \in Nat
    BY <1>1, <1>2
  <2> QED BY <1>1, <1>2, <2>1
<1>9. ~cleared => \A d \in Keys : f[d].req = interests'[d] /\ f[d].ext = handles'[d]
  <2> SUFFICES ASSUME ~cleared, NEW d \in Keys
               PROVE  f[d].req = interests'[d] /\ f[d].ext = handles'[d]
    OBVIOUS
  <2>1. /\ entries[d].ext = handles[d] /\ entries[d].req = interests[d]
        /\ entries[k].ext = handles[k]
    BY DEF CacheInv, RetentionIsExact
  <2>2. CASE d = k
    <3>1. k \in Present(entries)
      BY <2>1, <1>2 DEF CacheInv, Sound, AbsentAreEmpty, NoEntry
    <3>2. f[k].ext = handles[k] - 1
      BY <2>1, <3>1, <1>2, <1>5
    <3> QED BY <2>1, <2>2, <3>2, <1>1, <1>2, <1>5
  <2>3. CASE d # k
    BY <2>1, <2>3, <1>1, <1>2, <1>4
  <2> QED BY <2>2, <2>3
<1>10. \A d \in Keys : f[d].version = entries[d].version /\ f[d].dep = entries[d].dep
  BY <1>4, <1>5
<1>11. \A d \in Keys \ Present(entries) : f[d] = entries[d]
  BY <1>4, <1>5
<1> QED BY <1>2, <1>7, <1>8, <1>9, <1>10, <1>11, GivenBack

LEMMA ClearKeeps ==
  ASSUME CacheInv, ClearManagerOwnership
  PROVE  CacheInv'
<1>1. /\ cleared' = TRUE /\ entries' = [k \in Keys |-> NoEntry] /\ bytes' = 0
      /\ interests' = [k \in Keys |-> 0] /\ handles' = handles
  BY DEF ClearManagerOwnership
<1>2. Sound(entries') /\ Size(entries', Present(entries')) = 0
  BY <1>1, EmptyIsSound
<1>3. BytesAreExact'
  <2>1. 0 <= MaximumPayloadBytes
    BY CacheAssumption
  <2> QED BY <1>1, <1>2, <2>1 DEF BytesAreExact
<1>4. TypeOK'
  <2>1. entries' \in [Keys -> EntryRecords]
    BY <1>2 DEF Sound
  <2>2. interests' \in [Keys -> Nat] /\ handles' \in [Keys -> Nat] /\ bytes' \in Int
    BY <1>1 DEF CacheInv, TypeOK
  <2>3. cleared' \in BOOLEAN
    BY <1>1
  <2> QED BY <2>1, <2>2, <2>3 DEF TypeOK
<1>5. RetentionIsExact' /\ ClearedIsEmpty'
  BY <1>1 DEF RetentionIsExact, ClearedIsEmpty
<1> QED BY <1>2, <1>3, <1>4, <1>5 DEF CacheInv

LEMMA StutterKeeps ==
  ASSUME CacheInv, UNCHANGED vars
  PROVE  CacheInv'
<1>1. /\ entries' = entries /\ bytes' = bytes /\ interests' = interests
      /\ handles' = handles /\ cleared' = cleared
  BY DEF vars
<1> QED BY <1>1 DEF CacheInv, TypeOK, BytesAreExact, RetentionIsExact, ClearedIsEmpty

LEMMA CacheInvStep ==
  ASSUME CacheInv, [Next]_vars
  PROVE  /\ CacheInv'
         /\ (\E k \in Keys : interests'[k] < interests[k] \/ handles'[k] < handles[k]) /\ ~cleared'
                => OnlyRetained'
<1> DEFINE Less == \E k \in Keys : interests'[k] < interests[k] \/ handles'[k] < handles[k]
<1>0. /\ \A k \in Keys : interests[k] \in Nat /\ handles[k] \in Nat
      /\ interests \in [Keys -> Nat] /\ handles \in [Keys -> Nat]
  BY DEF CacheInv, TypeOK
<1>1. ASSUME NEW root \in Keys, NEW n \in 1..MaxRetentions, NEW l \in LoadsOf[root],
             Publish(root, l, n)
      PROVE  CacheInv' /\ ~Less
  <2>1. interests' = [interests EXCEPT ![root] = @ + n] /\ handles' = handles /\ n \in Nat
    BY <1>1, CacheAssumption DEF Publish
  <2> QED BY <1>0, <1>1, <2>1, PublishKeeps
<1>2. ASSUME NEW k \in Keys, AcquireRequest(k) \/ AcquireExternal(k)
      PROVE  CacheInv' /\ ~Less
  <2>1. \/ interests' = [interests EXCEPT ![k] = @ + 1] /\ handles' = handles
        \/ handles' = [handles EXCEPT ![k] = @ + 1] /\ interests' = interests
    BY <1>2 DEF AcquireRequest, AcquireExternal
  <2>2. ~Less
    BY <1>0, <2>1
  <2> QED BY <1>2, <2>2, AcquireKeeps
<1>3. ASSUME NEW k \in Keys, ReleaseRequest(k) \/ ReleaseExternal(k)
      PROVE  CacheInv' /\ (~cleared' => OnlyRetained')
  <2>1. cleared' = cleared
    BY <1>3 DEF ReleaseRequest, ReleaseExternal
  <2> QED BY <1>3, <2>1, ReleaseRequestKeeps, ReleaseExternalKeeps
<1>4. ASSUME ClearManagerOwnership PROVE CacheInv' /\ cleared'
  BY <1>4, ClearKeeps DEF ClearManagerOwnership
<1>5. ASSUME UNCHANGED vars PROVE CacheInv' /\ ~Less
  BY <1>0, <1>5, StutterKeeps DEF vars
<1> QED BY <1>1, <1>2, <1>3, <1>4, <1>5 DEF Next, Finished

\* The cache's state is well formed, and what is not cached counts nothing.
THEOREM CacheTypeCorrect == Spec => []TypeOK
<1>1. CacheInv => TypeOK
  BY DEF CacheInv
<1> QED BY <1>1, CacheInvInit, CacheInvStep, PTL DEF Spec

\* The payload bytes are the size of what is cached, whichever differences Publish and
\* Sweep have added up, and stay within the limit.
THEOREM BytesStayExact == Spec => []BytesAreExact
<1>1. CacheInv => BytesAreExact
  BY DEF CacheInv
<1> QED BY <1>1, CacheInvInit, CacheInvStep, PTL DEF Spec

\* Entries count the cached entries that require them.
THEOREM DependenciesStayExact == Spec => []DependenciesAreExact
<1>1. CacheInv => DependenciesAreExact
  BY DEF CacheInv, Sound, CountsAreExact, Requirers, DependenciesAreExact
<1> QED BY <1>1, CacheInvInit, CacheInvStep, PTL DEF Spec

\* What is cached has all that it requires cached.
THEOREM ClosureStaysCached == Spec => []ClosureIsCached
<1>1. CacheInv => ClosureIsCached
  BY DEF CacheInv, Sound, RequiredArePresent, ClosureIsCached
<1> QED BY <1>1, CacheInvInit, CacheInvStep, PTL DEF Spec

\* Entries count what callers hold, so that no sweep takes it.
THEOREM CachedRetentionStaysExact == Spec => []RetentionIsExact
<1>1. CacheInv => RetentionIsExact
  BY DEF CacheInv
<1> QED BY <1>1, CacheInvInit, CacheInvStep, PTL DEF Spec

\* A release leaves what callers hold and what that requires, and nothing else: the passes
\* of Sweep end only when every chain of dependencies is gone through.
THEOREM ReleasesReclaim == Spec => ReleaseReclaims
<1>1. CacheInv /\ [Next]_vars =>
        [(\E k \in Keys : interests'[k] < interests[k] \/ handles'[k] < handles[k]) /\ ~cleared'
            => OnlyRetained']_vars
  BY CacheInvStep
<1>2. Spec => []CacheInv
  BY CacheInvInit, CacheInvStep, PTL DEF Spec
<1> QED BY <1>1, <1>2, PTL DEF Spec, ReleaseReclaims
=============================================================================
