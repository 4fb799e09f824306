-------------------------- MODULE RecursionProofs --------------------------
(***************************************************************************)
(* What the recursive definitions compute for every argument: least        *)
(* counterexamples in place of induction, and with them the sums of the    *)
(* engine (rents, parking) and of the reports (values of snapshots).       *)
(***************************************************************************)
EXTENDS Integers, Sequences, FiniteSets, Functions, FiniteSetsExt,
        FiniteSetTheorems, WellFoundedInduction, TLAPS

-----------------------------------------------------------------------------
(* Least counterexamples. *)

\* A non-empty set of naturals has a least element.
LEMMA LeastNumber ==
    ASSUME NEW T \in SUBSET Nat, T # {}
    PROVE  \E n \in T : \A m \in T : n <= m
<1>1. IsWellFoundedOn(OpToRel(<, Nat), Nat)
  BY NatLessThanWellFounded
<1>2. \E n \in T : \A m \in T : <<m, n>> \notin OpToRel(<, Nat)
  BY <1>1, WFMin
<1>3. PICK n \in T : \A m \in T : <<m, n>> \notin OpToRel(<, Nat)
  BY <1>2
<1>4. \A m \in T : ~(m < n)
  BY <1>3 DEF OpToRel
<1> QED
  BY <1>4

\* A set of naturals that holds 0 and with a number the next holds them all.
LEMMA AllNumbers ==
    ASSUME NEW Claim, 0 \in Claim, \A n \in Nat : n \in Claim => n + 1 \in Claim
    PROVE  \A n \in Nat : n \in Claim
<1> DEFINE B == {n \in Nat : n \notin Claim}
<1>1. SUFFICES ASSUME B # {} PROVE FALSE
  OBVIOUS
<1>2. PICK n \in B : \A m \in B : n <= m
  <2>1. B \in SUBSET Nat
    OBVIOUS
  <2> HIDE DEF B
  <2> QED
    BY <1>1, <2>1, LeastNumber
<1>3. n # 0 /\ n \in Nat
  OBVIOUS
<1>4. n - 1 \in Nat /\ ~(n <= n - 1) /\ (n - 1) + 1 = n
  BY <1>3
<1>5. n - 1 \in Claim
  BY <1>2, <1>4
<1> QED
  BY <1>4, <1>5

\* Of a non-empty collection of subsets of a finite set, one has no other
\* inside.
LEMMA LeastSubset ==
    ASSUME NEW S, IsFiniteSet(S), NEW B \in SUBSET SUBSET S, B # {}
    PROVE  \E A \in B : \A C \in B : C \subseteq A => C = A
<1>1. FiniteSubsetsOf(S) = SUBSET S
  BY FS_FiniteSubsetsOfFinite
<1>2. IsWellFoundedOn(StrictSubsetOrdering(S), SUBSET S)
  BY <1>1, FS_StrictSubsetOrderingWellFounded
<1>3. \E A \in B : \A C \in B : <<C, A>> \notin StrictSubsetOrdering(S)
  BY <1>2, WFMin
<1>4. PICK A \in B : \A C \in B : <<C, A>> \notin StrictSubsetOrdering(S)
  BY <1>3
<1>5. ASSUME NEW C \in B, C \subseteq A, C # A PROVE FALSE
  <2>1. A \in SUBSET S /\ C \in SUBSET S
    OBVIOUS
  <2>2. <<C, A>> \in StrictSubsetOrdering(S)
    BY <1>5, <2>1 DEF StrictSubsetOrdering
  <2> QED
    BY <1>4, <2>2
<1> QED
  BY <1>5

-----------------------------------------------------------------------------
(* Sums over finite sets. *)

Some(s) == CHOOSE x \in s : TRUE

\* g adds f up over the subsets of D, one element at a time.
IsSum(g, f, D) ==
    g = [s \in SUBSET D |-> IF s = {} THEN 0 ELSE f[Some(s)] + g[s \ {Some(s)}]]

LEMMA SomeElement == ASSUME NEW s, s # {} PROVE Some(s) \in s
BY DEF Some

\* The equation of such a g.
LEMMA IsSumEquation ==
    ASSUME NEW g, NEW f, NEW D, IsSum(g, f, D), NEW s \in SUBSET D
    PROVE  /\ s = {} => g[s] = 0
           /\ s # {} => g[s] = f[Some(s)] + g[s \ {Some(s)}]
<1> DEFINE h == [t \in SUBSET D |-> IF t = {} THEN 0 ELSE f[Some(t)] + g[t \ {Some(t)}]]
<1>1. g = h
  BY DEF IsSum
<1>2. h[s] = IF s = {} THEN 0 ELSE f[Some(s)] + g[s \ {Some(s)}]
  OBVIOUS
<1> HIDE DEF h
<1> QED
  BY <1>1, <1>2

\* Two of them agree on the subsets they share.
LEMMA IsSumUnique ==
    ASSUME NEW f, NEW S, NEW T, NEW g, NEW h, IsFiniteSet(S),
           IsSum(g, f, S), IsSum(h, f, T),
           NEW u \in SUBSET S, u \in SUBSET T
    PROVE  g[u] = h[u]
<1> DEFINE B == {s \in SUBSET S : s \in SUBSET T /\ g[s] # h[s]}
<1>1. SUFFICES ASSUME B # {} PROVE FALSE
  OBVIOUS
<1>2. PICK A \in B : \A C \in B : C \subseteq A => C = A
  <2>1. B \in SUBSET SUBSET S
    OBVIOUS
  <2> HIDE DEF B
  <2> QED
    BY <1>1, <2>1, LeastSubset
<1>3. A # {}
  <2>1. g[{}] = 0 /\ h[{}] = 0
    BY IsSumEquation
  <2> QED
    BY <2>1
<1> DEFINE rest == A \ {Some(A)}
<1>4. rest \in SUBSET S /\ rest \in SUBSET T /\ rest # A
  BY <1>3, SomeElement
<1>5. g[rest] = h[rest]
  BY <1>2, <1>4
<1>6. g[A] = f[Some(A)] + g[rest] /\ h[A] = f[Some(A)] + h[rest]
  <2>1. A \in SUBSET S /\ A \in SUBSET T
    OBVIOUS
  <2>2. g[A] = f[Some(A)] + g[rest]
    BY <1>3, <2>1, IsSumEquation
  <2>3. h[A] = f[Some(A)] + h[rest]
    BY <1>3, <2>1, IsSumEquation
  <2> QED
    BY <2>2, <2>3
<1> QED
  BY <1>5, <1>6

\* There is one for every finite set.
LEMMA IsSumExists ==
    ASSUME NEW f, NEW S, IsFiniteSet(S)
    PROVE  \E g : IsSum(g, f, S)
<1> DEFINE B == {D \in SUBSET S : ~(\E g : IsSum(g, f, D))}
<1>1. SUFFICES ASSUME B # {} PROVE FALSE
  OBVIOUS
<1>2. PICK D \in B : \A C \in B : C \subseteq D => C = D
  <2>1. B \in SUBSET SUBSET S
    OBVIOUS
  <2> HIDE DEF B
  <2> QED
    BY <1>1, <2>1, LeastSubset
<1> DEFINE V(d) == CHOOSE g : IsSum(g, f, d)
           W(s) == IF s = {} THEN 0 ELSE f[Some(s)] + V(s \ {Some(s)})[s \ {Some(s)}]
           g0 == [s \in SUBSET D |-> W(s)]
<1>3. ASSUME NEW d \in SUBSET D, d # D PROVE IsSum(V(d), f, d)
  <2>1. \E g : IsSum(g, f, d)
    BY <1>2, <1>3
  <2> QED
    BY <2>1
<1>4. \A s \in SUBSET D : IsFiniteSet(s)
  <2>1. D \in SUBSET S
    OBVIOUS
  <2> QED
    BY <2>1, FS_Subset
<1>5. ASSUME NEW s \in SUBSET D, s # D PROVE V(s)[s] = W(s)
  <2>1. IsSum(V(s), f, s)
    BY <1>3, <1>5
  <2>2. s = {} => V(s)[s] = 0
    <3>1. s \in SUBSET s
      OBVIOUS
    <3> HIDE DEF V
    <3> QED
      BY <2>1, <3>1, IsSumEquation
  <2>3. ASSUME s # {} PROVE V(s)[s] = W(s)
    <3> DEFINE r == s \ {Some(s)}
    <3>1. r \in SUBSET D /\ r # D /\ r \in SUBSET s
      BY <1>5
    <3>2. IsSum(V(r), f, r)
      BY <1>3, <3>1
    <3>3. V(s)[s] = f[Some(s)] + V(s)[r]
      <4>1. s \in SUBSET s
        OBVIOUS
      <4> HIDE DEF V
      <4> QED
        BY <2>1, <2>3, <4>1, IsSumEquation
    <3>4. V(s)[r] = V(r)[r]
      <4>1. r \in SUBSET r /\ IsFiniteSet(s)
        BY <1>4
      <4> HIDE DEF V, r
      <4> QED
        BY <2>1, <3>1, <3>2, <4>1, IsSumUnique
    <3> QED
      BY <2>3, <3>3, <3>4
  <2> QED
    BY <2>2, <2>3
<1>6. ASSUME NEW s \in SUBSET D, s # {} PROVE W(s) = f[Some(s)] + g0[s \ {Some(s)}]
  <2> DEFINE r == s \ {Some(s)}
  <2>1. r \in SUBSET D /\ r # D
    BY <1>6, SomeElement
  <2>2. W(s) = f[Some(s)] + V(r)[r]
    BY <1>6
  <2>3. V(r)[r] = W(r)
    <3> HIDE DEF r, V, W
    <3> QED
      BY <1>5, <2>1
  <2>4. g0[r] = W(r)
    <3> HIDE DEF W
    <3> QED
      BY <2>1
  <2> QED
    BY <2>2, <2>3, <2>4
<1>7. IsSum(g0, f, D)
  <2> DEFINE h == [s \in SUBSET D |-> IF s = {} THEN 0 ELSE f[Some(s)] + g0[s \ {Some(s)}]]
  <2>1. ASSUME NEW s \in SUBSET D PROVE g0[s] = h[s]
    <3>1. h[s] = IF s = {} THEN 0 ELSE f[Some(s)] + g0[s \ {Some(s)}]
      OBVIOUS
    <3>2. g0[s] = W(s)
      OBVIOUS
    <3>3. s = {} => W(s) = 0
      OBVIOUS
    <3> HIDE DEF h, W, g0
    <3> QED
      BY <1>6, <3>1, <3>2, <3>3
  <2>2. g0 = [s \in SUBSET D |-> g0[s]] /\ h = [s \in SUBSET D |-> h[s]]
    OBVIOUS
  <2> HIDE DEF g0
  <2>3. g0 = h
    <3> HIDE DEF h
    <3> QED
      BY <2>1, <2>2
  <2> QED
    BY <2>3 DEF IsSum
<1>8. \E g : IsSum(g, f, D)
  <2> HIDE DEF g0
  <2> QED
    BY <1>7
<1> QED
  BY <1>2, <1>8

-----------------------------------------------------------------------------
(* SumFunctionOnSet, the sum over a finite set of indices. *)

\* It is what any such g says of the whole set.
LEMMA SumIs ==
    ASSUME NEW f, NEW S, IsFiniteSet(S), NEW D, IsFiniteSet(D), S \in SUBSET D,
           NEW g, IsSum(g, f, D)
    PROVE  SumFunctionOnSet(f, S) = g[S]
<1> DEFINE h == CHOOSE h : h = [s \in SUBSET S |->
                   IF s = {} THEN 0 ELSE f[Some(s)] + h[s \ {Some(s)}]]
<1>1. SumFunctionOnSet(f, S) = h[S]
  BY DEF SumFunctionOnSet, FoldFunctionOnSet, MapThenFoldSet, Some
<1>2. IsSum(h, f, S)
  <2>1. \E k : IsSum(k, f, S)
    BY IsSumExists
  <2> QED
    BY <2>1 DEF IsSum
<1>3. S \in SUBSET S
  OBVIOUS
<1> HIDE DEF h
<1> QED
  BY <1>1, <1>2, <1>3, IsSumUnique

\* The sum of nothing.
LEMMA SumEmpty == ASSUME NEW f PROVE SumFunctionOnSet(f, {}) = 0
<1>1. PICK g : IsSum(g, f, {})
  BY IsSumExists, FS_EmptySet
<1>2. SumFunctionOnSet(f, {}) = g[{}]
  BY <1>1, SumIs, FS_EmptySet
<1>3. g[{}] = 0
  BY <1>1, IsSumEquation
<1> QED
  BY <1>2, <1>3

\* One step of the recursion.
LEMMA SumStep ==
    ASSUME NEW f, NEW S, IsFiniteSet(S), S # {}
    PROVE  SumFunctionOnSet(f, S) = f[Some(S)] + SumFunctionOnSet(f, S \ {Some(S)})
<1> DEFINE r == S \ {Some(S)}
<1>1. PICK g : IsSum(g, f, S)
  BY IsSumExists
<1>2. r \in SUBSET S /\ S \in SUBSET S /\ IsFiniteSet(r)
  <2>1. r \in SUBSET S /\ S \in SUBSET S
    OBVIOUS
  <2> QED
    BY <2>1, FS_Subset
<1>3. SumFunctionOnSet(f, S) = g[S] /\ SumFunctionOnSet(f, r) = g[r]
  <2> HIDE DEF r
  <2> QED
    BY <1>1, <1>2, SumIs
<1>4. g[S] = f[Some(S)] + g[r]
  BY <1>1, <1>2, IsSumEquation
<1> QED
  BY <1>3, <1>4

\* Of a collection of sets that holds {} and, with the rest of a set that one
\* element is taken out of, the set itself, all subsets of a finite set are.
\* What an induction over a sum shows is that its claim is such a collection.
LEMMA AllSubsets ==
    ASSUME NEW S, IsFiniteSet(S), NEW Claim, {} \in Claim,
           \A A \in SUBSET S : A # {} /\ (\A C \in SUBSET A : C # A => C \in Claim) => A \in Claim
    PROVE  \A A \in SUBSET S : A \in Claim
<1> DEFINE B == {A \in SUBSET S : A \notin Claim}
<1>1. SUFFICES ASSUME B # {} PROVE FALSE
  OBVIOUS
<1>2. PICK A \in B : \A C \in B : C \subseteq A => C = A
  <2>1. B \in SUBSET SUBSET S
    OBVIOUS
  <2> HIDE DEF B
  <2> QED
    BY <1>1, <2>1, LeastSubset
<1>3. \A C \in SUBSET A : C # A => C \in Claim
  BY <1>2
<1> QED
  BY <1>3

\* A sum of integers is an integer, of naturals a natural.
LEMMA SumInt ==
    ASSUME NEW f, NEW S, IsFiniteSet(S), \A x \in S : f[x] \in Int
    PROVE  SumFunctionOnSet(f, S) \in Int
<1> DEFINE Claim == {A \in SUBSET S : SumFunctionOnSet(f, A) \in Int}
<1>1. {} \in Claim
  BY SumEmpty
<1>2. ASSUME NEW A \in SUBSET S, A # {}, \A C \in SUBSET A : C # A => C \in Claim
      PROVE  A \in Claim
  <2>1. Some(A) \in A /\ IsFiniteSet(A)
    BY <1>2, SomeElement, FS_Subset
  <2>2. A \ {Some(A)} \in Claim
    BY <1>2, <2>1
  <2> QED
    BY <1>2, <2>1, <2>2, SumStep
<1>3. \A A \in SUBSET S : A \in Claim
  <2> HIDE DEF Claim
  <2> QED
    BY <1>1, <1>2, AllSubsets
<1> QED
  BY <1>3

LEMMA SumNat ==
    ASSUME NEW f, NEW S, IsFiniteSet(S), \A x \in S : f[x] \in Nat
    PROVE  SumFunctionOnSet(f, S) \in Nat
<1> DEFINE Claim == {A \in SUBSET S : SumFunctionOnSet(f, A) \in Nat}
<1>1. {} \in Claim
  BY SumEmpty
<1>2. ASSUME NEW A \in SUBSET S, A # {}, \A C \in SUBSET A : C # A => C \in Claim
      PROVE  A \in Claim
  <2>1. Some(A) \in A /\ IsFiniteSet(A)
    BY <1>2, SomeElement, FS_Subset
  <2>2. A \ {Some(A)} \in Claim
    BY <1>2, <2>1
  <2> QED
    BY <1>2, <2>1, <2>2, SumStep
<1>3. \A A \in SUBSET S : A \in Claim
  <2> HIDE DEF Claim
  <2> QED
    BY <1>1, <1>2, AllSubsets
<1> QED
  BY <1>3

\* The order of a sum does not matter: any element can be taken out first.
LEMMA SumTakeOut ==
    ASSUME NEW f, NEW S, IsFiniteSet(S), \A x \in S : f[x] \in Int, NEW x \in S
    PROVE  SumFunctionOnSet(f, S) = f[x] + SumFunctionOnSet(f, S \ {x})
<1> DEFINE Sum(A) == SumFunctionOnSet(f, A)
           Claim == {A \in SUBSET S : \A y \in A : Sum(A) = f[y] + Sum(A \ {y})}
<1>1. {} \in Claim
  OBVIOUS
<1>2. ASSUME NEW A \in SUBSET S, A # {}, \A C \in SUBSET A : C # A => C \in Claim
      PROVE  A \in Claim
  <2> SUFFICES ASSUME NEW y \in A PROVE Sum(A) = f[y] + Sum(A \ {y})
    OBVIOUS
  <2> DEFINE c == Some(A)
  <2>1. c \in A /\ IsFiniteSet(A)
    BY SomeElement, FS_Subset
  <2>2. Sum(A) = f[c] + Sum(A \ {c})
    BY <2>1, SumStep
  <2>3. CASE y = c
    BY <2>2, <2>3
  <2>4. CASE y # c
    <3>1. A \ {c} \in Claim /\ A \ {y} \in Claim
      BY <1>2, <2>1
    <3>2. Sum(A \ {c}) = f[y] + Sum((A \ {c}) \ {y})
      BY <2>4, <3>1
    <3>3. Sum(A \ {y}) = f[c] + Sum((A \ {y}) \ {c})
      BY <2>1, <2>4, <3>1
    <3>4. Sum((A \ {c}) \ {y}) = Sum((A \ {y}) \ {c})
      <4>1. (A \ {c}) \ {y} = (A \ {y}) \ {c}
        OBVIOUS
      <4> QED
        BY <4>1
    <3>5. Sum((A \ {y}) \ {c}) \in Int
      <4>1. (A \ {y}) \ {c} \subseteq A
        OBVIOUS
      <4>2. IsFiniteSet((A \ {y}) \ {c})
        BY <2>1, <4>1, FS_Subset
      <4> QED
        BY <4>1, <4>2, SumInt
    <3>6. f[c] \in Int /\ f[y] \in Int
      BY <2>1
    <3> HIDE DEF Sum, c
    <3> QED
      BY <2>2, <3>2, <3>3, <3>4, <3>5, <3>6
  <2> QED
    BY <2>3, <2>4
<1>3. \A A \in SUBSET S : A \in Claim
  <2> HIDE DEF Claim
  <2> QED
    BY <1>1, <1>2, AllSubsets
<1> QED
  BY <1>3

\* Functions that agree on a set have the same sum over it.
LEMMA SumSame ==
    ASSUME NEW f, NEW h, NEW S, IsFiniteSet(S), \A x \in S : f[x] = h[x]
    PROVE  SumFunctionOnSet(f, S) = SumFunctionOnSet(h, S)
<1> DEFINE Claim == {A \in SUBSET S : SumFunctionOnSet(f, A) = SumFunctionOnSet(h, A)}
<1>1. {} \in Claim
  BY SumEmpty
<1>2. ASSUME NEW A \in SUBSET S, A # {}, \A C \in SUBSET A : C # A => C \in Claim
      PROVE  A \in Claim
  <2>1. Some(A) \in A /\ IsFiniteSet(A)
    BY <1>2, SomeElement, FS_Subset
  <2>2. A \ {Some(A)} \in Claim
    BY <1>2, <2>1
  <2> QED
    BY <1>2, <2>1, <2>2, SumStep
<1>3. \A A \in SUBSET S : A \in Claim
  <2> HIDE DEF Claim
  <2> QED
    BY <1>1, <1>2, AllSubsets
<1> QED
  BY <1>3

\* A sum of larger numbers is larger.
LEMMA SumMonotonic ==
    ASSUME NEW f, NEW h, NEW S, IsFiniteSet(S),
           \A x \in S : f[x] \in Int /\ h[x] \in Int /\ f[x] <= h[x]
    PROVE  SumFunctionOnSet(f, S) <= SumFunctionOnSet(h, S)
<1> DEFINE Claim == {A \in SUBSET S : SumFunctionOnSet(f, A) <= SumFunctionOnSet(h, A)}
<1>1. {} \in Claim
  BY SumEmpty
<1>2. ASSUME NEW A \in SUBSET S, A # {}, \A C \in SUBSET A : C # A => C \in Claim
      PROVE  A \in Claim
  <2> DEFINE r == A \ {Some(A)}
  <2>1. Some(A) \in A /\ IsFiniteSet(A)
    BY <1>2, SomeElement, FS_Subset
  <2>2. r \in Claim /\ IsFiniteSet(r)
    BY <1>2, <2>1, FS_Subset
  <2>3. SumFunctionOnSet(f, r) \in Int /\ SumFunctionOnSet(h, r) \in Int
    BY <2>2, SumInt
  <2>4. /\ SumFunctionOnSet(f, A) = f[Some(A)] + SumFunctionOnSet(f, r)
        /\ SumFunctionOnSet(h, A) = h[Some(A)] + SumFunctionOnSet(h, r)
    BY <1>2, <2>1, SumStep
  <2>5. f[Some(A)] \in Int /\ h[Some(A)] \in Int /\ f[Some(A)] <= h[Some(A)]
    BY <2>1
  <2> QED
    BY <2>2, <2>3, <2>4, <2>5
<1>3. \A A \in SUBSET S : A \in Claim
  <2> HIDE DEF Claim
  <2> QED
    BY <1>1, <1>2, AllSubsets
<1> QED
  BY <1>3

\* A common factor can be taken out.
LEMMA SumTimes ==
    ASSUME NEW f, NEW h, NEW S, IsFiniteSet(S), NEW c \in Int,
           \A x \in S : f[x] \in Int /\ h[x] = c * f[x]
    PROVE  SumFunctionOnSet(h, S) = c * SumFunctionOnSet(f, S)
<1> DEFINE Claim == {A \in SUBSET S : SumFunctionOnSet(h, A) = c * SumFunctionOnSet(f, A)}
<1>1. {} \in Claim
  BY SumEmpty
<1>2. ASSUME NEW A \in SUBSET S, A # {}, \A C \in SUBSET A : C # A => C \in Claim
      PROVE  A \in Claim
  <2> DEFINE r == A \ {Some(A)}
  <2>1. Some(A) \in A /\ IsFiniteSet(A)
    BY <1>2, SomeElement, FS_Subset
  <2>2. r \in Claim /\ IsFiniteSet(r)
    BY <1>2, <2>1, FS_Subset
  <2>3. SumFunctionOnSet(f, r) \in Int
    BY <2>2, SumInt
  <2>4. /\ SumFunctionOnSet(f, A) = f[Some(A)] + SumFunctionOnSet(f, r)
        /\ SumFunctionOnSet(h, A) = h[Some(A)] + SumFunctionOnSet(h, r)
    BY <1>2, <2>1, SumStep
  <2>5. f[Some(A)] \in Int /\ h[Some(A)] = c * f[Some(A)]
    BY <2>1
  <2>6. SumFunctionOnSet(h, r) = c * SumFunctionOnSet(f, r)
    BY <2>2
  <2>7. \A a, b \in Int : c * (a + b) = c * a + c * b
    OBVIOUS
  <2> HIDE DEF r
  <2> QED
    BY <2>3, <2>4, <2>5, <2>6, <2>7
<1>3. \A A \in SUBSET S : A \in Claim
  <2> HIDE DEF Claim
  <2> QED
    BY <1>1, <1>2, AllSubsets
<1> QED
  BY <1>3

\* The sum over two sets that share nothing.
LEMMA SumUnion ==
    ASSUME NEW f, NEW S, NEW T, IsFiniteSet(S), IsFiniteSet(T), S \cap T = {},
           \A x \in S \cup T : f[x] \in Int
    PROVE  SumFunctionOnSet(f, S \cup T) = SumFunctionOnSet(f, S) + SumFunctionOnSet(f, T)
<1> DEFINE Sum(A) == SumFunctionOnSet(f, A)
           Claim == {A \in SUBSET S : Sum(A \cup T) = Sum(A) + Sum(T)}
<1>0. Sum(T) \in Int
  BY SumInt
<1>1. {} \in Claim
  <2>1. {} \cup T = T
    OBVIOUS
  <2> QED
    BY <1>0, <2>1, SumEmpty
<1>2. ASSUME NEW A \in SUBSET S, A # {}, \A C \in SUBSET A : C # A => C \in Claim
      PROVE  A \in Claim
  <2> DEFINE y == Some(A)
             r == A \ {y}
  <2>1. y \in A /\ IsFiniteSet(A) /\ y \notin T
    BY <1>2, SomeElement, FS_Subset
  <2>2. IsFiniteSet(r) /\ r \subseteq A
    BY <2>1, FS_Subset
  <2>3. Sum(r \cup T) = Sum(r) + Sum(T)
    BY <1>2, <2>1
  <2>4. Sum(A) = f[y] + Sum(r)
    BY <1>2, <2>1, SumStep
  <2>5. Sum(A \cup T) = f[y] + Sum(r \cup T)
    <3>1. IsFiniteSet(A \cup T)
      BY <2>1, FS_Union
    <3>2. (A \cup T) \ {y} = r \cup T
      BY <2>1
    <3>3. \A x \in A \cup T : f[x] \in Int
      OBVIOUS
    <3>4. y \in A \cup T
      BY <2>1
    <3> HIDE DEF r, y
    <3>5. SumFunctionOnSet(f, A \cup T) = f[y] + SumFunctionOnSet(f, (A \cup T) \ {y})
      BY <3>1, <3>3, <3>4, SumTakeOut
    <3> QED
      BY <3>2, <3>5
  <2>6. Sum(r) \in Int /\ f[y] \in Int
    BY <2>1, <2>2, SumInt
  <2> HIDE DEF Sum, r, y
  <2> QED
    BY <1>0, <2>3, <2>4, <2>5, <2>6
<1>3. \A A \in SUBSET S : A \in Claim
  <2> HIDE DEF Claim
  <2> QED
    BY <1>1, <1>2, AllSubsets
<1> QED
  BY <1>3

\* A sum of zeros.
LEMMA SumZero ==
    ASSUME NEW f, NEW S, IsFiniteSet(S), \A x \in S : f[x] = 0
    PROVE  SumFunctionOnSet(f, S) = 0
<1> DEFINE Claim == {A \in SUBSET S : SumFunctionOnSet(f, A) = 0}
<1>1. {} \in Claim
  BY SumEmpty
<1>2. ASSUME NEW A \in SUBSET S, A # {}, \A C \in SUBSET A : C # A => C \in Claim
      PROVE  A \in Claim
  <2>1. Some(A) \in A /\ IsFiniteSet(A)
    BY <1>2, SomeElement, FS_Subset
  <2>2. A \ {Some(A)} \in Claim
    BY <1>2, <2>1
  <2> QED
    BY <1>2, <2>1, <2>2, SumStep
<1>3. \A A \in SUBSET S : A \in Claim
  <2> HIDE DEF Claim
  <2> QED
    BY <1>1, <1>2, AllSubsets
<1> QED
  BY <1>3

\* A count is a sum of ones.
LEMMA SumOnes ==
    ASSUME NEW f, NEW S, IsFiniteSet(S), \A x \in S : f[x] = 1
    PROVE  SumFunctionOnSet(f, S) = Cardinality(S)
<1> DEFINE Claim == {A \in SUBSET S : SumFunctionOnSet(f, A) = Cardinality(A)}
<1>1. {} \in Claim
  BY SumEmpty, FS_EmptySet
<1>2. ASSUME NEW A \in SUBSET S, A # {}, \A C \in SUBSET A : C # A => C \in Claim
      PROVE  A \in Claim
  <2>1. Some(A) \in A /\ IsFiniteSet(A)
    BY <1>2, SomeElement, FS_Subset
  <2>2. A \ {Some(A)} \in Claim
    BY <1>2, <2>1
  <2>3. Cardinality(A \ {Some(A)}) = Cardinality(A) - 1 /\ Cardinality(A) \in Nat
    <3>1. Cardinality(A) \in Nat
      BY <2>1, FS_CardinalityType
    <3>2. Cardinality(A \ {Some(A)}) = Cardinality(A) - 1
      BY <2>1, FS_RemoveElement
    <3> QED
      BY <3>1, <3>2
  <2> QED
    BY <1>2, <2>1, <2>2, <2>3, SumStep
<1>3. \A A \in SUBSET S : A \in Claim
  <2> HIDE DEF Claim
  <2> QED
    BY <1>1, <1>2, AllSubsets
<1> QED
  BY <1>3

\* The elements of S with a key.
Group(S, key, k) == {x \in S : key[x] = k}

\* The sums of the groups of a set add up to the sum of the set: key tells
\* the group an element is in.
LEMMA SumGrouped ==
    ASSUME NEW f, NEW S, IsFiniteSet(S), \A x \in S : f[x] \in Int,
           NEW key, NEW G, IsFiniteSet(G), \A x \in S : key[x] \in G,
           NEW part, \A k \in G : part[k] = SumFunctionOnSet(f, Group(S, key, k))
    PROVE  SumFunctionOnSet(part, G) = SumFunctionOnSet(f, S)
<1> DEFINE Of(H) == {x \in S : key[x] \in H}
           Claim == {H \in SUBSET G : SumFunctionOnSet(part, H) = SumFunctionOnSet(f, Of(H))}
<1>1. {} \in Claim
  <2>1. Of({}) = {}
    OBVIOUS
  <2> QED
    BY <2>1, SumEmpty
<1>2. ASSUME NEW H \in SUBSET G, H # {}, \A C \in SUBSET H : C # H => C \in Claim
      PROVE  H \in Claim
  <2> DEFINE k == Some(H)
             r == H \ {k}
             own == Group(S, key, k)
  <2>1. k \in H /\ IsFiniteSet(H)
    BY <1>2, SomeElement, FS_Subset
  <2>2. SumFunctionOnSet(part, r) = SumFunctionOnSet(f, Of(r))
    <3>1. r \in Claim
      BY <1>2, <2>1
    <3> QED
      BY <3>1
  <2>3. SumFunctionOnSet(part, H) = part[k] + SumFunctionOnSet(part, r)
    BY <1>2, <2>1, SumStep
  <2>4. part[k] = SumFunctionOnSet(f, own)
    BY <2>1
  <2>5. SumFunctionOnSet(f, Of(H)) = SumFunctionOnSet(f, own) + SumFunctionOnSet(f, Of(r))
    <3>1. Of(H) = own \cup Of(r) /\ own \cap Of(r) = {}
      BY <2>1 DEF Group
    <3>2. IsFiniteSet(own) /\ IsFiniteSet(Of(r))
      <4>1. own \subseteq S /\ Of(r) \subseteq S
        BY DEF Group
      <4> QED
        BY <4>1, FS_Subset
    <3>3. \A x \in own \cup Of(r) : f[x] \in Int
      BY DEF Group
    <3> HIDE DEF own, Of, r, k
    <3>4. SumFunctionOnSet(f, own \cup Of(r)) = SumFunctionOnSet(f, own) + SumFunctionOnSet(f, Of(r))
      BY <3>1, <3>2, <3>3, SumUnion
    <3> QED
      BY <3>1, <3>4
  <2>6. SumFunctionOnSet(part, H) = SumFunctionOnSet(f, Of(H))
    BY <2>2, <2>3, <2>4, <2>5
  <2> QED
    BY <2>6
<1>3. \A A \in SUBSET G : A \in Claim
  <2> HIDE DEF Claim
  <2> QED
    BY <1>1, <1>2, AllSubsets
<1>4. G \in Claim /\ Of(G) = S
  BY <1>3
<1> QED
  BY <1>4

\* Elements that have one key each are summed by their keys.
LEMMA SumRenamed ==
    ASSUME NEW f, NEW S, IsFiniteSet(S), \A x \in S : f[x] \in Int,
           NEW key, NEW G, IsFiniteSet(G), \A x \in S : key[x] \in G,
           NEW at, \A k \in G : at[k] \in S /\ key[at[k]] = k,
           \A x \in S : at[key[x]] = x,
           NEW h, \A k \in G : h[k] = f[at[k]]
    PROVE  SumFunctionOnSet(h, G) = SumFunctionOnSet(f, S)
<1>1. ASSUME NEW k \in G PROVE h[k] = SumFunctionOnSet(f, Group(S, key, k))
  <2> DEFINE x == at[k]
             one == {x}
  <2>1. x \in S /\ Group(S, key, k) = one
    BY DEF Group
  <2>2. IsFiniteSet(one) /\ x \in one /\ one \ {x} = {} /\ \A y \in one : f[y] \in Int
    BY <2>1, FS_Singleton
  <2>3. h[k] = f[x] /\ f[x] \in Int
    BY <2>1
  <2> HIDE DEF x, one
  <2>4. SumFunctionOnSet(f, one) = f[x] + SumFunctionOnSet(f, {})
    BY <2>2, SumTakeOut
  <2> QED
    BY <2>1, <2>3, <2>4, SumEmpty
<1>2. \A k \in G : h[k] = SumFunctionOnSet(f, Group(S, key, k))
  BY <1>1
<1> QED
  BY <1>2, SumGrouped

-----------------------------------------------------------------------------
(* The sums of a sequence's elements. *)

\* SumFunction is the sum over the whole domain.
LEMMA SumOfAll == ASSUME NEW f PROVE SumFunction(f) = SumFunctionOnSet(f, DOMAIN f)
BY DEF SumFunction

\* The last of a run of numbers.
LEMMA SumLast ==
    ASSUME NEW f, NEW a \in Int, NEW b \in Int, a <= b, \A x \in a..b : f[x] \in Int
    PROVE  SumFunctionOnSet(f, a..b) = f[b] + SumFunctionOnSet(f, a..(b - 1))
<1>1. IsFiniteSet(a..b) /\ b \in a..b
  BY FS_Interval
<1>2. (a..b) \ {b} = a..(b - 1)
  OBVIOUS
<1>3. SumFunctionOnSet(f, a..b) = f[b] + SumFunctionOnSet(f, (a..b) \ {b})
  BY <1>1, SumTakeOut
<1> QED
  BY <1>2, <1>3

\* Numbers o places further along add up to the same.
LEMMA SumShifted ==
    ASSUME NEW f, NEW h, NEW o \in Nat, NEW n \in Nat,
           \A k \in 1..n : f[k] \in Int /\ h[o + k] = f[k]
    PROVE  SumFunctionOnSet(h, (o + 1)..(o + n)) = SumFunctionOnSet(f, 1..n)
<1> DEFINE B == {m \in 0..n : SumFunctionOnSet(h, (o + 1)..(o + m)) # SumFunctionOnSet(f, 1..m)}
<1> SUFFICES ASSUME SumFunctionOnSet(h, (o + 1)..(o + n)) # SumFunctionOnSet(f, 1..n)
             PROVE  FALSE
  OBVIOUS
<1>1. B # {}
  <2>1. n \in B
    OBVIOUS
  <2> HIDE DEF B
  <2> QED
    BY <2>1
<1>2. PICK m \in B : \A k \in B : m <= k
  <2>1. B \in SUBSET Nat
    OBVIOUS
  <2> HIDE DEF B
  <2> QED
    BY <1>1, <2>1, LeastNumber
<1>3. m # 0
  <2> SUFFICES ASSUME m = 0 PROVE FALSE
    OBVIOUS
  <2>1. (o + 1)..(o + m) = {} /\ 1..m = {}
    OBVIOUS
  <2>2. SumFunctionOnSet(h, (o + 1)..(o + m)) = SumFunctionOnSet(f, 1..m)
    <3> HIDE DEF B
    <3> QED
      BY <2>1, SumEmpty
  <2> QED
    BY <2>2
<1>4. SumFunctionOnSet(h, (o + 1)..(o + (m - 1))) = SumFunctionOnSet(f, 1..(m - 1))
  <2>1. m - 1 \in 0..n /\ ~(m <= m - 1)
    BY <1>3
  <2> QED
    BY <1>2, <2>1
<1>5. SumFunctionOnSet(f, 1..m) = f[m] + SumFunctionOnSet(f, 1..(m - 1))
  <2> DEFINE a == 1
             b == m
  <2>1. a \in Int /\ b \in Int /\ a <= b /\ \A j \in a..b : f[j] \in Int
    BY <1>3
  <2>2. SumFunctionOnSet(f, a..b) = f[b] + SumFunctionOnSet(f, a..(b - 1))
    <3> HIDE DEF B, a, b
    <3> QED
      BY <2>1, SumLast
  <2> QED
    BY <2>2
<1>6. SumFunctionOnSet(h, (o + 1)..(o + m)) = h[o + m] + SumFunctionOnSet(h, (o + 1)..(o + (m - 1)))
  <2> DEFINE a == o + 1
             b == o + m
  <2>1. a \in Int /\ b \in Int /\ a <= b /\ b - 1 = o + (m - 1)
    BY <1>3
  <2>2. \A j \in a..b : h[j] \in Int
    <3>1. SUFFICES ASSUME NEW j \in a..b PROVE h[j] \in Int
      OBVIOUS
    <3>2. j - o \in 1..n /\ j = o + (j - o)
      OBVIOUS
    <3> QED
      BY <3>2
  <2>3. SumFunctionOnSet(h, a..b) = h[b] + SumFunctionOnSet(h, a..(b - 1))
    <3> HIDE DEF B, a, b
    <3> QED
      BY <2>1, <2>2, SumLast
  <2> QED
    BY <2>1, <2>3
<1>7. h[o + m] = f[m]
  BY <1>3
<1> QED
  BY <1>4, <1>5, <1>6, <1>7
=============================================================================
