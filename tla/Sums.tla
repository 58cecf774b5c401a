-------------------------------- MODULE Sums --------------------------------
(***************************************************************************)
(* Sums of a function over a finite set of its arguments: the facts that the  *)
(* proofs about ledgers, reservations and allocations cite.                   *)
(*                                                                          *)
(* The sums are those of the community modules, SumFunctionOnSet and           *)
(* FoldFunction.  Induction is by a least counterexample: a non-empty set of    *)
(* subsets of a finite set has a member none of whose proper subsets is in it. *)
(***************************************************************************)
EXTENDS Integers, FiniteSets, Functions, FiniteSetTheorems, TLAPS

\* The element the fold takes next.
Pick(s) == CHOOSE x \in s : TRUE

\* g sums f over every subset of S, as the fold's recursion does.
Sums(g, f, S) ==
    g = [s \in SUBSET S |-> IF s = {} THEN 0 ELSE f[Pick(s)] + g[s \ {Pick(s)}]]

LEMMA PickIn == ASSUME NEW s, s # {} PROVE Pick(s) \in s
  BY DEF Pick

\* A non-empty set of subsets of a finite set has a least member.
LEMMA LeastSubset ==
  ASSUME NEW S, IsFiniteSet(S), NEW B \in SUBSET (SUBSET S), B # {}
  PROVE  \E T \in B : \A U \in SUBSET T : U # T => U \notin B
<1>1. FiniteSubsetsOf(S) = SUBSET S
  BY FS_FiniteSubsetsOfFinite
<1>2. IsWellFoundedOn(StrictSubsetOrdering(S), SUBSET S)
  BY <1>1, FS_StrictSubsetOrderingWellFounded
<1>3. PICK T \in B : \A U \in B : <<U, T>> \notin StrictSubsetOrdering(S)
  BY <1>2, WFMin
<1>4. QED
  BY <1>3 DEF StrictSubsetOrdering

\* There is one such g on a finite set at most.
LEMMA SumsUnique ==
  ASSUME NEW f, NEW S, IsFiniteSet(S), NEW g, NEW h, Sums(g, f, S), Sums(h, f, S)
  PROVE  g = h
<1>1. g = [s \in SUBSET S |-> g[s]] /\ h = [s \in SUBSET S |-> h[s]]
  BY DEF Sums
<1>2. \A s \in SUBSET S : g[s] = h[s]
  <2>1. SUFFICES ASSUME NEW r \in SUBSET S, g[r] # h[r] PROVE FALSE
    OBVIOUS
  <2> DEFINE B == {s \in SUBSET S : g[s] # h[s]}
  <2>2. PICK t \in B : \A u \in SUBSET t : u # t => u \notin B
    BY <2>1, LeastSubset
  <2>3. CASE t = {}
    BY <2>2, <2>3 DEF Sums
  <2>4. CASE t # {}
    <3>1. /\ g[t] = f[Pick(t)] + g[t \ {Pick(t)}]
          /\ h[t] = f[Pick(t)] + h[t \ {Pick(t)}]
      BY <2>4 DEF Sums
    <3>2. g[t \ {Pick(t)}] = h[t \ {Pick(t)}]
      BY <2>2, <2>4, PickIn
    <3>3. QED
      BY <2>2, <3>1, <3>2
  <2>5. QED
    BY <2>3, <2>4
<1>3. QED
  BY <1>1, <1>2

\* A g for a set is one for each of its subsets.
LEMMA SumsRestrict ==
  ASSUME NEW f, NEW S, NEW g, Sums(g, f, S), NEW T \in SUBSET S
  PROVE  Sums([s \in SUBSET T |-> g[s]], f, T)
<1> DEFINE h == [s \in SUBSET T |-> g[s]]
<1>1. \A s \in SUBSET T :
        h[s] = IF s = {} THEN 0 ELSE f[Pick(s)] + h[s \ {Pick(s)}]
  <2>1. TAKE s \in SUBSET T
  <2>2. s \in SUBSET S /\ s \ {Pick(s)} \in SUBSET T
    OBVIOUS
  <2>3. g[s] = IF s = {} THEN 0 ELSE f[Pick(s)] + g[s \ {Pick(s)}]
    BY <2>2 DEF Sums
  <2>4. QED
    BY <2>2, <2>3
<1>2. h = [s \in SUBSET T |-> h[s]]
  OBVIOUS
<1> HIDE DEF h
<1>3. Sums(h, f, T)
  BY <1>1, <1>2 DEF Sums
<1>4. QED
  BY <1>3 DEF h

\* On a finite set there is one.
LEMMA SumsExist ==
  ASSUME NEW f, NEW S, IsFiniteSet(S)
  PROVE  \E g : Sums(g, f, S)
<1> DEFINE B == {T \in SUBSET S : ~ \E g : Sums(g, f, T)}
<1>1. SUFFICES ASSUME B # {} PROVE FALSE
  OBVIOUS
<1>2. PICK T \in B : \A U \in SUBSET T : U # T => U \notin B
  <2>1. B \in SUBSET (SUBSET S)
    OBVIOUS
  <2> HIDE DEF B
  <2>2. QED
    BY <1>1, <2>1, LeastSubset
<1> DEFINE G == [U \in SUBSET T |-> CHOOSE g : Sums(g, f, U)]
           h == [s \in SUBSET T |->
                   IF s = {} THEN 0 ELSE f[Pick(s)] + G[s \ {Pick(s)}][s \ {Pick(s)}]]
<1>3. \A U \in SUBSET T : U # T => Sums(G[U], f, U)
  <2>1. TAKE U \in SUBSET T
  <2>2. HAVE U # T
  <2>3. \E g : Sums(g, f, U)
    BY <1>2, <2>2
  <2>4. Sums(CHOOSE g : Sums(g, f, U), f, U)
    BY <2>3
  <2>5. QED
    BY <2>4
<1>4. \A s \in SUBSET T : s # T => h[s] = G[s][s]
  <2>1. TAKE s \in SUBSET T
  <2>2. HAVE s # T
  <2>3. Sums(G[s], f, s)
    BY <1>3, <2>2
  <2>4. CASE s = {}
    BY <2>3, <2>4 DEF Sums
  <2>5. CASE s # {}
    <3> DEFINE U == s \ {Pick(s)}
    <3>1. U \in SUBSET s /\ U \in SUBSET T /\ U # T
      BY <2>2, <2>5, PickIn
    <3>2. Sums([r \in SUBSET U |-> G[s][r]], f, U)
      BY <2>3, <3>1, SumsRestrict
    <3>3. Sums(G[U], f, U)
      BY <1>3, <3>1
    <3>4. IsFiniteSet(U)
      BY <3>1, <1>2, FS_Subset
    <3>5. G[U] = [r \in SUBSET U |-> G[s][r]]
      BY <3>2, <3>3, <3>4, SumsUnique
    <3>6. G[s][U] = G[U][U]
      BY <3>5
    <3>7. G[s][s] = f[Pick(s)] + G[s][U]
      BY <2>3, <2>5 DEF Sums
    <3>8. h[s] = f[Pick(s)] + G[U][U]
      BY <2>5
    <3>9. QED
      BY <3>6, <3>7, <3>8
  <2>6. QED
    BY <2>4, <2>5
<1>5. \A s \in SUBSET T : h[s] = IF s = {} THEN 0 ELSE f[Pick(s)] + h[s \ {Pick(s)}]
  <2>1. TAKE s \in SUBSET T
  <2>2. CASE s = {}
    BY <2>2
  <2>3. CASE s # {}
    <3> DEFINE U == s \ {Pick(s)}
    <3>1. U \in SUBSET T /\ U # T
      BY <2>3, PickIn
    <3>2. h[U] = G[U][U]
      BY <1>4, <3>1
    <3>3. h[s] = f[Pick(s)] + G[U][U]
      BY <2>3
    <3>4. QED
      BY <2>3, <3>2, <3>3
  <2>4. QED
    BY <2>2, <2>3
<1>6. h = [s \in SUBSET T |-> h[s]]
  OBVIOUS
<1> HIDE DEF h
<1>7. Sums(h, f, T)
  BY <1>5, <1>6 DEF Sums
<1>8. QED
  BY <1>2, <1>7

\* The community modules' sum is that g's value.
LEMMA SumIsSums ==
  ASSUME NEW f, NEW S, \E g : Sums(g, f, S)
  PROVE  \E g : Sums(g, f, S) /\ SumFunctionOnSet(f, S) = g[S]
  BY DEF SumFunctionOnSet, FoldFunctionOnSet, MapThenFoldSet, Sums, Pick

-----------------------------------------------------------------------------
\* The sum over the empty set.
LEMMA SumEmpty == ASSUME NEW f PROVE SumFunctionOnSet(f, {}) = 0
<1>1. PICK g : Sums(g, f, {}) /\ SumFunctionOnSet(f, {}) = g[{}]
  BY SumsExist, SumIsSums, FS_EmptySet
<1>2. QED
  BY <1>1 DEF Sums

\* The fold's own equation.
LEMMA SumPick ==
  ASSUME NEW f, NEW S, IsFiniteSet(S), S # {}
  PROVE  SumFunctionOnSet(f, S) = f[Pick(S)] + SumFunctionOnSet(f, S \ {Pick(S)})
<1> DEFINE T == S \ {Pick(S)}
<1>1. PICK g : Sums(g, f, S) /\ SumFunctionOnSet(f, S) = g[S]
  BY SumsExist, SumIsSums
<1>2. IsFiniteSet(T) /\ T \in SUBSET S
  BY FS_Subset
<1>3. PICK h : Sums(h, f, T) /\ SumFunctionOnSet(f, T) = h[T]
  BY <1>2, SumsExist, SumIsSums
<1>4. Sums([s \in SUBSET T |-> g[s]], f, T)
  BY <1>1, <1>2, SumsRestrict
<1>5. h = [s \in SUBSET T |-> g[s]]
  BY <1>2, <1>3, <1>4, SumsUnique
<1>6. h[T] = g[T]
  BY <1>5
<1>7. g[S] = f[Pick(S)] + g[T]
  BY <1>1 DEF Sums
<1>8. QED
  BY <1>1, <1>3, <1>6, <1>7

\* A sum of integers is an integer.
LEMMA SumType ==
  ASSUME NEW f, NEW S, IsFiniteSet(S), \A x \in S : f[x] \in Int
  PROVE  SumFunctionOnSet(f, S) \in Int
<1> DEFINE B == {s \in SUBSET S : SumFunctionOnSet(f, s) \notin Int}
<1>1. SUFFICES ASSUME B # {} PROVE FALSE
  OBVIOUS
<1>2. PICK t \in B : \A u \in SUBSET t : u # t => u \notin B
  <2>1. B \in SUBSET (SUBSET S)
    OBVIOUS
  <2> HIDE DEF B
  <2>2. QED
    BY <1>1, <2>1, LeastSubset
<1>3. t # {}
  BY <1>2, SumEmpty
<1>4. Pick(t) \in t /\ IsFiniteSet(t)
  BY <1>2, <1>3, PickIn, FS_Subset
<1>5. SumFunctionOnSet(f, t \ {Pick(t)}) \in Int
  BY <1>2, <1>4
<1>6. QED
  BY <1>2, <1>3, <1>4, <1>5, SumPick

\* Any element may be taken out first.
LEMMA SumTake ==
  ASSUME NEW f, NEW S, IsFiniteSet(S), \A y \in S : f[y] \in Int, NEW x \in S
  PROVE  SumFunctionOnSet(f, S) = f[x] + SumFunctionOnSet(f, S \ {x})
<1> DEFINE Sum(s) == SumFunctionOnSet(f, s)
           B == {s \in SUBSET S : \E y \in s : Sum(s) # f[y] + Sum(s \ {y})}
<1>1. SUFFICES ASSUME B # {} PROVE FALSE
  OBVIOUS
<1>2. PICK t \in B : \A u \in SUBSET t : u # t => u \notin B
  <2>1. B \in SUBSET (SUBSET S)
    OBVIOUS
  <2> HIDE DEF B
  <2>2. QED
    BY <1>1, <2>1, LeastSubset
<1>3. PICK y \in t : Sum(t) # f[y] + Sum(t \ {y})
  BY <1>2
<1> DEFINE p == Pick(t)
<1>4. p \in t /\ IsFiniteSet(t) /\ t \in SUBSET S
  BY <1>2, <1>3, PickIn, FS_Subset
<1>5. Sum(t) = f[p] + Sum(t \ {p})
  BY <1>3, <1>4, SumPick
<1>6. y # p
  BY <1>3, <1>5
<1> DEFINE both == t \ {y, p}
<1>7. both = (t \ {p}) \ {y} /\ both = (t \ {y}) \ {p}
  OBVIOUS
<1>8. Sum(t \ {p}) = f[y] + Sum(both)
  BY <1>2, <1>3, <1>4, <1>6, <1>7
<1>9. Sum(t \ {y}) = f[p] + Sum(both)
  BY <1>2, <1>3, <1>4, <1>6, <1>7
<1>10. IsFiniteSet(both) /\ both \in SUBSET S
  BY <1>4, FS_Subset
<1>11. Sum(both) \in Int /\ f[p] \in Int /\ f[y] \in Int
  BY <1>3, <1>4, <1>10, SumType
<1> HIDE DEF Sum, both, p
<1>12. QED
  BY <1>3, <1>5, <1>8, <1>9, <1>11

\* The sum depends on the summands alone.
LEMMA SumSame ==
  ASSUME NEW f, NEW h, NEW S, IsFiniteSet(S), \A x \in S : f[x] = h[x]
  PROVE  SumFunctionOnSet(f, S) = SumFunctionOnSet(h, S)
<1> DEFINE B == {s \in SUBSET S : SumFunctionOnSet(f, s) # SumFunctionOnSet(h, s)}
<1>1. SUFFICES ASSUME B # {} PROVE FALSE
  OBVIOUS
<1>2. PICK t \in B : \A u \in SUBSET t : u # t => u \notin B
  <2>1. B \in SUBSET (SUBSET S)
    OBVIOUS
  <2> HIDE DEF B
  <2>2. QED
    BY <1>1, <2>1, LeastSubset
<1>3. t # {}
  BY <1>2, SumEmpty
<1>4. Pick(t) \in t /\ IsFiniteSet(t)
  BY <1>2, <1>3, PickIn, FS_Subset
<1>5. SumFunctionOnSet(f, t \ {Pick(t)}) = SumFunctionOnSet(h, t \ {Pick(t)})
  BY <1>2, <1>4
<1>6. QED
  BY <1>2, <1>3, <1>4, <1>5, SumPick

\* Larger summands, larger sum.
LEMMA SumMonotone ==
  ASSUME NEW f, NEW h, NEW S, IsFiniteSet(S),
         \A x \in S : f[x] \in Int /\ h[x] \in Int /\ f[x] <= h[x]
  PROVE  SumFunctionOnSet(f, S) <= SumFunctionOnSet(h, S)
<1> DEFINE B == {s \in SUBSET S : ~(SumFunctionOnSet(f, s) <= SumFunctionOnSet(h, s))}
<1>1. SUFFICES ASSUME B # {} PROVE FALSE
  OBVIOUS
<1>2. PICK t \in B : \A u \in SUBSET t : u # t => u \notin B
  <2>1. B \in SUBSET (SUBSET S)
    OBVIOUS
  <2> HIDE DEF B
  <2>2. QED
    BY <1>1, <2>1, LeastSubset
<1>3. t # {}
  <2>1. SumFunctionOnSet(f, {}) = 0 /\ SumFunctionOnSet(h, {}) = 0
    BY SumEmpty
  <2>2. SumFunctionOnSet(f, {}) <= SumFunctionOnSet(h, {})
    BY <2>1
  <2>3. QED
    BY <1>2, <2>2
<1> DEFINE p == Pick(t)
           r == t \ {p}
<1>4. p \in t /\ IsFiniteSet(t) /\ r \in SUBSET S /\ IsFiniteSet(r)
  BY <1>2, <1>3, PickIn, FS_Subset
<1>5. SumFunctionOnSet(f, r) <= SumFunctionOnSet(h, r)
  BY <1>2, <1>4
<1>6. SumFunctionOnSet(f, r) \in Int /\ SumFunctionOnSet(h, r) \in Int
  BY <1>4, SumType
<1>7. /\ SumFunctionOnSet(f, t) = f[p] + SumFunctionOnSet(f, r)
      /\ SumFunctionOnSet(h, t) = h[p] + SumFunctionOnSet(h, r)
  BY <1>3, <1>4, SumPick
<1>8. f[p] \in Int /\ h[p] \in Int /\ f[p] <= h[p]
  BY <1>2, <1>4
<1> HIDE DEF p, r
<1>9. QED
  BY <1>2, <1>5, <1>6, <1>7, <1>8

\* A sum of nothing but zeros.
LEMMA SumZero ==
  ASSUME NEW f, NEW S, IsFiniteSet(S), \A x \in S : f[x] = 0
  PROVE  SumFunctionOnSet(f, S) = 0
<1> DEFINE B == {s \in SUBSET S : SumFunctionOnSet(f, s) # 0}
<1>1. SUFFICES ASSUME B # {} PROVE FALSE
  OBVIOUS
<1>2. PICK t \in B : \A u \in SUBSET t : u # t => u \notin B
  <2>1. B \in SUBSET (SUBSET S)
    OBVIOUS
  <2> HIDE DEF B
  <2>2. QED
    BY <1>1, <2>1, LeastSubset
<1>3. t # {}
  BY <1>2, SumEmpty
<1>4. Pick(t) \in t /\ IsFiniteSet(t)
  BY <1>2, <1>3, PickIn, FS_Subset
<1>5. SumFunctionOnSet(f, t \ {Pick(t)}) = 0
  BY <1>2, <1>4
<1>6. QED
  BY <1>2, <1>3, <1>4, <1>5, SumPick

\* A sum of natural numbers is one.
LEMMA SumNat ==
  ASSUME NEW f, NEW S, IsFiniteSet(S), \A x \in S : f[x] \in Nat
  PROVE  SumFunctionOnSet(f, S) \in Nat
<1> DEFINE zero == [x \in S |-> 0]
<1>1. SumFunctionOnSet(zero, S) = 0
  BY SumZero
<1>2. SumFunctionOnSet(zero, S) <= SumFunctionOnSet(f, S)
  BY SumMonotone
<1>3. QED
  BY <1>1, <1>2, SumType

\* One summand changes.
LEMMA SumChange ==
  ASSUME NEW f, NEW h, NEW S, IsFiniteSet(S), NEW x \in S, h[x] \in Int,
         \A y \in S : f[y] \in Int, \A y \in S \ {x} : h[y] = f[y]
  PROVE  SumFunctionOnSet(h, S) = SumFunctionOnSet(f, S) - f[x] + h[x]
<1>1. IsFiniteSet(S \ {x})
  BY FS_Subset
<1>2. SumFunctionOnSet(h, S \ {x}) = SumFunctionOnSet(f, S \ {x})
  BY <1>1, SumSame
<1>3. /\ SumFunctionOnSet(f, S) = f[x] + SumFunctionOnSet(f, S \ {x})
      /\ SumFunctionOnSet(h, S) = h[x] + SumFunctionOnSet(h, S \ {x})
  BY SumTake
<1>4. SumFunctionOnSet(f, S \ {x}) \in Int
  BY <1>1, SumType
<1>5. QED
  BY <1>2, <1>3, <1>4

\* One summand more.
LEMMA SumAdd ==
  ASSUME NEW f, NEW h, NEW S, IsFiniteSet(S), NEW x, x \notin S, h[x] \in Int,
         \A y \in S : f[y] \in Int /\ h[y] = f[y]
  PROVE  SumFunctionOnSet(h, S \cup {x}) = SumFunctionOnSet(f, S) + h[x]
<1>1. IsFiniteSet(S \cup {x}) /\ (S \cup {x}) \ {x} = S
  BY FS_AddElement
<1>2. SumFunctionOnSet(h, S \cup {x}) = h[x] + SumFunctionOnSet(h, S)
  BY <1>1, SumTake
<1>3. SumFunctionOnSet(h, S) = SumFunctionOnSet(f, S)
  BY SumSame
<1>4. SumFunctionOnSet(f, S) \in Int
  BY SumType
<1>5. QED
  BY <1>2, <1>3, <1>4

\* A sum of opposites.
LEMMA SumOpposite ==
  ASSUME NEW f, NEW h, NEW S, IsFiniteSet(S), \A x \in S : f[x] \in Int /\ h[x] = -f[x]
  PROVE  SumFunctionOnSet(h, S) = -SumFunctionOnSet(f, S)
<1> DEFINE B == {s \in SUBSET S : SumFunctionOnSet(h, s) # -SumFunctionOnSet(f, s)}
<1>1. SUFFICES ASSUME B # {} PROVE FALSE
  OBVIOUS
<1>2. PICK t \in B : \A u \in SUBSET t : u # t => u \notin B
  <2>1. B \in SUBSET (SUBSET S)
    OBVIOUS
  <2> HIDE DEF B
  <2>2. QED
    BY <1>1, <2>1, LeastSubset
<1>3. t # {}
  <2>1. SumFunctionOnSet(f, {}) = 0 /\ SumFunctionOnSet(h, {}) = 0
    BY SumEmpty
  <2>2. SumFunctionOnSet(h, {}) = -SumFunctionOnSet(f, {})
    BY <2>1
  <2>3. QED
    BY <1>2, <2>2
<1> DEFINE p == Pick(t)
           r == t \ {p}
<1>4. p \in t /\ IsFiniteSet(t) /\ r \in SUBSET S /\ IsFiniteSet(r)
  BY <1>2, <1>3, PickIn, FS_Subset
<1>5. SumFunctionOnSet(h, r) = -SumFunctionOnSet(f, r)
  BY <1>2, <1>4
<1>6. SumFunctionOnSet(f, r) \in Int
  BY <1>4, SumType
<1>7. /\ SumFunctionOnSet(f, t) = f[p] + SumFunctionOnSet(f, r)
      /\ SumFunctionOnSet(h, t) = h[p] + SumFunctionOnSet(h, r)
  BY <1>3, <1>4, SumPick
<1>8. f[p] \in Int /\ h[p] = -f[p]
  BY <1>2, <1>4
<1> HIDE DEF p, r
<1>9. QED
  BY <1>2, <1>5, <1>6, <1>7, <1>8

\* The summands under other names.
LEMMA SumRenamed ==
  ASSUME NEW f, NEW h, NEW b, NEW S, IsFiniteSet(S),
         \A x \in S : f[x] \in Int /\ f[x] = h[b[x]],
         \A x, y \in S : b[x] = b[y] => x = y
  PROVE  SumFunctionOnSet(f, S) = SumFunctionOnSet(h, {b[x] : x \in S})
<1> DEFINE Names(s) == {b[x] : x \in s}
           B == {s \in SUBSET S : SumFunctionOnSet(f, s) # SumFunctionOnSet(h, Names(s))}
<1>1. SUFFICES ASSUME B # {} PROVE FALSE
  OBVIOUS
<1>2. PICK t \in B : \A u \in SUBSET t : u # t => u \notin B
  <2>1. B \in SUBSET (SUBSET S)
    OBVIOUS
  <2> HIDE DEF B
  <2>2. QED
    BY <1>1, <2>1, LeastSubset
<1>3. t # {}
  <2>1. Names({}) = {}
    OBVIOUS
  <2>2. SumFunctionOnSet(f, {}) = SumFunctionOnSet(h, Names({}))
    BY <2>1, SumEmpty
  <2>3. QED
    BY <1>2, <2>2
<1> DEFINE p == Pick(t)
           r == t \ {p}
<1>4. p \in t /\ IsFiniteSet(t) /\ r \in SUBSET S /\ r # t
  BY <1>2, <1>3, PickIn, FS_Subset
<1>5. SumFunctionOnSet(f, r) = SumFunctionOnSet(h, Names(r))
  BY <1>2, <1>4
<1>6. SumFunctionOnSet(f, t) = f[p] + SumFunctionOnSet(f, r)
  BY <1>3, <1>4, SumPick
<1>7. SumFunctionOnSet(h, Names(t)) = h[b[p]] + SumFunctionOnSet(h, Names(t) \ {b[p]})
  <2>1. IsFiniteSet(Names(t))
    <3> DEFINE T == Names(t)
               c == [x \in t |-> b[x]]
    <3>1. c \in Surjection(t, T)
      BY DEF Surjection
    <3> HIDE DEF T, c
    <3>2. IsFiniteSet(T)
      BY <1>4, <3>1, FS_Surjection
    <3>3. QED
      BY <3>2 DEF T
  <2>2. b[p] \in Names(t) /\ \A y \in Names(t) : h[y] \in Int
    BY <1>2, <1>4
  <2> HIDE DEF Names
  <2>3. QED
    BY <2>1, <2>2, SumTake
<1>8. Names(t) \ {b[p]} = Names(r)
  BY <1>2, <1>4
<1>9. f[p] = h[b[p]]
  BY <1>2, <1>4
<1>10. SumFunctionOnSet(f, t) = SumFunctionOnSet(h, Names(t))
  <2> HIDE DEF Names, p, r
  <2>1. QED
    BY <1>5, <1>6, <1>7, <1>8, <1>9
<1>11. QED
  BY <1>2, <1>10

\* b gives the members of S other names, all of them from S.
Permutes(b, S) ==
    /\ \A x, y \in S : b[x] = b[y] => x = y
    /\ \A x \in S : b[x] \in S
    /\ \A y \in S : \E x \in S : b[x] = y

\* One summand changes, and all get other names.
LEMMA SumChangedAndRenamed ==
  ASSUME NEW S, IsFiniteSet(S), NEW f, NEW h, NEW b, NEW p \in S, h[b[p]] \in Int,
         \A x \in S : f[x] \in Int, \A x \in S \ {p} : f[x] = h[b[x]],
         Permutes(b, S)
  PROVE  SumFunctionOnSet(h, S) = SumFunctionOnSet(f, S) - f[p] + h[b[p]]
<1> DEFINE g == [x \in S |-> h[b[x]]]
<1>1. /\ \A x \in S : g[x] \in Int /\ g[x] = h[b[x]]
      /\ \A x \in S \ {p} : g[x] = f[x]
  OBVIOUS
<1> HIDE DEF g
<1>2. SumFunctionOnSet(g, S) = SumFunctionOnSet(h, S)
  <2>1. SumFunctionOnSet(g, S) = SumFunctionOnSet(h, {b[x] : x \in S})
    BY <1>1, SumRenamed DEF Permutes
  <2>2. {b[x] : x \in S} = S
    BY DEF Permutes
  <2>3. QED
    BY <2>1, <2>2
<1>3. SumFunctionOnSet(g, S) = SumFunctionOnSet(f, S) - f[p] + g[p]
  BY <1>1, SumChange
<1>4. QED
  BY <1>1, <1>2, <1>3

\* h lists the n summands of f in order, except that the one at p left and another
\* one came to the end.
MovedTo(h, f, p, n) ==
    /\ h[n] \in Int
    /\ \A i \in 1 .. n : f[i] \in Int
    /\ \A i \in 1 .. n : i < p => h[i] = f[i]
    /\ \A i \in 1 .. n : i < n /\ p <= i => h[i] = f[i + 1]

LEMMA SumMoved ==
  \A n \in Nat : \A p \in 1 .. n : \A f, h : MovedTo(h, f, p, n)
    => SumFunctionOnSet(h, 1 .. n) = SumFunctionOnSet(f, 1 .. n) - f[p] + h[n]
<1>0. SUFFICES ASSUME NEW n \in Nat, NEW p \in 1 .. n, NEW f, NEW h,
                      h[n] \in Int,
                      \A i \in 1 .. n : f[i] \in Int,
                      \A i \in 1 .. n : i < p => h[i] = f[i],
                      \A i \in 1 .. n : i < n /\ p <= i => h[i] = f[i + 1]
             PROVE  SumFunctionOnSet(h, 1 .. n) = SumFunctionOnSet(f, 1 .. n) - f[p] + h[n]
  BY DEF MovedTo
<1> DEFINE S == 1 .. n
           b == [i \in S |-> IF i < p THEN i ELSE IF i = p THEN n ELSE i - 1]
<1>1. IsFiniteSet(S)
  BY <1>0, FS_Interval
<1>2. (\A i \in S : f[i] \in Int) /\ (\A i \in S \ {p} : f[i] = h[b[i]])
  BY <1>0
<1>3. \A i, j \in S : b[i] = b[j] => i = j
  BY <1>0
<1>4. (\A i \in S : b[i] \in S) /\ (\A j \in S : \E i \in S : b[i] = j)
  <2>1. \A i \in S : b[i] \in S
    BY <1>0
  <2>2. ASSUME NEW j \in S PROVE \E i \in S : b[i] = j
    <3>1. CASE j < p
      <4>1. b[j] = j
        BY <1>0, <3>1
      <4>2. QED
        BY <1>0, <4>1
    <3>2. CASE j = n
      <4>1. b[p] = j
        BY <1>0, <3>2
      <4>2. QED
        BY <1>0, <4>1
    <3>3. CASE p <= j /\ j < n
      <4>1. j + 1 \in S /\ b[j + 1] = j
        BY <1>0, <3>3
      <4>2. QED
        BY <1>0, <4>1
    <3>4. QED
      BY <1>0, <3>1, <3>2, <3>3
  <2>3. QED
    BY <2>1, <2>2
<1>5. Permutes(b, S)
  BY <1>3, <1>4 DEF Permutes
<1>6. p \in S /\ b[p] = n
  BY <1>0
<1>7. PICK q \in S : q = p
  BY <1>6
<1>8. (\A i \in S : f[i] \in Int) /\ (\A i \in S \ {q} : f[i] = h[b[i]]) /\ h[b[q]] \in Int
  BY <1>0, <1>2, <1>6, <1>7
<1> HIDE DEF S, b
<1>9. SumFunctionOnSet(h, S) = SumFunctionOnSet(f, S) - f[q] + h[b[q]]
  BY <1>1, <1>5, <1>8, SumChangedAndRenamed
<1>10. QED
  BY <1>6, <1>7, <1>9 DEF S

\* The folds of the models are sums over the whole domain.
LEMMA FoldIsSum == ASSUME NEW f PROVE FoldFunction(+, 0, f) = SumFunctionOnSet(f, DOMAIN f)
  BY DEF FoldFunction, SumFunctionOnSet
=============================================================================
