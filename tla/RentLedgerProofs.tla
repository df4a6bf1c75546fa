-------------------------- MODULE RentLedgerProofs --------------------------
(***************************************************************************)
(* Proofs about RentAllocation and RentLedger, for every set of contracts, *)
(* leases, payments, dates and amounts. First, for instalments and         *)
(* payments of any number and amount: the loops that spread payments over  *)
(* instalments give what the prefix sums give. (The library's induction    *)
(* theorems have an operator as a parameter; what is proved by induction   *)
(* here is proved by a least counterexample, with WFMin.) Then every       *)
(* request applies the allocation loop to the rows it must, and those rows *)
(* are such that AllocatesByPrefixSums tells what the loop gives. Of such  *)
(* rows the views (RentViews) and the reconciliation (RentReconciliation)  *)
(* are sums over instalments, and so it is shown that they agree. Last,    *)
(* the transactions of RentLedgerTx implement RentLedger: a transaction    *)
(* holds the locks of all contracts it reads and writes, and what a        *)
(* request changes lies within its own contracts.                          *)
(***************************************************************************)
EXTENDS RentReconciliation, RentLedgerTx, FiniteSetTheorems, WellFoundedInduction, TLAPS

-----------------------------------------------------------------------------
(* Least counterexamples *)

\* Of any subsets of a finite set some are the smallest.
LEMMA SmallestSubset ==
    ASSUME NEW S, IsFiniteSet(S), NEW B \in SUBSET (SUBSET S), B # {}
    PROVE  \E T \in B : \A U \in B : U \subseteq T => U = T
  <1>1. IsWellFoundedOn(StrictSubsetOrdering(S), FiniteSubsetsOf(S))
    BY FS_StrictSubsetOrderingWellFounded
  <1>2. B \subseteq FiniteSubsetsOf(S) BY FS_FiniteSubsetsOfFinite
  <1>3. PICK T \in B : \A U \in B : <<U, T>> \notin StrictSubsetOrdering(S)
    <2> DEFINE F == FiniteSubsetsOf(S)
               R == StrictSubsetOrdering(S)
    <2> HIDE DEF F, R
    <2>1. IsWellFoundedOn(R, F) /\ B \subseteq F BY <1>1, <1>2 DEF F, R
    <2>2. \E T \in B : \A U \in B : ~ (<<U, T>> \in R) BY <2>1, WFMin
    <2> QED BY <2>2 DEF R
  <1> QED BY <1>3 DEF StrictSubsetOrdering

\* Of any natural numbers one is the least.
LEMMA LeastNat == ASSUME NEW T \in SUBSET Nat, T # {}
                  PROVE  \E x \in T : \A y \in T : x <= y
  <1> DEFINE R == {ss \in Nat \X Nat : ss[1] < ss[2]}
  <1>1. IsWellFoundedOn(R, Nat) BY NatLessThanWellFounded DEF OpToRel
  <1> HIDE DEF R
  <1>2. PICK x \in T : \A y \in T : <<y, x>> \notin R BY <1>1, WFMin
  <1>3. \A y \in T : ~ (y < x) BY <1>2 DEF R
  <1> QED BY <1>3

-----------------------------------------------------------------------------
(* Sums *)

\* What SumFunctionOnSet recurses with.
Pick(s) == CHOOSE x \in s : TRUE
Adds(f, S, g) ==
    g = [s \in SUBSET S |-> IF s = {} THEN 0 ELSE f[Pick(s)] + g[s \ {Pick(s)}]]

\* What is chosen of a set lies in it.
LEMMA PickIn == ASSUME NEW s, s # {} PROVE Pick(s) \in s
  BY DEF Pick

\* The sum of the library in terms of its recursive function.
LEMMA SumUnfolds == ASSUME NEW f, NEW S
                    PROVE  SumFunctionOnSet(f, S) = (CHOOSE g : Adds(f, S, g))[S]
  BY DEF SumFunctionOnSet, FoldFunctionOnSet, MapThenFoldSet, Adds, Pick

LEMMA AddsAgree ==
    ASSUME NEW f, NEW S, IsFiniteSet(S), NEW T \in SUBSET S, NEW g, NEW h,
           Adds(f, S, g), Adds(f, T, h)
    PROVE  \A s \in SUBSET T : g[s] = h[s]
  <1> DEFINE B == {s \in SUBSET T : g[s] # h[s]}
  <1>1. SUFFICES ASSUME B # {} PROVE FALSE OBVIOUS
  <1>2. PICK s \in B : \A U \in B : U \subseteq s => U = s
    <2>1. IsFiniteSet(T) /\ B \in SUBSET (SUBSET T) BY FS_Subset
    <2> HIDE DEF B
    <2> QED BY <1>1, <2>1, SmallestSubset
  <1>3. s # {} /\ Pick(s) \in s BY <1>2, PickIn DEF Adds
  <1>4. s \ {Pick(s)} \notin B BY <1>2, <1>3
  <1>5. g[s] = f[Pick(s)] + g[s \ {Pick(s)}] /\ h[s] = f[Pick(s)] + h[s \ {Pick(s)}]
    BY <1>2, <1>3 DEF Adds
  <1> QED BY <1>2, <1>4, <1>5

LEMMA AddsExists ==
    ASSUME NEW f, NEW S, IsFiniteSet(S)
    PROVE  Adds(f, S, CHOOSE g : Adds(f, S, g))
  <1> DEFINE B == {s \in SUBSET S : ~ \E g : Adds(f, s, g)}
             V(s) == SumFunctionOnSet(f, s)
  <1>1. SUFFICES ASSUME B # {} PROVE FALSE
    <2>1. S \notin B => \E g : Adds(f, S, g) OBVIOUS
    <2> QED BY <2>1
  <1>2. PICK T \in B : \A U \in B : U \subseteq T => U = T
    <2>1. B \in SUBSET (SUBSET S) OBVIOUS
    <2> HIDE DEF B
    <2> QED BY <1>1, <2>1, SmallestSubset
  <1>3. \A U \in SUBSET T : U # T => Adds(f, U, CHOOSE g : Adds(f, U, g))
    <2>1. \A U \in SUBSET T : U # T => \E g : Adds(f, U, g) BY <1>2
    <2> QED BY <2>1
  <1>4. \A U \in SUBSET T : U # T =>
          V(U) = IF U = {} THEN 0 ELSE f[Pick(U)] + V(U \ {Pick(U)})
    <2> SUFFICES ASSUME NEW U \in SUBSET T, U # T
                 PROVE  V(U) = IF U = {} THEN 0 ELSE f[Pick(U)] + V(U \ {Pick(U)})
      OBVIOUS
    <2>1. PICK g : g = (CHOOSE h : Adds(f, U, h)) OBVIOUS
    <2>2. Adds(f, U, g) /\ V(U) = g[U] BY <1>3, <2>1, SumUnfolds
    <2>3. CASE U = {} BY <2>2, <2>3 DEF Adds
    <2>4. CASE U # {}
      <3> DEFINE W == U \ {Pick(U)}
      <3>1. W \in SUBSET U /\ W # T BY <2>4, PickIn
      <3>2. PICK h : h = (CHOOSE k : Adds(f, W, k)) OBVIOUS
      <3>3. Adds(f, W, h) /\ V(W) = h[W] BY <1>3, <3>1, <3>2, SumUnfolds
      <3>4. IsFiniteSet(U) BY FS_Subset
      <3>5. g[W] = h[W] BY <2>2, <3>1, <3>3, <3>4, AddsAgree
      <3>6. g[U] = f[Pick(U)] + g[W] BY <2>2, <2>4 DEF Adds
      <3> QED BY <2>2, <2>4, <3>3, <3>5, <3>6
    <2> QED BY <2>3, <2>4
  <1> DEFINE g == [s \in SUBSET T |-> IF s = {} THEN 0 ELSE f[Pick(s)] + V(s \ {Pick(s)})]
  <1>5. ASSUME NEW s \in SUBSET T, s # {} PROVE g[s \ {Pick(s)}] = V(s \ {Pick(s)})
    <2>1. s \ {Pick(s)} \in SUBSET T /\ s \ {Pick(s)} # T BY <1>5, PickIn
    <2> HIDE DEF V
    <2> QED BY <1>4, <2>1
  <1>6. Adds(f, T, g)
    <2> HIDE DEF V
    <2> QED BY <1>5 DEF Adds
  <1> QED BY <1>2, <1>6

LEMMA SumStep ==
    ASSUME NEW f, NEW S, IsFiniteSet(S), S # {}
    PROVE  SumFunctionOnSet(f, S) = f[Pick(S)] + SumFunctionOnSet(f, S \ {Pick(S)})
  <1> DEFINE T == S \ {Pick(S)}
             g == CHOOSE k : Adds(f, S, k)
             h == CHOOSE k : Adds(f, T, k)
  <1>1. IsFiniteSet(T) /\ T \in SUBSET S BY FS_Subset
  <1>2. Adds(f, S, g) /\ Adds(f, T, h) BY <1>1, AddsExists
  <1>3. SumFunctionOnSet(f, S) = g[S] /\ SumFunctionOnSet(f, T) = h[T] BY SumUnfolds
  <1> HIDE DEF g, h
  <1>4. g[S] = f[Pick(S)] + g[T] BY <1>2 DEF Adds
  <1>5. g[T] = h[T] BY <1>1, <1>2, AddsAgree
  <1> QED BY <1>3, <1>4, <1>5

\* The sum over no index is zero.
LEMMA SumEmpty == ASSUME NEW f PROVE SumFunctionOnSet(f, {}) = 0
  <1> DEFINE g == CHOOSE k : Adds(f, {}, k)
  <1>1. Adds(f, {}, g) BY AddsExists, FS_EmptySet
  <1>2. SumFunctionOnSet(f, {}) = g[{}] BY SumUnfolds
  <1> HIDE DEF g
  <1> QED BY <1>1, <1>2 DEF Adds

\* A sum of integers is one.
LEMMA SumInt ==
    ASSUME NEW f, NEW S, IsFiniteSet(S), \A x \in S : f[x] \in Int
    PROVE  SumFunctionOnSet(f, S) \in Int
  <1> DEFINE B == {T \in SUBSET S : SumFunctionOnSet(f, T) \notin Int}
  <1>1. SUFFICES ASSUME B # {} PROVE FALSE OBVIOUS
  <1>2. PICK T \in B : \A U \in B : U \subseteq T => U = T
    <2>1. B \in SUBSET (SUBSET S) OBVIOUS
    <2> HIDE DEF B
    <2> QED BY <1>1, <2>1, SmallestSubset
  <1>3. T # {} BY <1>2, SumEmpty
  <1>4. Pick(T) \in T /\ T \ {Pick(T)} \notin B BY <1>2, <1>3, PickIn
  <1>5. IsFiniteSet(T) BY <1>2, FS_Subset
  <1> QED BY <1>2, <1>3, <1>4, <1>5, SumStep

\* One index more adds its number, wherever it comes in the sum.
LEMMA SumAdd ==
    ASSUME NEW f, NEW S, IsFiniteSet(S), NEW x, x \notin S, \A y \in S \cup {x} : f[y] \in Int
    PROVE  SumFunctionOnSet(f, S \cup {x}) = SumFunctionOnSet(f, S) + f[x]
  <1> DEFINE Sum(T) == SumFunctionOnSet(f, T)
             All == S \cup {x}
             B == {T \in SUBSET All : \E y \in T : Sum(T) # Sum(T \ {y}) + f[y]}
  <1>0. IsFiniteSet(All) BY FS_AddElement
  <1>1. SUFFICES ASSUME B # {} PROVE FALSE
    <2>1. All \notin B OBVIOUS
    <2>2. All \ {x} = S OBVIOUS
    <2> QED BY <2>1, <2>2
  <1>2. PICK T \in B : \A U \in B : U \subseteq T => U = T
    <2>1. B \in SUBSET (SUBSET All) OBVIOUS
    <2> HIDE DEF B
    <2> QED BY <1>0, <1>1, <2>1, SmallestSubset
  <1>3. PICK y \in T : Sum(T) # Sum(T \ {y}) + f[y] BY <1>2
  <1>4. IsFiniteSet(T) /\ T \subseteq All BY <1>0, <1>2, FS_Subset
  <1>5. PICK c : c = Pick(T) OBVIOUS
  <1>6. c \in T BY <1>5, PickIn, <1>3
  <1>7. \A U \in SUBSET All : IsFiniteSet(U) /\ Sum(U) \in Int BY <1>0, FS_Subset, SumInt
  <1> HIDE DEF Sum
  <1>8. Sum(T) = f[c] + Sum(T \ {c}) BY <1>3, <1>4, <1>5, SumStep DEF Sum
  <1>9. c # y
    <2>1. f[c] \in Int /\ Sum(T \ {c}) \in Int BY <1>4, <1>6, <1>7
    <2>2. f[c] + Sum(T \ {c}) = Sum(T \ {c}) + f[c] BY <2>1
    <2> QED BY <1>3, <1>8, <2>2
  <1>10. T \ {c} \notin B /\ T \ {y} \notin B BY <1>2, <1>3, <1>6
  <1> DEFINE rest == Sum((T \ {c}) \ {y})
  <1>11. Sum(T \ {c}) = rest + f[y] BY <1>3, <1>4, <1>9, <1>10
  <1>12. Sum(T \ {y}) = rest + f[c]
    <2>1. (T \ {c}) \ {y} = (T \ {y}) \ {c} OBVIOUS
    <2>2. Sum(T \ {y}) = Sum((T \ {y}) \ {c}) + f[c] BY <1>4, <1>6, <1>9, <1>10
    <2> QED BY <2>1, <2>2
  <1>13. f[c] \in Int /\ f[y] \in Int /\ rest \in Int BY <1>3, <1>4, <1>6, <1>7
  <1> HIDE DEF rest
  <1>14. f[c] + (rest + f[y]) = (rest + f[c]) + f[y] BY <1>13
  <1> QED BY <1>3, <1>8, <1>11, <1>12, <1>14

\* A sum of natural numbers is one.
LEMMA SumNat ==
    ASSUME NEW f, NEW S, IsFiniteSet(S), \A x \in S : f[x] \in Nat
    PROVE  SumFunctionOnSet(f, S) \in Nat
  <1> DEFINE B == {T \in SUBSET S : SumFunctionOnSet(f, T) \notin Nat}
  <1>1. SUFFICES ASSUME B # {} PROVE FALSE OBVIOUS
  <1>2. PICK T \in B : \A U \in B : U \subseteq T => U = T
    <2>1. B \in SUBSET (SUBSET S) OBVIOUS
    <2> HIDE DEF B
    <2> QED BY <1>1, <2>1, SmallestSubset
  <1>3. T # {}
    <2>1. SumFunctionOnSet(f, {}) = 0 BY SumEmpty
    <2>2. SumFunctionOnSet(f, {}) \in Nat BY <2>1
    <2> QED BY <1>2, <2>2
  <1>4. Pick(T) \in T /\ T \ {Pick(T)} \notin B BY <1>2, <1>3, PickIn
  <1>5. IsFiniteSet(T) BY <1>2, FS_Subset
  <1> QED BY <1>2, <1>3, <1>4, <1>5, SumStep

\* Sums agree when the indices of one stand for those of the other, apart from zeros.
LEMMA SumCarried ==
    ASSUME NEW f, NEW S, IsFiniteSet(S), \A y \in S : f[y] \in Int,
           NEW T, IsFiniteSet(T), NEW h \in [T -> S], \A x, z \in T : h[x] = h[z] => x = z,
           NEW e, \A x \in T : e[x] = f[h[x]],
           \A y \in S : f[y] = 0 \/ \E x \in T : h[x] = y
    PROVE  SumFunctionOnSet(e, T) = SumFunctionOnSet(f, S)
  <1> DEFINE Over(U) == {x \in T : h[x] \in U}
             B == {U \in SUBSET S : SumFunctionOnSet(e, Over(U)) # SumFunctionOnSet(f, U)}
  <1>1. SUFFICES ASSUME B # {} PROVE FALSE
    <2>1. Over(S) = T OBVIOUS
    <2>2. S \notin B => SumFunctionOnSet(e, Over(S)) = SumFunctionOnSet(f, S) OBVIOUS
    <2> QED BY <2>1, <2>2
  <1>2. PICK U \in B : \A W \in B : W \subseteq U => W = U
    <2>1. B \in SUBSET (SUBSET S) OBVIOUS
    <2> HIDE DEF B
    <2> QED BY <1>1, <2>1, SmallestSubset
  <1>3. U # {}
    <2>1. Over({}) = {} OBVIOUS
    <2>2. SumFunctionOnSet(e, {}) = 0 /\ SumFunctionOnSet(f, {}) = 0 BY SumEmpty
    <2> QED BY <1>2, <2>1, <2>2
  <1>4. PICK y \in U : TRUE BY <1>3
  <1> DEFINE W == U \ {y}
  <1>5. W \notin B /\ W \in SUBSET S /\ y \in S /\ W \cup {y} = U BY <1>2, <1>4
  <1>6. SumFunctionOnSet(e, Over(W)) = SumFunctionOnSet(f, W) BY <1>5
  <1>7. IsFiniteSet(W) /\ IsFiniteSet(Over(W)) BY <1>5, FS_Subset
  <1>8. SumFunctionOnSet(f, U) = SumFunctionOnSet(f, W) + f[y]
    <2>1. y \notin W OBVIOUS
    <2>2. \A z \in W \cup {y} : f[z] \in Int BY <1>5
    <2> HIDE DEF W
    <2> QED BY <1>5, <1>7, <2>1, <2>2, SumAdd
  <1>9. CASE \E x \in T : h[x] = y
    <2>1. PICK x \in T : h[x] = y BY <1>9
    <2>2. Over(U) = Over(W) \cup {x} /\ x \notin Over(W) BY <1>4, <2>1
    <2>3. \A z \in Over(W) \cup {x} : e[z] \in Int OBVIOUS
    <2>4. SumFunctionOnSet(e, Over(W) \cup {x}) = SumFunctionOnSet(e, Over(W)) + e[x]
      <3> HIDE DEF W, Over
      <3> QED BY <1>7, <2>2, <2>3, SumAdd
    <2>5. e[x] = f[y] BY <2>1
    <2> QED BY <1>2, <1>6, <1>8, <2>2, <2>4, <2>5
  <1>10. CASE ~ \E x \in T : h[x] = y
    <2>1. Over(U) = Over(W) BY <1>10
    <2>2. f[y] = 0 BY <1>5, <1>10
    <2>3. SumFunctionOnSet(f, W) \in Int BY <1>5, <1>7, SumInt
    <2>4. SumFunctionOnSet(f, U) = SumFunctionOnSet(f, W) BY <1>8, <2>2, <2>3
    <2> QED BY <1>2, <1>6, <2>1, <2>4
  <1> QED BY <1>9, <1>10

\* Sums of the same numbers, apart from zeros.
LEMMA SumAgrees ==
    ASSUME NEW f, NEW S, IsFiniteSet(S), \A y \in S : f[y] \in Int,
           NEW T \in SUBSET S, NEW e, \A x \in T : e[x] = f[x], \A y \in S \ T : f[y] = 0
    PROVE  SumFunctionOnSet(e, T) = SumFunctionOnSet(f, S)
  <1> DEFINE h == [x \in T |-> x]
  <1>1. IsFiniteSet(T) BY FS_Subset
  <1>2. h \in [T -> S] /\ (\A x, z \in T : h[x] = h[z] => x = z) /\ (\A x \in T : e[x] = f[h[x]])
    OBVIOUS
  <1>3. \A y \in S : f[y] = 0 \/ \E x \in T : h[x] = y OBVIOUS
  <1> HIDE DEF h
  <1> QED BY <1>1, <1>2, <1>3, SumCarried

\* The sum of two sums over the same indices.
LEMMA SumPlus ==
    ASSUME NEW f, NEW g, NEW e, NEW S, IsFiniteSet(S),
           \A x \in S : f[x] \in Int /\ g[x] \in Int /\ e[x] = f[x] + g[x]
    PROVE  SumFunctionOnSet(e, S) = SumFunctionOnSet(f, S) + SumFunctionOnSet(g, S)
  <1> DEFINE B == {T \in SUBSET S :
                     SumFunctionOnSet(e, T) # SumFunctionOnSet(f, T) + SumFunctionOnSet(g, T)}
  <1>1. SUFFICES ASSUME B # {} PROVE FALSE OBVIOUS
  <1>2. PICK T \in B : \A U \in B : U \subseteq T => U = T
    <2>1. B \in SUBSET (SUBSET S) OBVIOUS
    <2> HIDE DEF B
    <2> QED BY <1>1, <2>1, SmallestSubset
  <1>3. T # {}
    <2>1. SumFunctionOnSet(e, {}) = 0 /\ SumFunctionOnSet(f, {}) = 0 /\ SumFunctionOnSet(g, {}) = 0
      BY SumEmpty
    <2>2. SumFunctionOnSet(e, {}) = SumFunctionOnSet(f, {}) + SumFunctionOnSet(g, {}) BY <2>1
    <2> QED BY <1>2, <2>2
  <1>4. PICK x : x = Pick(T) OBVIOUS
  <1> DEFINE U == T \ {x}
  <1>5. x \in T /\ x \in S /\ U \in SUBSET S /\ U \notin B /\ IsFiniteSet(T) /\ IsFiniteSet(U)
    BY <1>2, <1>3, <1>4, PickIn, FS_Subset
  <1>6. /\ SumFunctionOnSet(e, T) = e[x] + SumFunctionOnSet(e, U)
        /\ SumFunctionOnSet(f, T) = f[x] + SumFunctionOnSet(f, U)
        /\ SumFunctionOnSet(g, T) = g[x] + SumFunctionOnSet(g, U)
    BY <1>3, <1>4, <1>5, SumStep
  <1>7. SumFunctionOnSet(e, U) = SumFunctionOnSet(f, U) + SumFunctionOnSet(g, U) BY <1>5
  <1>8. SumFunctionOnSet(f, U) \in Int /\ SumFunctionOnSet(g, U) \in Int BY <1>5, SumInt
  <1>9. f[x] \in Int /\ g[x] \in Int /\ e[x] = f[x] + g[x] BY <1>5
  <1> HIDE DEF U
  <1>10. SumFunctionOnSet(e, T) = SumFunctionOnSet(f, T) + SumFunctionOnSet(g, T)
    BY <1>6, <1>7, <1>8, <1>9
  <1> QED BY <1>2, <1>10

\* A sum over two parts.
LEMMA SumParts ==
    ASSUME NEW f, NEW S, IsFiniteSet(S), \A x \in S : f[x] \in Int, NEW T \in SUBSET S
    PROVE  SumFunctionOnSet(f, S) = SumFunctionOnSet(f, T) + SumFunctionOnSet(f, S \ T)
  <1> DEFINE a == [x \in S |-> IF x \in T THEN f[x] ELSE 0]
             b == [x \in S |-> IF x \in T THEN 0 ELSE f[x]]
  <1>1. \A x \in S : a[x] \in Int /\ b[x] \in Int /\ f[x] = a[x] + b[x] OBVIOUS
  <1>2. (\A x \in T : f[x] = a[x]) /\ \A x \in S \ T : a[x] = 0 OBVIOUS
  <1>3. (\A x \in S \ T : f[x] = b[x]) /\ \A x \in S \ (S \ T) : b[x] = 0 OBVIOUS
  <1> HIDE DEF a, b
  <1>4. SumFunctionOnSet(f, S) = SumFunctionOnSet(a, S) + SumFunctionOnSet(b, S) BY <1>1, SumPlus
  <1>5. SumFunctionOnSet(f, T) = SumFunctionOnSet(a, S) BY <1>1, <1>2, SumAgrees
  <1>6. SumFunctionOnSet(f, S \ T) = SumFunctionOnSet(b, S)
    <2>1. S \ T \in SUBSET S OBVIOUS
    <2> QED BY <1>1, <1>3, <2>1, SumAgrees
  <1> QED BY <1>4, <1>5, <1>6

\* A sum of larger numbers is larger, and over more of them.
LEMMA SumAtMost ==
    ASSUME NEW f, NEW e, NEW S, IsFiniteSet(S), NEW T \in SUBSET S,
           \A x \in S : f[x] \in Nat, \A x \in T : e[x] \in Int /\ e[x] <= f[x]
    PROVE  SumFunctionOnSet(e, T) <= SumFunctionOnSet(f, S)
  <1> DEFINE d == [x \in T |-> f[x] - e[x]]
  <1>1. IsFiniteSet(T) /\ IsFiniteSet(S \ T) BY FS_Subset
  <1>2. \A x \in T : d[x] \in Nat /\ e[x] \in Int /\ f[x] = d[x] + e[x] OBVIOUS
  <1> HIDE DEF d
  <1>3. SumFunctionOnSet(f, T) = SumFunctionOnSet(d, T) + SumFunctionOnSet(e, T) BY <1>1, <1>2, SumPlus
  <1>4. SumFunctionOnSet(f, S) = SumFunctionOnSet(f, T) + SumFunctionOnSet(f, S \ T) BY SumParts
  <1>5. SumFunctionOnSet(d, T) \in Nat /\ SumFunctionOnSet(f, S \ T) \in Nat BY <1>1, <1>2, SumNat
  <1>6. SumFunctionOnSet(e, T) \in Int BY <1>1, <1>2, SumInt
  <1> QED BY <1>3, <1>4, <1>5, <1>6

\* What each of some sets holds, with the set it is in.
Nested(S, I) == UNION {{c} \X I[c] : c \in S}

\* A sum of sums is one sum over all.
LEMMA SumNested ==
    ASSUME NEW S, IsFiniteSet(S), NEW I, \A c \in S : IsFiniteSet(I[c]),
           NEW F, \A c \in S : \A s \in I[c] : F[c][s] \in Int,
           NEW f, \A x \in Nested(S, I) : f[x] = F[x[1]][x[2]],
           NEW g, \A c \in S : g[c] = SumFunctionOnSet(F[c], I[c])
    PROVE  /\ IsFiniteSet(Nested(S, I))
           /\ SumFunctionOnSet(f, Nested(S, I)) = SumFunctionOnSet(g, S)
  <1> DEFINE Good(T) == /\ IsFiniteSet(Nested(T, I))
                        /\ SumFunctionOnSet(f, Nested(T, I)) = SumFunctionOnSet(g, T)
             B == {T \in SUBSET S : ~Good(T)}
  <1>1. SUFFICES ASSUME B # {} PROVE FALSE
    <2>1. S \notin B => Good(S) OBVIOUS
    <2> QED BY <2>1
  <1>2. PICK T \in B : \A U \in B : U \subseteq T => U = T
    <2>1. B \in SUBSET (SUBSET S) OBVIOUS
    <2> HIDE DEF B
    <2> QED BY <1>1, <2>1, SmallestSubset
  <1>3. T # {}
    <2>1. Nested({}, I) = {} BY DEF Nested
    <2>2. SumFunctionOnSet(f, {}) = 0 /\ SumFunctionOnSet(g, {}) = 0 BY SumEmpty
    <2>3. Good({}) BY <2>1, <2>2, FS_EmptySet
    <2> QED BY <1>2, <2>3
  <1>4. PICK c \in T : TRUE BY <1>3
  <1> DEFINE W == T \ {c}
             C == {c} \X I[c]
  <1>5. Good(W) /\ W \in SUBSET S /\ c \in S /\ W \cup {c} = T BY <1>2, <1>4
  <1>6. Nested(T, I) = Nested(W, I) \cup C /\ Nested(W, I) \cap C = {} BY <1>4 DEF Nested
  <1>7. IsFiniteSet(I[c]) /\ IsFiniteSet(C)
    <2>1. IsFiniteSet({c}) /\ IsFiniteSet(I[c]) BY <1>5, FS_Singleton
    <2> QED BY <2>1, FS_Product
  <1>8. IsFiniteSet(Nested(T, I))
    <2>1. IsFiniteSet(Nested(W, I)) BY <1>5
    <2> HIDE DEF W, C
    <2>2. IsFiniteSet(Nested(W, I) \cup C) BY <1>7, <2>1, FS_Union
    <2> QED BY <1>6, <2>2
  <1>9. \A x \in Nested(T, I) : f[x] \in Int
    <2> SUFFICES ASSUME NEW x \in Nested(T, I) PROVE f[x] \in Int OBVIOUS
    <2>1. PICK d \in T : \E s \in I[d] : x = <<d, s>> BY DEF Nested
    <2>2. d \in S /\ x \in Nested(S, I) BY <1>2, <2>1 DEF Nested
    <2> QED BY <2>1, <2>2
  <1>10. SumFunctionOnSet(f, C) = g[c]
    <2> DEFINE h == [x \in C |-> x[2]]
    <2>1. \A x \in C : \E s \in I[c] : x = <<c, s>> OBVIOUS
    <2>2. \A s \in I[c] : <<c, s>> \in C OBVIOUS
    <2>3. h \in [C -> I[c]] /\ (\A x, z \in C : h[x] = h[z] => x = z) BY <2>1
    <2>4. \A x \in C : f[x] = F[c][h[x]]
      <3>1. C \subseteq Nested(S, I) BY <1>5 DEF Nested
      <3> QED BY <2>1, <3>1
    <2>5. \A s \in I[c] : h[<<c, s>>] = s BY <2>2
    <2>6. \A s \in I[c] : F[c][s] = 0 \/ \E x \in C : h[x] = s BY <2>2, <2>5
    <2>7. \A s \in I[c] : F[c][s] \in Int BY <1>5
    <2> HIDE DEF h, C
    <2>8. SumFunctionOnSet(f, C) = SumFunctionOnSet(F[c], I[c])
      BY <1>7, <2>3, <2>4, <2>6, <2>7, SumCarried
    <2> QED BY <1>5, <2>8
  <1>11. SumFunctionOnSet(f, Nested(T, I)) = SumFunctionOnSet(f, Nested(W, I)) + SumFunctionOnSet(f, C)
    <2>1. Nested(W, I) \in SUBSET Nested(T, I) /\ Nested(T, I) \ Nested(W, I) = C BY <1>6
    <2> HIDE DEF W, C
    <2> QED BY <1>8, <1>9, <2>1, SumParts
  <1>12. SumFunctionOnSet(g, T) = SumFunctionOnSet(g, W) + g[c]
    <2>1. c \notin W /\ IsFiniteSet(W) BY <1>5, FS_Subset
    <2>2. \A d \in W \cup {c} : g[d] \in Int BY <1>5, SumInt
    <2> HIDE DEF W
    <2> QED BY <1>5, <2>1, <2>2, SumAdd
  <1>13. SumFunctionOnSet(f, Nested(T, I)) = SumFunctionOnSet(g, T)
    <2>1. SumFunctionOnSet(f, Nested(W, I)) = SumFunctionOnSet(g, W) BY <1>5
    <2> HIDE DEF W, C
    <2> QED BY <1>10, <1>11, <1>12, <2>1
  <1> QED BY <1>2, <1>8, <1>13

\* The sum over one index.
LEMMA SumOne ==
    ASSUME NEW f, NEW x, f[x] \in Int
    PROVE  SumFunctionOnSet(f, {x}) = f[x]
  <1>1. SumFunctionOnSet(f, {} \cup {x}) = SumFunctionOnSet(f, {}) + f[x]
    <2>1. IsFiniteSet({}) /\ x \notin {} /\ \A y \in {} \cup {x} : f[y] \in Int BY FS_EmptySet
    <2> QED BY <2>1, SumAdd
  <1>2. SumFunctionOnSet(f, {}) = 0 /\ {} \cup {x} = {x} BY SumEmpty
  <1> QED BY <1>1, <1>2

\* A sum of naturals is zero when all of them are.
LEMMA SumZero ==
    ASSUME NEW f, NEW S, IsFiniteSet(S), \A x \in S : f[x] \in Nat
    PROVE  SumFunctionOnSet(f, S) = 0 <=> \A x \in S : f[x] = 0
  <1>1. ASSUME \A x \in S : f[x] = 0 PROVE SumFunctionOnSet(f, S) = 0
    <2>1. {} \in SUBSET S /\ \A x \in {} : f[x] = f[x] OBVIOUS
    <2>2. SumFunctionOnSet(f, {}) = SumFunctionOnSet(f, S) BY <1>1, <2>1, SumAgrees
    <2> QED BY <2>2, SumEmpty
  <1>2. ASSUME NEW x \in S, f[x] # 0 PROVE SumFunctionOnSet(f, S) # 0
    <2>1. {x} \in SUBSET S /\ f[x] \in Nat OBVIOUS
    <2>2. \A y \in {x} : f[y] \in Int /\ f[y] <= f[y] BY <2>1
    <2>3. SumFunctionOnSet(f, {x}) <= SumFunctionOnSet(f, S) BY <2>1, <2>2, SumAtMost
    <2>4. SumFunctionOnSet(f, {x}) = f[x] BY <2>1, SumOne
    <2>5. SumFunctionOnSet(f, S) \in Nat BY SumNat
    <2> QED BY <1>2, <2>1, <2>3, <2>4, <2>5
  <1> QED BY <1>1, <1>2

\* The sums of parts that are apart and are all add up to the sum.
LEMMA PartsAddUp ==
    ASSUME NEW f, NEW R, IsFiniteSet(R), \A x \in R : f[x] \in Int,
           NEW M, IsFiniteSet(M), NEW I, \A m \in M : I[m] \in SUBSET R,
           \A x \in R : \E m \in M : x \in I[m],
           \A m, n \in M : \A x \in I[m] : x \in I[n] => m = n,
           NEW g, \A m \in M : g[m] = SumFunctionOnSet(f, I[m])
    PROVE  SumFunctionOnSet(g, M) = SumFunctionOnSet(f, R)
  <1>1. PICK N : N = Nested(M, I) OBVIOUS
  <1>2. PICK F : F = [m \in M |-> f] OBVIOUS
  <1>3. PICK e : e = [y \in N |-> f[y[2]]] OBVIOUS
  <1>4. PICK h : h = [y \in N |-> y[2]] OBVIOUS
  <1>5. /\ \A y \in N : y[1] \in M /\ y[2] \in I[y[1]] /\ y = <<y[1], y[2]>>
        /\ \A m \in M : \A x \in I[m] : <<m, x>> \in N
    BY <1>1 DEF Nested
  <1>6. \A m \in M : IsFiniteSet(I[m]) BY FS_Subset
  <1>7. \A m \in M : \A x \in I[m] : F[m][x] \in Int BY <1>2
  <1>8. \A y \in Nested(M, I) : e[y] = F[y[1]][y[2]] BY <1>1, <1>2, <1>3, <1>5
  <1>9. \A m \in M : g[m] = SumFunctionOnSet(F[m], I[m]) BY <1>2
  <1>10. IsFiniteSet(N) /\ SumFunctionOnSet(e, N) = SumFunctionOnSet(g, M)
    <2>1. IsFiniteSet(Nested(M, I)) /\ SumFunctionOnSet(e, Nested(M, I)) = SumFunctionOnSet(g, M)
      BY <1>6, <1>7, <1>8, <1>9, SumNested
    <2> QED BY <1>1, <2>1
  <1>11. h \in [N -> R] /\ \A y, z \in N : h[y] = h[z] => y = z
    <2>1. \A y \in N : h[y] = y[2] /\ h[y] \in R BY <1>4, <1>5
    <2>2. ASSUME NEW y \in N, NEW z \in N, h[y] = h[z] PROVE y = z
      <3>1. y[2] = z[2] /\ y[1] = z[1] BY <1>5, <2>1, <2>2
      <3> QED BY <1>5, <3>1
    <2> QED BY <1>4, <2>1, <2>2
  <1>12. \A y \in N : e[y] = f[h[y]] BY <1>3, <1>4
  <1>13. \A x \in R : f[x] = 0 \/ \E y \in N : h[y] = x
    <2> SUFFICES ASSUME NEW x \in R PROVE \E y \in N : h[y] = x OBVIOUS
    <2>1. PICK m \in M : x \in I[m] OBVIOUS
    <2>2. <<m, x>> \in N /\ h[<<m, x>>] = x BY <1>4, <1>5, <2>1
    <2> QED BY <2>2
  <1>14. SumFunctionOnSet(e, N) = SumFunctionOnSet(f, R)
    BY <1>10, <1>11, <1>12, <1>13, SumCarried
  <1> QED BY <1>10, <1>14

\* Numbers of the pairs of a relation, from its one side and from the other: f and g
\* are the sums of each.
TwoSided(A, B, I, J, F, G, f, g) ==
    /\ IsFiniteSet(A) /\ IsFiniteSet(B)
    /\ (\A a \in A : I[a] \in SUBSET B) /\ (\A b \in B : J[b] \in SUBSET A)
    /\ \A a \in A, b \in B : b \in I[a] <=> a \in J[b]
    /\ \A a \in A, b \in B : b \in I[a] => F[a][b] \in Int /\ G[b][a] = F[a][b]
    /\ \A a \in A : f[a] = SumFunctionOnSet(F[a], I[a])
    /\ \A b \in B : g[b] = SumFunctionOnSet(G[b], J[b])

\* A relation's sums by its one side add up to those by its other.
LEMMA SumSwapped ==
    ASSUME NEW A, NEW B, NEW I, NEW J, NEW F, NEW G, NEW f, NEW g, TwoSided(A, B, I, J, F, G, f, g)
    PROVE  SumFunctionOnSet(f, A) = SumFunctionOnSet(g, B)
  <1> USE DEF TwoSided
  <1>1. PICK N, K : N = Nested(A, I) /\ K = Nested(B, J) OBVIOUS
  <1>2. PICK e, d : e = [y \in N |-> F[y[1]][y[2]]] /\ d = [y \in K |-> G[y[1]][y[2]]] OBVIOUS
  <1>3. PICK h : h = [y \in N |-> <<y[2], y[1]>>] OBVIOUS
  <1>4. /\ \A y \in N : y[1] \in A /\ y[2] \in I[y[1]] /\ y = <<y[1], y[2]>>
        /\ \A a \in A : \A b \in I[a] : <<a, b>> \in N
    BY <1>1 DEF Nested
  <1>5. /\ \A y \in K : y[1] \in B /\ y[2] \in J[y[1]] /\ y = <<y[1], y[2]>>
        /\ \A b \in B : \A a \in J[b] : <<b, a>> \in K
    BY <1>1 DEF Nested
  <1>6. IsFiniteSet(N) /\ SumFunctionOnSet(e, N) = SumFunctionOnSet(f, A)
    <2>1. \A a \in A : IsFiniteSet(I[a]) BY FS_Subset
    <2>2. \A a \in A : \A b \in I[a] : F[a][b] \in Int OBVIOUS
    <2>3. \A y \in Nested(A, I) : e[y] = F[y[1]][y[2]] BY <1>1, <1>2
    <2>4. IsFiniteSet(Nested(A, I)) /\ SumFunctionOnSet(e, Nested(A, I)) = SumFunctionOnSet(f, A)
      BY <2>1, <2>2, <2>3, SumNested
    <2> QED BY <1>1, <2>4
  <1>7. IsFiniteSet(K) /\ SumFunctionOnSet(d, K) = SumFunctionOnSet(g, B)
    <2>1. \A b \in B : IsFiniteSet(J[b]) BY FS_Subset
    <2>2. \A b \in B : \A a \in J[b] : G[b][a] \in Int OBVIOUS
    <2>3. \A y \in Nested(B, J) : d[y] = G[y[1]][y[2]] BY <1>1, <1>2
    <2>4. IsFiniteSet(Nested(B, J)) /\ SumFunctionOnSet(d, Nested(B, J)) = SumFunctionOnSet(g, B)
      BY <2>1, <2>2, <2>3, SumNested
    <2> QED BY <1>1, <2>4
  <1>8. \A y \in N : h[y] \in K /\ h[y][1] = y[2] /\ h[y][2] = y[1]
    <2> SUFFICES ASSUME NEW y \in N PROVE h[y] \in K /\ h[y][1] = y[2] /\ h[y][2] = y[1]
      OBVIOUS
    <2>1. y[1] \in A /\ y[2] \in I[y[1]] /\ y[2] \in B BY <1>4
    <2>2. y[1] \in J[y[2]] BY <2>1
    <2>3. h[y] = <<y[2], y[1]>> BY <1>3
    <2> QED BY <1>5, <2>1, <2>2, <2>3
  <1>9. h \in [N -> K] /\ \A y, z \in N : h[y] = h[z] => y = z
    <2>1. h \in [N -> K] BY <1>3, <1>8
    <2>2. ASSUME NEW y \in N, NEW z \in N, h[y] = h[z] PROVE y = z
      <3>1. y[1] = z[1] /\ y[2] = z[2] BY <1>8, <2>2
      <3> QED BY <1>4, <3>1
    <2> QED BY <2>1, <2>2
  <1>10. \A y \in N : e[y] = d[h[y]]
    <2> SUFFICES ASSUME NEW y \in N PROVE e[y] = d[h[y]] OBVIOUS
    <2>1. e[y] = F[y[1]][y[2]] /\ d[h[y]] = G[y[2]][y[1]] BY <1>2, <1>8
    <2>2. y[1] \in A /\ y[2] \in I[y[1]] /\ y[2] \in B BY <1>4
    <2> QED BY <2>1, <2>2
  <1>11. \A z \in K : d[z] \in Int /\ (d[z] = 0 \/ \E y \in N : h[y] = z)
    <2> SUFFICES ASSUME NEW z \in K PROVE d[z] \in Int /\ \E y \in N : h[y] = z OBVIOUS
    <2>1. z[1] \in B /\ z[2] \in A /\ z[1] \in I[z[2]] /\ z = <<z[1], z[2]>> BY <1>5
    <2>2. d[z] = G[z[1]][z[2]] BY <1>2
    <2>3. <<z[2], z[1]>> \in N /\ h[<<z[2], z[1]>>] = z BY <1>3, <1>4, <2>1
    <2> QED BY <2>1, <2>2, <2>3
  <1>12. SumFunctionOnSet(e, N) = SumFunctionOnSet(d, K)
    BY <1>6, <1>7, <1>9, <1>10, <1>11, SumCarried
  <1> QED BY <1>6, <1>7, <1>12

-----------------------------------------------------------------------------
(* Loops *)

\* The values a loop of n steps goes through.
Loop(n, first, turn, g) == g = [i \in 0..n |-> IF i = 0 THEN first ELSE turn[<<i, g[i - 1]>>]]

\* A loop goes through values of one type when every step keeps it.
LEMMA LoopRuns ==
    ASSUME NEW n \in Nat, NEW V, NEW first \in V, NEW turn,
           \A i \in 1..n : \A v \in V : turn[<<i, v>>] \in V
    PROVE  \E g \in [0..n -> V] : Loop(n, first, turn, g)
  <1> DEFINE Runs(m) == \E g \in [0..m -> V] : g[0] = first /\ \A i \in 1..m : g[i] = turn[<<i, g[i - 1]>>]
             B == {m \in 0..n : ~Runs(m)}
  <1>1. Runs(n)
    <2>1. SUFFICES ASSUME B # {} PROVE FALSE OBVIOUS
    <2>2. PICK m \in B : \A k \in B : m <= k
      <3>1. B \in SUBSET Nat OBVIOUS
      <3> HIDE DEF B
      <3> QED BY <2>1, <3>1, LeastNat
    <2>3. m # 0
      <3>1. Runs(0)
        <4> DEFINE g == [i \in 0..0 |-> first]
        <4>1. g \in [0..0 -> V] /\ g[0] = first /\ 1..0 = {} OBVIOUS
        <4> HIDE DEF g
        <4> QED BY <4>1
      <3> QED BY <3>1, <2>2
    <2>4. m \in 1..n /\ m - 1 \in 0..n /\ m - 1 \notin B BY <2>2, <2>3
    <2>5. PICK g \in [0..(m - 1) -> V] : g[0] = first /\ \A i \in 1..(m - 1) : g[i] = turn[<<i, g[i - 1]>>]
      BY <2>4
    <2> DEFINE h == [i \in 0..m |-> IF i = m THEN turn[<<m, g[m - 1]>>] ELSE g[i]]
    <2>6. turn[<<m, g[m - 1]>>] \in V BY <2>4, <2>5
    <2>7. h \in [0..m -> V] BY <2>4, <2>5, <2>6
    <2>8. h[0] = first BY <2>4, <2>5
    <2>9. ASSUME NEW i \in 1..m PROVE h[i] = turn[<<i, h[i - 1]>>]
      <3>1. h[i - 1] = g[i - 1] BY <2>4
      <3>2. h[i] = turn[<<i, g[i - 1]>>]
        <4>1. CASE i = m BY <2>4, <4>1
        <4>2. CASE i # m
          <5>1. h[i] = g[i] /\ i \in 1..(m - 1) BY <2>4, <4>2
          <5> QED BY <2>5, <5>1
        <4> QED BY <4>1, <4>2
      <3> HIDE DEF h
      <3> QED BY <3>1, <3>2
    <2> QED BY <2>2, <2>7, <2>8, <2>9
  <1>2. PICK g \in [0..n -> V] : g[0] = first /\ \A i \in 1..n : g[i] = turn[<<i, g[i - 1]>>] BY <1>1
  <1>3. g = [i \in 0..n |-> IF i = 0 THEN first ELSE turn[<<i, g[i - 1]>>]] BY <1>2
  <1> QED BY <1>3 DEF Loop

-----------------------------------------------------------------------------
(* Sorting *)

StrictOrder(S, R) ==
    /\ R \subseteq S \X S
    /\ \A x \in S : <<x, x>> \notin R
    /\ \A x, y, z \in S : <<x, y>> \in R /\ <<y, z>> \in R => <<x, z>> \in R
    /\ \A x, y \in S : x = y \/ <<x, y>> \in R \/ <<y, x>> \in R

InLine(S, R, line) ==
    /\ line \in [1..Cardinality(S) -> S]
    /\ \A i, j \in DOMAIN line : i < j => <<line[i], line[j]>> \in R

\* A finite set in a strict order has a last element.
LEMMA LastInOrder ==
    ASSUME NEW S, IsFiniteSet(S), S # {}, NEW R, StrictOrder(S, R)
    PROVE  \E m \in S : \A x \in S \ {m} : <<x, m>> \in R
  <1> DEFINE From(x) == {y \in S : y = x \/ <<x, y>> \in R}
             B == {From(x) : x \in S}
  <1>1. PICK T \in B : \A U \in B : U \subseteq T => U = T
    <2>1. B \in SUBSET (SUBSET S) /\ B # {} OBVIOUS
    <2> HIDE DEF B
    <2> QED BY <2>1, SmallestSubset
  <1>2. PICK m \in S : T = From(m) BY <1>1
  <1>3. ASSUME NEW x \in S \ {m}, <<m, x>> \in R PROVE FALSE
    <2>1. From(x) \subseteq T /\ m \in T BY <1>2, <1>3 DEF StrictOrder
    <2>2. m \notin From(x) BY <1>3 DEF StrictOrder
    <2> QED BY <1>1, <1>3, <2>1, <2>2
  <1> QED BY <1>2, <1>3 DEF StrictOrder

\* A finite set in a strict order can be put in line.
LEMMA LineExists ==
    ASSUME NEW S, IsFiniteSet(S), NEW R, StrictOrder(S, R)
    PROVE  \E line : InLine(S, R, line)
  <1> DEFINE B == {T \in SUBSET S : ~ \E line : InLine(T, R, line)}
  <1>1. SUFFICES ASSUME B # {} PROVE FALSE OBVIOUS
  <1>2. PICK T \in B : \A U \in B : U \subseteq T => U = T
    <2>1. B \in SUBSET (SUBSET S) OBVIOUS
    <2> HIDE DEF B
    <2> QED BY <1>1, <2>1, SmallestSubset
  <1>3. IsFiniteSet(T) BY <1>2, FS_Subset
  <1>4. T # {}
    <2> DEFINE empty == [i \in 1..0 |-> 0]
    <2>1. \A U : empty \in [1..0 -> U] /\ DOMAIN empty = {}
      <3>1. 1..0 = {} OBVIOUS
      <3> QED BY <3>1
    <2>2. Cardinality({}) = 0 BY FS_EmptySet
    <2> HIDE DEF empty
    <2>3. InLine({}, R, empty) BY <2>1, <2>2 DEF InLine
    <2> QED BY <2>3, <1>2
  <1>5. PICK m \in T : \A x \in T \ {m} : <<x, m>> \in R
    <2> DEFINE Q == R \cap (T \X T)
    <2>1. StrictOrder(T, Q) BY <1>2 DEF StrictOrder
    <2>2. \E m \in T : \A x \in T \ {m} : <<x, m>> \in Q
      <3> HIDE DEF Q
      <3> QED BY <2>1, <1>3, <1>4, LastInOrder
    <2> QED BY <2>2
  <1> DEFINE U == T \ {m}
             n == Cardinality(T)
  <1>6. IsFiniteSet(U) /\ Cardinality(U) = n - 1 /\ n \in Nat \ {0}
    BY <1>3, <1>4, FS_RemoveElement, FS_CardinalityType, FS_EmptySet
  <1>7. PICK line : InLine(U, R, line)
    <2>1. U \in SUBSET S /\ U \notin B BY <1>2
    <2> QED BY <2>1
  <1> DEFINE longer == [i \in 1..n |-> IF i = n THEN m ELSE line[i]]
  <1>8. line \in [1..(n - 1) -> U] /\ \A i, j \in 1..(n - 1) : i < j => <<line[i], line[j]>> \in R
    BY <1>6, <1>7 DEF InLine
  <1> HIDE DEF n
  <1>9. longer \in [1..n -> T] BY <1>6, <1>8
  <1>10. ASSUME NEW i \in 1..n, NEW j \in 1..n, i < j PROVE <<longer[i], longer[j]>> \in R
    <2>1. i \in 1..(n - 1) /\ longer[i] = line[i] /\ line[i] \in U BY <1>6, <1>8, <1>10
    <2>2. CASE j = n BY <1>5, <2>1, <2>2
    <2>3. CASE j # n
      <3>1. j \in 1..(n - 1) /\ longer[j] = line[j] BY <1>6, <2>3
      <3> QED BY <1>8, <1>10, <2>1, <3>1
    <2> QED BY <2>2, <2>3
  <1>11. InLine(T, R, longer)
    <2> HIDE DEF longer
    <2> QED BY <1>9, <1>10 DEF InLine, n
  <1> QED BY <1>2, <1>11

\* InOrder puts a set in line, and leaves nothing out.
LEMMA InOrderSorts ==
    ASSUME NEW S, IsFiniteSet(S), NEW R, StrictOrder(S, R)
    PROVE  /\ InLine(S, R, InOrder(S, R))
           /\ \A x \in S : \E i \in 1..Cardinality(S) : InOrder(S, R)[i] = x
           /\ Cardinality(S) \in Nat /\ Len(InOrder(S, R)) = Cardinality(S)
  <1> DEFINE n == Cardinality(S)
             line == InOrder(S, R)
  <1>1. InLine(S, R, line)
    <2>1. \E l \in [1..n -> S] : \A i, j \in DOMAIN l : i < j => <<l[i], l[j]>> \in R
      BY LineExists DEF InLine
    <2> QED BY <2>1 DEF InLine, InOrder
  <1>2. n \in Nat /\ IsFiniteSet(1..n) /\ Cardinality(1..n) = n BY FS_CardinalityType, FS_Interval
  <1> HIDE DEF line, n
  <1>3. line \in [1..n -> S] /\ \A i, j \in 1..n : i < j => <<line[i], line[j]>> \in R
    BY <1>1 DEF InLine, n
  <1>4. \A i, j \in 1..n : line[i] = line[j] => i = j
    <2> SUFFICES ASSUME NEW i \in 1..n, NEW j \in 1..n, line[i] = line[j], i # j PROVE FALSE OBVIOUS
    <2>1. i < j \/ j < i BY <1>2
    <2> QED BY <1>3, <2>1 DEF StrictOrder
  <1>5. line \in Injection(1..n, S) BY <1>3, <1>4 DEF Injection, IsInjective
  <1>6. line \in Surjection(1..n, S) BY <1>2, <1>5, FS_Injection DEF n
  <1>7. \A x \in S : \E i \in 1..n : line[i] = x BY <1>6 DEF Surjection
  <1> QED BY <1>1, <1>2, <1>3, <1>7 DEF line, n

\* What stands before a place of the line.
LEMMA Before ==
    ASSUME NEW S, IsFiniteSet(S), NEW R, StrictOrder(S, R), NEW i \in 1..Cardinality(S)
    PROVE  {x \in S : <<x, InOrder(S, R)[i]>> \in R} = {InOrder(S, R)[k] : k \in 1..(i - 1)}
  <1> DEFINE n == Cardinality(S)
             line == InOrder(S, R)
  <1>1. /\ n \in Nat /\ line \in [1..n -> S]
        /\ \A j, k \in 1..n : j < k => <<line[j], line[k]>> \in R
        /\ \A x \in S : \E k \in 1..n : line[k] = x
    <2>1. n \in Nat /\ InLine(S, R, line) BY InOrderSorts
    <2>2. \A x \in S : \E k \in 1..n : line[k] = x BY InOrderSorts
    <2> QED BY <2>1, <2>2 DEF InLine
  <1>2. i \in 1..n OBVIOUS
  <1> HIDE DEF n, line
  <1>3. ASSUME NEW x \in S, <<x, line[i]>> \in R PROVE x \in {line[k] : k \in 1..(i - 1)}
    <2>1. PICK k \in 1..n : line[k] = x BY <1>1
    <2>2. k < i
      <3>1. ~ (i < k) BY <1>1, <1>2, <1>3, <2>1 DEF StrictOrder
      <3>2. k # i BY <1>1, <1>2, <1>3, <2>1 DEF StrictOrder
      <3> QED BY <1>1, <1>2, <3>1, <3>2
    <2> QED BY <1>1, <1>2, <2>1, <2>2
  <1>4. ASSUME NEW k \in 1..(i - 1) PROVE line[k] \in S /\ <<line[k], line[i]>> \in R
    BY <1>1, <1>2
  <1> QED BY <1>3, <1>4 DEF line
-----------------------------------------------------------------------------
(* The line of cents *)

\* Instalments and payments as they are in the tables, as many as there may be.
Given(sch, pay) ==
    /\ IsFiniteSet(DOMAIN sch) /\ DOMAIN sch \subseteq Int
    /\ \A s \in DOMAIN sch : sch[s].due \in Int /\ sch[s].amount \in Nat
    /\ IsFiniteSet(DOMAIN pay) /\ DOMAIN pay \subseteq Int
    /\ \A p \in DOMAIN pay : pay[p].date \in Int /\ pay[p].amount \in Nat

LEMMA OrdersAreStrict ==
    ASSUME NEW sch, NEW pay, Given(sch, pay)
    PROVE  StrictOrder(DOMAIN sch, ScheduleOrder(sch)) /\ StrictOrder(DOMAIN pay, PaymentOrder(pay))
  <1>1. StrictOrder(DOMAIN sch, ScheduleOrder(sch))
    BY DEF Given, StrictOrder, ScheduleOrder, ScheduleBefore
  <1>2. StrictOrder(DOMAIN pay, PaymentOrder(pay))
    BY DEF Given, StrictOrder, PaymentOrder, PaymentBefore
  <1> QED BY <1>1, <1>2

\* What the first i of a line add up to.
UpTo(f, line, i) == SumFunctionOnSet(f, {line[k] : k \in 1..i})

LEMMA UpToAdds ==
    ASSUME NEW S, IsFiniteSet(S), NEW R, StrictOrder(S, R), NEW f, \A x \in S : f[x] \in Nat,
           NEW line, line = InOrder(S, R)
    PROVE  /\ UpTo(f, line, 0) = 0
           /\ \A i \in 0..Cardinality(S) : UpTo(f, line, i) \in Nat
           /\ \A i \in 1..Cardinality(S) : UpTo(f, line, i) = UpTo(f, line, i - 1) + f[line[i]]
  <1> DEFINE n == Cardinality(S)
             First(i) == {line[k] : k \in 1..i}
  <1>1. n \in Nat /\ line \in [1..n -> S] /\ \A i, j \in 1..n : i < j => <<line[i], line[j]>> \in R
    <2>1. n \in Nat /\ InLine(S, R, InOrder(S, R)) BY InOrderSorts
    <2> QED BY <2>1 DEF InLine
  <1> HIDE DEF n
  <1>2. UpTo(f, line, 0) = 0
    <2>1. First(0) = {} OBVIOUS
    <2> QED BY <2>1, SumEmpty DEF UpTo
  <1>3. \A i \in 0..n : First(i) \subseteq S /\ IsFiniteSet(First(i))
    <2>1. \A i \in 0..n : First(i) \subseteq S BY <1>1
    <2> QED BY <2>1, FS_Subset
  <1>4. ASSUME NEW i \in 0..n PROVE UpTo(f, line, i) \in Nat
    BY <1>3, SumNat DEF UpTo
  <1>5. ASSUME NEW i \in 1..n PROVE UpTo(f, line, i) = UpTo(f, line, i - 1) + f[line[i]]
    <2>1. First(i) = First(i - 1) \cup {line[i]}
      <3>1. 1..i = (1..(i - 1)) \cup {i} BY <1>1
      <3> QED BY <3>1
    <2>2. line[i] \notin First(i - 1)
      <3> SUFFICES ASSUME NEW k \in 1..(i - 1), line[k] = line[i] PROVE FALSE OBVIOUS
      <3>1. k \in 1..n /\ k < i BY <1>1
      <3>2. <<line[k], line[i]>> \in R /\ line[i] \in S BY <1>1, <3>1
      <3> QED BY <3>2 DEF StrictOrder
    <2>3. IsFiniteSet(First(i - 1)) /\ First(i) \subseteq S
      <3>1. i - 1 \in 0..n /\ i \in 0..n BY <1>1
      <3> HIDE DEF First
      <3> QED BY <1>3, <3>1
    <2> HIDE DEF First
    <2>4. SumFunctionOnSet(f, First(i - 1) \cup {line[i]}) = SumFunctionOnSet(f, First(i - 1)) + f[line[i]]
      BY <2>1, <2>2, <2>3, SumAdd
    <2> QED BY <2>1, <2>4 DEF UpTo, First
  <1> QED BY <1>2, <1>4, <1>5 DEF n

\* What stands before x adds up to.
SumBefore(S, R, f, x) == SumFunctionOnSet(f, {y \in S : <<y, x>> \in R})

\* A set in line: every element once, and what stands before an element is the first part.
Laid(S, R, f, line, n) ==
    /\ n \in Nat /\ Len(line) = n /\ line \in [1..n -> S]
    /\ \A i, j \in 1..n : line[i] = line[j] => i = j
    /\ \A x \in S : \E i \in 1..n : line[i] = x
    /\ UpTo(f, line, 0) = 0
    /\ \A i \in 0..n : UpTo(f, line, i) \in Nat
    /\ \A i \in 1..n : UpTo(f, line, i) = UpTo(f, line, i - 1) + f[line[i]]
    /\ \A i \in 1..n : SumBefore(S, R, f, line[i]) = UpTo(f, line, i - 1)

LEMMA LineAddsUp ==
    ASSUME NEW S, IsFiniteSet(S), NEW R, StrictOrder(S, R), NEW f, \A x \in S : f[x] \in Nat,
           NEW line, line = InOrder(S, R), NEW n, n = Cardinality(S)
    PROVE  Laid(S, R, f, line, n)
  <1>1. n \in Nat /\ Len(line) = n /\ InLine(S, R, line) BY InOrderSorts
  <1>2. \A x \in S : \E i \in 1..n : line[i] = x BY InOrderSorts
  <1>3. line \in [1..n -> S] /\ \A i, j \in 1..n : i < j => <<line[i], line[j]>> \in R
    BY <1>1 DEF InLine
  <1>4. /\ UpTo(f, line, 0) = 0
        /\ \A i \in 0..n : UpTo(f, line, i) \in Nat
        /\ \A i \in 1..n : UpTo(f, line, i) = UpTo(f, line, i - 1) + f[line[i]]
    BY UpToAdds
  <1>5. \A i \in 1..n : {x \in S : <<x, line[i]>> \in R} = {line[k] : k \in 1..(i - 1)}
    BY Before
  <1>6. \A i, j \in 1..n : line[i] = line[j] => i = j
    <2> SUFFICES ASSUME NEW i \in 1..n, NEW j \in 1..n, line[i] = line[j], i # j PROVE FALSE OBVIOUS
    <2>1. i < j \/ j < i BY <1>1
    <2> QED BY <1>3, <2>1 DEF StrictOrder
  <1> QED BY <1>1, <1>2, <1>3, <1>4, <1>5, <1>6 DEF UpTo, SumBefore, Laid

PaymentLine(pay) == InOrder(DOMAIN pay, PaymentOrder(pay))
ScheduleLine(sch) == InOrder(DOMAIN sch, ScheduleOrder(sch))
PaidUpTo(pay, i) == UpTo(AmountsOf(pay), PaymentLine(pay), i)
DueUpTo(sch, i) == UpTo(AmountsOf(sch), ScheduleLine(sch), i)
Count(f) == Cardinality(DOMAIN f)

\* The line of the payments holds them all, and what was paid before one of them is the sum
\* of those before it in the line.
LEMMA PaymentsInLine ==
    ASSUME NEW sch, NEW pay, Given(sch, pay)
    PROVE  /\ Count(pay) \in Nat /\ Len(PaymentLine(pay)) = Count(pay)
           /\ PaymentLine(pay) \in [1..Count(pay) -> DOMAIN pay]
           /\ \A i, j \in 1..Count(pay) : PaymentLine(pay)[i] = PaymentLine(pay)[j] => i = j
           /\ \A p \in DOMAIN pay : \E i \in 1..Count(pay) : PaymentLine(pay)[i] = p
           /\ PaidUpTo(pay, 0) = 0
           /\ \A i \in 0..Count(pay) : PaidUpTo(pay, i) \in Nat
           /\ \A i \in 1..Count(pay) :
                 /\ PaidUpTo(pay, i) = PaidUpTo(pay, i - 1) + pay[PaymentLine(pay)[i]].amount
                 /\ PaidBefore(pay, PaymentLine(pay)[i]) = PaidUpTo(pay, i - 1)
  <1> DEFINE S == DOMAIN pay
             R == PaymentOrder(pay)
             line == PaymentLine(pay)
             n == Count(pay)
             f == AmountsOf(pay)
  <1>1. IsFiniteSet(S) /\ StrictOrder(S, R) BY OrdersAreStrict DEF Given
  <1>2. \A x \in S : f[x] = pay[x].amount /\ f[x] \in Nat BY DEF AmountsOf, Given
  <1>3. line = InOrder(S, R) /\ n = Cardinality(S) BY DEF PaymentLine, Count
  <1>4. \A p \in S : {x \in S : <<x, p>> \in R} = {q \in S : PaymentBefore(pay, q, p)}
    BY DEF PaymentOrder
  <1>5. \A p \in S : PaidBefore(pay, p) = SumBefore(S, R, f, p)
    BY <1>4 DEF PaidBefore, SumBefore
  <1>6. /\ PaidUpTo(pay, 0) = UpTo(f, line, 0)
        /\ \A i \in 0..n : PaidUpTo(pay, i) = UpTo(f, line, i)
        /\ \A i \in 1..n : PaidUpTo(pay, i - 1) = UpTo(f, line, i - 1) /\ PaidUpTo(pay, i) = UpTo(f, line, i)
    BY DEF PaidUpTo
  <1> HIDE DEF n, line, R, f, S
  <1>7. Laid(S, R, f, line, n)
    BY <1>1, <1>2, <1>3, LineAddsUp
  <1>8. /\ n \in Nat /\ Len(line) = n /\ line \in [1..n -> S]
        /\ \A i, j \in 1..n : line[i] = line[j] => i = j
        /\ \A x \in S : \E i \in 1..n : line[i] = x
        /\ PaidUpTo(pay, 0) = 0
        /\ \A i \in 0..n : PaidUpTo(pay, i) \in Nat
    BY <1>6, <1>7 DEF Laid
  <1>9. ASSUME NEW i \in 1..n
        PROVE  /\ PaidUpTo(pay, i) = PaidUpTo(pay, i - 1) + pay[line[i]].amount
               /\ PaidBefore(pay, line[i]) = PaidUpTo(pay, i - 1)
    <2>1. line[i] \in S BY <1>8
    <2>2. UpTo(f, line, i) = UpTo(f, line, i - 1) + f[line[i]] /\ SumBefore(S, R, f, line[i]) = UpTo(f, line, i - 1)
      BY <1>7 DEF Laid
    <2> QED BY <1>2, <1>5, <1>6, <2>1, <2>2
  <1> QED BY <1>8, <1>9 DEF n, line, S

\* The same of the instalments.
LEMMA SchedulesInLine ==
    ASSUME NEW sch, NEW pay, Given(sch, pay)
    PROVE  /\ Count(sch) \in Nat /\ Len(ScheduleLine(sch)) = Count(sch)
           /\ ScheduleLine(sch) \in [1..Count(sch) -> DOMAIN sch]
           /\ \A i, j \in 1..Count(sch) : ScheduleLine(sch)[i] = ScheduleLine(sch)[j] => i = j
           /\ \A s \in DOMAIN sch : \E i \in 1..Count(sch) : ScheduleLine(sch)[i] = s
           /\ DueUpTo(sch, 0) = 0
           /\ \A i \in 0..Count(sch) : DueUpTo(sch, i) \in Nat
           /\ \A i \in 1..Count(sch) :
                 /\ DueUpTo(sch, i) = DueUpTo(sch, i - 1) + sch[ScheduleLine(sch)[i]].amount
                 /\ DueBefore(sch, ScheduleLine(sch)[i]) = DueUpTo(sch, i - 1)
  <1> DEFINE S == DOMAIN sch
             R == ScheduleOrder(sch)
             line == ScheduleLine(sch)
             n == Count(sch)
             f == AmountsOf(sch)
  <1>1. IsFiniteSet(S) /\ StrictOrder(S, R) BY OrdersAreStrict DEF Given
  <1>2. \A x \in S : f[x] = sch[x].amount /\ f[x] \in Nat BY DEF AmountsOf, Given
  <1>3. line = InOrder(S, R) /\ n = Cardinality(S) BY DEF ScheduleLine, Count
  <1>4. \A s \in S : {x \in S : <<x, s>> \in R} = {t \in S : ScheduleBefore(sch, t, s)}
    BY DEF ScheduleOrder
  <1>5. \A s \in S : DueBefore(sch, s) = SumBefore(S, R, f, s)
    BY <1>4 DEF DueBefore, SumBefore
  <1>6. /\ DueUpTo(sch, 0) = UpTo(f, line, 0)
        /\ \A i \in 0..n : DueUpTo(sch, i) = UpTo(f, line, i)
        /\ \A i \in 1..n : DueUpTo(sch, i - 1) = UpTo(f, line, i - 1) /\ DueUpTo(sch, i) = UpTo(f, line, i)
    BY DEF DueUpTo
  <1> HIDE DEF n, line, R, f, S
  <1>7. Laid(S, R, f, line, n)
    BY <1>1, <1>2, <1>3, LineAddsUp
  <1>8. /\ n \in Nat /\ Len(line) = n /\ line \in [1..n -> S]
        /\ \A i, j \in 1..n : line[i] = line[j] => i = j
        /\ \A x \in S : \E i \in 1..n : line[i] = x
        /\ DueUpTo(sch, 0) = 0
        /\ \A i \in 0..n : DueUpTo(sch, i) \in Nat
    BY <1>6, <1>7 DEF Laid
  <1>9. ASSUME NEW i \in 1..n
        PROVE  /\ DueUpTo(sch, i) = DueUpTo(sch, i - 1) + sch[line[i]].amount
               /\ DueBefore(sch, line[i]) = DueUpTo(sch, i - 1)
    <2>1. line[i] \in S BY <1>8
    <2>2. UpTo(f, line, i) = UpTo(f, line, i - 1) + f[line[i]] /\ SumBefore(S, R, f, line[i]) = UpTo(f, line, i - 1)
      BY <1>7 DEF Laid
    <2> QED BY <1>2, <1>5, <1>6, <2>1, <2>2
  <1> QED BY <1>8, <1>9 DEF n, line, S

-----------------------------------------------------------------------------
(* The loops *)

\* How much of a stretch of length w that begins at x lies before y.
Covered(x, w, y) == Larger(0, Smaller(x + w, y) - x)

\* Where a payment and an instalment meet, each has given what the other side has before
\* it, and together they give what their stretches have in common.
LEMMA Exchange ==
    ASSUME NEW P \in Nat, NEW a \in Nat, NEW D \in Nat, NEW d \in Nat,
           NEW given, given = Smaller(a - Covered(P, a, D), d - Covered(D, d, P))
    PROVE  /\ given = Larger(Smaller(P + a, D + d) - Larger(P, D), 0)
           /\ a - Covered(P, a, D) - given = a - Covered(P, a, D + d)
           /\ d - Covered(D, d, P) - given = d - Covered(D, d, P + a)
  BY DEF Smaller, Larger, Covered

LEMMA CoveredNone ==
    ASSUME NEW x \in Nat, NEW w \in Nat PROVE Covered(x, w, 0) = 0
  BY DEF Smaller, Larger, Covered

Loops(sch, pay) ==
    [remaining : [DOMAIN pay -> Nat],
     available : [DOMAIN sch -> Nat],
     amounts   : [(DOMAIN pay) \X (DOMAIN sch) -> Nat]]

LEMMA MeetIs ==
    ASSUME NEW sch, NEW pay, NEW loop \in Loops(sch, pay), NEW p \in DOMAIN pay, NEW s \in DOMAIN sch,
           NEW given, given = Smaller(loop.remaining[p], loop.available[s])
    PROVE  /\ given \in Nat
           /\ Meet(loop, p, s) \in Loops(sch, pay)
           /\ Meet(loop, p, s).remaining = [loop.remaining EXCEPT ![p] = @ - given]
           /\ Meet(loop, p, s).available = [loop.available EXCEPT ![s] = @ - given]
           /\ Meet(loop, p, s).amounts = [loop.amounts EXCEPT ![<<p, s>>] = given]
  <1>1. loop.remaining \in [DOMAIN pay -> Nat] /\ loop.available \in [DOMAIN sch -> Nat]
        /\ loop.amounts \in [(DOMAIN pay) \X (DOMAIN sch) -> Nat]
    BY DEF Loops
  <1>2. /\ given \in Nat
        /\ loop.remaining[p] - given \in Nat
        /\ loop.available[s] - given \in Nat
    BY <1>1 DEF Smaller
  <1>3. /\ Meet(loop, p, s).remaining = [loop.remaining EXCEPT ![p] = @ - given]
        /\ Meet(loop, p, s).available = [loop.available EXCEPT ![s] = @ - given]
        /\ Meet(loop, p, s).amounts = [loop.amounts EXCEPT ![<<p, s>>] = given]
    BY DEF Meet, HandOver
  <1>4. Meet(loop, p, s) \in Loops(sch, pay)
    BY <1>1, <1>2 DEF Meet, HandOver, Loops
  <1> QED BY <1>2, <1>3, <1>4

\* The loop of Spend, by the values it goes through.
LEMMA SpendRuns ==
    ASSUME NEW sch, NEW pay, Given(sch, pay), NEW p \in DOMAIN pay, NEW start \in Loops(sch, pay)
    PROVE  \E g \in [0..Count(sch) -> Loops(sch, pay)] :
             /\ g[0] = start
             /\ \A j \in 1..Count(sch) : g[j] = Meet(g[j - 1], p, ScheduleLine(sch)[j])
             /\ Spend(start, p, ScheduleLine(sch)) = g[Count(sch)]
  <1> DEFINE n == Count(sch)
             V == Loops(sch, pay)
             line == ScheduleLine(sch)
             turn == [x \in (1..n) \X V |-> Meet(x[2], p, line[x[1]])]
  <1>1. n \in Nat /\ Len(line) = n /\ line \in [1..n -> DOMAIN sch] BY SchedulesInLine
  <1> HIDE DEF n, V, line
  <1>2. \A j \in 1..n : \A v \in V : turn[<<j, v>>] = Meet(v, p, line[j]) OBVIOUS
  <1>3. \A j \in 1..n : \A v \in V : Meet(v, p, line[j]) \in V BY <1>1, MeetIs DEF V
  <1>4. \A j \in 1..n : \A v \in V : turn[<<j, v>>] \in V BY <1>2, <1>3
  <1> HIDE DEF turn
  <1>5. PICK h \in [0..n -> V] : Loop(n, start, turn, h)
    <2>1. start \in V BY DEF V
    <2> QED BY <1>1, <1>4, <2>1, LoopRuns
  <1> DEFINE Goes(f) == f = [i \in 0..Len(line) |-> IF i = 0 THEN start ELSE Meet(f[i - 1], p, line[i])]
  <1>6. Goes(h)
    <2>1. \A i \in 1..n : h[i - 1] \in V BY <1>1
    <2>2. \A i \in 1..n : turn[<<i, h[i - 1]>>] = Meet(h[i - 1], p, line[i]) BY <1>2, <2>1
    <2>3. [i \in 0..n |-> IF i = 0 THEN start ELSE turn[<<i, h[i - 1]>>]]
            = [i \in 0..n |-> IF i = 0 THEN start ELSE Meet(h[i - 1], p, line[i])]
      BY <1>1, <2>2
    <2> QED BY <1>1, <1>5, <2>3 DEF Loop
  <1>7. PICK g : g = (CHOOSE f : Goes(f)) OBVIOUS
  <1>8. Goes(g) BY <1>6, <1>7
  <1>9. Spend(start, p, line) = g[n] BY <1>1, <1>7 DEF Spend
  <1>10. g[0] = start /\ \A j \in 1..n : g[j] = Meet(g[j - 1], p, line[j]) BY <1>1, <1>8
  <1>11. g \in [0..n -> V]
    <2> DEFINE B == {m \in 0..n : g[m] \notin V}
    <2>1. DOMAIN g = 0..n /\ g = [i \in DOMAIN g |-> g[i]] BY <1>1, <1>8
    <2>2. SUFFICES ASSUME B # {} PROVE FALSE BY <2>1
    <2>3. PICK m \in B : \A k \in B : m <= k
      <3>1. B \in SUBSET Nat OBVIOUS
      <3> HIDE DEF B
      <3> QED BY <2>2, <3>1, LeastNat
    <2>4. m # 0 BY <1>10, <2>3 DEF V
    <2>5. m \in 1..n /\ m - 1 \in 0..n /\ m - 1 \notin B BY <1>1, <2>3, <2>4
    <2> QED BY <1>3, <1>10, <2>3, <2>5
  <1> QED BY <1>9, <1>10, <1>11 DEF n, V, line

\* The loop of Settle, by the values it goes through.
LEMMA SettleRuns ==
    ASSUME NEW sch, NEW pay, Given(sch, pay), NEW start \in Loops(sch, pay)
    PROVE  \E g \in [0..Count(pay) -> Loops(sch, pay)] :
             /\ g[0] = start
             /\ \A i \in 1..Count(pay) : g[i] = Spend(g[i - 1], PaymentLine(pay)[i], ScheduleLine(sch))
             /\ Settle(start, PaymentLine(pay), ScheduleLine(sch)) = g[Count(pay)]
  <1> DEFINE m == Count(pay)
             V == Loops(sch, pay)
             line == PaymentLine(pay)
             instalments == ScheduleLine(sch)
             turn == [x \in (1..m) \X V |-> Spend(x[2], line[x[1]], instalments)]
  <1>1. m \in Nat /\ Len(line) = m /\ line \in [1..m -> DOMAIN pay] BY PaymentsInLine
  <1>2. \A p \in DOMAIN pay : \A v \in V : Spend(v, p, instalments) \in V
    <2> SUFFICES ASSUME NEW p \in DOMAIN pay, NEW v \in V PROVE Spend(v, p, instalments) \in V OBVIOUS
    <2>1. PICK g \in [0..Count(sch) -> V] : Spend(v, p, instalments) = g[Count(sch)] BY SpendRuns
    <2>2. Count(sch) \in 0..Count(sch) BY SchedulesInLine
    <2> QED BY <2>1, <2>2
  <1> HIDE DEF m, V, line, instalments
  <1>3. \A i \in 1..m : \A v \in V : turn[<<i, v>>] = Spend(v, line[i], instalments) OBVIOUS
  <1>4. \A i \in 1..m : \A v \in V : Spend(v, line[i], instalments) \in V BY <1>1, <1>2
  <1>5. \A i \in 1..m : \A v \in V : turn[<<i, v>>] \in V BY <1>3, <1>4
  <1> HIDE DEF turn
  <1>6. PICK h \in [0..m -> V] : Loop(m, start, turn, h)
    <2>1. start \in V BY DEF V
    <2> QED BY <1>1, <1>5, <2>1, LoopRuns
  <1> DEFINE Goes(f) == f = [i \in 0..Len(line) |-> IF i = 0 THEN start ELSE Spend(f[i - 1], line[i], instalments)]
  <1>7. Goes(h)
    <2>1. \A i \in 1..m : h[i - 1] \in V BY <1>1
    <2>2. \A i \in 1..m : turn[<<i, h[i - 1]>>] = Spend(h[i - 1], line[i], instalments) BY <1>3, <2>1
    <2>3. [i \in 0..m |-> IF i = 0 THEN start ELSE turn[<<i, h[i - 1]>>]]
            = [i \in 0..m |-> IF i = 0 THEN start ELSE Spend(h[i - 1], line[i], instalments)]
      BY <1>1, <2>2
    <2> QED BY <1>1, <1>6, <2>3 DEF Loop
  <1>8. PICK g : g = (CHOOSE f : Goes(f)) OBVIOUS
  <1>9. Goes(g) BY <1>7, <1>8
  <1>10. Settle(start, line, instalments) = g[m] BY <1>1, <1>8 DEF Settle
  <1>11. g[0] = start /\ \A i \in 1..m : g[i] = Spend(g[i - 1], line[i], instalments) BY <1>1, <1>9
  <1>12. g \in [0..m -> V]
    <2> DEFINE B == {k \in 0..m : g[k] \notin V}
    <2>1. DOMAIN g = 0..m /\ g = [i \in DOMAIN g |-> g[i]] BY <1>1, <1>9
    <2>2. SUFFICES ASSUME B # {} PROVE FALSE BY <2>1
    <2>3. PICK k \in B : \A l \in B : k <= l
      <3>1. B \in SUBSET Nat OBVIOUS
      <3> HIDE DEF B
      <3> QED BY <2>2, <3>1, LeastNat
    <2>4. k # 0 BY <1>11, <2>3 DEF V
    <2>5. k \in 1..m /\ k - 1 \in 0..m /\ k - 1 \notin B BY <1>1, <2>3, <2>4
    <2> QED BY <1>4, <1>11, <2>3, <2>5
  <1> QED BY <1>10, <1>11, <1>12 DEF m, V, line, instalments

\* Where the loops stand when the i-th payment has met the first j instalments: that payment
\* has given what is due up to the j-th, the instalments have received what was paid up to the
\* i-th payment or, from the next instalment on, up to the one before it, and every amount
\* written so far is the overlap.
At(sch, pay, loop, i, j) ==
    LET pl == PaymentLine(pay)
        il == ScheduleLine(sch)
    IN  /\ \A k \in i..Count(pay) :
             loop.remaining[pl[k]] =
               pay[pl[k]].amount - Covered(PaidUpTo(pay, k - 1), pay[pl[k]].amount,
                                           IF k = i THEN DueUpTo(sch, j) ELSE 0)
        /\ \A l \in 1..Count(sch) :
             loop.available[il[l]] =
               sch[il[l]].amount - Covered(DueUpTo(sch, l - 1), sch[il[l]].amount,
                                           IF l <= j THEN PaidUpTo(pay, i) ELSE PaidUpTo(pay, i - 1))
        /\ \A k \in 1..Count(pay), l \in 1..Count(sch) :
             loop.amounts[<<pl[k], il[l]>>] =
               IF k < i \/ (k = i /\ l <= j) THEN Larger(Overlap(sch, pay, pl[k], il[l]), 0) ELSE 0

LEMMA MeetAt ==
    ASSUME NEW sch, NEW pay, Given(sch, pay), NEW loop \in Loops(sch, pay),
           NEW i \in 1..Count(pay), NEW j \in 1..Count(sch), At(sch, pay, loop, i, j - 1)
    PROVE  At(sch, pay, Meet(loop, PaymentLine(pay)[i], ScheduleLine(sch)[j]), i, j)
  <1> DEFINE m == Count(pay)
             n == Count(sch)
             pl == PaymentLine(pay)
             il == ScheduleLine(sch)
             p == pl[i]
             s == il[j]
             a == pay[p].amount
             d == sch[s].amount
             P == PaidUpTo(pay, i - 1)
             D == DueUpTo(sch, j - 1)
             given == Smaller(loop.remaining[p], loop.available[s])
             next == Meet(loop, p, s)
  <1>1. /\ m \in Nat /\ pl \in [1..m -> DOMAIN pay]
        /\ \A k, l \in 1..m : pl[k] = pl[l] => k = l
        /\ \A k \in 0..m : PaidUpTo(pay, k) \in Nat
        /\ PaidUpTo(pay, i) = P + a /\ PaidBefore(pay, p) = P
    BY PaymentsInLine
  <1>2. /\ n \in Nat /\ il \in [1..n -> DOMAIN sch]
        /\ \A k, l \in 1..n : il[k] = il[l] => k = l
        /\ \A k \in 0..n : DueUpTo(sch, k) \in Nat
        /\ DueUpTo(sch, j) = D + d /\ DueBefore(sch, s) = D
    BY SchedulesInLine
  <1>3. p \in DOMAIN pay /\ s \in DOMAIN sch /\ P \in Nat /\ D \in Nat
    <2>1. i \in 1..m /\ i - 1 \in 0..m /\ j \in 1..n /\ j - 1 \in 0..n BY <1>1, <1>2
    <2>2. pl[i] \in DOMAIN pay /\ il[j] \in DOMAIN sch BY <1>1, <1>2, <2>1
    <2>3. PaidUpTo(pay, i - 1) \in Nat /\ DueUpTo(sch, j - 1) \in Nat BY <1>1, <1>2, <2>1
    <2> QED BY <2>2, <2>3
  <1>4. a \in Nat /\ d \in Nat BY <1>3 DEF Given
  <1>5. /\ loop.remaining \in [DOMAIN pay -> Nat] /\ loop.available \in [DOMAIN sch -> Nat]
        /\ loop.amounts \in [(DOMAIN pay) \X (DOMAIN sch) -> Nat]
    BY DEF Loops
  <1>6. /\ next.remaining = [loop.remaining EXCEPT ![p] = @ - given]
        /\ next.available = [loop.available EXCEPT ![s] = @ - given]
        /\ next.amounts = [loop.amounts EXCEPT ![<<p, s>>] = given]
    BY <1>3, MeetIs
  <1>7. loop.remaining[p] = a - Covered(P, a, D) /\ loop.available[s] = d - Covered(D, d, P)
    <2>1. i \in i..m /\ i = i /\ ~ (j <= j - 1) BY <1>1, <1>2
    <2> QED BY <2>1, <1>1, <1>2 DEF At
  <1> HIDE DEF next
  <1>8. /\ given = Larger(Overlap(sch, pay, p, s), 0)
        /\ loop.remaining[p] - given = a - Covered(P, a, DueUpTo(sch, j))
        /\ loop.available[s] - given = d - Covered(D, d, PaidUpTo(pay, i))
    <2> HIDE DEF a, d, P, D, p, s
    <2>1. given = Smaller(a - Covered(P, a, D), d - Covered(D, d, P)) BY <1>7
    <2> HIDE DEF given
    <2>2. /\ given = Larger(Smaller(P + a, D + d) - Larger(P, D), 0)
          /\ a - Covered(P, a, D) - given = a - Covered(P, a, D + d)
          /\ d - Covered(D, d, P) - given = d - Covered(D, d, P + a)
      BY <1>3, <1>4, <2>1, Exchange
    <2>3. Overlap(sch, pay, p, s) = Smaller(P + a, D + d) - Larger(P, D)
      BY <1>1, <1>2 DEF Overlap, a, d
    <2> QED BY <1>1, <1>2, <1>7, <2>2, <2>3
  <1>9. ASSUME NEW k \in i..m
        PROVE  next.remaining[pl[k]] =
                 pay[pl[k]].amount - Covered(PaidUpTo(pay, k - 1), pay[pl[k]].amount,
                                             IF k = i THEN DueUpTo(sch, j) ELSE 0)
    <2>1. k \in 1..m BY <1>1
    <2>2. CASE k = i BY <1>3, <1>5, <1>6, <1>8, <2>2
    <2>3. CASE k # i
      <3>1. pl[k] # p /\ pl[k] \in DOMAIN pay BY <1>1, <2>1, <2>3
      <3>2. next.remaining[pl[k]] = loop.remaining[pl[k]] BY <1>5, <1>6, <3>1
      <3>3. loop.remaining[pl[k]] =
              pay[pl[k]].amount - Covered(PaidUpTo(pay, k - 1), pay[pl[k]].amount, 0)
        BY <2>3 DEF At
      <3> QED BY <2>3, <3>2, <3>3
    <2> QED BY <2>2, <2>3
  <1>10. ASSUME NEW l \in 1..n
         PROVE  next.available[il[l]] =
                  sch[il[l]].amount - Covered(DueUpTo(sch, l - 1), sch[il[l]].amount,
                                              IF l <= j THEN PaidUpTo(pay, i) ELSE PaidUpTo(pay, i - 1))
    <2>1. CASE l = j BY <1>2, <1>3, <1>5, <1>6, <1>8, <2>1
    <2>2. CASE l # j
      <3>1. il[l] # s /\ il[l] \in DOMAIN sch BY <1>2, <2>2
      <3>2. next.available[il[l]] = loop.available[il[l]] BY <1>5, <1>6, <3>1
      <3>3. loop.available[il[l]] =
              sch[il[l]].amount - Covered(DueUpTo(sch, l - 1), sch[il[l]].amount,
                                          IF l <= j - 1 THEN PaidUpTo(pay, i) ELSE PaidUpTo(pay, i - 1))
        BY DEF At
      <3>4. (l <= j - 1) <=> (l <= j) BY <1>2, <2>2
      <3> QED BY <3>2, <3>3, <3>4
    <2> QED BY <2>1, <2>2
  <1>11. ASSUME NEW k \in 1..m, NEW l \in 1..n
         PROVE  next.amounts[<<pl[k], il[l]>>] =
                  IF k < i \/ (k = i /\ l <= j) THEN Larger(Overlap(sch, pay, pl[k], il[l]), 0) ELSE 0
    <2>1. pl[k] \in DOMAIN pay /\ il[l] \in DOMAIN sch BY <1>1, <1>2
    <2>2. CASE k = i /\ l = j
      <3>1. next.amounts[<<p, s>>] = given BY <1>3, <1>5, <1>6
      <3> QED BY <1>2, <1>8, <2>2, <3>1
    <2>3. CASE ~ (k = i /\ l = j)
      <3>1. <<pl[k], il[l]>> # <<p, s>> BY <1>1, <1>2, <2>3
      <3>2. next.amounts[<<pl[k], il[l]>>] = loop.amounts[<<pl[k], il[l]>>]
        BY <1>5, <1>6, <2>1, <3>1
      <3>3. loop.amounts[<<pl[k], il[l]>>] =
              IF k < i \/ (k = i /\ l <= j - 1) THEN Larger(Overlap(sch, pay, pl[k], il[l]), 0) ELSE 0
        BY DEF At
      <3>4. (k < i \/ (k = i /\ l <= j - 1)) <=> (k < i \/ (k = i /\ l <= j)) BY <1>2, <2>3
      <3> QED BY <3>2, <3>3, <3>4
    <2> QED BY <2>2, <2>3
  <1> QED BY <1>9, <1>10, <1>11 DEF At, next

LEMMA SpendAt ==
    ASSUME NEW sch, NEW pay, Given(sch, pay), NEW loop \in Loops(sch, pay),
           NEW i \in 1..Count(pay), At(sch, pay, loop, i, 0)
    PROVE  /\ Spend(loop, PaymentLine(pay)[i], ScheduleLine(sch)) \in Loops(sch, pay)
           /\ At(sch, pay, Spend(loop, PaymentLine(pay)[i], ScheduleLine(sch)), i, Count(sch))
  <1> DEFINE n == Count(sch)
             V == Loops(sch, pay)
             p == PaymentLine(pay)[i]
             il == ScheduleLine(sch)
  <1>1. n \in Nat /\ p \in DOMAIN pay BY PaymentsInLine, SchedulesInLine
  <1>2. PICK g \in [0..n -> V] :
          g[0] = loop /\ (\A j \in 1..n : g[j] = Meet(g[j - 1], p, il[j])) /\ Spend(loop, p, il) = g[n]
    BY <1>1, SpendRuns
  <1> DEFINE B == {j \in 0..n : ~ At(sch, pay, g[j], i, j)}
  <1>3. B = {}
    <2>1. SUFFICES ASSUME B # {} PROVE FALSE OBVIOUS
    <2>2. PICK j \in B : \A k \in B : j <= k
      <3>1. B \in SUBSET Nat OBVIOUS
      <3> HIDE DEF B
      <3> QED BY <2>1, <3>1, LeastNat
    <2>3. j # 0 BY <1>2, <2>2
    <2>4. j \in 1..n /\ j - 1 \in 0..n /\ j - 1 \notin B BY <1>1, <2>2, <2>3
    <2>5. At(sch, pay, g[j - 1], i, j - 1) /\ g[j - 1] \in V BY <1>2, <2>4
    <2>6. At(sch, pay, Meet(g[j - 1], p, il[j]), i, j) BY <2>4, <2>5, MeetAt
    <2>7. g[j] = Meet(g[j - 1], p, il[j]) BY <1>2, <2>4
    <2> QED BY <2>2, <2>6, <2>7
  <1>4. n \in 0..n BY <1>1
  <1>5. g[n] \in V /\ At(sch, pay, g[n], i, n) BY <1>2, <1>3, <1>4
  <1> QED BY <1>2, <1>5

\* All instalments met, the next payment is where it begins.
LEMMA NextPayment ==
    ASSUME NEW sch, NEW pay, Given(sch, pay), NEW loop,
           NEW i \in 1..Count(pay), At(sch, pay, loop, i, Count(sch))
    PROVE  At(sch, pay, loop, i + 1, 0)
  <1> DEFINE m == Count(pay)
             n == Count(sch)
             pl == PaymentLine(pay)
             il == ScheduleLine(sch)
  <1>1. /\ m \in Nat /\ pl \in [1..m -> DOMAIN pay]
        /\ \A k \in 0..m : PaidUpTo(pay, k) \in Nat
    BY PaymentsInLine
  <1>2. n \in Nat /\ il \in [1..n -> DOMAIN sch] /\ DueUpTo(sch, 0) = 0 BY SchedulesInLine
  <1>3. ASSUME NEW k \in (i + 1)..m
        PROVE  loop.remaining[pl[k]] =
                 pay[pl[k]].amount - Covered(PaidUpTo(pay, k - 1), pay[pl[k]].amount,
                                             IF k = i + 1 THEN DueUpTo(sch, 0) ELSE 0)
    <2>1. k \in i..m /\ k # i BY <1>1
    <2> QED BY <1>2, <2>1 DEF At
  <1>4. ASSUME NEW l \in 1..n
        PROVE  loop.available[il[l]] =
                 sch[il[l]].amount - Covered(DueUpTo(sch, l - 1), sch[il[l]].amount,
                                             IF l <= 0 THEN PaidUpTo(pay, i + 1) ELSE PaidUpTo(pay, (i + 1) - 1))
    <2>1. l <= n /\ ~ (l <= 0) /\ (i + 1) - 1 = i BY <1>1, <1>2
    <2> QED BY <2>1 DEF At
  <1>5. ASSUME NEW k \in 1..m, NEW l \in 1..n
        PROVE  loop.amounts[<<pl[k], il[l]>>] =
                 IF k < i + 1 \/ (k = i + 1 /\ l <= 0) THEN Larger(Overlap(sch, pay, pl[k], il[l]), 0) ELSE 0
    <2>1. (k < i \/ (k = i /\ l <= n)) <=> (k < i + 1 \/ (k = i + 1 /\ l <= 0)) BY <1>1, <1>2
    <2> QED BY <2>1 DEF At
  <1> QED BY <1>3, <1>4, <1>5 DEF At

\* Before the first payment nothing is given.
LEMMA UnsettledAt ==
    ASSUME NEW sch, NEW pay, Given(sch, pay)
    PROVE  Unsettled(sch, pay) \in Loops(sch, pay) /\ At(sch, pay, Unsettled(sch, pay), 1, 0)
  <1> DEFINE m == Count(pay)
             n == Count(sch)
             pl == PaymentLine(pay)
             il == ScheduleLine(sch)
             loop == Unsettled(sch, pay)
  <1>1. /\ m \in Nat /\ pl \in [1..m -> DOMAIN pay] /\ PaidUpTo(pay, 0) = 0
        /\ \A k \in 0..m : PaidUpTo(pay, k) \in Nat
    BY PaymentsInLine
  <1>2. /\ n \in Nat /\ il \in [1..n -> DOMAIN sch] /\ DueUpTo(sch, 0) = 0
        /\ \A k \in 0..n : DueUpTo(sch, k) \in Nat
    BY SchedulesInLine
  <1>3. loop \in Loops(sch, pay) BY DEF Unsettled, Loops, Given
  <1>4. ASSUME NEW k \in 1..m
        PROVE  loop.remaining[pl[k]] =
                 pay[pl[k]].amount - Covered(PaidUpTo(pay, k - 1), pay[pl[k]].amount,
                                             IF k = 1 THEN DueUpTo(sch, 0) ELSE 0)
    <2>1. pl[k] \in DOMAIN pay /\ k - 1 \in 0..m BY <1>1
    <2>2. pay[pl[k]].amount \in Nat /\ PaidUpTo(pay, k - 1) \in Nat BY <1>1, <2>1 DEF Given
    <2>3. Covered(PaidUpTo(pay, k - 1), pay[pl[k]].amount, 0) = 0 BY <2>2, CoveredNone
    <2>4. loop.remaining[pl[k]] = pay[pl[k]].amount BY <2>1 DEF Unsettled
    <2> QED BY <1>2, <2>2, <2>3, <2>4
  <1>5. ASSUME NEW l \in 1..n
        PROVE  loop.available[il[l]] =
                 sch[il[l]].amount - Covered(DueUpTo(sch, l - 1), sch[il[l]].amount,
                                             IF l <= 0 THEN PaidUpTo(pay, 1) ELSE PaidUpTo(pay, 1 - 1))
    <2>1. il[l] \in DOMAIN sch /\ l - 1 \in 0..n /\ ~ (l <= 0) /\ 1 - 1 = 0 BY <1>2
    <2>2. sch[il[l]].amount \in Nat /\ DueUpTo(sch, l - 1) \in Nat BY <1>2, <2>1 DEF Given
    <2>3. Covered(DueUpTo(sch, l - 1), sch[il[l]].amount, 0) = 0 BY <2>2, CoveredNone
    <2>4. loop.available[il[l]] = sch[il[l]].amount BY <2>1 DEF Unsettled
    <2> QED BY <1>1, <2>1, <2>2, <2>3, <2>4
  <1>6. ASSUME NEW k \in 1..m, NEW l \in 1..n
        PROVE  loop.amounts[<<pl[k], il[l]>>] =
                 IF k < 1 \/ (k = 1 /\ l <= 0) THEN Larger(Overlap(sch, pay, pl[k], il[l]), 0) ELSE 0
    <2>1. <<pl[k], il[l]>> \in (DOMAIN pay) \X (DOMAIN sch) /\ ~ (k < 1) /\ ~ (l <= 0) BY <1>1, <1>2
    <2> QED BY <2>1 DEF Unsettled
  <1> QED BY <1>3, <1>4, <1>5, <1>6 DEF At

\* All payments spent, every amount is the overlap.
LEMMA SettleAt ==
    ASSUME NEW sch, NEW pay, Given(sch, pay),
           NEW loop, loop = Settle(Unsettled(sch, pay), PaymentLine(pay), ScheduleLine(sch))
    PROVE  loop \in Loops(sch, pay) /\ At(sch, pay, loop, Count(pay) + 1, 0)
  <1> DEFINE m == Count(pay)
             V == Loops(sch, pay)
             pl == PaymentLine(pay)
             il == ScheduleLine(sch)
             start == Unsettled(sch, pay)
  <1>1. m \in Nat BY PaymentsInLine
  <1>2. start \in V /\ At(sch, pay, start, 1, 0) BY UnsettledAt
  <1>3. PICK g \in [0..m -> V] :
          g[0] = start /\ (\A i \in 1..m : g[i] = Spend(g[i - 1], pl[i], il)) /\ Settle(start, pl, il) = g[m]
    <2> HIDE DEF start
    <2> QED BY <1>2, SettleRuns
  <1> DEFINE B == {i \in 0..m : ~ At(sch, pay, g[i], i + 1, 0)}
  <1>4. B = {}
    <2>1. SUFFICES ASSUME B # {} PROVE FALSE OBVIOUS
    <2>2. PICK i \in B : \A k \in B : i <= k
      <3>1. B \in SUBSET Nat OBVIOUS
      <3> HIDE DEF B
      <3> QED BY <2>1, <3>1, LeastNat
    <2>3. i # 0 BY <1>2, <1>3, <2>2
    <2>4. i \in 1..m /\ i - 1 \in 0..m /\ i - 1 \notin B /\ (i - 1) + 1 = i BY <1>1, <2>2, <2>3
    <2>5. At(sch, pay, g[i - 1], i, 0) /\ g[i - 1] \in V BY <1>3, <2>4
    <2>6. At(sch, pay, Spend(g[i - 1], pl[i], il), i, Count(sch)) BY <2>4, <2>5, SpendAt
    <2>7. At(sch, pay, g[i], i, Count(sch)) BY <1>3, <2>4, <2>6
    <2>8. At(sch, pay, g[i], i + 1, 0) BY <2>4, <2>7, NextPayment
    <2> QED BY <2>2, <2>8
  <1>5. m \in 0..m BY <1>1
  <1>6. g[m] \in V /\ At(sch, pay, g[m], m + 1, 0) BY <1>3, <1>4, <1>5
  <1> QED BY <1>3, <1>6

\* THEOREM: allocateRentPayments gives what the prefix sums of migration 1712600000000 give:
\* whatever the instalments and payments of a contract, each payment pays for the instalments
\* its stretch of the line of cents overlaps, in the order of due dates and payment dates.
THEOREM AllocatesByPrefixSums ==
    ASSUME NEW sch, NEW pay, Given(sch, pay)
    PROVE  Allocate(sch, pay) = PrefixSums(sch, pay)
  <1> DEFINE m == Count(pay)
             n == Count(sch)
             pl == PaymentLine(pay)
             il == ScheduleLine(sch)
             loop == Settle(Unsettled(sch, pay), pl, il)
             overlaps == [x \in (DOMAIN pay) \X (DOMAIN sch) |-> Larger(Overlap(sch, pay, x[1], x[2]), 0)]
  <1>1. m \in Nat /\ \A p \in DOMAIN pay : \E k \in 1..m : pl[k] = p BY PaymentsInLine
  <1>2. n \in Nat /\ \A s \in DOMAIN sch : \E l \in 1..n : il[l] = s BY SchedulesInLine
  <1>3. loop \in Loops(sch, pay) /\ At(sch, pay, loop, m + 1, 0)
    <2> HIDE DEF loop, m
    <2> QED BY SettleAt DEF loop, m
  <1> HIDE DEF loop
  <1>4. loop.amounts \in [(DOMAIN pay) \X (DOMAIN sch) -> Nat] BY <1>3 DEF Loops
  <1>5. ASSUME NEW p \in DOMAIN pay, NEW s \in DOMAIN sch
        PROVE  loop.amounts[<<p, s>>] = Larger(Overlap(sch, pay, p, s), 0)
    <2>1. PICK k \in 1..m : pl[k] = p BY <1>1
    <2>2. PICK l \in 1..n : il[l] = s BY <1>2
    <2>3. k < m + 1 BY <1>1
    <2> QED BY <1>3, <2>1, <2>2, <2>3 DEF At
  <1>6. loop.amounts = overlaps BY <1>4, <1>5
  <1> QED BY <1>6 DEF Allocate, PrefixSums, loop, PaymentLine, ScheduleLine

-----------------------------------------------------------------------------
(* What is paid for an instalment *)

Total(f) == SumFunctionOnSet(AmountsOf(f), DOMAIN f)

\* A sum that goes along a line, from the values it takes there.
LEMMA SumAlong ==
    ASSUME NEW S, IsFiniteSet(S), NEW R, StrictOrder(S, R), NEW f, \A x \in S : f[x] \in Nat,
           NEW line, line = InOrder(S, R), NEW n, n = Cardinality(S),
           NEW v, v[0] = 0, \A i \in 1..n : v[i - 1] \in Int /\ v[i] = v[i - 1] + f[line[i]]
    PROVE  SumFunctionOnSet(f, S) = v[n]
  <1>1. Laid(S, R, f, line, n) BY LineAddsUp
  <1>2. n \in Nat /\ line \in [1..n -> S] /\ (\A x \in S : \E i \in 1..n : line[i] = x)
        /\ UpTo(f, line, 0) = 0
        /\ \A i \in 1..n : UpTo(f, line, i) = UpTo(f, line, i - 1) + f[line[i]]
    BY <1>1 DEF Laid
  <1> DEFINE B == {i \in 0..n : UpTo(f, line, i) # v[i]}
  <1>3. B = {}
    <2>1. SUFFICES ASSUME B # {} PROVE FALSE OBVIOUS
    <2>2. PICK i \in B : \A k \in B : i <= k
      <3>1. B \in SUBSET Nat OBVIOUS
      <3> HIDE DEF B
      <3> QED BY <2>1, <3>1, LeastNat
    <2>3. i # 0 BY <1>2, <2>2
    <2>4. i \in 1..n /\ i - 1 \in 0..n /\ i - 1 \notin B BY <1>2, <2>2, <2>3
    <2>5. UpTo(f, line, i - 1) = v[i - 1] BY <2>4
    <2>6. UpTo(f, line, i) = UpTo(f, line, i - 1) + f[line[i]] BY <1>2, <2>4
    <2> QED BY <2>2, <2>4, <2>5, <2>6
  <1>4. n \in 0..n /\ {line[k] : k \in 1..n} = S BY <1>2
  <1> QED BY <1>3, <1>4 DEF UpTo

\* What was paid up to the last payment is all of it; the same of the instalments.
LEMMA Totals ==
    ASSUME NEW sch, NEW pay, Given(sch, pay)
    PROVE  /\ PaidUpTo(pay, Count(pay)) = Total(pay) /\ Total(pay) \in Nat
           /\ DueUpTo(sch, Count(sch)) = Total(sch) /\ Total(sch) \in Nat
  <1>1. /\ {PaymentLine(pay)[k] : k \in 1..Count(pay)} = DOMAIN pay
        /\ Count(pay) \in 0..Count(pay) /\ PaidUpTo(pay, Count(pay)) \in Nat
    <2>1. /\ Count(pay) \in Nat /\ PaymentLine(pay) \in [1..Count(pay) -> DOMAIN pay]
          /\ \A p \in DOMAIN pay : \E i \in 1..Count(pay) : PaymentLine(pay)[i] = p
          /\ \A i \in 0..Count(pay) : PaidUpTo(pay, i) \in Nat
      BY PaymentsInLine
    <2>2. Count(pay) \in 0..Count(pay) BY <2>1
    <2>3. \A k \in 1..Count(pay) : PaymentLine(pay)[k] \in DOMAIN pay BY <2>1
    <2>4. {PaymentLine(pay)[k] : k \in 1..Count(pay)} = DOMAIN pay BY <2>1, <2>3
    <2> QED BY <2>1, <2>2, <2>4
  <1>2. /\ {ScheduleLine(sch)[k] : k \in 1..Count(sch)} = DOMAIN sch
        /\ Count(sch) \in 0..Count(sch) /\ DueUpTo(sch, Count(sch)) \in Nat
    <2>1. /\ Count(sch) \in Nat /\ ScheduleLine(sch) \in [1..Count(sch) -> DOMAIN sch]
          /\ \A s \in DOMAIN sch : \E i \in 1..Count(sch) : ScheduleLine(sch)[i] = s
          /\ \A i \in 0..Count(sch) : DueUpTo(sch, i) \in Nat
      BY SchedulesInLine
    <2>2. Count(sch) \in 0..Count(sch) BY <2>1
    <2>3. \A k \in 1..Count(sch) : ScheduleLine(sch)[k] \in DOMAIN sch BY <2>1
    <2>4. {ScheduleLine(sch)[k] : k \in 1..Count(sch)} = DOMAIN sch BY <2>1, <2>3
    <2> QED BY <2>1, <2>2, <2>4
  <1>3. PaidUpTo(pay, Count(pay)) = Total(pay) BY <1>1 DEF PaidUpTo, UpTo, Total
  <1>4. DueUpTo(sch, Count(sch)) = Total(sch) BY <1>2 DEF DueUpTo, UpTo, Total
  <1> QED BY <1>1, <1>2, <1>3, <1>4

\* What has been paid for an instalment of amount d after D, of money P.
LEMMA CoveredPart ==
    ASSUME NEW P \in Nat, NEW D \in Nat, NEW d \in Nat
    PROVE  /\ Covered(D, d, P) \in Nat /\ Covered(D, d, P) <= d
           /\ Smaller(D + d, P) = Smaller(D, P) + Covered(D, d, P)
           /\ (Covered(D, d, P) < d => P < D + d)
           /\ (P <= D => Covered(D, d, P) = 0)
  BY DEF Smaller, Larger, Covered

\* The payments together pay for that part of an instalment that all the money covers.
LEMMA PaidFor ==
    ASSUME NEW sch, NEW pay, Given(sch, pay), NEW s \in DOMAIN sch,
           NEW f, \A p \in DOMAIN pay : f[p] = Larger(Overlap(sch, pay, p, s), 0)
    PROVE  /\ SumFunctionOnSet(f, DOMAIN pay) = Covered(DueBefore(sch, s), sch[s].amount, Total(pay))
           /\ DueBefore(sch, s) \in Nat
  <1> DEFINE S == DOMAIN pay
             R == PaymentOrder(pay)
             line == PaymentLine(pay)
             m == Count(pay)
             D == DueBefore(sch, s)
             d == sch[s].amount
             v == [i \in 0..m |-> Covered(D, d, PaidUpTo(pay, i))]
  <1>1. /\ m \in Nat /\ line \in [1..m -> S]
        /\ PaidUpTo(pay, 0) = 0 /\ \A i \in 0..m : PaidUpTo(pay, i) \in Nat
        /\ \A i \in 1..m : /\ PaidUpTo(pay, i) = PaidUpTo(pay, i - 1) + pay[line[i]].amount
                           /\ PaidBefore(pay, line[i]) = PaidUpTo(pay, i - 1)
    BY PaymentsInLine
  <1>2. D \in Nat
    <2>1. PICK j \in 1..Count(sch) : ScheduleLine(sch)[j] = s BY SchedulesInLine
    <2>2. Count(sch) \in Nat /\ DueBefore(sch, s) = DueUpTo(sch, j - 1) BY <2>1, SchedulesInLine
    <2>3. j - 1 \in 0..Count(sch) BY <2>2
    <2> QED BY <2>2, <2>3, SchedulesInLine
  <1>3. d \in Nat /\ \A p \in S : pay[p].amount \in Nat BY DEF Given
  <1> HIDE DEF D, d, m, line, S
  <1>4. ASSUME NEW i \in 1..m
        PROVE  v[i - 1] \in Int /\ v[i] = v[i - 1] + f[line[i]] /\ f[line[i]] \in Nat
    <2> DEFINE P == PaidUpTo(pay, i - 1)
               a == pay[line[i]].amount
    <2>1. i \in 0..m /\ i - 1 \in 0..m /\ line[i] \in S BY <1>1
    <2>2. P \in Nat /\ a \in Nat /\ PaidUpTo(pay, i) = P + a /\ PaidBefore(pay, line[i]) = P
      BY <1>1, <1>3, <2>1
    <2>3. f[line[i]] = Larger(Smaller(P + a, D + d) - Larger(P, D), 0)
      BY <2>1, <2>2 DEF Overlap, S, D, d
    <2>4. v[i] = Covered(D, d, PaidUpTo(pay, i)) /\ v[i - 1] = Covered(D, d, P) BY <2>1
    <2> HIDE DEF P, a, v
    <2>5. /\ Covered(D, d, P) \in Nat
          /\ Covered(D, d, P + a) = Covered(D, d, P) + Larger(Smaller(P + a, D + d) - Larger(P, D), 0)
      <3>1. P \in Nat /\ a \in Nat /\ D \in Nat /\ d \in Nat BY <1>2, <1>3, <2>2
      <3>2. Covered(D, d, P) \in Nat BY <3>1, CoveredPart
      <3>3. Covered(D, d, P + a) = Covered(D, d, P) + Larger(Smaller(P + a, D + d) - Larger(P, D), 0)
        BY <3>1 DEF Smaller, Larger, Covered
      <3> QED BY <3>2, <3>3
    <2>6. Larger(Smaller(P + a, D + d) - Larger(P, D), 0) \in Nat
      BY <1>2, <1>3, <2>2 DEF Larger, Smaller
    <2> QED BY <2>2, <2>3, <2>4, <2>5, <2>6
  <1>5. v[0] = 0
    <2>1. v[0] = Covered(D, d, 0) BY <1>1
    <2> QED BY <1>2, <1>3, <2>1, CoveredNone
  <1>6. \A p \in S : f[p] \in Nat
    <2>1. \A p \in S : \E i \in 1..m : line[i] = p BY PaymentsInLine DEF S, m, line
    <2> HIDE DEF v
    <2> QED BY <1>4, <2>1
  <1>7. IsFiniteSet(S) /\ StrictOrder(S, R) /\ line = InOrder(S, R) /\ m = Cardinality(S)
    BY OrdersAreStrict DEF Given, S, line, m, PaymentLine, Count
  <1>8. v[m] = Covered(D, d, Total(pay))
    <2>1. m \in 0..m BY <1>1
    <2>2. PaidUpTo(pay, m) = Total(pay) BY Totals DEF m
    <2> QED BY <2>1, <2>2
  <1> HIDE DEF v, R
  <1>9. SumFunctionOnSet(f, S) = v[m] BY <1>4, <1>5, <1>6, <1>7, SumAlong
  <1> QED BY <1>2, <1>8, <1>9 DEF S, D, d

\* A payment pays for all that all instalments leave it, and never for more than it is.
LEMMA SpentOn ==
    ASSUME NEW sch, NEW pay, Given(sch, pay), NEW p \in DOMAIN pay,
           NEW f, \A s \in DOMAIN sch : f[s] = Larger(Overlap(sch, pay, p, s), 0)
    PROVE  /\ SumFunctionOnSet(f, DOMAIN sch) <= pay[p].amount
           /\ \A s \in DOMAIN sch : f[s] \in Nat
  <1> DEFINE S == DOMAIN sch
             R == ScheduleOrder(sch)
             line == ScheduleLine(sch)
             m == Count(sch)
             P == PaidBefore(pay, p)
             a == pay[p].amount
             v == [j \in 0..m |-> Covered(P, a, DueUpTo(sch, j))]
  <1>1. /\ m \in Nat /\ line \in [1..m -> S]
        /\ DueUpTo(sch, 0) = 0 /\ \A j \in 0..m : DueUpTo(sch, j) \in Nat
        /\ \A j \in 1..m : /\ DueUpTo(sch, j) = DueUpTo(sch, j - 1) + sch[line[j]].amount
                           /\ DueBefore(sch, line[j]) = DueUpTo(sch, j - 1)
    BY SchedulesInLine
  <1>2. P \in Nat
    <2>1. PICK i \in 1..Count(pay) : PaymentLine(pay)[i] = p BY PaymentsInLine
    <2>2. Count(pay) \in Nat /\ PaidBefore(pay, p) = PaidUpTo(pay, i - 1) BY <2>1, PaymentsInLine
    <2>3. i - 1 \in 0..Count(pay) BY <2>2
    <2> QED BY <2>2, <2>3, PaymentsInLine
  <1>3. a \in Nat /\ \A s \in S : sch[s].amount \in Nat BY DEF Given
  <1> HIDE DEF P, a, m, line, S
  <1>4. ASSUME NEW j \in 1..m
        PROVE  v[j - 1] \in Int /\ v[j] = v[j - 1] + f[line[j]] /\ f[line[j]] \in Nat
    <2> DEFINE D == DueUpTo(sch, j - 1)
               d == sch[line[j]].amount
    <2>1. j \in 0..m /\ j - 1 \in 0..m /\ line[j] \in S BY <1>1
    <2>2. D \in Nat /\ d \in Nat /\ DueUpTo(sch, j) = D + d /\ DueBefore(sch, line[j]) = D
      BY <1>1, <1>3, <2>1
    <2>3. f[line[j]] = Larger(Smaller(P + a, D + d) - Larger(P, D), 0)
      BY <2>1, <2>2 DEF Overlap, S, P, a
    <2>4. v[j] = Covered(P, a, DueUpTo(sch, j)) /\ v[j - 1] = Covered(P, a, D) BY <2>1
    <2> HIDE DEF D, d, v
    <2>5. /\ Covered(P, a, D) \in Nat
          /\ Covered(P, a, D + d) = Covered(P, a, D) + Larger(Smaller(P + a, D + d) - Larger(P, D), 0)
      <3>1. P \in Nat /\ a \in Nat /\ D \in Nat /\ d \in Nat BY <1>2, <1>3, <2>2
      <3>2. Covered(P, a, D) \in Nat BY <3>1, CoveredPart
      <3>3. Covered(P, a, D + d) = Covered(P, a, D) + Larger(Smaller(P + a, D + d) - Larger(P, D), 0)
        BY <3>1 DEF Smaller, Larger, Covered
      <3> QED BY <3>2, <3>3
    <2>6. Larger(Smaller(P + a, D + d) - Larger(P, D), 0) \in Nat
      BY <1>2, <1>3, <2>2 DEF Larger, Smaller
    <2> QED BY <2>2, <2>3, <2>4, <2>5, <2>6
  <1>5. v[0] = 0
    <2>1. v[0] = Covered(P, a, 0) BY <1>1
    <2> QED BY <1>2, <1>3, <2>1, CoveredNone
  <1>6. \A s \in S : f[s] \in Nat
    <2>1. \A s \in S : \E j \in 1..m : line[j] = s BY SchedulesInLine DEF S, m, line
    <2> HIDE DEF v
    <2> QED BY <1>4, <2>1
  <1>7. IsFiniteSet(S) /\ StrictOrder(S, R) /\ line = InOrder(S, R) /\ m = Cardinality(S)
    BY OrdersAreStrict DEF Given, S, line, m, ScheduleLine, Count
  <1>8. v[m] <= a
    <2>1. m \in 0..m /\ DueUpTo(sch, m) \in Nat BY <1>1
    <2> QED BY <1>2, <1>3, <2>1, CoveredPart
  <1> HIDE DEF v, R
  <1>9. SumFunctionOnSet(f, S) = v[m] BY <1>4, <1>5, <1>6, <1>7, SumAlong
  <1> QED BY <1>6, <1>8, <1>9 DEF S, a

\* All that is paid for instalments is all the money, or all that they amount to.
LEMMA PaidForAll ==
    ASSUME NEW sch, NEW pay, Given(sch, pay), NEW T \in Nat,
           NEW f, \A s \in DOMAIN sch : f[s] = Covered(DueBefore(sch, s), sch[s].amount, T)
    PROVE  SumFunctionOnSet(f, DOMAIN sch) = Smaller(Total(sch), T)
  <1> DEFINE S == DOMAIN sch
             R == ScheduleOrder(sch)
             line == ScheduleLine(sch)
             n == Count(sch)
             v == [j \in 0..n |-> Smaller(DueUpTo(sch, j), T)]
  <1>1. /\ n \in Nat /\ line \in [1..n -> S]
        /\ DueUpTo(sch, 0) = 0 /\ \A j \in 0..n : DueUpTo(sch, j) \in Nat
        /\ \A j \in 1..n : /\ DueUpTo(sch, j) = DueUpTo(sch, j - 1) + sch[line[j]].amount
                           /\ DueBefore(sch, line[j]) = DueUpTo(sch, j - 1)
    BY SchedulesInLine
  <1>2. \A s \in S : sch[s].amount \in Nat BY DEF Given
  <1> HIDE DEF n, line, S
  <1>3. ASSUME NEW j \in 1..n
        PROVE  v[j - 1] \in Int /\ v[j] = v[j - 1] + f[line[j]] /\ f[line[j]] \in Nat
    <2> DEFINE D == DueUpTo(sch, j - 1)
               d == sch[line[j]].amount
    <2>1. j \in 0..n /\ j - 1 \in 0..n /\ line[j] \in S BY <1>1
    <2>2. D \in Nat /\ d \in Nat /\ DueUpTo(sch, j) = D + d /\ DueBefore(sch, line[j]) = D
      BY <1>1, <1>2, <2>1
    <2>3. f[line[j]] = Covered(D, d, T) BY <2>1, <2>2 DEF S
    <2>4. v[j] = Smaller(DueUpTo(sch, j), T) /\ v[j - 1] = Smaller(D, T) BY <2>1
    <2> HIDE DEF D, d, v
    <2>5. Covered(D, d, T) \in Nat /\ Smaller(D + d, T) = Smaller(D, T) + Covered(D, d, T)
      BY <2>2, CoveredPart
    <2>6. Smaller(D, T) \in Int BY <2>2 DEF Smaller
    <2> QED BY <2>2, <2>3, <2>4, <2>5, <2>6
  <1>4. v[0] = 0
    <2>1. v[0] = Smaller(0, T) BY <1>1
    <2> QED BY <2>1 DEF Smaller
  <1>5. \A s \in S : f[s] \in Nat
    <2>1. \A s \in S : \E j \in 1..n : line[j] = s BY SchedulesInLine DEF S, n, line
    <2> HIDE DEF v
    <2> QED BY <1>3, <2>1
  <1>6. IsFiniteSet(S) /\ StrictOrder(S, R) /\ line = InOrder(S, R) /\ n = Cardinality(S)
    BY OrdersAreStrict DEF Given, S, line, n, ScheduleLine, Count
  <1>7. v[n] = Smaller(Total(sch), T)
    <2>1. n \in 0..n BY <1>1
    <2>2. DueUpTo(sch, n) = Total(sch) BY Totals DEF n
    <2> QED BY <2>1, <2>2
  <1> HIDE DEF v, R
  <1>8. SumFunctionOnSet(f, S) = v[n] BY <1>3, <1>4, <1>5, <1>6, SumAlong
  <1> QED BY <1>7, <1>8 DEF S

\* Before an instalment there is at least what is due before and for any earlier one, and all
\* instalments together are at least that.
LEMMA DueLater ==
    ASSUME NEW sch, NEW pay, Given(sch, pay), NEW s \in DOMAIN sch
    PROVE  /\ DueBefore(sch, s) + sch[s].amount <= Total(sch)
           /\ \A t \in DOMAIN sch : ScheduleBefore(sch, s, t) =>
                DueBefore(sch, s) + sch[s].amount <= DueBefore(sch, t)
  <1> DEFINE S == DOMAIN sch
             f == AmountsOf(sch)
             Earlier(t) == {x \in S : ScheduleBefore(sch, x, t)}
             upTo == Earlier(s) \cup {s}
  <1>1. StrictOrder(S, ScheduleOrder(sch)) /\ IsFiniteSet(S) BY OrdersAreStrict DEF Given
  <1>2. \A x \in S : f[x] = sch[x].amount /\ f[x] \in Nat BY DEF AmountsOf, Given
  <1>3. s \notin Earlier(s) BY <1>1 DEF StrictOrder, ScheduleOrder
  <1>4. IsFiniteSet(Earlier(s)) /\ upTo \subseteq S BY <1>1, FS_Subset
  <1>5. \A t \in S : DueBefore(sch, t) = SumFunctionOnSet(f, Earlier(t)) BY DEF DueBefore
  <1>6. \A t \in S : ScheduleBefore(sch, s, t) => upTo \subseteq Earlier(t)
    <2> SUFFICES ASSUME NEW t \in S, ScheduleBefore(sch, s, t), NEW x \in Earlier(s)
                 PROVE  ScheduleBefore(sch, x, t)
      OBVIOUS
    <2> QED BY <1>1 DEF StrictOrder, ScheduleOrder
  <1> HIDE DEF f
  <1>7. SumFunctionOnSet(f, upTo) = SumFunctionOnSet(f, Earlier(s)) + f[s]
    <2>1. \A x \in upTo : f[x] \in Int BY <1>2, <1>4
    <2> HIDE DEF Earlier
    <2> QED BY <1>3, <1>4, <2>1, SumAdd
  <1> HIDE DEF upTo, Earlier
  <1>8. ASSUME NEW U \in SUBSET S, upTo \subseteq U
        PROVE  SumFunctionOnSet(f, upTo) <= SumFunctionOnSet(f, U)
    <2>1. IsFiniteSet(U) /\ \A x \in U : f[x] \in Nat BY <1>1, <1>2, FS_Subset
    <2>2. \A x \in upTo : f[x] \in Int /\ f[x] <= f[x] BY <1>8, <2>1
    <2> QED BY <1>8, <2>1, <2>2, SumAtMost
  <1>9. \A t \in S : Earlier(t) \subseteq S BY DEF Earlier
  <1>10. DueBefore(sch, s) + sch[s].amount = SumFunctionOnSet(f, upTo) BY <1>2, <1>5, <1>7
  <1>11. Total(sch) = SumFunctionOnSet(f, S) BY DEF Total, f
  <1> QED BY <1>4, <1>5, <1>6, <1>8, <1>9, <1>10, <1>11

-----------------------------------------------------------------------------
(* Helpers *)

\* A payment put in leaves the payments of other contracts alone.
LEMMA PaymentsOfPut ==
  ASSUME NEW pay, NEW p, NEW row, NEW c,
         row.contract # c,
         p \in DOMAIN pay => pay[p].contract # c
  PROVE  PaymentsOf(Put(pay, p, row), c) = PaymentsOf(pay, c)
<1> DEFINE new == Put(pay, p, row)
           S == {q \in DOMAIN new : new[q].contract = c}
           T == {q \in DOMAIN pay : pay[q].contract = c}
<1>1. DOMAIN new = DOMAIN pay \cup {p} /\ new[p] = row
  BY DEF Put
<1>2. \A q \in DOMAIN pay : q # p => new[q] = pay[q]
  BY DEF Put
<1>3. S = T
  BY <1>1, <1>2
<1>4. \A q \in T : new[q] = pay[q]
  BY <1>2
<1>5. [q \in S |-> new[q]] = [q \in T |-> pay[q]]
  <2> HIDE DEF new, S, T
  <2> QED BY <1>3, <1>4
<1> QED BY <1>5 DEF PaymentsOf, Restrict

\* A payment taken out leaves the payments of other contracts alone.
LEMMA PaymentsOfDrop ==
  ASSUME NEW pay, NEW p, NEW c,
         p \in DOMAIN pay => pay[p].contract # c
  PROVE  PaymentsOf(Drop(pay, p), c) = PaymentsOf(pay, c)
<1> DEFINE new == Drop(pay, p)
           S == {q \in DOMAIN new : new[q].contract = c}
           T == {q \in DOMAIN pay : pay[q].contract = c}
<1>1. DOMAIN new = DOMAIN pay \ {p} /\ \A q \in DOMAIN new : new[q] = pay[q]
  BY DEF Drop, Restrict
<1>2. S = T
  BY <1>1
<1>3. [q \in S |-> new[q]] = [q \in T |-> pay[q]]
  <2>1. \A q \in T : new[q] = pay[q]
    BY <1>1, <1>2
  <2> HIDE DEF new, S, T
  <2> QED BY <1>2, <2>1
<1> QED BY <1>3 DEF PaymentsOf, Restrict

\* The rows of a plan are dates and amounts, by sequence number.
LEMMA PlanRows ==
  ASSUME NEW l \in Lease
  PROVE  \A s \in DOMAIN Plan[l] : Plan[l][s] \in ScheduleRows
<1>1. l \in [start : Int, end : Int, rent : Nat, halves : BOOLEAN]
  BY LedgerConstants
<1>2. l.start \in Int /\ l.end \in Int /\ l.rent \in Nat
  BY <1>1
<1>3. Plan[l] = BuildRentSchedule(l)
  BY DEF Plan
<1>4. \A y, m \in Int : DaysInMonth(y, m) \in Int
  BY DEF DaysInMonth
<1>5. \A d, n \in Int : AddLeaseMonths(d, n) \in Int
  <2> SUFFICES ASSUME NEW d \in Int, NEW n \in Int PROVE AddLeaseMonths(d, n) \in Int
    OBVIOUS
  <2> DEFINE index == MonthIndex(d) + n
             y == index \div 12
             m == (index % 12) + 1
             day == DayIn(y, m, Day(d))
  <2>1. index \in Int
    BY DEF MonthIndex, Year, Month
  <2>2. y \in Int /\ m \in Int
    <3> HIDE DEF index
    <3> QED BY <2>1
  <2>3. day \in Int
    <3>1. Day(d) \in Int
      BY DEF Day
    <3> HIDE DEF y, m
    <3> QED BY <2>2, <1>4, <3>1 DEF DayIn
  <2>4. y * 10000 + m * 100 + day \in Int
    <3> HIDE DEF y, m, day
    <3> QED BY <2>2, <2>3
  <2> QED BY <2>4 DEF AddLeaseMonths, Date
<1>6. \A d \in Int : PreviousIsoDate(d) \in Int
  <2> SUFFICES ASSUME NEW d \in Int PROVE PreviousIsoDate(d) \in Int
    OBVIOUS
  <2>1. Year(d) \in Int /\ Month(d) \in Int /\ Day(d) \in Int
    BY DEF Year, Month, Day
  <2>2. DaysInMonth(Year(d), Month(d) - 1) \in Int
    BY <2>1, <1>4
  <2> QED BY <2>1, <2>2 DEF PreviousIsoDate, Date
<1>7. Indices(l) \subseteq Int
  BY DEF Indices
<1>8. ASSUME NEW i \in Int
      PROVE  /\ PeriodStart(l, i) \in Int
             /\ PeriodEnd(l, i) \in Int
             /\ Instalment(l, i) \in Nat
  <2>1. i * IntervalMonths(l) \in Int /\ (i + 1) * IntervalMonths(l) \in Int
    BY DEF IntervalMonths
  <2>2. PeriodStart(l, i) \in Int /\ PeriodStart(l, i + 1) \in Int
    BY <2>1, <1>2, <1>5 DEF PeriodStart
  <2>3. PeriodEnd(l, i) \in Int
    BY <2>2, <1>2, <1>6 DEF PeriodEnd
  <2>4. Instalment(l, i) \in Nat
    BY <1>2 DEF Instalment
  <2> QED BY <2>2, <2>3, <2>4
<1>9. ASSUME NEW s \in DOMAIN BuildRentSchedule(l)
      PROVE  BuildRentSchedule(l)[s] \in ScheduleRows
  <2>1. s \in {i + 1 : i \in Indices(l)}
    BY DEF BuildRentSchedule
  <2>2. s - 1 \in Int
    BY <2>1, <1>7
  <2>3. BuildRentSchedule(l)[s] = [start  |-> PeriodStart(l, s - 1),
                                   end    |-> PeriodEnd(l, s - 1),
                                   due    |-> PeriodStart(l, s - 1),
                                   amount |-> Instalment(l, s - 1)]
    BY <2>1 DEF BuildRentSchedule
  <2> QED BY <2>2, <2>3, <1>8 DEF ScheduleRows
<1> QED BY <1>3, <1>9

-----------------------------------------------------------------------------
(* Types *)

\* A rebuild leaves every contract with allocations, its own or none.
LEMMA RebuiltDomain ==
  ASSUME NEW contracts, NEW sch, NEW pay
  PROVE  DOMAIN Rebuilt(contracts, sch, pay) = Contract
BY DEF Rebuilt

\* A contract that no one created has no allocations, as long as rebuilds are of
\* contracts that were.
LEMMA RebuiltElsewhere ==
  ASSUME NEW contracts, NEW sch, NEW pay, NEW c \in Contract \ contracts
  PROVE  Rebuilt(contracts, sch, pay)[c] = allocations[c]
BY DEF Rebuilt

\* A rebuilt contract has what the loop gives over its rows.
LEMMA RebuiltHere ==
  ASSUME NEW contracts, NEW sch, NEW pay, NEW c \in Contract \cap contracts
  PROVE  Rebuilt(contracts, sch, pay)[c] = Allocate(sch[c], PaymentsOf(pay, c))
BY DEF Rebuilt

LEMMA TypesInitially == Init => TypeOK
BY DEF Init, TypeOK

LEMMA CreateContractTypes ==
  ASSUME TypeOK, NEW c \in Contract, NEW l \in Lease, CreateContract(c, l)
  PROVE  TypeOK'
<1> USE DEF CreateContract
<1>1. DOMAIN lease' = DOMAIN lease \cup {c} /\ lease'[c] = l
      /\ \A d \in DOMAIN lease : d # c => lease'[d] = lease[d]
  BY DEF Put
<1>2. /\ DOMAIN schedules' = Contract
      /\ schedules'[c] = Plan[l]
      /\ \A d \in Contract : d # c => schedules'[d] = schedules[d]
  BY DEF TypeOK
<1>3. /\ DOMAIN allocations' = Contract
      /\ \A d \in Contract : d # c => allocations'[d] = allocations[d]
  BY RebuiltDomain, RebuiltElsewhere
<1>4. \A d \in DOMAIN lease' : \A s \in DOMAIN schedules'[d] : schedules'[d][s] \in ScheduleRows
  <2> SUFFICES ASSUME NEW d \in DOMAIN lease', NEW s \in DOMAIN schedules'[d]
               PROVE  schedules'[d][s] \in ScheduleRows
    OBVIOUS
  <2>1. CASE d = c
    BY <2>1, <1>2, PlanRows
  <2>2. CASE d # c
    BY <2>2, <1>1, <1>2 DEF TypeOK
  <2> QED BY <2>1, <2>2
<1>5. /\ DOMAIN lease' \subseteq Contract
      /\ \A d \in DOMAIN lease' : lease'[d] \in Lease
      /\ removed' \subseteq DOMAIN lease'
      /\ \A d \in Contract \ DOMAIN lease' : DOMAIN schedules'[d] = {} /\ allocations'[d] = {}
  <2>1. \A d \in Contract \ DOMAIN lease' : d # c /\ d \in Contract \ DOMAIN lease
    BY <1>1
  <2>2. \A d \in Contract \ DOMAIN lease' : schedules'[d] = schedules[d] /\ allocations'[d] = allocations[d]
    BY <1>2, <1>3, <2>1
  <2>3. \A d \in Contract \ DOMAIN lease' : DOMAIN schedules'[d] = {} /\ allocations'[d] = {}
    BY <2>1, <2>2 DEF TypeOK
  <2>4. DOMAIN lease' \subseteq Contract /\ (\A d \in DOMAIN lease' : lease'[d] \in Lease)
        /\ removed' \subseteq DOMAIN lease'
    BY <1>1 DEF TypeOK
  <2> QED BY <2>3, <2>4
<1>6. \A p \in DOMAIN payments' : payments'[p] \in PaymentRows /\ payments'[p].contract \in DOMAIN lease'
  BY <1>1 DEF TypeOK
<1> QED BY <1>2, <1>3, <1>4, <1>5, <1>6 DEF TypeOK

\* The rows of a lease after a sync are of their types.
LEMMA SyncedRows ==
  ASSUME NEW l \in Lease, NEW sch, NEW protected \in SUBSET DOMAIN sch,
         \A s \in DOMAIN sch : sch[s] \in ScheduleRows
  PROVE  \A s \in DOMAIN Synced(Plan[l], sch, protected) :
           Synced(Plan[l], sch, protected)[s] \in ScheduleRows
BY PlanRows DEF Synced

LEMMA UpdateContractTypes ==
  ASSUME TypeOK, NEW c \in Contract, NEW l \in Lease, NEW day, UpdateContract(c, l, day)
  PROVE  TypeOK'
<1> DEFINE protected == Protected(schedules[c], allocations[c], day)
<1>1. c \in DOMAIN lease
  BY DEF UpdateContract, Live
<1>2. /\ DOMAIN lease' = DOMAIN lease /\ lease'[c] = l
      /\ \A d \in DOMAIN lease : d # c => lease'[d] = lease[d]
  BY <1>1 DEF UpdateContract
<1>3. /\ DOMAIN schedules' = Contract
      /\ schedules'[c] = Synced(Plan[l], schedules[c], protected)
      /\ \A d \in Contract : d # c => schedules'[d] = schedules[d]
  BY DEF UpdateContract, TypeOK
<1>4. /\ DOMAIN allocations' = Contract
      /\ \A d \in Contract : d # c => allocations'[d] = allocations[d]
  BY RebuiltDomain, RebuiltElsewhere DEF UpdateContract
<1>5. \A d \in DOMAIN lease' : \A s \in DOMAIN schedules'[d] : schedules'[d][s] \in ScheduleRows
  <2> SUFFICES ASSUME NEW d \in DOMAIN lease', NEW s \in DOMAIN schedules'[d]
               PROVE  schedules'[d][s] \in ScheduleRows
    OBVIOUS
  <2>1. CASE d = c
    <3>1. protected \in SUBSET DOMAIN schedules[c]
      BY DEF Protected
    <3>2. \A t \in DOMAIN schedules[c] : schedules[c][t] \in ScheduleRows
      BY <1>1 DEF TypeOK
    <3> HIDE DEF protected
    <3> QED BY <2>1, <1>3, <3>1, <3>2, SyncedRows
  <2>2. CASE d # c
    BY <2>2, <1>2, <1>3 DEF TypeOK
  <2> QED BY <2>1, <2>2
<1>6. UNCHANGED <<today, removed, payments, used>>
  BY DEF UpdateContract
<1> QED BY <1>1, <1>2, <1>3, <1>4, <1>5, <1>6 DEF TypeOK

LEMMA EditScheduleTypes ==
  ASSUME TypeOK, NEW c \in Contract, NEW s, NEW day,
         NEW due \in Dates \cup {Unsent}, NEW amount \in Amounts \cup {Unsent},
         EditSchedule(c, s, due, amount, day)
  PROVE  TypeOK'
<1> DEFINE new == Edited(schedules[c][s], due, amount)
<1>1. c \in DOMAIN lease /\ s \in DOMAIN schedules[c]
  BY DEF EditSchedule, Live
<1>2. schedules[c][s] \in [start : Int, end : Int, due : Int, amount : Nat]
  BY <1>1 DEF TypeOK, ScheduleRows
<1>3. (due # Unsent => due \in Int) /\ (amount # Unsent => amount \in Nat)
  BY LedgerConstants
<1>4. new \in ScheduleRows
  BY <1>2, <1>3 DEF Edited, ScheduleRows
<1>5. /\ DOMAIN schedules' = Contract
      /\ schedules'[c] = [schedules[c] EXCEPT ![s] = new]
      /\ \A d \in Contract : d # c => schedules'[d] = schedules[d]
  BY DEF EditSchedule, TypeOK
<1>6. /\ DOMAIN allocations' = Contract
      /\ \A d \in Contract : d # c => allocations'[d] = allocations[d]
  BY RebuiltDomain, RebuiltElsewhere DEF EditSchedule
<1>7. \A d \in DOMAIN lease : \A t \in DOMAIN schedules'[d] : schedules'[d][t] \in ScheduleRows
  <2> HIDE DEF new
  <2> SUFFICES ASSUME NEW d \in DOMAIN lease, NEW t \in DOMAIN schedules'[d]
               PROVE  schedules'[d][t] \in ScheduleRows
    OBVIOUS
  <2>1. CASE d = c /\ t = s
    BY <2>1, <1>1, <1>4, <1>5
  <2>2. CASE d = c /\ t # s
    BY <2>2, <1>1, <1>5 DEF TypeOK
  <2>3. CASE d # c
    BY <2>3, <1>5 DEF TypeOK
  <2> QED BY <2>1, <2>2, <2>3
<1>8. UNCHANGED <<today, lease, removed, payments, used>>
  BY DEF EditSchedule
<1> QED BY <1>1, <1>5, <1>6, <1>7, <1>8 DEF TypeOK

LEMMA PaymentTypes ==
  ASSUME TypeOK, NEW p \in Payment, NEW row \in PaymentRows,
         CreatePayment(p, row) \/ UpdatePayment(p, row) \/ RemovePayment(p)
  PROVE  TypeOK'
<1>1. UNCHANGED <<today, lease, removed, schedules>>
  BY DEF CreatePayment, UpdatePayment, RemovePayment
<1>2. CASE CreatePayment(p, row)
  <2>1. DOMAIN payments' = DOMAIN payments \cup {p} /\ used' = used \cup {p}
        /\ payments'[p] = row /\ \A q \in DOMAIN payments : q # p => payments'[q] = payments[q]
    BY <1>2 DEF CreatePayment, Put
  <2>2. row.contract \in DOMAIN lease
    BY <1>2 DEF CreatePayment, Live
  <2>3. /\ DOMAIN allocations' = Contract
        /\ \A d \in Contract : d # row.contract => allocations'[d] = allocations[d]
    BY <1>2, RebuiltDomain, RebuiltElsewhere DEF CreatePayment
  <2>4. \A d \in Contract \ DOMAIN lease' : DOMAIN schedules'[d] = {} /\ allocations'[d] = {}
    BY <1>1, <2>2, <2>3 DEF TypeOK
  <2> QED BY <1>1, <2>1, <2>2, <2>3, <2>4 DEF TypeOK
<1>3. CASE UpdatePayment(p, row)
  <2>1. DOMAIN payments' = DOMAIN payments \cup {p} /\ used' = used
        /\ payments'[p] = row /\ \A q \in DOMAIN payments : q # p => payments'[q] = payments[q]
    BY <1>3 DEF UpdatePayment, Put
  <2>2. p \in DOMAIN payments /\ row.contract \in DOMAIN lease
        /\ payments[p].contract \in DOMAIN lease
    BY <1>3 DEF UpdatePayment, Live
  <2>3. /\ DOMAIN allocations' = Contract
        /\ \A d \in Contract \ Affected(p, row) : allocations'[d] = allocations[d]
    BY <1>3, RebuiltDomain, RebuiltElsewhere DEF UpdatePayment
  <2>4. \A d \in Contract \ DOMAIN lease' : DOMAIN schedules'[d] = {} /\ allocations'[d] = {}
    BY <1>1, <2>2, <2>3 DEF TypeOK, Affected
  <2> QED BY <1>1, <2>1, <2>2, <2>3, <2>4 DEF TypeOK
<1>4. CASE RemovePayment(p)
  <2>1. DOMAIN payments' = DOMAIN payments \ {p} /\ used' = used
        /\ \A q \in DOMAIN payments' : payments'[q] = payments[q]
    BY <1>4 DEF RemovePayment, Drop, Restrict
  <2>2. payments[p].contract \in DOMAIN lease
    BY <1>4 DEF RemovePayment, Live
  <2>3. /\ DOMAIN allocations' = Contract
        /\ \A d \in Contract : d # payments[p].contract => allocations'[d] = allocations[d]
    BY <1>4, RebuiltDomain, RebuiltElsewhere DEF RemovePayment
  <2>4. \A d \in Contract \ DOMAIN lease' : DOMAIN schedules'[d] = {} /\ allocations'[d] = {}
    BY <1>1, <2>2, <2>3 DEF TypeOK
  <2> QED BY <1>1, <2>1, <2>2, <2>3, <2>4 DEF TypeOK
<1> QED BY <1>2, <1>3, <1>4

\* Every step keeps the types: the requests one by one.
LEMMA TypesKept == TypeOK /\ [Next]_vars => TypeOK'
<1> SUFFICES ASSUME TypeOK, [Next]_vars PROVE TypeOK'
  OBVIOUS
<1>1. ASSUME NEW c \in Contract, NEW l \in Lease, CreateContract(c, l) PROVE TypeOK'
  BY <1>1, CreateContractTypes
<1>2. ASSUME NEW c \in Contract, NEW l \in Lease, NEW day \in AsOf, UpdateContract(c, l, day)
      PROVE  TypeOK'
  BY <1>2, UpdateContractTypes
<1>3. ASSUME NEW c \in Contract, RemoveContract(c) PROVE TypeOK'
  BY <1>3 DEF RemoveContract, Live, TypeOK
<1>4. ASSUME NEW c \in Contract, NEW s \in DOMAIN schedules[c], NEW day \in AsOf,
             NEW due \in Dates \cup {Unsent}, NEW amount \in Amounts \cup {Unsent},
             EditSchedule(c, s, due, amount, day)
      PROVE  TypeOK'
  BY <1>4, EditScheduleTypes
<1>5. ASSUME NEW p \in Payment, NEW row \in PaymentRows,
             CreatePayment(p, row) \/ UpdatePayment(p, row)
      PROVE  TypeOK'
  BY <1>5, PaymentTypes
<1>6. ASSUME NEW p \in Payment, RemovePayment(p) PROVE TypeOK'
  <2>1. PICK row \in PaymentRows : TRUE
    BY <1>6 DEF RemovePayment, TypeOK
  <2> QED BY <1>6, <2>1, PaymentTypes
<1>7. CASE Tomorrow
  <2>1. today' \in Days
    BY <1>7 DEF Tomorrow
  <2>2. UNCHANGED <<lease, removed, schedules, payments, used, allocations>>
    BY <1>7 DEF Tomorrow
  <2> QED BY <2>1, <2>2 DEF TypeOK
<1>8. CASE UNCHANGED vars
  BY <1>8 DEF vars, TypeOK
<1> QED BY <1>1, <1>2, <1>3, <1>4, <1>5, <1>6, <1>7, <1>8 DEF Next

(***************************************************************************)
(* The rows of the ledger have their types, and no payment or allocation   *)
(* belongs to a contract that was never created, after any requests.       *)
(***************************************************************************)
THEOREM LedgerTypes == Spec => []TypeOK
BY TypesInitially, TypesKept, PTL DEF Spec

-----------------------------------------------------------------------------
(* Allocations *)

\* A request keeps the allocations right if it rebuilds every contract whose
\* instalments or payments it changes.
LEMMA RebuildSuffices ==
  ASSUME AllocationsFollowRows, NEW contracts,
         DOMAIN lease' \subseteq Contract,
         allocations' = Rebuilt(contracts, schedules', payments'),
         \A c \in DOMAIN lease' \ contracts :
           /\ c \in DOMAIN lease
           /\ schedules'[c] = schedules[c]
           /\ PaymentsOf(payments', c) = PaymentsOf(payments, c)
  PROVE  AllocationsFollowRows'
<1> SUFFICES ASSUME NEW c \in DOMAIN lease'
             PROVE  allocations'[c] = Allocate(schedules'[c], PaymentsOf(payments', c))
  BY DEF AllocationsFollowRows
<1>1. CASE c \in contracts
  BY <1>1, RebuiltHere
<1>2. CASE c \notin contracts
  <2>1. allocations'[c] = allocations[c]
    BY <1>2, RebuiltElsewhere
  <2>2. allocations[c] = Allocate(schedules[c], PaymentsOf(payments, c))
    BY <1>2 DEF AllocationsFollowRows
  <2> QED BY <1>2, <2>1, <2>2
<1> QED BY <1>1, <1>2

\* Every request rebuilds the contracts it touches.
LEMMA AllocationsKept ==
  TypeOK /\ AllocationsFollowRows /\ [Next]_vars => AllocationsFollowRows'
<1> SUFFICES ASSUME TypeOK, AllocationsFollowRows, [Next]_vars PROVE AllocationsFollowRows'
  OBVIOUS
<1>t. DOMAIN lease' \subseteq Contract
  BY TypesKept DEF TypeOK
<1>d. DOMAIN schedules = Contract
  BY DEF TypeOK
<1>1. ASSUME NEW c \in Contract, NEW l \in Lease, CreateContract(c, l)
      PROVE  AllocationsFollowRows'
  <2>1. \A d \in DOMAIN lease' \ {c} :
          /\ d \in DOMAIN lease
          /\ schedules'[d] = schedules[d]
          /\ PaymentsOf(payments', d) = PaymentsOf(payments, d)
    BY <1>1, <1>t, <1>d DEF CreateContract, Put
  <2>2. allocations' = Rebuilt({c}, schedules', payments')
    BY <1>1 DEF CreateContract
  <2> QED BY <1>t, <2>1, <2>2, RebuildSuffices
<1>2. ASSUME NEW c \in Contract, NEW l \in Lease, NEW day \in AsOf, UpdateContract(c, l, day)
      PROVE  AllocationsFollowRows'
  <2>1. \A d \in DOMAIN lease' \ {c} :
          /\ d \in DOMAIN lease
          /\ schedules'[d] = schedules[d]
          /\ PaymentsOf(payments', d) = PaymentsOf(payments, d)
    BY <1>2, <1>t, <1>d DEF UpdateContract
  <2>2. allocations' = Rebuilt({c}, schedules', payments')
    BY <1>2 DEF UpdateContract
  <2> QED BY <1>t, <2>1, <2>2, RebuildSuffices
<1>3. ASSUME NEW c \in Contract, RemoveContract(c) PROVE AllocationsFollowRows'
  BY <1>3 DEF RemoveContract, AllocationsFollowRows
<1>4. ASSUME NEW c \in Contract, NEW s, NEW day, NEW due, NEW amount,
             EditSchedule(c, s, due, amount, day)
      PROVE  AllocationsFollowRows'
  <2>1. \A d \in DOMAIN lease' \ {c} :
          /\ d \in DOMAIN lease
          /\ schedules'[d] = schedules[d]
          /\ PaymentsOf(payments', d) = PaymentsOf(payments, d)
    BY <1>4, <1>t, <1>d DEF EditSchedule
  <2>2. allocations' = Rebuilt({c}, schedules', payments')
    BY <1>4 DEF EditSchedule
  <2> QED BY <1>t, <2>1, <2>2, RebuildSuffices
<1>5. ASSUME NEW p \in Payment, NEW row \in PaymentRows, CreatePayment(p, row)
      PROVE  AllocationsFollowRows'
  <2>1. p \notin DOMAIN payments
    BY <1>5 DEF CreatePayment, TypeOK
  <2>2. payments' = Put(payments, p, row) /\ UNCHANGED <<lease, schedules>>
    BY <1>5 DEF CreatePayment
  <2>3. \A d : d # row.contract => PaymentsOf(Put(payments, p, row), d) = PaymentsOf(payments, d)
    BY <2>1, PaymentsOfPut
  <2>4. allocations' = Rebuilt({row.contract}, schedules', payments')
    BY <1>5 DEF CreatePayment
  <2> QED BY <1>t, <2>2, <2>3, <2>4, RebuildSuffices
<1>6. ASSUME NEW p \in Payment, NEW row \in PaymentRows, UpdatePayment(p, row)
      PROVE  AllocationsFollowRows'
  <2>1. payments' = Put(payments, p, row) /\ UNCHANGED <<lease, schedules>>
    BY <1>6 DEF UpdatePayment
  <2>2. \A d : d \notin Affected(p, row) =>
          PaymentsOf(Put(payments, p, row), d) = PaymentsOf(payments, d)
    BY PaymentsOfPut DEF Affected
  <2>3. allocations' = Rebuilt(Affected(p, row), schedules', payments')
    BY <1>6 DEF UpdatePayment
  <2> QED BY <1>t, <2>1, <2>2, <2>3, RebuildSuffices
<1>7. ASSUME NEW p \in Payment, RemovePayment(p) PROVE AllocationsFollowRows'
  <2>1. payments' = Drop(payments, p) /\ UNCHANGED <<lease, schedules>>
    BY <1>7 DEF RemovePayment
  <2>2. \A d : d # payments[p].contract =>
          PaymentsOf(Drop(payments, p), d) = PaymentsOf(payments, d)
    BY PaymentsOfDrop
  <2>3. allocations' = Rebuilt({payments[p].contract}, schedules', payments')
    BY <1>7 DEF RemovePayment
  <2> QED BY <1>t, <2>1, <2>2, <2>3, RebuildSuffices
<1>8. CASE Tomorrow
  BY <1>8 DEF Tomorrow, AllocationsFollowRows
<1>9. CASE UNCHANGED vars
  BY <1>9 DEF vars, AllocationsFollowRows
<1> QED BY <1>1, <1>2, <1>3, <1>4, <1>5, <1>6, <1>7, <1>8, <1>9 DEF Next

(***************************************************************************)
(* After any requests the allocations of every contract are those that     *)
(* rebuildPaymentAllocations would compute from its rows.                  *)
(***************************************************************************)
THEOREM AllocationsAlwaysFollowRows == Spec => []AllocationsFollowRows
<1>1. Init => AllocationsFollowRows
  BY DEF Init, AllocationsFollowRows
<1> QED BY <1>1, AllocationsKept, LedgerTypes, PTL DEF Spec

-----------------------------------------------------------------------------
(* Instalments *)

\* Every request leaves the rows the periods of the lease.
LEMMA PeriodsKept == TypeOK /\ PeriodsFollowLease /\ [Next]_vars => PeriodsFollowLease'
<1> SUFFICES ASSUME TypeOK, PeriodsFollowLease, [Next]_vars PROVE PeriodsFollowLease'
  OBVIOUS
<1> DEFINE Follows(sch, l) ==
      /\ DOMAIN sch = DOMAIN Plan[l]
      /\ \A s \in DOMAIN Plan[l] : sch[s].start = Plan[l][s].start /\ sch[s].end = Plan[l][s].end
<1>h. \A d \in DOMAIN lease : Follows(schedules[d], lease[d])
  BY DEF PeriodsFollowLease
<1>g. (\A d \in DOMAIN lease' : Follows(schedules'[d], lease'[d])) => PeriodsFollowLease'
  BY DEF PeriodsFollowLease
<1>d. DOMAIN schedules = Contract /\ DOMAIN lease \subseteq Contract
  BY DEF TypeOK
<1>1. ASSUME NEW c \in Contract, NEW l \in Lease, CreateContract(c, l)
      PROVE  PeriodsFollowLease'
  <2>1. /\ DOMAIN lease' = DOMAIN lease \cup {c} /\ lease'[c] = l
        /\ schedules'[c] = Plan[l]
        /\ \A d \in DOMAIN lease : d # c => lease'[d] = lease[d] /\ schedules'[d] = schedules[d]
    BY <1>1, <1>d DEF CreateContract, Put
  <2>2. Follows(schedules'[c], lease'[c])
    BY <2>1
  <2>3. \A d \in DOMAIN lease : d # c => Follows(schedules'[d], lease'[d])
    BY <1>h, <2>1
  <2> QED BY <1>g, <2>1, <2>2, <2>3
<1>2. ASSUME NEW c \in Contract, NEW l \in Lease, NEW day \in AsOf, UpdateContract(c, l, day)
      PROVE  PeriodsFollowLease'
  <2> DEFINE protected == Protected(schedules[c], allocations[c], day)
  <2>1. /\ c \in DOMAIN lease /\ DOMAIN lease' = DOMAIN lease /\ lease'[c] = l
        /\ schedules'[c] = Synced(Plan[l], schedules[c], protected)
        /\ SyncAccepted(Plan[l], schedules[c], protected)
        /\ \A d \in DOMAIN lease : d # c => lease'[d] = lease[d] /\ schedules'[d] = schedules[d]
    BY <1>2, <1>d DEF UpdateContract, Live
  <2>2. Follows(schedules'[c], lease'[c])
    <3> HIDE DEF protected
    <3> QED BY <2>1 DEF Synced, SyncAccepted
  <2>3. \A d \in DOMAIN lease : d # c => Follows(schedules'[d], lease'[d])
    BY <1>h, <2>1
  <2> QED BY <1>g, <2>1, <2>2, <2>3
<1>3. ASSUME NEW c \in Contract, NEW s, NEW day, NEW due, NEW amount,
             EditSchedule(c, s, due, amount, day)
      PROVE  PeriodsFollowLease'
  <2> DEFINE new == Edited(schedules[c][s], due, amount)
  <2>1. /\ c \in DOMAIN lease /\ lease' = lease /\ s \in DOMAIN schedules[c]
        /\ schedules'[c] = [schedules[c] EXCEPT ![s] = new]
        /\ \A d \in DOMAIN lease : d # c => schedules'[d] = schedules[d]
    BY <1>3, <1>d DEF EditSchedule, Live
  <2>2. new.start = schedules[c][s].start /\ new.end = schedules[c][s].end
    <3>1. schedules[c][s] \in [start : Int, end : Int, due : Int, amount : Nat]
      BY <2>1 DEF TypeOK, ScheduleRows
    <3> QED BY <3>1 DEF Edited
  <2>3. Follows(schedules'[c], lease'[c])
    <3> HIDE DEF new
    <3>1. Follows(schedules[c], lease[c])
      BY <1>h, <2>1
    <3> QED BY <2>1, <2>2, <3>1
  <2>4. \A d \in DOMAIN lease : d # c => Follows(schedules'[d], lease'[d])
    BY <1>h, <2>1
  <2> QED BY <1>g, <2>1, <2>3, <2>4
<1>4. CASE UNCHANGED <<lease, schedules>>
  BY <1>4 DEF PeriodsFollowLease
<1>5. CASE Next
  <2>1. ASSUME NEW c \in Contract, RemoveContract(c) PROVE UNCHANGED <<lease, schedules>>
    BY <2>1 DEF RemoveContract
  <2>2. ASSUME NEW p \in Payment, NEW row \in PaymentRows,
               CreatePayment(p, row) \/ UpdatePayment(p, row)
        PROVE  UNCHANGED <<lease, schedules>>
    BY <2>2 DEF CreatePayment, UpdatePayment
  <2>3. ASSUME NEW p \in Payment, RemovePayment(p) PROVE UNCHANGED <<lease, schedules>>
    BY <2>3 DEF RemovePayment
  <2>4. ASSUME Tomorrow PROVE UNCHANGED <<lease, schedules>>
    BY <2>4 DEF Tomorrow
  <2> QED BY <1>5, <1>1, <1>2, <1>3, <1>4, <2>1, <2>2, <2>3, <2>4 DEF Next
<1> QED BY <1>4, <1>5 DEF vars

(***************************************************************************)
(* The instalments of a contract are always those of its lease, period by  *)
(* period, whatever was edited, paid, kept or replaced before.             *)
(***************************************************************************)
THEOREM PeriodsAlwaysFollowLease == Spec => []PeriodsFollowLease
<1>1. Init => PeriodsFollowLease
  BY DEF Init, PeriodsFollowLease
<1> QED BY <1>1, PeriodsKept, LedgerTypes, PTL DEF Spec

(***************************************************************************)
(* No request changes or drops an instalment that was due before the last  *)
(* midnight or has a payment allocated.                                    *)
(***************************************************************************)
THEOREM ClosedRowsAlwaysKept == Spec => ClosedRowsKept
<1> DEFINE Closed(c, s) == \/ \A d \in AsOf : schedules[c][s].due <= d
                           \/ Allocated(allocations[c], s) > 0
           Kept == \A c \in DOMAIN lease : \A s \in DOMAIN schedules[c] :
                     Closed(c, s) => s \in DOMAIN schedules'[c] /\ schedules'[c][s] = schedules[c][s]
<1>1. ASSUME TypeOK, Next PROVE Kept
  <2>d. DOMAIN schedules = Contract /\ DOMAIN lease \subseteq Contract
    BY <1>1 DEF TypeOK
  <2>1. ASSUME NEW c \in Contract, NEW l \in Lease, CreateContract(c, l) PROVE Kept
    BY <2>1, <2>d DEF CreateContract
  <2>2. ASSUME NEW c \in Contract, NEW l \in Lease, NEW day \in AsOf, UpdateContract(c, l, day)
        PROVE  Kept
    <3> DEFINE protected == Protected(schedules[c], allocations[c], day)
    <3>1. /\ schedules'[c] = Synced(Plan[l], schedules[c], protected)
          /\ SyncAccepted(Plan[l], schedules[c], protected)
          /\ \A d \in Contract : d # c => schedules'[d] = schedules[d]
      BY <2>2, <2>d DEF UpdateContract
    <3>2. \A s \in DOMAIN schedules[c] : Closed(c, s) => s \in protected
      BY DEF Protected
    <3>3. \A s \in protected : s \in DOMAIN schedules'[c] /\ schedules'[c][s] = schedules[c][s]
      <4> HIDE DEF protected
      <4> QED BY <3>1 DEF Synced, SyncAccepted
    <3> HIDE DEF protected, Closed
    <3> QED BY <3>1, <3>2, <3>3, <2>d
  <2>3. ASSUME NEW c \in Contract, NEW s \in DOMAIN schedules[c], NEW day \in AsOf,
               NEW due, NEW amount, EditSchedule(c, s, due, amount, day)
        PROVE  Kept
    <3> DEFINE new == Edited(schedules[c][s], due, amount)
    <3>1. /\ c \in DOMAIN lease
          /\ schedules'[c] = [schedules[c] EXCEPT ![s] = new]
          /\ \A d \in Contract : d # c => schedules'[d] = schedules[d]
      BY <2>3, <2>d DEF EditSchedule, Live
    <3>2. ~Closed(c, s)
      <4>1. schedules[c][s].due \in Int /\ day \in Int
        BY <1>1, <3>1, LedgerConstants DEF TypeOK, ScheduleRows, AsOf
      <4>2. schedules[c][s].due > day /\ Allocated(allocations[c], s) = 0
        BY <2>3 DEF EditSchedule
      <4> QED BY <4>1, <4>2
    <3> HIDE DEF new, Closed
    <3> QED BY <3>1, <3>2, <2>d
  <2>4. CASE UNCHANGED schedules
    BY <2>4
  <2>5. ASSUME NEW c \in Contract, RemoveContract(c) PROVE Kept
    BY <2>4, <2>5 DEF RemoveContract
  <2>6. ASSUME NEW p \in Payment, NEW row \in PaymentRows,
               CreatePayment(p, row) \/ UpdatePayment(p, row)
        PROVE  Kept
    BY <2>4, <2>6 DEF CreatePayment, UpdatePayment
  <2>7. ASSUME NEW p \in Payment, RemovePayment(p) PROVE Kept
    BY <2>4, <2>7 DEF RemovePayment
  <2>8. ASSUME Tomorrow PROVE Kept
    BY <2>4, <2>8 DEF Tomorrow
  <2> HIDE DEF Kept
  <2> QED BY <1>1, <2>1, <2>2, <2>3, <2>5, <2>6, <2>7, <2>8 DEF Next
<1>2. TypeOK /\ [Next]_vars => [Kept]_vars
  BY <1>1
<1>3. ClosedRowsKept <=> [][Kept]_vars
  BY PTL DEF ClosedRowsKept
<1> QED BY <1>2, <1>3, LedgerTypes, PTL DEF Spec

-----------------------------------------------------------------------------
(* What the allocations are *)

\* A lease has finitely many instalments.
LEMMA PlanFinite ==
  ASSUME NEW l \in Lease
  PROVE  IsFiniteSet(DOMAIN Plan[l]) /\ DOMAIN Plan[l] \subseteq Int
<1> DEFINE last == (MonthIndex(l.end) - MonthIndex(l.start)) \div IntervalMonths(l)
<1>1. l.start \in Int /\ l.end \in Int
  BY LedgerConstants
<1>2. MonthIndex(l.start) \in Int /\ MonthIndex(l.end) \in Int
  BY <1>1 DEF MonthIndex, Year, Month
<1>3. last \in Int
  BY <1>2 DEF IntervalMonths
<1>4. DOMAIN Plan[l] = {i + 1 : i \in Indices(l)} /\ Indices(l) \subseteq 0 .. last
  BY DEF Plan, BuildRentSchedule, Indices
<1> HIDE DEF last
<1>5. DOMAIN Plan[l] \subseteq 1 .. (last + 1)
  BY <1>3, <1>4
<1>6. IsFiniteSet(1 .. (last + 1))
  BY <1>3, FS_Interval
<1>7. DOMAIN Plan[l] \subseteq Int
  BY <1>4
<1> QED BY <1>5, <1>6, <1>7, FS_Subset

FinitelyPaid == IsFiniteSet(DOMAIN payments)

\* Requests create payments one at a time.
LEMMA PaymentsFiniteKept ==
  FinitelyPaid /\ [Next]_vars => FinitelyPaid'
<1> SUFFICES ASSUME IsFiniteSet(DOMAIN payments), [Next]_vars PROVE IsFiniteSet(DOMAIN payments')
  BY DEF FinitelyPaid
<1>1. ASSUME NEW p \in Payment, NEW row \in PaymentRows, CreatePayment(p, row) \/ UpdatePayment(p, row)
      PROVE  IsFiniteSet(DOMAIN payments')
  <2>1. DOMAIN payments' = DOMAIN payments \cup {p}
    BY <1>1 DEF CreatePayment, UpdatePayment, Put
  <2> QED BY <2>1, FS_AddElement
<1>2. ASSUME NEW p \in Payment, RemovePayment(p) PROVE IsFiniteSet(DOMAIN payments')
  <2>1. DOMAIN payments' \subseteq DOMAIN payments
    BY <1>2 DEF RemovePayment, Drop, Restrict
  <2> QED BY <2>1, FS_Subset
<1>3. CASE UNCHANGED payments
  BY <1>3
<1> QED BY <1>1, <1>2, <1>3 DEF Next, vars, CreateContract, UpdateContract, RemoveContract, EditSchedule, Tomorrow

\* The rows of a contract are such that AllocatesByPrefixSums tells what is allocated.
LEMMA RowsAreGiven ==
  ASSUME TypeOK, PeriodsFollowLease, FinitelyPaid, NEW c \in DOMAIN lease
  PROVE  Given(schedules[c], PaymentsOf(payments, c))
<1> DEFINE sch == schedules[c]
           pay == PaymentsOf(payments, c)
<1>1. IsFiniteSet(DOMAIN sch) /\ DOMAIN sch \subseteq Int
  BY PlanFinite DEF TypeOK, PeriodsFollowLease
<1>2. \A s \in DOMAIN sch : sch[s].due \in Int /\ sch[s].amount \in Nat
  BY DEF TypeOK, ScheduleRows
<1>3. DOMAIN pay \subseteq DOMAIN payments /\ \A p \in DOMAIN pay : pay[p] = payments[p]
  BY DEF PaymentsOf, Restrict
<1>4. IsFiniteSet(DOMAIN pay) /\ DOMAIN pay \subseteq Int
  BY <1>3, FS_Subset, LedgerConstants DEF TypeOK, FinitelyPaid
<1>5. \A p \in DOMAIN pay : pay[p].date \in Int /\ pay[p].amount \in Nat
  BY <1>3, LedgerConstants DEF TypeOK, PaymentRows
<1> HIDE DEF sch, pay
<1>6. Given(sch, pay)
  BY <1>1, <1>2, <1>4, <1>5 DEF Given
<1> QED BY <1>6 DEF sch, pay

\* What the loop gives over rows of such types is what the prefix sums give.
LEMMA FollowingRowsIsFifo ==
  TypeOK /\ PeriodsFollowLease /\ AllocationsFollowRows /\ FinitelyPaid
    => AllocationsAreFifo
<1> SUFFICES ASSUME TypeOK, PeriodsFollowLease, AllocationsFollowRows, FinitelyPaid,
                    NEW c \in Contract
             PROVE  allocations[c] = PrefixSums(schedules[c], PaymentsOf(payments, c))
  BY DEF AllocationsAreFifo
<1>1. CASE c \in DOMAIN lease
  <2>1. allocations[c] = Allocate(schedules[c], PaymentsOf(payments, c))
    BY <1>1 DEF AllocationsFollowRows
  <2> QED BY <1>1, <2>1, RowsAreGiven, AllocatesByPrefixSums
<1>2. CASE c \notin DOMAIN lease
  <2> DEFINE pay == PaymentsOf(payments, c)
             overlaps == [x \in (DOMAIN pay) \X (DOMAIN schedules[c]) |->
                            Larger(Overlap(schedules[c], pay, x[1], x[2]), 0)]
  <2>1. DOMAIN schedules[c] = {} /\ allocations[c] = {}
    BY <1>2 DEF TypeOK
  <2>2. DOMAIN overlaps = {}
    BY <2>1
  <2> HIDE DEF overlaps
  <2>3. Rows(overlaps) = {}
    BY <2>2 DEF Rows
  <2> QED BY <2>1, <2>3 DEF PrefixSums, overlaps
<1> QED BY <1>1, <1>2

(***************************************************************************)
(* After any requests the allocations of every contract are those of a     *)
(* first-in-first-out settlement of its instalments and payments: the      *)
(* loops of allocateRentPayments are proved equal to the prefix sums of    *)
(* migration 1712600000000, and no request leaves allocations of earlier   *)
(* rows.                                                                   *)
(***************************************************************************)
THEOREM AllocationsAlwaysFifo == Spec => []AllocationsAreFifo
<1>1. Init => FinitelyPaid
  BY FS_EmptySet DEF Init, FinitelyPaid
<1>2. Spec => []FinitelyPaid
  BY <1>1, PaymentsFiniteKept, PTL DEF Spec
<1> QED BY <1>2, FollowingRowsIsFifo, LedgerTypes, PeriodsAlwaysFollowLease, AllocationsAlwaysFollowRows, PTL

-----------------------------------------------------------------------------
(* What is shown *)

Whole == TypeOK /\ PeriodsFollowLease /\ AllocationsFollowRows /\ FinitelyPaid

\* The allocations of an instalment add up to the part of it that the money covers.
LEMMA AllocatedIs ==
  ASSUME NEW sch, NEW pay, Given(sch, pay), NEW s \in DOMAIN sch
  PROVE  Allocated(PrefixSums(sch, pay), s) = Covered(DueBefore(sch, s), sch[s].amount, Total(pay))
<1> DEFINE S == DOMAIN pay
           amounts == [x \in S \X (DOMAIN sch) |-> Larger(Overlap(sch, pay, x[1], x[2]), 0)]
           rows == PrefixSums(sch, pay)
           T == {x \in rows : x.sequence = s}
           e == [r \in T |-> r.amount]
           f == [p \in S |-> Larger(Overlap(sch, pay, p, s), 0)]
           h == [r \in T |-> r.payment]
<1>1. IsFiniteSet(S)
  BY DEF Given
<1>2. \A p \in S : f[p] \in Nat
  <2> SUFFICES ASSUME NEW p \in S PROVE Larger(Overlap(sch, pay, p, s), 0) \in Nat
    OBVIOUS
  <2>1. DueBefore(sch, s) \in Nat
    <3>1. \A q \in S : f[q] = Larger(Overlap(sch, pay, q, s), 0)
      OBVIOUS
    <3> HIDE DEF f
    <3> QED BY <3>1, PaidFor
  <2>2. PaidBefore(pay, p) \in Nat
    <3>1. PICK i \in 1 .. Count(pay) : PaymentLine(pay)[i] = p
      BY PaymentsInLine
    <3>2. Count(pay) \in Nat /\ PaidBefore(pay, p) = PaidUpTo(pay, i - 1)
      BY <3>1, PaymentsInLine
    <3>3. i - 1 \in 0 .. Count(pay)
      BY <3>2
    <3> QED BY <3>2, <3>3, PaymentsInLine
  <2>3. pay[p].amount \in Nat /\ sch[s].amount \in Nat
    BY DEF Given
  <2>4. Overlap(sch, pay, p, s) \in Int
    BY <2>1, <2>2, <2>3 DEF Overlap, Smaller, Larger
  <2> QED BY <2>4 DEF Larger
<1>3. rows = {[payment |-> x[1], sequence |-> x[2], amount |-> amounts[x]] :
                x \in {y \in DOMAIN amounts : amounts[y] > 0}}
  BY DEF PrefixSums, Rows
<1>4. \A p \in S : amounts[<<p, s>>] = f[p]
  OBVIOUS
<1>5. \A p \in S : f[p] > 0 => [payment |-> p, sequence |-> s, amount |-> f[p]] \in T
  <2> SUFFICES ASSUME NEW p \in S, f[p] > 0
               PROVE  [payment |-> p, sequence |-> s, amount |-> f[p]] \in T
    OBVIOUS
  <2>1. <<p, s>> \in DOMAIN amounts /\ amounts[<<p, s>>] > 0
    BY <1>4
  <2> HIDE DEF amounts, f
  <2>2. [payment |-> <<p, s>>[1], sequence |-> <<p, s>>[2], amount |-> amounts[<<p, s>>]] \in rows
    BY <1>3, <2>1
  <2> QED BY <1>4, <2>2
<1>6. \A r \in T : r.payment \in S /\ r = [payment |-> r.payment, sequence |-> s, amount |-> f[r.payment]]
  <2> SUFFICES ASSUME NEW r \in T
               PROVE  r.payment \in S /\ r = [payment |-> r.payment, sequence |-> s, amount |-> f[r.payment]]
    OBVIOUS
  <2>1. PICK x \in DOMAIN amounts : r = [payment |-> x[1], sequence |-> x[2], amount |-> amounts[x]]
    BY <1>3
  <2>2. x[1] \in S /\ x = <<x[1], s>>
    BY <2>1
  <2> HIDE DEF amounts, f
  <2> QED BY <1>4, <2>1, <2>2
<1> HIDE DEF f, T, amounts, S, rows
<1>7. h \in [T -> S] /\ (\A x, z \in T : h[x] = h[z] => x = z)
  BY <1>6
<1>8. IsFiniteSet(T)
  <2>1. h \in Injection(T, S)
    BY <1>7 DEF Injection, IsInjective
  <2> QED BY <1>1, <2>1, FS_Injection
<1>9. \A r \in T : e[r] = f[h[r]]
  BY <1>6
<1>10. \A p \in S : f[p] = 0 \/ \E r \in T : h[r] = p
  <2> SUFFICES ASSUME NEW p \in S, f[p] # 0 PROVE \E r \in T : h[r] = p
    OBVIOUS
  <2>1. f[p] > 0
    BY <1>2
  <2>2. [payment |-> p, sequence |-> s, amount |-> f[p]] \in T
    BY <1>5, <2>1
  <2> QED BY <2>2
<1> HIDE DEF h, e
<1>11. SumFunctionOnSet(e, T) = SumFunctionOnSet(f, S)
  BY <1>1, <1>2, <1>7, <1>8, <1>9, <1>10, SumCarried
<1>12. Allocated(rows, s) = SumFunctionOnSet(e, T)
  <2>1. DOMAIN e = T
    BY DEF e
  <2> QED BY <2>1 DEF Allocated, SumFunction, e, T
<1>13. SumFunctionOnSet(f, S) = Covered(DueBefore(sch, s), sch[s].amount, Total(pay))
  BY PaidFor DEF f, S
<1> QED BY <1>11, <1>12, <1>13 DEF rows

\* What is paid for an instalment, by all the money of its contract.
LEMMA PaidIs ==
  ASSUME Whole, NEW c \in DOMAIN lease
  PROVE  /\ Given(schedules[c], PaymentsOf(payments, c))
         /\ \A s \in DOMAIN schedules[c] :
              /\ Allocated(allocations[c], s)
                   = Covered(DueBefore(schedules[c], s), schedules[c][s].amount,
                             Total(PaymentsOf(payments, c)))
              /\ Allocated(allocations[c], s) \in Nat
              /\ Allocated(allocations[c], s) <= schedules[c][s].amount
              /\ schedules[c][s].amount \in Nat /\ DueBefore(schedules[c], s) \in Nat
         /\ Total(PaymentsOf(payments, c)) \in Nat
<1> DEFINE sch == schedules[c]
           pay == PaymentsOf(payments, c)
<1>1. Given(sch, pay)
  BY RowsAreGiven DEF Whole
<1>2. allocations[c] = PrefixSums(sch, pay)
  BY FollowingRowsIsFifo DEF Whole, AllocationsAreFifo, TypeOK
<1> HIDE DEF sch, pay
<1>3. Total(pay) \in Nat
  BY <1>1, Totals
<1>4. ASSUME NEW s \in DOMAIN sch
      PROVE  /\ Allocated(allocations[c], s) = Covered(DueBefore(sch, s), sch[s].amount, Total(pay))
             /\ Allocated(allocations[c], s) \in Nat
             /\ Allocated(allocations[c], s) <= sch[s].amount
             /\ sch[s].amount \in Nat /\ DueBefore(sch, s) \in Nat
  <2>1. Allocated(allocations[c], s) = Covered(DueBefore(sch, s), sch[s].amount, Total(pay))
    BY <1>1, <1>2, AllocatedIs
  <2>2. sch[s].amount \in Nat
    BY <1>1 DEF Given
  <2>3. DueBefore(sch, s) \in Nat
    <3> DEFINE f == [p \in DOMAIN pay |-> Larger(Overlap(sch, pay, p, s), 0)]
    <3>1. \A p \in DOMAIN pay : f[p] = Larger(Overlap(sch, pay, p, s), 0)
      OBVIOUS
    <3> HIDE DEF f
    <3> QED BY <1>1, <3>1, PaidFor
  <2> QED BY <1>3, <2>1, <2>2, <2>3, CoveredPart
<1> QED BY <1>1, <1>3, <1>4 DEF sch, pay

\* The figures of a contract's summary, as sums over its instalments: of
\* amount for what is due, of paid for what was paid.
Shown(c, due, amount, paid) ==
  /\ due = {s \in DOMAIN schedules[c] : schedules[c][s].due <= today}
  /\ \A s \in DOMAIN schedules[c] :
       amount[s] = schedules[c][s].amount /\ paid[s] = Allocated(allocations[c], s)

SummarySums(c, due, amount, paid) ==
  LET S == DOMAIN schedules[c]
      R == SumFunctionOnSet(amount, due)
      D == SumFunctionOnSet(paid, due)
  IN  /\ Summary(c).dueReceivable = R
      /\ Summary(c).duePaid = D
      /\ Summary(c).outstanding = Larger(R - D, 0)
      /\ Summary(c).prepaid = SumFunctionOnSet(paid, S \ due)
      /\ Summary(c).unallocated
           = Larger(Total(PaymentsOf(payments, c)) - SumFunctionOnSet(paid, S), 0)

\* A sum over a function is the sum over what its values stand for.
LEMMA SumIs ==
  ASSUME NEW e, NEW U, IsFiniteSet(U), DOMAIN e = U,
         NEW f, \A x \in U : e[x] = f[x], \A x \in U : f[x] \in Nat
  PROVE  SumFunction(e) = SumFunctionOnSet(f, U)
<1>1. U \in SUBSET U /\ (\A x \in U : f[x] \in Int) /\ (\A x \in U \ U : f[x] = 0)
  OBVIOUS
<1>2. SumFunctionOnSet(e, U) = SumFunctionOnSet(f, U)
  BY <1>1, SumAgrees
<1> QED BY <1>2 DEF SumFunction

\* What the summary's sums run over.
LEMMA ShownIs ==
  ASSUME Whole, NEW c \in DOMAIN lease, NEW due, NEW amount, NEW paid, Shown(c, due, amount, paid)
  PROVE  /\ IsFiniteSet(DOMAIN schedules[c]) /\ due \in SUBSET DOMAIN schedules[c]
         /\ IsFiniteSet(due) /\ IsFiniteSet(DOMAIN schedules[c] \ due)
         /\ \A s \in DOMAIN schedules[c] :
              amount[s] \in Nat /\ paid[s] \in Nat /\ paid[s] <= amount[s]
<1>1. IsFiniteSet(DOMAIN schedules[c])
  BY PaidIs DEF Given
<1>2. due \in SUBSET DOMAIN schedules[c]
  BY DEF Shown
<1>3. IsFiniteSet(due) /\ IsFiniteSet(DOMAIN schedules[c] \ due)
  BY <1>1, <1>2, FS_Subset
<1>4. \A s \in DOMAIN schedules[c] :
        amount[s] \in Nat /\ paid[s] \in Nat /\ paid[s] <= amount[s]
  BY PaidIs DEF Shown
<1> QED BY <1>1, <1>2, <1>3, <1>4

\* A summary is such sums, and its max(_, 0) hides nothing.
LEMMA SummaryIs ==
  ASSUME Whole, NEW c \in DOMAIN lease, NEW due, NEW amount, NEW paid, Shown(c, due, amount, paid)
  PROVE  SummarySums(c, due, amount, paid)
<1> DEFINE S == DOMAIN schedules[c]
           U == S \ due
           owed == [s \in due |-> schedules[c][s].amount]
           met == [s \in due |-> Smaller(schedules[c][s].amount, Allocated(allocations[c], s))]
           ahead == [s \in U |-> Allocated(allocations[c], s)]
           all == [s \in S |-> Allocated(allocations[c], s)]
           received == SumFunction(AmountsOf(PaymentsOf(payments, c)))
<1>1. /\ IsFiniteSet(S) /\ due \in SUBSET S /\ IsFiniteSet(due) /\ IsFiniteSet(U)
      /\ \A s \in S : amount[s] \in Nat /\ paid[s] \in Nat /\ paid[s] <= amount[s]
  BY ShownIs
<1>2. \A s \in S : amount[s] = schedules[c][s].amount /\ paid[s] = Allocated(allocations[c], s)
  BY DEF Shown
<1>3. Summary(c) = [dueReceivable |-> SumFunction(owed), duePaid |-> SumFunction(met),
                    outstanding |-> Larger(SumFunction(owed) - SumFunction(met), 0),
                    prepaid |-> SumFunction(ahead),
                    unallocated |-> Larger(received - SumFunction(all), 0)]
  BY DEF Summary, Shown
<1>4. received = Total(PaymentsOf(payments, c))
  BY DEF SumFunction, Total, AmountsOf
<1>5. DOMAIN owed = due /\ DOMAIN met = due /\ DOMAIN ahead = U /\ DOMAIN all = S
  OBVIOUS
<1>6. \A s \in due : owed[s] = amount[s]
  BY <1>1, <1>2
<1>7. \A s \in due : met[s] = paid[s]
  <2> SUFFICES ASSUME NEW s \in due PROVE met[s] = paid[s]
    OBVIOUS
  <2>1. s \in S
    BY <1>1
  <2>2. met[s] = Smaller(amount[s], paid[s])
    BY <1>2, <2>1
  <2>3. amount[s] \in Nat /\ paid[s] \in Nat /\ paid[s] <= amount[s]
    BY <1>1, <2>1
  <2> QED BY <2>2, <2>3 DEF Smaller
<1>8. (\A s \in U : ahead[s] = paid[s]) /\ (\A s \in S : all[s] = paid[s])
  BY <1>2
<1>9. /\ \A s \in due : amount[s] \in Nat /\ paid[s] \in Nat
      /\ \A s \in U : paid[s] \in Nat
      /\ \A s \in S : paid[s] \in Nat
  BY <1>1
<1> HIDE DEF owed, met, ahead, all, received, U, S
<1>10. SumFunction(owed) = SumFunctionOnSet(amount, due)
  BY <1>1, <1>5, <1>6, <1>9, SumIs
<1>11. SumFunction(met) = SumFunctionOnSet(paid, due)
  BY <1>1, <1>5, <1>7, <1>9, SumIs
<1>12. SumFunction(ahead) = SumFunctionOnSet(paid, U)
  BY <1>1, <1>5, <1>8, <1>9, SumIs
<1>13. SumFunction(all) = SumFunctionOnSet(paid, S)
  BY <1>1, <1>5, <1>8, <1>9, SumIs
<1> QED BY <1>3, <1>4, <1>10, <1>11, <1>12, <1>13 DEF SummarySums, U, S

\* Every cent is in one place of the summary.
LEMMA SummaryAddsUp ==
  ASSUME Whole, NEW c \in DOMAIN lease
  PROVE  /\ Total(PaymentsOf(payments, c))
              = Summary(c).duePaid + Summary(c).prepaid + Summary(c).unallocated
         /\ Summary(c).dueReceivable = Summary(c).duePaid + Summary(c).outstanding
         /\ Summary(c).outstanding > 0 => Summary(c).prepaid = 0 /\ Summary(c).unallocated = 0
<1> DEFINE sch == schedules[c]
           pay == PaymentsOf(payments, c)
<1>1. PICK S : S = DOMAIN sch
  OBVIOUS
<1>2. PICK due : due = {s \in S : sch[s].due <= today}
  OBVIOUS
<1>3. PICK amount : amount = [s \in S |-> sch[s].amount]
  OBVIOUS
<1>4. PICK paid : paid = [s \in S |-> Allocated(allocations[c], s)]
  OBVIOUS
<1>5. PICK T : T = Total(pay)
  OBVIOUS
<1> DEFINE R == SumFunctionOnSet(amount, due)
           D == SumFunctionOnSet(paid, due)
           P == SumFunctionOnSet(paid, S \ due)
           A == SumFunctionOnSet(paid, S)
<1>6. /\ IsFiniteSet(S) /\ due \subseteq S /\ T \in Nat
      /\ \A s \in S : amount[s] \in Nat /\ paid[s] \in Nat /\ paid[s] <= amount[s]
      /\ Summary(c).dueReceivable = R /\ Summary(c).duePaid = D
      /\ Summary(c).outstanding = Larger(R - D, 0)
      /\ Summary(c).prepaid = P
      /\ Summary(c).unallocated = Larger(T - A, 0)
  <2>1. Shown(c, due, amount, paid)
    BY <1>1, <1>2, <1>3, <1>4 DEF Shown
  <2>2. SummarySums(c, due, amount, paid)
    BY <2>1, SummaryIs
  <2>3. T \in Nat
    BY <1>5, PaidIs
  <2>4. /\ IsFiniteSet(S) /\ due \subseteq S
        /\ \A s \in S : amount[s] \in Nat /\ paid[s] \in Nat /\ paid[s] <= amount[s]
    BY <1>1, <2>1, ShownIs
  <2> QED BY <1>1, <1>5, <2>2, <2>3, <2>4 DEF SummarySums
<1>7. Given(sch, pay) /\ \A s \in S : paid[s] = Covered(DueBefore(sch, s), sch[s].amount, T)
  BY <1>1, <1>4, <1>5, PaidIs
<1>8. A = Smaller(Total(sch), T) /\ Total(sch) \in Nat
  BY <1>1, <1>6, <1>7, PaidForAll, Totals
<1>9. A = D + P
  BY <1>6, SumParts
<1>10. D \in Nat /\ P \in Nat /\ R \in Nat
  <2>1. IsFiniteSet(due) /\ IsFiniteSet(S \ due)
    BY <1>6, FS_Subset
  <2>2. \A s \in due : amount[s] \in Nat /\ paid[s] \in Nat
    BY <1>6
  <2>3. \A s \in S \ due : paid[s] \in Nat
    BY <1>6
  <2> QED BY <2>1, <2>2, <2>3, SumNat
<1>11. D <= R
  <2>1. IsFiniteSet(due) /\ \A s \in due : amount[s] \in Nat /\ paid[s] \in Int /\ paid[s] <= amount[s]
    BY <1>6, FS_Subset
  <2> QED BY <2>1, SumAtMost
<1>12. ASSUME R - D > 0 PROVE P = 0 /\ T <= A
  <2>1. PICK s \in due : paid[s] < amount[s]
    <3>1. SUFFICES ASSUME \A s \in due : ~ (paid[s] < amount[s]) PROVE FALSE
      OBVIOUS
    <3>2. \A s \in due : paid[s] = amount[s] /\ amount[s] \in Int
      BY <1>6, <3>1
    <3>3. IsFiniteSet(due)
      BY <1>6, FS_Subset
    <3>4. D = R
      BY <3>2, <3>3, SumAgrees
    <3> QED BY <1>10, <1>12, <3>4
  <2> DEFINE b == DueBefore(sch, s) + sch[s].amount
  <2>2. s \in S /\ sch[s].amount \in Nat /\ DueBefore(sch, s) \in Nat /\ amount[s] = sch[s].amount
    BY <1>1, <1>3, <1>6, PaidIs
  <2>3. T < b
    BY <1>6, <1>7, <2>1, <2>2, CoveredPart
  <2>4. T <= A
    <3>1. b <= Total(sch) /\ b \in Nat
      BY <1>1, <1>7, <2>2, DueLater
    <3> QED BY <1>6, <1>8, <2>3, <3>1 DEF Smaller
  <2>5. \A t \in S \ due : paid[t] = 0
    <3> SUFFICES ASSUME NEW t \in S \ due PROVE paid[t] = 0
      OBVIOUS
    <3>1. today \in Int /\ sch[s].due \in Int /\ sch[t].due \in Int
      BY <1>1, <1>7, <2>2, LedgerConstants DEF Given, Whole, TypeOK
    <3>2. ScheduleBefore(sch, s, t)
      BY <1>2, <2>1, <3>1 DEF ScheduleBefore
    <3>3. b <= DueBefore(sch, t) /\ b \in Nat
      BY <1>1, <1>7, <2>2, <3>2, DueLater
    <3>4. sch[t].amount \in Nat /\ DueBefore(sch, t) \in Nat
      BY <1>1, PaidIs
    <3>5. T <= DueBefore(sch, t)
      BY <1>6, <2>3, <3>3, <3>4
    <3>6. Covered(DueBefore(sch, t), sch[t].amount, T) = 0
      BY <1>6, <3>4, <3>5, CoveredPart
    <3> QED BY <1>7, <3>6
  <2>6. P = 0
    <3> DEFINE none == [x \in {} |-> 0]
    <3>1. IsFiniteSet(S \ due) /\ \A t \in S \ due : paid[t] \in Int
      BY <1>6, FS_Subset
    <3>2. {} \in SUBSET (S \ due) /\ \A x \in {} : none[x] = paid[x]
      OBVIOUS
    <3>3. SumFunctionOnSet(none, {}) = SumFunctionOnSet(paid, S \ due)
      <4> HIDE DEF none
      <4> QED BY <2>5, <3>1, <3>2, SumAgrees
    <3>4. SumFunctionOnSet(none, {}) = 0
      BY SumEmpty
    <3> QED BY <3>3, <3>4
  <2> QED BY <2>4, <2>6
<1> HIDE DEF R, D, P, A
<1>13. A <= T
  BY <1>6, <1>8 DEF Smaller
<1>14. T = D + P + Larger(T - A, 0)
  BY <1>6, <1>8, <1>9, <1>10, <1>13 DEF Larger
<1>15. R = D + Larger(R - D, 0)
  BY <1>10, <1>11 DEF Larger
<1>16. Larger(R - D, 0) > 0 => P = 0 /\ Larger(T - A, 0) = 0
  BY <1>6, <1>9, <1>10, <1>12 DEF Larger
<1> QED BY <1>5, <1>6, <1>14, <1>15, <1>16

-----------------------------------------------------------------------------
(* The views agree *)

\* No allocation is of a payment that is not in force, so that leaving those out changes nothing.
LEMMA ActiveIsAll ==
  ASSUME Whole, NEW c \in DOMAIN lease, NEW s
  PROVE  ActivePaid(c, s) = Allocated(allocations[c], s)
<1> DEFINE pay == PaymentsOf(payments, c)
           overlaps == [x \in (DOMAIN pay) \X (DOMAIN schedules[c]) |->
                          Larger(Overlap(schedules[c], pay, x[1], x[2]), 0)]
<1>1. allocations[c] = Rows(overlaps)
  BY FollowingRowsIsFifo DEF Whole, AllocationsAreFifo, TypeOK, PrefixSums
<1>2. DOMAIN pay \subseteq DOMAIN payments
  BY DEF PaymentsOf, Restrict
<1>3. \A x \in DOMAIN overlaps : x[1] \in DOMAIN payments
  BY <1>2
<1> HIDE DEF overlaps
<1>4. \A r \in allocations[c] : r.payment \in DOMAIN payments
  BY <1>1, <1>3 DEF Rows
<1>5. {r \in allocations[c] : r.payment \in DOMAIN payments} = allocations[c]
  BY <1>4
<1> QED BY <1>5 DEF ActivePaid

\* A row of the list, by what is due and what is paid, which is at most that.
LEMMA ListRowIs ==
  ASSUME Whole, NEW c \in DOMAIN lease, NEW due, NEW amount, NEW paid, Shown(c, due, amount, paid),
         NEW s \in DOMAIN schedules[c]
  PROVE  /\ ListRow(c, s).dueReceivable = IF s \in due THEN amount[s] ELSE 0
         /\ ListRow(c, s).duePaid = IF s \in due THEN paid[s] ELSE 0
         /\ ListRow(c, s).outstanding = IF s \in due THEN amount[s] - paid[s] ELSE 0
         /\ ListRow(c, s).prepaid = IF s \in due THEN 0 ELSE paid[s]
         /\ ListRow(c, s).status = PeriodStatus(schedules[c][s], ActivePaid(c, s))
<1> DEFINE row == schedules[c][s]
           p == Allocated(allocations[c], s)
           part == IF IsDue(row) THEN Smaller(p, row.amount) ELSE 0
           rest == IF IsDue(row) THEN Larger(row.amount - part, 0) ELSE 0
<1>1. row.amount = amount[s] /\ p = paid[s] /\ (IsDue(row) <=> s \in due)
  BY DEF Shown, IsDue
<1>2. amount[s] \in Nat /\ paid[s] \in Nat /\ paid[s] <= amount[s]
  BY ShownIs
<1>3. ListRow(c, s) = [dueReceivable |-> IF IsDue(row) THEN row.amount ELSE 0,
                       duePaid |-> part, outstanding |-> rest,
                       prepaid |-> IF IsDue(row) THEN 0 ELSE p,
                       status |-> IF ~IsDue(row) THEN PeriodStatus(row, p)
                                  ELSE IF rest = 0 THEN "settled" ELSE "overdue"]
  BY DEF ListRow
<1>4. part = IF s \in due THEN paid[s] ELSE 0
  BY <1>1, <1>2 DEF Smaller
<1>5. rest = IF s \in due THEN amount[s] - paid[s] ELSE 0
  BY <1>1, <1>2, <1>4 DEF Larger
<1>6. ActivePaid(c, s) = p
  BY ActiveIsAll
<1> HIDE DEF part, rest
<1>7. ListRow(c, s).status = PeriodStatus(row, p)
  <2>1. CASE ~IsDue(row)
    BY <1>3, <2>1
  <2>2. CASE IsDue(row)
    <3>1. ListRow(c, s).status = IF rest = 0 THEN "settled" ELSE "overdue"
      BY <1>3, <2>2
    <3>2. rest = amount[s] - paid[s]
      BY <1>1, <1>5, <2>2
    <3>3. rest = 0 <=> p >= row.amount
      BY <1>1, <1>2, <3>2
    <3>4. p < row.amount <=> ~ (p >= row.amount)
      BY <1>1, <1>2
    <3> HIDE DEF row, p
    <3>5. PeriodStatus(row, p) = IF rest = 0 THEN "settled" ELSE "overdue"
      BY <2>2, <3>3, <3>4 DEF PeriodStatus
    <3> QED BY <3>1, <3>5
  <2> QED BY <2>1, <2>2
<1> QED BY <1>1, <1>3, <1>4, <1>5, <1>6, <1>7

\* What is left of every instalment of a contract.
Unpaid(c, amount, paid, left) ==
  \A s \in DOMAIN schedules[c] : left[s] = amount[s] - paid[s]

SummaryFigures(c, due, amount, paid, left) ==
  /\ Summary(c).dueReceivable = SumFunctionOnSet(amount, due)
  /\ Summary(c).duePaid = SumFunctionOnSet(paid, due)
  /\ Summary(c).outstanding = SumFunctionOnSet(left, due)
  /\ Summary(c).prepaid = SumFunctionOnSet(paid, DOMAIN schedules[c] \ due)

\* The summary of a contract, as sums of what is due, paid and left of its instalments.
LEMMA SummaryParts ==
  ASSUME Whole, NEW c \in DOMAIN lease, NEW due, NEW amount, NEW paid, Shown(c, due, amount, paid),
         NEW left, Unpaid(c, amount, paid, left)
  PROVE  SummaryFigures(c, due, amount, paid, left)
<1> DEFINE U == DOMAIN schedules[c] \ due
           R == SumFunctionOnSet(amount, due)
           D == SumFunctionOnSet(paid, due)
           O == SumFunctionOnSet(left, due)
           P == SumFunctionOnSet(paid, U)
<1>1. /\ IsFiniteSet(due) /\ due \in SUBSET DOMAIN schedules[c] /\ IsFiniteSet(U)
      /\ \A s \in DOMAIN schedules[c] : amount[s] \in Nat /\ paid[s] \in Nat /\ paid[s] <= amount[s]
  BY ShownIs
<1>2. \A s \in due : /\ amount[s] \in Nat /\ paid[s] \in Nat /\ left[s] \in Nat
                     /\ amount[s] = paid[s] + left[s]
  BY <1>1 DEF Unpaid
<1>3. (\A s \in U : paid[s] \in Nat)
  BY <1>1
<1>4. SummarySums(c, due, amount, paid)
  BY SummaryIs
<1>5. R = D + O
  BY <1>1, <1>2, SumPlus
<1>6. R \in Nat /\ D \in Nat /\ O \in Nat /\ P \in Nat
  BY <1>1, <1>2, <1>3, SumNat
<1>7. /\ Summary(c).dueReceivable = R /\ Summary(c).duePaid = D /\ Summary(c).prepaid = P
      /\ Summary(c).outstanding = Larger(R - D, 0)
  BY <1>4 DEF SummarySums
<1> HIDE DEF R, D, O, P
<1>8. Summary(c).outstanding = O
  BY <1>5, <1>6, <1>7 DEF Larger
<1> QED BY <1>7, <1>8 DEF SummaryFigures, R, D, O, P, U

\* What the sums of a contract run over exists.
LEMMA ShownExists ==
  ASSUME NEW c
  PROVE  Shown(c, {s \in DOMAIN schedules[c] : schedules[c][s].due <= today},
                  [s \in DOMAIN schedules[c] |-> schedules[c][s].amount],
                  [s \in DOMAIN schedules[c] |-> Allocated(allocations[c], s)])
BY DEF Shown

\* The rows of the list add up to the summary of the contract.
LEMMA ListAddsUp ==
  ASSUME Whole, NEW c \in DOMAIN lease
  PROVE  \A field \in {"dueReceivable", "duePaid", "outstanding", "prepaid"} :
           Summary(c)[field] = SumFunction([s \in DOMAIN schedules[c] |-> ListRow(c, s)[field]])
<1>1. PICK S : S = DOMAIN schedules[c]
  OBVIOUS
<1>2. PICK due, amount, paid : Shown(c, due, amount, paid)
  BY ShownExists
<1>3. PICK left : left = [s \in S |-> amount[s] - paid[s]]
  OBVIOUS
<1>4. SummaryFigures(c, due, amount, paid, left)
  <2>1. Unpaid(c, amount, paid, left)
    BY <1>1, <1>3 DEF Unpaid
  <2> QED BY <1>1, <1>2, <2>1, SummaryParts
<1>5. /\ IsFiniteSet(S) /\ due \in SUBSET S /\ S \ due \in SUBSET S
      /\ \A s \in S : amount[s] \in Nat /\ paid[s] \in Nat /\ left[s] \in Nat
  <2>1. /\ IsFiniteSet(S) /\ due \in SUBSET S
        /\ \A s \in S : amount[s] \in Nat /\ paid[s] \in Nat /\ paid[s] <= amount[s]
    BY <1>1, <1>2, ShownIs
  <2> QED BY <1>3, <2>1
<1> DEFINE Row(field) == [s \in S |-> ListRow(c, s)[field]]
<1>6. \A field : DOMAIN Row(field) = S /\ \A s \in S : Row(field)[s] = ListRow(c, s)[field]
  OBVIOUS
<1>7. \A s \in S : /\ ListRow(c, s)["dueReceivable"] = IF s \in due THEN amount[s] ELSE 0
                   /\ ListRow(c, s)["duePaid"] = IF s \in due THEN paid[s] ELSE 0
                   /\ ListRow(c, s)["outstanding"] = IF s \in due THEN left[s] ELSE 0
                   /\ ListRow(c, s)["prepaid"] = IF s \in due THEN 0 ELSE paid[s]
  BY <1>1, <1>2, <1>3, ListRowIs
<1> HIDE DEF Row
<1>8. ASSUME NEW f, NEW U \in SUBSET S, NEW field,
             \A s \in S : f[s] \in Nat /\ ListRow(c, s)[field] = IF s \in U THEN f[s] ELSE 0
      PROVE  SumFunction(Row(field)) = SumFunctionOnSet(f, U)
  <2>1. \A s \in S : Row(field)[s] \in Int
    BY <1>6, <1>8
  <2>2. (\A s \in U : f[s] = Row(field)[s]) /\ \A s \in S \ U : Row(field)[s] = 0
    BY <1>6, <1>8
  <2>3. SumFunctionOnSet(f, U) = SumFunctionOnSet(Row(field), S)
    BY <1>5, <2>1, <2>2, SumAgrees
  <2> QED BY <1>6, <2>3 DEF SumFunction
<1>9. SumFunction(Row("dueReceivable")) = SumFunctionOnSet(amount, due)
  BY <1>5, <1>7, <1>8
<1>10. SumFunction(Row("duePaid")) = SumFunctionOnSet(paid, due)
  BY <1>5, <1>7, <1>8
<1>11. SumFunction(Row("outstanding")) = SumFunctionOnSet(left, due)
  BY <1>5, <1>7, <1>8
<1>12. SumFunction(Row("prepaid")) = SumFunctionOnSet(paid, S \ due)
  <2>1. \A s \in S : paid[s] \in Nat /\ ListRow(c, s)["prepaid"] = IF s \in S \ due THEN paid[s] ELSE 0
    BY <1>5, <1>7
  <2> QED BY <1>5, <1>8, <2>1
<1>13. \A field \in {"dueReceivable", "duePaid", "outstanding", "prepaid"} :
         Summary(c)[field] = SumFunction(Row(field))
  BY <1>1, <1>4, <1>9, <1>10, <1>11, <1>12 DEF SummaryFigures
<1> QED BY <1>1, <1>13 DEF Row

\* What the page of units adds up for a contract is what its summary says is outstanding.
LEMMA PageAddsUp ==
  ASSUME Whole, NEW c \in DOMAIN lease
  PROVE  SumFunction([s \in {t \in DOMAIN schedules[c] : IsDue(schedules[c][t])} |->
                        Larger(schedules[c][s].amount - Allocated(allocations[c], s), 0)])
           = Summary(c).outstanding
<1>1. PICK due : due = {s \in DOMAIN schedules[c] : schedules[c][s].due <= today}
  OBVIOUS
<1>2. PICK amount, paid : Shown(c, due, amount, paid)
  BY <1>1, ShownExists
<1>3. PICK left : left = [s \in DOMAIN schedules[c] |-> amount[s] - paid[s]]
  OBVIOUS
<1> DEFINE e == [s \in due |-> Larger(schedules[c][s].amount - Allocated(allocations[c], s), 0)]
<1>4. SummaryFigures(c, due, amount, paid, left)
  <2>1. Unpaid(c, amount, paid, left)
    BY <1>3 DEF Unpaid
  <2> QED BY <1>2, <2>1, SummaryParts
<1>5. /\ IsFiniteSet(due) /\ due \subseteq DOMAIN schedules[c]
      /\ \A s \in DOMAIN schedules[c] : amount[s] \in Nat /\ paid[s] \in Nat /\ paid[s] <= amount[s]
  BY <1>2, ShownIs
<1>6. \A s \in due : e[s] = left[s] /\ left[s] \in Nat
  <2> SUFFICES ASSUME NEW s \in due PROVE e[s] = left[s] /\ left[s] \in Nat
    OBVIOUS
  <2>1. s \in DOMAIN schedules[c]
    BY <1>5
  <2>2. e[s] = Larger(amount[s] - paid[s], 0)
    BY <1>2, <2>1 DEF Shown
  <2> QED BY <1>3, <1>5, <2>1, <2>2 DEF Larger
<1>7. DOMAIN e = due
  OBVIOUS
<1> HIDE DEF e
<1>8. SumFunction(e) = SumFunctionOnSet(left, due)
  BY <1>5, <1>6, <1>7, SumIs
<1>9. {t \in DOMAIN schedules[c] : IsDue(schedules[c][t])} = due
  BY <1>1 DEF IsDue
<1> QED BY <1>4, <1>8, <1>9 DEF SummaryFigures, e

\* What a tenant paid is what was paid for each of the contracts.
LEMMA ReceivedAddsUp ==
  ASSUME Whole, NEW S \in SUBSET DOMAIN lease, IsFiniteSet(S),
         NEW g, \A c \in S : g[c] = Total(PaymentsOf(payments, c))
  PROVE  SumFunction([p \in {q \in DOMAIN payments : payments[q].contract \in S} |->
                        payments[p].amount]) = SumFunctionOnSet(g, S)
<1>1. PICK I : I = [c \in S |-> DOMAIN PaymentsOf(payments, c)]
  OBVIOUS
<1>2. PICK F : F = [c \in S |-> AmountsOf(PaymentsOf(payments, c))]
  OBVIOUS
<1>3. PICK Q : Q = {q \in DOMAIN payments : payments[q].contract \in S}
  OBVIOUS
<1>4. PICK e : e = [p \in Q |-> payments[p].amount]
  OBVIOUS
<1>5. PICK N : N = Nested(S, I)
  OBVIOUS
<1>6. PICK f : f = [x \in N |-> payments[x[2]].amount]
  OBVIOUS
<1>7. PICK h : h = [p \in Q |-> <<payments[p].contract, p>>]
  OBVIOUS
<1>8. \A c \in S : I[c] = {q \in DOMAIN payments : payments[q].contract = c}
  BY <1>1 DEF PaymentsOf, Restrict
<1>9. \A p \in DOMAIN payments : payments[p].amount \in Nat
  BY LedgerConstants DEF Whole, TypeOK, PaymentRows
<1>10. \A c \in S : \A q \in I[c] : F[c][q] = payments[q].amount
  BY <1>1, <1>2 DEF AmountsOf, PaymentsOf, Restrict
<1>11. \A c \in S : \A q \in I[c] : <<c, q>> \in N
  BY <1>5 DEF Nested
<1>12. \A x \in N : \E c \in S : \E q \in I[c] : x = <<c, q>>
  BY <1>5 DEF Nested
<1>13. /\ \A c \in S : IsFiniteSet(I[c])
       /\ \A c \in S : \A q \in I[c] : F[c][q] \in Int
       /\ \A x \in N : f[x] = F[x[1]][x[2]]
       /\ \A c \in S : g[c] = SumFunctionOnSet(F[c], I[c])
  <2>1. ASSUME NEW c \in S PROVE IsFiniteSet(I[c])
    <3>1. I[c] \subseteq DOMAIN payments
      BY <1>8
    <3> QED BY <3>1, FS_Subset DEF Whole, FinitelyPaid
  <2>2. \A c \in S : \A q \in I[c] : F[c][q] \in Int
    BY <1>8, <1>9, <1>10
  <2>3. \A x \in N : f[x] = F[x[1]][x[2]]
    BY <1>6, <1>10, <1>12
  <2>4. \A c \in S : g[c] = SumFunctionOnSet(F[c], I[c])
    BY <1>1, <1>2 DEF Total
  <2> QED BY <2>1, <2>2, <2>3, <2>4
<1>14. IsFiniteSet(N) /\ SumFunctionOnSet(f, N) = SumFunctionOnSet(g, S)
  BY <1>5, <1>13, SumNested
<1>15. IsFiniteSet(Q)
  BY <1>3, FS_Subset DEF Whole, FinitelyPaid
<1>16. h \in [Q -> N] /\ (\A x, z \in Q : h[x] = h[z] => x = z)
  <2>1. \A p \in Q : p \in I[payments[p].contract] /\ payments[p].contract \in S
    BY <1>3, <1>8
  <2>2. \A p \in Q : <<payments[p].contract, p>> \in N
    BY <1>11, <2>1
  <2> QED BY <1>7, <2>2
<1>17. \A x \in N : f[x] \in Int /\ (f[x] = 0 \/ \E p \in Q : h[p] = x)
  <2> SUFFICES ASSUME NEW x \in N PROVE f[x] \in Int /\ \E p \in Q : h[p] = x
    OBVIOUS
  <2>1. PICK c \in S : \E q \in I[c] : x = <<c, q>>
    BY <1>12
  <2>2. PICK q \in I[c] : x = <<c, q>>
    BY <2>1
  <2>3. q \in Q /\ payments[q].contract = c
    BY <1>3, <1>8
  <2>4. h[q] = x
    BY <1>7, <2>2, <2>3
  <2>5. f[x] \in Int
    BY <1>13, <2>2
  <2> QED BY <2>3, <2>4, <2>5
<1>18. \A p \in Q : e[p] = f[h[p]]
  <2> SUFFICES ASSUME NEW p \in Q PROVE e[p] = f[h[p]]
    OBVIOUS
  <2>1. h[p] = <<payments[p].contract, p>> /\ h[p] \in N
    BY <1>7, <1>16
  <2>2. f[h[p]] = payments[h[p][2]].amount
    BY <1>6, <2>1
  <2> QED BY <1>4, <2>1, <2>2
<1>19. SumFunctionOnSet(e, Q) = SumFunctionOnSet(f, N)
  BY <1>14, <1>15, <1>16, <1>17, <1>18, SumCarried
<1>20. SumFunction(e) = SumFunctionOnSet(e, Q)
  BY <1>4 DEF SumFunction
<1> QED BY <1>3, <1>4, <1>14, <1>19, <1>20

\* The sums behind the tenant's figures: of amount for what is due, of paid for what was paid.
TenantSums(S, all, due, amount, paid) ==
  LET R == SumFunctionOnSet(amount, Nested(S, due))
      D == SumFunctionOnSet(paid, Nested(S, due))
      received == SumFunction([p \in {q \in DOMAIN payments : payments[q].contract \in S} |->
                                 payments[p].amount])
  IN  /\ TenantLedger(S).dueReceivable = R
      /\ TenantLedger(S).duePaid = D
      /\ TenantLedger(S).outstanding = Larger(R - D, 0)
      /\ TenantLedger(S).prepaid = SumFunctionOnSet(paid, Nested(S, [c \in S |-> all[c] \ due[c]]))
      /\ TenantLedger(S).unallocated
           = Larger(received - SumFunctionOnSet(paid, Nested(S, all)), 0)

\* The instalments of some contracts, and those due.
Instalments(S) == [c \in S |-> DOMAIN schedules[c]]
DueOf(S) == [c \in S |-> {s \in DOMAIN schedules[c] : schedules[c][s].due <= today}]

\* What is due and paid by contract and instalment.
AmountOf(S) == [c \in S |-> [s \in DOMAIN schedules[c] |-> schedules[c][s].amount]]
PaidOf(S) == [c \in S |-> [s \in DOMAIN schedules[c] |-> Allocated(allocations[c], s)]]

\* What a tenant owes and paid by instalment adds up by contract.
LEMMA TenantIs ==
  ASSUME Whole, NEW S \in SUBSET DOMAIN lease, IsFiniteSet(S),
         NEW amount, NEW paid,
         \A x \in Nested(S, Instalments(S)) : /\ amount[x] = AmountOf(S)[x[1]][x[2]]
                                               /\ paid[x] = PaidOf(S)[x[1]][x[2]]
  PROVE  /\ \A c \in S : /\ IsFiniteSet(Instalments(S)[c])
                         /\ \A s \in Instalments(S)[c] :
                              AmountOf(S)[c][s] \in Nat /\ PaidOf(S)[c][s] \in Nat
         /\ TenantSums(S, Instalments(S), DueOf(S), amount, paid)
<1>1. PICK all, due, ahead : /\ all = Instalments(S) /\ due = DueOf(S)
                             /\ ahead = [c \in S |-> all[c] \ due[c]]
  OBVIOUS
<1>2. ASSUME NEW c \in S
      PROVE  /\ IsFiniteSet(all[c]) /\ all[c] = DOMAIN schedules[c] /\ due[c] \subseteq all[c]
             /\ \A s \in all[c] : AmountOf(S)[c][s] \in Nat /\ PaidOf(S)[c][s] \in Nat
  <2>1. IsFiniteSet(DOMAIN schedules[c])
        /\ \A s \in DOMAIN schedules[c] :
             schedules[c][s].amount \in Nat /\ Allocated(allocations[c], s) \in Nat
    BY PaidIs DEF Given
  <2> QED BY <1>1, <2>1 DEF Instalments, DueOf, AmountOf, PaidOf
<1>3. PICK rows, owing, later : /\ rows = Nested(S, all) /\ owing = Nested(S, due)
                                /\ later = Nested(S, ahead)
  OBVIOUS
<1>4. /\ \A x \in rows : \E c \in S : \E s \in DOMAIN schedules[c] : x = <<c, s>>
      /\ \A c \in S : \A s \in DOMAIN schedules[c] : <<c, s>> \in rows
  BY <1>2, <1>3 DEF Nested
<1>5. rows = UNION {{c} \X DOMAIN schedules[c] : c \in S}
  <2>1. \A c \in S : all[c] = DOMAIN schedules[c]
    BY <1>2
  <2> QED BY <1>3, <2>1 DEF Nested
<1>6. {x \in rows : schedules[x[1]][x[2]].due <= today} = owing /\ owing \subseteq rows
  <2>1. \A c \in S : due[c] = {s \in DOMAIN schedules[c] : schedules[c][s].due <= today}
    BY <1>1 DEF DueOf
  <2>2. ASSUME NEW x \in rows, schedules[x[1]][x[2]].due <= today PROVE x \in owing
    <3>1. PICK c \in S : \E s \in DOMAIN schedules[c] : x = <<c, s>>
      BY <1>4
    <3>2. PICK s \in DOMAIN schedules[c] : x = <<c, s>>
      BY <3>1
    <3>3. s \in due[c]
      BY <2>1, <2>2, <3>2
    <3> QED BY <1>3, <3>2, <3>3 DEF Nested
  <2>3. ASSUME NEW x \in owing PROVE x \in rows /\ schedules[x[1]][x[2]].due <= today
    <3>1. PICK c \in S : \E s \in due[c] : x = <<c, s>>
      BY <1>3 DEF Nested
    <3>2. PICK s \in due[c] : x = <<c, s>>
      BY <3>1
    <3> QED BY <1>4, <2>1, <3>2
  <2> QED BY <2>2, <2>3
<1>7. rows \ owing = later
  BY <1>1, <1>3 DEF Nested
<1>8. PICK received : received = SumFunction([p \in {q \in DOMAIN payments : payments[q].contract \in S} |->
                                                payments[p].amount])
  OBVIOUS
<1> DEFINE e1 == [x \in owing |-> schedules[x[1]][x[2]].amount]
           e2 == [x \in owing |-> ActivePaid(x[1], x[2])]
           e3 == [x \in later |-> ActivePaid(x[1], x[2])]
           e4 == [x \in rows |-> ActivePaid(x[1], x[2])]
<1>9. TenantLedger(S) = [dueReceivable |-> SumFunction(e1), duePaid |-> SumFunction(e2),
                         outstanding |-> Larger(SumFunction(e1) - SumFunction(e2), 0),
                         prepaid |-> SumFunction(e3),
                         unallocated |-> Larger(received - SumFunction(e4), 0)]
  BY <1>5, <1>6, <1>7, <1>8 DEF TenantLedger
<1>10. \A x \in rows : /\ schedules[x[1]][x[2]].amount = amount[x] /\ amount[x] \in Nat
                       /\ ActivePaid(x[1], x[2]) = paid[x] /\ paid[x] \in Nat
  <2> SUFFICES ASSUME NEW x \in rows
               PROVE  /\ schedules[x[1]][x[2]].amount = amount[x] /\ amount[x] \in Nat
                      /\ ActivePaid(x[1], x[2]) = paid[x] /\ paid[x] \in Nat
    OBVIOUS
  <2>1. x[1] \in S /\ x[2] \in DOMAIN schedules[x[1]]
    BY <1>4
  <2>2. ActivePaid(x[1], x[2]) = Allocated(allocations[x[1]], x[2])
    BY <2>1, ActiveIsAll
  <2>3. /\ AmountOf(S)[x[1]][x[2]] = schedules[x[1]][x[2]].amount
        /\ PaidOf(S)[x[1]][x[2]] = Allocated(allocations[x[1]], x[2])
    BY <2>1 DEF AmountOf, PaidOf
  <2>4. amount[x] = AmountOf(S)[x[1]][x[2]] /\ paid[x] = PaidOf(S)[x[1]][x[2]]
    BY <1>1, <1>3
  <2> QED BY <1>2, <2>1, <2>2, <2>3, <2>4
<1>11. owing \subseteq rows /\ later \subseteq rows
  BY <1>6, <1>7
<1>12. IsFiniteSet(rows) /\ IsFiniteSet(owing) /\ IsFiniteSet(later)
  <2> DEFINE F == AmountOf(S)
             g == [c \in S |-> SumFunctionOnSet(F[c], all[c])]
  <2>1. /\ \A c \in S : IsFiniteSet(all[c])
        /\ \A c \in S : \A s \in all[c] : F[c][s] \in Int
        /\ \A x \in rows : amount[x] = F[x[1]][x[2]]
        /\ \A c \in S : g[c] = SumFunctionOnSet(F[c], all[c])
    BY <1>1, <1>2, <1>3
  <2> HIDE DEF F, g
  <2>2. IsFiniteSet(rows)
    BY <1>3, <2>1, SumNested
  <2> QED BY <1>11, <2>2, FS_Subset
<1>13. /\ DOMAIN e1 = owing /\ \A x \in owing : e1[x] = amount[x] /\ amount[x] \in Nat
       /\ DOMAIN e2 = owing /\ \A x \in owing : e2[x] = paid[x] /\ paid[x] \in Nat
       /\ DOMAIN e3 = later /\ \A x \in later : e3[x] = paid[x] /\ paid[x] \in Nat
       /\ DOMAIN e4 = rows /\ \A x \in rows : e4[x] = paid[x] /\ paid[x] \in Nat
  BY <1>10, <1>11
<1> HIDE DEF e1, e2, e3, e4
<1>14. /\ SumFunction(e1) = SumFunctionOnSet(amount, owing)
       /\ SumFunction(e2) = SumFunctionOnSet(paid, owing)
       /\ SumFunction(e3) = SumFunctionOnSet(paid, later)
       /\ SumFunction(e4) = SumFunctionOnSet(paid, rows)
  BY <1>12, <1>13, SumIs
<1>15. TenantSums(S, all, due, amount, paid)
  BY <1>1, <1>3, <1>8, <1>9, <1>14 DEF TenantSums
<1> QED BY <1>1, <1>2, <1>15

\* The tenant's figures are the summaries of the contracts, added up.
LEMMA TenantAddsUp ==
  ASSUME Whole, NEW S \in SUBSET DOMAIN lease, IsFiniteSet(S)
  PROVE  \A field \in DOMAIN TenantLedger(S) :
           TenantLedger(S)[field] = SumFunction([c \in S |-> Summary(c)[field]])
<1>1. PICK all, due, ahead : /\ all = Instalments(S) /\ due = DueOf(S)
                             /\ ahead = [c \in S |-> all[c] \ due[c]]
  OBVIOUS
<1>2. PICK A, P : A = AmountOf(S) /\ P = PaidOf(S)
  OBVIOUS
<1>3. PICK L : L = [c \in S |-> [s \in DOMAIN schedules[c] |-> A[c][s] - P[c][s]]]
  OBVIOUS
<1>4. PICK rows : rows = Nested(S, all)
  OBVIOUS
<1>5. PICK amount, paid : amount = [x \in rows |-> A[x[1]][x[2]]] /\ paid = [x \in rows |-> P[x[1]][x[2]]]
  OBVIOUS
<1>6. \A c \in S : all[c] = DOMAIN schedules[c] /\ due[c] \subseteq all[c] /\ ahead[c] = all[c] \ due[c]
  BY <1>1 DEF Instalments, DueOf
<1>7. \A x \in rows : amount[x] = A[x[1]][x[2]] /\ paid[x] = P[x[1]][x[2]]
  BY <1>5
<1>8. /\ \A c \in S : /\ IsFiniteSet(all[c])
                      /\ \A s \in all[c] : A[c][s] \in Nat /\ P[c][s] \in Nat
      /\ TenantSums(S, all, due, amount, paid)
  BY <1>1, <1>2, <1>4, <1>7, TenantIs
<1>9. \A c \in S : IsFiniteSet(due[c]) /\ IsFiniteSet(ahead[c])
  <2> SUFFICES ASSUME NEW c \in S PROVE IsFiniteSet(due[c]) /\ IsFiniteSet(ahead[c])
    OBVIOUS
  <2>1. IsFiniteSet(all[c]) /\ due[c] \subseteq all[c] /\ ahead[c] \subseteq all[c]
    BY <1>6, <1>8
  <2> QED BY <2>1, FS_Subset
<1> DEFINE gT == [c \in S |-> Total(PaymentsOf(payments, c))]
           gP == [c \in S |-> SumFunctionOnSet(P[c], all[c])]
           Of(field) == [c \in S |-> Summary(c)[field]]
<1>10. ASSUME NEW c \in S
       PROVE  /\ Of("dueReceivable")[c] = SumFunctionOnSet(A[c], due[c])
              /\ Of("duePaid")[c] = SumFunctionOnSet(P[c], due[c])
              /\ Of("outstanding")[c] = SumFunctionOnSet(L[c], due[c])
              /\ Of("prepaid")[c] = SumFunctionOnSet(P[c], ahead[c])
              /\ Of("dueReceivable")[c] \in Nat /\ Of("duePaid")[c] \in Nat /\ gP[c] \in Nat
              /\ Of("outstanding")[c] \in Nat /\ Of("unallocated")[c] \in Nat
              /\ Of("dueReceivable")[c] = Of("duePaid")[c] + Of("outstanding")[c]
              /\ gT[c] = gP[c] + Of("unallocated")[c]
  <2>1. Shown(c, due[c], A[c], P[c])
    BY <1>1, <1>2 DEF Shown, DueOf, AmountOf, PaidOf
  <2>2. Unpaid(c, A[c], P[c], L[c])
    BY <1>3 DEF Unpaid
  <2>3. SummaryFigures(c, due[c], A[c], P[c], L[c])
    BY <2>1, <2>2, SummaryParts
  <2>4. /\ Summary(c).dueReceivable = SumFunctionOnSet(A[c], due[c])
        /\ Summary(c).duePaid = SumFunctionOnSet(P[c], due[c])
        /\ Summary(c).outstanding = SumFunctionOnSet(L[c], due[c])
        /\ Summary(c).prepaid = SumFunctionOnSet(P[c], ahead[c])
    BY <1>6, <2>3 DEF SummaryFigures
  <2>5. SummarySums(c, due[c], A[c], P[c])
    BY <2>1, SummaryIs
  <2>6. Summary(c).unallocated = Larger(gT[c] - gP[c], 0)
    BY <1>6, <2>5 DEF SummarySums
  <2>7. /\ gT[c] = Summary(c).duePaid + Summary(c).prepaid + Summary(c).unallocated
        /\ Summary(c).dueReceivable = Summary(c).duePaid + Summary(c).outstanding
    BY SummaryAddsUp
  <2>8. gP[c] = SumFunctionOnSet(P[c], due[c]) + SumFunctionOnSet(P[c], ahead[c])
    <3>1. IsFiniteSet(all[c]) /\ due[c] \in SUBSET all[c] /\ \A s \in all[c] : P[c][s] \in Int
      BY <1>6, <1>8
    <3>2. SumFunctionOnSet(P[c], all[c])
            = SumFunctionOnSet(P[c], due[c]) + SumFunctionOnSet(P[c], all[c] \ due[c])
      BY <3>1, SumParts
    <3> QED BY <1>6, <3>2
  <2>9. /\ SumFunctionOnSet(A[c], due[c]) \in Nat /\ SumFunctionOnSet(P[c], due[c]) \in Nat
        /\ SumFunctionOnSet(P[c], ahead[c]) \in Nat
    <3>1. \A s \in due[c] : A[c][s] \in Nat /\ P[c][s] \in Nat
      BY <1>6, <1>8
    <3>2. \A s \in ahead[c] : P[c][s] \in Nat
      BY <1>6, <1>8
    <3> QED BY <1>9, <3>1, <3>2, SumNat
  <2>10. gT[c] \in Nat
    BY PaidIs
  <2> HIDE DEF gT, gP
  <2>11. Summary(c).unallocated \in Nat /\ gP[c] \in Nat
    BY <2>6, <2>8, <2>9, <2>10 DEF Larger
  <2>12. Summary(c).outstanding \in Nat
    <3>1. SumFunctionOnSet(L[c], due[c]) \in Nat
      <4>1. \A s \in DOMAIN schedules[c] : P[c][s] <= A[c][s] /\ A[c][s] \in Nat /\ P[c][s] \in Nat
        BY <2>1, ShownIs
      <4>2. \A s \in due[c] : L[c][s] \in Nat
        BY <1>3, <1>6, <4>1
      <4> QED BY <1>9, <4>2, SumNat
    <3> QED BY <2>4, <3>1
  <2>13. gT[c] = gP[c] + Summary(c).unallocated
    BY <2>4, <2>7, <2>8
  <2> QED BY <2>4, <2>7, <2>9, <2>11, <2>12, <2>13
<1>11. DOMAIN gT = S /\ DOMAIN gP = S /\ \A field : DOMAIN Of(field) = S
  OBVIOUS
<1> DEFINE Sum(field) == SumFunctionOnSet(Of(field), S)
           R == SumFunctionOnSet(amount, Nested(S, due))
           D == SumFunctionOnSet(paid, Nested(S, due))
           T == SumFunctionOnSet(gT, S)
           G == SumFunctionOnSet(gP, S)
<1>12. \A c \in S : gP[c] = SumFunctionOnSet(P[c], all[c])
  OBVIOUS
<1>13. T = SumFunction([p \in {q \in DOMAIN payments : payments[q].contract \in S} |->
                          payments[p].amount])
  BY ReceivedAddsUp
<1> HIDE DEF gT, gP, Of
<1>14. ASSUME NEW I, \A c \in S : I[c] \in {all[c], due[c], ahead[c]},
              NEW F, NEW f, (F = A /\ f = amount) \/ (F = P /\ f = paid),
              NEW g, \A c \in S : g[c] = SumFunctionOnSet(F[c], I[c])
       PROVE  SumFunctionOnSet(f, Nested(S, I)) = SumFunctionOnSet(g, S)
  <2>1. ASSUME NEW c \in S
        PROVE  /\ IsFiniteSet(I[c]) /\ I[c] \subseteq all[c]
               /\ \A s \in I[c] : F[c][s] \in Int
    <3>1. IsFiniteSet(I[c]) /\ I[c] \subseteq all[c]
      BY <1>6, <1>8, <1>9, <1>14
    <3> QED BY <1>8, <1>14, <3>1
  <2>2. Nested(S, I) \subseteq rows
    BY <1>4, <2>1 DEF Nested
  <2>3. \A x \in Nested(S, I) : f[x] = F[x[1]][x[2]]
    BY <1>7, <1>14, <2>2
  <2>4. \A c \in S : IsFiniteSet(I[c])
    BY <2>1
  <2>5. \A c \in S : \A s \in I[c] : F[c][s] \in Int
    BY <2>1
  <2>6. \A c \in S : g[c] = SumFunctionOnSet(F[c], I[c])
    BY <1>14
  <2> QED BY <2>3, <2>4, <2>5, <2>6, SumNested
<1>15. R = Sum("dueReceivable")
  BY <1>6, <1>7, <1>8, <1>9, <1>10, <1>14
<1>16. D = Sum("duePaid")
  BY <1>6, <1>7, <1>8, <1>9, <1>10, <1>14
<1>17. SumFunctionOnSet(paid, Nested(S, ahead)) = Sum("prepaid")
  BY <1>6, <1>7, <1>8, <1>9, <1>10, <1>14
<1>18. SumFunctionOnSet(paid, rows) = G
  BY <1>4, <1>7, <1>8, <1>12, <1>14
<1>19. R = D + Sum("outstanding") /\ D \in Nat /\ Sum("outstanding") \in Nat
  <2>1. /\ Sum("dueReceivable") = Sum("duePaid") + Sum("outstanding")
        /\ Sum("duePaid") \in Nat /\ Sum("outstanding") \in Nat
    BY <1>10, SumPlus, SumNat
  <2> QED BY <1>15, <1>16, <2>1
<1>20. T = G + Sum("unallocated") /\ G \in Nat /\ Sum("unallocated") \in Nat
  BY <1>10, SumPlus, SumNat
<1>21. /\ TenantLedger(S).dueReceivable = R
       /\ TenantLedger(S).duePaid = D
       /\ TenantLedger(S).outstanding = Larger(R - D, 0)
       /\ TenantLedger(S).prepaid = SumFunctionOnSet(paid, Nested(S, ahead))
       /\ TenantLedger(S).unallocated = Larger(T - G, 0)
  BY <1>1, <1>4, <1>8, <1>13, <1>18 DEF TenantSums
<1>22. DOMAIN TenantLedger(S)
         = {"dueReceivable", "duePaid", "outstanding", "prepaid", "unallocated"}
  BY DEF TenantLedger
<1>23. \A field : SumFunction(Of(field)) = Sum(field)
  BY <1>11 DEF SumFunction
<1> HIDE DEF Sum, R, D, T, G
<1>24. Larger(R - D, 0) = Sum("outstanding") /\ Larger(T - G, 0) = Sum("unallocated")
  BY <1>19, <1>20 DEF Larger
<1>25. \A field \in DOMAIN TenantLedger(S) : TenantLedger(S)[field] = Sum(field)
  BY <1>15, <1>16, <1>17, <1>21, <1>22, <1>24
<1> QED BY <1>23, <1>25 DEF Of

FinitelyLeased == IsFiniteSet(DOMAIN lease)

\* Requests create contracts one at a time.
LEMMA LeasesFiniteKept ==
  FinitelyLeased /\ [Next]_vars => FinitelyLeased'
<1> SUFFICES ASSUME IsFiniteSet(DOMAIN lease), [Next]_vars PROVE IsFiniteSet(DOMAIN lease')
  BY DEF FinitelyLeased
<1>1. ASSUME NEW c \in Contract, NEW l \in Lease, CreateContract(c, l)
      PROVE  IsFiniteSet(DOMAIN lease')
  <2>1. DOMAIN lease' = DOMAIN lease \cup {c}
    BY <1>1 DEF CreateContract, Put
  <2> QED BY <2>1, FS_AddElement
<1>2. ASSUME NEW c \in Contract, NEW l \in Lease, NEW day \in AsOf, UpdateContract(c, l, day)
      PROVE  IsFiniteSet(DOMAIN lease')
  <2>1. DOMAIN lease' = DOMAIN lease
    BY <1>2 DEF UpdateContract
  <2> QED BY <2>1
<1>3. CASE UNCHANGED lease
  BY <1>3
<1> QED BY <1>1, <1>2, <1>3 DEF Next, vars, RemoveContract, EditSchedule, CreatePayment, UpdatePayment, RemovePayment, Tomorrow

\* Of whole rows the views show the same figures and states.
LEMMA WholeViewsAgree ==
  Whole /\ FinitelyLeased => ViewsAgree
<1> SUFFICES ASSUME Whole, FinitelyLeased PROVE ViewsAgree
  OBVIOUS
<1>1. LiveContracts \in SUBSET DOMAIN lease /\ IsFiniteSet(LiveContracts)
  <2>1. LiveContracts \subseteq DOMAIN lease
    BY DEF LiveContracts
  <2> QED BY <2>1, FS_Subset DEF FinitelyLeased
<1>2. ASSUME NEW c \in LiveContracts
      PROVE  \A field \in {"dueReceivable", "duePaid", "outstanding", "prepaid"} :
               Summary(c)[field] = SumFunction([s \in DOMAIN schedules[c] |-> ListRow(c, s)[field]])
  BY <1>1, ListAddsUp
<1>3. ASSUME NEW c \in LiveContracts, NEW s \in DOMAIN schedules[c]
      PROVE  ListRow(c, s).status = PeriodStatus(schedules[c][s], ActivePaid(c, s))
  <2>1. PICK due, amount, paid : Shown(c, due, amount, paid)
    BY ShownExists
  <2> QED BY <1>1, <2>1, ListRowIs
<1>4. \A field \in DOMAIN TenantLedger(LiveContracts) :
        TenantLedger(LiveContracts)[field] = SumFunction([c \in LiveContracts |-> Summary(c)[field]])
  BY <1>1, TenantAddsUp
<1>5. ASSUME NEW contracts \in SUBSET LiveContracts
      PROVE  PageOutstanding(contracts) = SumFunction([c \in contracts |-> Summary(c).outstanding])
  <2> DEFINE Page(c) == SumFunction([s \in {t \in DOMAIN schedules[c] : IsDue(schedules[c][t])} |->
                          Larger(schedules[c][s].amount - Allocated(allocations[c], s), 0)])
  <2>1. \A c \in contracts : Page(c) = Summary(c).outstanding
    BY <1>1, PageAddsUp
  <2>2. PageOutstanding(contracts) = SumFunction([c \in contracts |-> Page(c)])
    BY DEF PageOutstanding
  <2> HIDE DEF Page
  <2>3. [c \in contracts |-> Page(c)] = [c \in contracts |-> Summary(c).outstanding]
    BY <2>1
  <2> QED BY <2>2, <2>3
<1> QED BY <1>2, <1>3, <1>4, <1>5 DEF ViewsAgree

\* Of whole rows every cent is shown once, and never arrears beside credit.
LEMMA WholeKeepsCents ==
  Whole => CentsConserved /\ ArrearsExcludeCredit
<1> SUFFICES ASSUME Whole PROVE CentsConserved /\ ArrearsExcludeCredit
  OBVIOUS
<1>1. \A c \in LiveContracts : c \in DOMAIN lease
  BY DEF LiveContracts
<1>2. \A c \in LiveContracts : SumFunction(AmountsOf(PaymentsOf(payments, c))) = Total(PaymentsOf(payments, c))
  BY DEF SumFunction, Total, AmountsOf
<1>3. CentsConserved
  BY <1>1, <1>2, SummaryAddsUp DEF CentsConserved
<1>4. ArrearsExcludeCredit
  BY <1>1, SummaryAddsUp DEF ArrearsExcludeCredit
<1> QED BY <1>3, <1>4

(***************************************************************************)
(* Of any ledger the views show the same: the rows of the list add up to   *)
(* the summary of the contract, the summaries to the tenant's              *)
(* reconciliation and to the arrears on the page of units, and list and    *)
(* reconciliation give each instalment the same status, although each      *)
(* takes its minimum, maximum or filter in a place of its own. Every cent  *)
(* received is shown once, every cent due as paid or outstanding, and a    *)
(* contract in arrears has no credit and nothing paid in advance.          *)
(***************************************************************************)
THEOREM FiguresAlwaysAgree == Spec => []FiguresAgree
<1>1. Init => FinitelyPaid /\ FinitelyLeased
  BY FS_EmptySet DEF Init, FinitelyPaid, FinitelyLeased
<1>2. Spec => []FinitelyPaid
  BY <1>1, PaymentsFiniteKept, PTL DEF Spec
<1>3. Spec => []FinitelyLeased
  BY <1>1, LeasesFiniteKept, PTL DEF Spec
<1>4. Whole /\ FinitelyLeased => FiguresAgree
  BY WholeViewsAgree, WholeKeepsCents DEF FiguresAgree
<1> QED BY <1>2, <1>3, <1>4, LedgerTypes, PeriodsAlwaysFollowLease, AllocationsAlwaysFollowRows, PTL DEF Whole

-----------------------------------------------------------------------------
(* The reconciliation says the same in all its ways *)

\* The instalments of contracts that are not deleted are finitely many.
LEMMA LiveRowsAre ==
  ASSUME Whole, FinitelyLeased
  PROVE  /\ IsFiniteSet(LiveRows)
         /\ \A x \in LiveRows : /\ x[1] \in LiveContracts /\ x[1] \in DOMAIN lease
                                /\ x[2] \in DOMAIN schedules[x[1]] /\ x = <<x[1], x[2]>>
         /\ \A c \in LiveContracts : \A s \in DOMAIN schedules[c] : <<c, s>> \in LiveRows
<1>1. LiveContracts \in SUBSET DOMAIN lease /\ IsFiniteSet(LiveContracts)
  <2>1. LiveContracts \subseteq DOMAIN lease
    BY DEF LiveContracts
  <2> QED BY <2>1, FS_Subset DEF FinitelyLeased
<1>2. PICK I : I = [c \in LiveContracts |-> DOMAIN schedules[c]]
  OBVIOUS
<1>3. LiveRows = Nested(LiveContracts, I)
  BY <1>2 DEF LiveRows, Nested
<1>4. IsFiniteSet(Nested(LiveContracts, I))
  <2>1. PICK F : F = [c \in LiveContracts |-> [s \in I[c] |-> 0]]
    OBVIOUS
  <2>2. PICK f : f = [x \in Nested(LiveContracts, I) |-> F[x[1]][x[2]]]
    OBVIOUS
  <2>3. PICK g : g = [c \in LiveContracts |-> SumFunctionOnSet(F[c], I[c])]
    OBVIOUS
  <2>4. \A c \in LiveContracts : IsFiniteSet(I[c])
    BY <1>1, <1>2, PaidIs DEF Given
  <2>5. \A c \in LiveContracts : \A s \in I[c] : F[c][s] \in Int
    BY <2>1
  <2>6. \A x \in Nested(LiveContracts, I) : f[x] = F[x[1]][x[2]]
    BY <2>2
  <2>7. \A c \in LiveContracts : g[c] = SumFunctionOnSet(F[c], I[c])
    BY <2>3
  <2> QED BY <1>1, <2>4, <2>5, <2>6, <2>7, SumNested
<1>5. \A c \in LiveContracts : I[c] = DOMAIN schedules[c]
  BY <1>2
<1>6. \A x \in LiveRows : /\ x[1] \in LiveContracts /\ x[2] \in DOMAIN schedules[x[1]]
                          /\ x = <<x[1], x[2]>>
  BY DEF LiveRows
<1>7. \A c \in LiveContracts : \A s \in DOMAIN schedules[c] : <<c, s>> \in LiveRows
  BY DEF LiveRows
<1> QED BY <1>1, <1>3, <1>4, <1>6, <1>7

AmountIn(x) == schedules[x[1]][x[2]].amount
PaidIn(x) == Allocated(allocations[x[1]], x[2])
DueIn(x) == IsDue(schedules[x[1]][x[2]])

\* What every instalment adds to the figures of a ledger.
Figures ==
  [dueReceivable |-> [x \in LiveRows |-> IF DueIn(x) THEN AmountIn(x) ELSE 0],
   duePaid       |-> [x \in LiveRows |-> IF DueIn(x) THEN PaidIn(x) ELSE 0],
   outstanding   |-> [x \in LiveRows |-> IF DueIn(x) THEN AmountIn(x) - PaidIn(x) ELSE 0],
   prepaid       |-> [x \in LiveRows |-> IF DueIn(x) THEN 0 ELSE PaidIn(x)]]

\* A period shows its instalment and what is paid of it.
LEMMA PeriodIs ==
  ASSUME Whole, FinitelyLeased, NEW x \in LiveRows
  PROVE  /\ AmountIn(x) \in Nat /\ PaidIn(x) \in Nat /\ PaidIn(x) <= AmountIn(x)
         /\ SumFunction([r \in Active(x) |-> r.amount]) = PaidIn(x)
         /\ SerializePeriod(x).due <= today <=> DueIn(x)
         /\ SerializePeriod(x).receivable = AmountIn(x)
         /\ SerializePeriod(x).paid = PaidIn(x)
         /\ SerializePeriod(x).outstanding = Figures.outstanding[x]
         /\ SerializePeriod(x).prepaid = Figures.prepaid[x]
         /\ SerializePeriod(x).status = PeriodStatus(schedules[x[1]][x[2]], PaidIn(x))
         /\ SerializePeriod(x).payments = Lines(x)
<1>1. x[1] \in DOMAIN lease /\ x[2] \in DOMAIN schedules[x[1]]
  BY LiveRowsAre
<1>2. AmountIn(x) \in Nat /\ PaidIn(x) \in Nat /\ PaidIn(x) <= AmountIn(x)
  BY <1>1, PaidIs DEF AmountIn, PaidIn
<1>3. SumFunction([r \in Active(x) |-> r.amount]) = PaidIn(x)
  <2>1. Active(x) = {r \in {q \in allocations[x[1]] : q.payment \in DOMAIN payments} :
                       r.sequence = x[2]}
    BY DEF Active
  <2>2. ActivePaid(x[1], x[2]) = SumFunction([r \in Active(x) |-> r.amount])
    BY <2>1 DEF ActivePaid, Allocated
  <2> QED BY <1>1, <2>2, ActiveIsAll DEF PaidIn
<1>4. PICK row : row = schedules[x[1]][x[2]]
  OBVIOUS
<1>5. row.amount = AmountIn(x) /\ (IsDue(row) <=> DueIn(x))
  BY <1>4 DEF AmountIn, DueIn
<1>6. SerializePeriod(x)
        = [due |-> row.due, receivable |-> row.amount, paid |-> PaidIn(x),
           outstanding |-> IF IsDue(row) THEN Larger(row.amount - PaidIn(x), 0) ELSE 0,
           prepaid |-> IF IsDue(row) THEN 0 ELSE PaidIn(x),
           status |-> PeriodStatus(row, PaidIn(x)), payments |-> Lines(x)]
  BY <1>3, <1>4 DEF SerializePeriod
<1>7. SerializePeriod(x).due <= today <=> DueIn(x)
  BY <1>5, <1>6 DEF IsDue
<1>8. /\ Figures.outstanding[x] = IF DueIn(x) THEN AmountIn(x) - PaidIn(x) ELSE 0
      /\ Figures.prepaid[x] = IF DueIn(x) THEN 0 ELSE PaidIn(x)
  BY DEF Figures
<1>9. Larger(row.amount - PaidIn(x), 0) = AmountIn(x) - PaidIn(x)
  BY <1>2, <1>5 DEF Larger
<1> QED BY <1>2, <1>3, <1>4, <1>5, <1>6, <1>7, <1>8, <1>9

Fields == {"dueReceivable", "duePaid", "outstanding", "prepaid"}

\* The figures of instalments are natural numbers, and what is due is paid or outstanding.
LEMMA FiguresAre ==
  ASSUME Whole, FinitelyLeased, NEW x \in LiveRows
  PROVE  /\ \A field \in Fields : Figures[field][x] \in Nat
         /\ Figures.dueReceivable[x] = Figures.duePaid[x] + Figures.outstanding[x]
         /\ PaidIn(x) = Figures.duePaid[x] + Figures.prepaid[x]
<1>1. AmountIn(x) \in Nat /\ PaidIn(x) \in Nat /\ PaidIn(x) <= AmountIn(x)
  BY PeriodIs
<1>2. /\ Figures.dueReceivable[x] = IF DueIn(x) THEN AmountIn(x) ELSE 0
      /\ Figures.duePaid[x] = IF DueIn(x) THEN PaidIn(x) ELSE 0
      /\ Figures.outstanding[x] = IF DueIn(x) THEN AmountIn(x) - PaidIn(x) ELSE 0
      /\ Figures.prepaid[x] = IF DueIn(x) THEN 0 ELSE PaidIn(x)
  BY DEF Figures
<1>3. /\ Figures.dueReceivable[x] \in Nat /\ Figures.duePaid[x] \in Nat
      /\ Figures.outstanding[x] \in Nat /\ Figures.prepaid[x] \in Nat
  BY <1>1, <1>2
<1>4. \A field \in Fields : Figures[field][x] \in Nat
  BY <1>3 DEF Fields
<1> QED BY <1>1, <1>2, <1>4

\* A ledger of some instalments and payments, by its figures.
LedgerSums(l, tenant, rows, unallocated) ==
  /\ l.tenant = tenant
  /\ DOMAIN l.periods = rows
  /\ \A x \in rows : l.periods[x] = SerializePeriod(x)
  /\ \A field \in Fields : l[field] = SumFunctionOnSet(Figures[field], rows)
  /\ l.unallocated = unallocated
  /\ l.status = LedgerStatus(l.outstanding, l.unallocated, l.prepaid)

\* A tenant's ledger of a year sums what each instalment of the year adds.
LEMMA LedgerIs ==
  ASSUME Whole, FinitelyLeased, NEW R \in SUBSET LiveRows, NEW Q, NEW tenant, NEW year
  PROVE  LedgerSums(BuildTenantLedger(tenant, R, Q, year), tenant, Selected(R, year), Unallocated(R, Q))
<1>1. PICK rows : rows = Selected(R, year)
  OBVIOUS
<1>2. PICK due : due = {x \in rows : DueIn(x)}
  OBVIOUS
<1>3. PICK unallocated : unallocated = Unallocated(R, Q)
  OBVIOUS
<1>4. /\ IsFiniteSet(rows) /\ rows \in SUBSET LiveRows /\ due \in SUBSET rows
      /\ rows \ due \in SUBSET rows /\ IsFiniteSet(due) /\ IsFiniteSet(rows \ due)
  <2>1. rows \in SUBSET LiveRows
    BY <1>1 DEF Selected
  <2>2. IsFiniteSet(rows)
    BY <2>1, LiveRowsAre, FS_Subset
  <2>3. due \in SUBSET rows /\ rows \ due \in SUBSET rows
    BY <1>2
  <2> QED BY <2>1, <2>2, <2>3, FS_Subset
<1>5. PICK periods : periods = [x \in rows |-> SerializePeriod(x)]
  OBVIOUS
<1>6. {x \in rows : periods[x].due <= today} = due
  BY <1>2, <1>4, <1>5, PeriodIs
<1> DEFINE e1 == [x \in due |-> periods[x].receivable]
           e2 == [x \in due |-> periods[x].paid]
           e3 == [x \in rows \ due |-> periods[x].paid]
           last == {payments[p].date : p \in UNION {DOMAIN periods[x].payments : x \in rows}}
           Sum(field) == SumFunctionOnSet(Figures[field], rows)
           ledger == BuildTenantLedger(tenant, R, Q, year)
<1>7. ledger =
        [tenant |-> tenant, periods |-> periods, dueReceivable |-> SumFunction(e1),
         duePaid |-> SumFunction(e2),
         outstanding |-> Larger(SumFunction(e1) - SumFunction(e2), 0),
         prepaid |-> SumFunction(e3), unallocated |-> unallocated, lastPayment |-> last,
         status |-> LedgerStatus(Larger(SumFunction(e1) - SumFunction(e2), 0), unallocated,
                                 SumFunction(e3))]
  BY <1>1, <1>3, <1>5, <1>6 DEF BuildTenantLedger
<1>8. \A x \in rows :
        /\ periods[x].receivable = AmountIn(x) /\ periods[x].paid = PaidIn(x)
        /\ \A field \in Fields : Figures[field][x] \in Nat
        /\ Figures.dueReceivable[x] = Figures.duePaid[x] + Figures.outstanding[x]
        /\ Figures.dueReceivable[x] = IF x \in due THEN AmountIn(x) ELSE 0
        /\ Figures.duePaid[x] = IF x \in due THEN PaidIn(x) ELSE 0
        /\ Figures.prepaid[x] = IF x \in due THEN 0 ELSE PaidIn(x)
  <2> SUFFICES ASSUME NEW x \in rows
               PROVE  /\ periods[x].receivable = AmountIn(x) /\ periods[x].paid = PaidIn(x)
                      /\ \A field \in Fields : Figures[field][x] \in Nat
                      /\ Figures.dueReceivable[x] = Figures.duePaid[x] + Figures.outstanding[x]
                      /\ Figures.dueReceivable[x] = IF x \in due THEN AmountIn(x) ELSE 0
                      /\ Figures.duePaid[x] = IF x \in due THEN PaidIn(x) ELSE 0
                      /\ Figures.prepaid[x] = IF x \in due THEN 0 ELSE PaidIn(x)
    OBVIOUS
  <2>1. x \in LiveRows /\ (x \in due <=> DueIn(x)) /\ periods[x] = SerializePeriod(x)
    BY <1>2, <1>4, <1>5
  <2>2. periods[x].receivable = AmountIn(x) /\ periods[x].paid = PaidIn(x)
    BY <2>1, PeriodIs
  <2>3. /\ Figures.dueReceivable[x] = IF x \in due THEN AmountIn(x) ELSE 0
        /\ Figures.duePaid[x] = IF x \in due THEN PaidIn(x) ELSE 0
        /\ Figures.prepaid[x] = IF x \in due THEN 0 ELSE PaidIn(x)
    BY <2>1 DEF Figures
  <2> QED BY <2>1, <2>2, <2>3, FiguresAre
<1>9. DOMAIN e1 = due /\ DOMAIN e2 = due /\ DOMAIN e3 = rows \ due
  OBVIOUS
<1>10. /\ \A x \in due : e1[x] = Figures.dueReceivable[x] /\ e2[x] = Figures.duePaid[x]
       /\ \A x \in rows \ due : e3[x] = Figures.prepaid[x]
  BY <1>4, <1>8
<1> HIDE DEF e1, e2, e3, last, ledger
<1>11. /\ \A x \in rows \ due : Figures.dueReceivable[x] = 0 /\ Figures.duePaid[x] = 0
       /\ \A x \in due : Figures.prepaid[x] = 0
       /\ \A field \in Fields : \A x \in rows : Figures[field][x] \in Int /\ Figures[field][x] \in Nat
  BY <1>4, <1>8
<1>12. SumFunction(e1) = Sum("dueReceivable")
  <2>1. SumFunctionOnSet(e1, due) = SumFunctionOnSet(Figures.dueReceivable, rows)
    BY <1>4, <1>10, <1>11, SumAgrees DEF Fields
  <2> QED BY <1>9, <2>1 DEF SumFunction
<1>13. SumFunction(e2) = Sum("duePaid")
  <2>1. SumFunctionOnSet(e2, due) = SumFunctionOnSet(Figures.duePaid, rows)
    BY <1>4, <1>10, <1>11, SumAgrees DEF Fields
  <2> QED BY <1>9, <2>1 DEF SumFunction
<1>14. SumFunction(e3) = Sum("prepaid")
  <2>1. \A x \in rows \ (rows \ due) : Figures.prepaid[x] = 0
    BY <1>4, <1>11
  <2>2. SumFunctionOnSet(e3, rows \ due) = SumFunctionOnSet(Figures.prepaid, rows)
    BY <1>4, <1>10, <1>11, <2>1, SumAgrees DEF Fields
  <2> QED BY <1>9, <2>2 DEF SumFunction
<1>15. Larger(SumFunction(e1) - SumFunction(e2), 0) = Sum("outstanding")
  <2>1. \A x \in rows : /\ Figures.duePaid[x] \in Int /\ Figures.outstanding[x] \in Int
                        /\ Figures.dueReceivable[x] = Figures.duePaid[x] + Figures.outstanding[x]
    BY <1>8, <1>11 DEF Fields
  <2>2. Sum("dueReceivable") = Sum("duePaid") + Sum("outstanding")
    BY <1>4, <2>1, SumPlus
  <2>3. Sum("duePaid") \in Nat /\ Sum("outstanding") \in Nat
    BY <1>4, <1>11, SumNat DEF Fields
  <2> HIDE DEF Sum
  <2> QED BY <1>12, <1>13, <2>2, <2>3 DEF Larger
<1>16. /\ DOMAIN periods = rows
       /\ \A x \in rows : periods[x] = SerializePeriod(x)
  BY <1>5
<1> HIDE DEF Sum
<1>17. \A field \in Fields : ledger[field] = Sum(field)
  BY <1>7, <1>12, <1>13, <1>14, <1>15 DEF Fields
<1>18. LedgerSums(ledger, tenant, rows, unallocated)
  BY <1>7, <1>16, <1>17 DEF LedgerSums, Sum
<1> QED BY <1>1, <1>3, <1>18 DEF ledger

\* The instalments and payments of a tenant are those of contracts not deleted.
LEMMA TenantRows ==
  ASSUME Whole, FinitelyLeased, NEW name, NEW tenant, NEW year,
         NEW R, R = RowsOf(name, tenant), NEW Q, Q = PaymentsOfTenant(name, tenant)
  PROVE  /\ R \in SUBSET LiveRows /\ IsFiniteSet(R)
         /\ Q \in SUBSET DOMAIN payments /\ IsFiniteSet(Q)
         /\ \A p \in Q : payments[p].amount \in Nat
         /\ Unallocated(R, Q) \in Nat
         /\ LedgerSums(LedgerOf(name, tenant, year), tenant, Selected(R, year), Unallocated(R, Q))
<1>1. R \in SUBSET LiveRows /\ IsFiniteSet(R)
  <2>1. R \in SUBSET LiveRows
    BY DEF RowsOf
  <2> QED BY <2>1, LiveRowsAre, FS_Subset
<1>2. Q \in SUBSET DOMAIN payments /\ IsFiniteSet(Q)
  <2>1. Q \in SUBSET DOMAIN payments
    BY DEF PaymentsOfTenant
  <2> QED BY <2>1, FS_Subset DEF Whole, FinitelyPaid
<1>3. \A p \in Q : payments[p].amount \in Nat
  BY <1>2, LedgerConstants DEF Whole, TypeOK, PaymentRows
<1>4. Unallocated(R, Q) \in Nat
  <2>1. PICK e, d : /\ e = [p \in Q |-> payments[p].amount]
                    /\ d = [x \in R |-> SumFunction([r \in Active(x) |-> r.amount])]
    OBVIOUS
  <2>2. (\A p \in Q : e[p] \in Int) /\ \A x \in R : d[x] \in Int
    BY <1>1, <1>3, <2>1, PeriodIs
  <2>3. SumFunctionOnSet(e, Q) \in Int /\ SumFunctionOnSet(d, R) \in Int
    BY <1>1, <1>2, <2>2, SumInt
  <2>4. SumFunction(e) \in Int /\ SumFunction(d) \in Int
    BY <2>1, <2>3 DEF SumFunction
  <2>5. Unallocated(R, Q) = Larger(SumFunction(e) - SumFunction(d), 0)
    BY <2>1 DEF Unallocated
  <2> QED BY <2>4, <2>5 DEF Larger
<1>5. LedgerSums(LedgerOf(name, tenant, year), tenant, Selected(R, year), Unallocated(R, Q))
  BY <1>1, LedgerIs DEF LedgerOf
<1> QED BY <1>1, <1>2, <1>3, <1>4, <1>5

\* A status says what is owed of an instalment and what is paid of it in advance.
LEMMA StatusOf ==
  ASSUME NEW row, NEW paid \in Nat, row.amount \in Nat, paid <= row.amount,
         NEW status, status = PeriodStatus(row, paid)
  PROVE  /\ status = "overdue" <=> IsDue(row) /\ paid < row.amount
         /\ IsDue(row) /\ paid = row.amount => status = "settled"
         /\ ~IsDue(row) /\ paid = 0 => status = "not_due"
         /\ ~IsDue(row) /\ paid # 0 => status \in {"prepaid", "partially_prepaid"}
<1>1. ASSUME IsDue(row), paid = row.amount PROVE status = "settled"
  BY <1>1 DEF PeriodStatus
<1>2. ASSUME IsDue(row), paid < row.amount PROVE status = "overdue"
  BY <1>2 DEF PeriodStatus
<1>3. ASSUME ~IsDue(row), paid = 0 PROVE status = "not_due"
  BY <1>3 DEF PeriodStatus
<1>4. ASSUME ~IsDue(row), paid # 0 PROVE status = "prepaid" \/ status = "partially_prepaid"
  <2>1. CASE paid \in 1 .. row.amount - 1
    BY <1>4, <2>1 DEF PeriodStatus
  <2>2. CASE paid \notin 1 .. row.amount - 1
    BY <1>4, <2>2 DEF PeriodStatus
  <2> QED BY <2>1, <2>2
<1> QED BY <1>1, <1>2, <1>3, <1>4

\* A period of a ledger shows what its instalment is owed and paid in advance.
Tells(period, owed, ahead) ==
  /\ period.outstanding = owed /\ period.prepaid = ahead
  /\ owed \in Nat /\ ahead \in Nat
  /\ period.status = "overdue" <=> owed # 0
  /\ owed = 0 /\ ahead = 0 => period.status \in {"settled", "not_due"}
  /\ ahead # 0 => period.status \in {"prepaid", "partially_prepaid"}

\* The status of a period tells which of its figures are not zero.
LEMMA PeriodTells ==
  ASSUME Whole, FinitelyLeased, NEW x \in LiveRows
  PROVE  Tells(SerializePeriod(x), Figures.outstanding[x], Figures.prepaid[x])
<1>1. PICK row, paid, owed, ahead, status :
        /\ row = schedules[x[1]][x[2]] /\ paid = PaidIn(x) /\ status = SerializePeriod(x).status
        /\ owed = Figures.outstanding[x] /\ ahead = Figures.prepaid[x]
  OBVIOUS
<1>2. /\ paid \in Nat /\ row.amount \in Nat /\ paid <= row.amount /\ status = PeriodStatus(row, paid)
      /\ SerializePeriod(x).outstanding = owed /\ SerializePeriod(x).prepaid = ahead
  BY <1>1, PeriodIs DEF AmountIn
<1>3. /\ owed = IF IsDue(row) THEN row.amount - paid ELSE 0
      /\ ahead = IF IsDue(row) THEN 0 ELSE paid
  BY <1>1 DEF Figures, DueIn, AmountIn
<1>4. /\ status = "overdue" <=> IsDue(row) /\ paid < row.amount
      /\ IsDue(row) /\ paid = row.amount => status = "settled"
      /\ ~IsDue(row) /\ paid = 0 => status = "not_due"
      /\ ~IsDue(row) /\ paid # 0 => status \in {"prepaid", "partially_prepaid"}
  BY <1>2, StatusOf
<1>5. /\ owed \in Nat /\ ahead \in Nat
      /\ status = "overdue" <=> owed # 0
      /\ owed = 0 /\ ahead = 0 => status \in {"settled", "not_due"}
      /\ ahead # 0 => status \in {"prepaid", "partially_prepaid"}
  BY <1>2, <1>3, <1>4
<1> QED BY <1>1, <1>2, <1>5 DEF Tells

\* The status of a ledger is that of its periods.
LEMMA StatusIs ==
  ASSUME Whole, FinitelyLeased, NEW l, NEW tenant, NEW rows \in SUBSET LiveRows,
         NEW unallocated \in Nat, LedgerSums(l, tenant, rows, unallocated)
  PROVE  StatusOfPeriods(l)
<1>1. IsFiniteSet(rows)
  BY LiveRowsAre, FS_Subset
<1>2. PICK owed, ahead : owed = Figures.outstanding /\ ahead = Figures.prepaid
  OBVIOUS
<1>3. PICK periods : periods = l.periods
  OBVIOUS
<1>4. DOMAIN periods = rows /\ \A x \in rows : Tells(periods[x], owed[x], ahead[x])
  <2>1. DOMAIN periods = rows /\ \A x \in rows : periods[x] = SerializePeriod(x) /\ x \in LiveRows
    BY <1>3 DEF LedgerSums
  <2> QED BY <1>2, <2>1, PeriodTells
<1>5. \A x \in rows : owed[x] \in Nat /\ ahead[x] \in Nat
  BY <1>4 DEF Tells
<1>6. PICK e, d : e = [x \in rows |-> periods[x].outstanding] /\ d = [x \in rows |-> periods[x].prepaid]
  OBVIOUS
<1>7. /\ SumFunction(e) = SumFunctionOnSet(owed, rows)
      /\ SumFunction(d) = SumFunctionOnSet(ahead, rows)
  <2>1. /\ DOMAIN e = rows /\ \A x \in rows : e[x] = owed[x]
        /\ DOMAIN d = rows /\ \A x \in rows : d[x] = ahead[x]
    BY <1>4, <1>6 DEF Tells
  <2> QED BY <1>1, <1>5, <2>1, SumIs
<1>8. /\ l.outstanding = SumFunctionOnSet(owed, rows)
      /\ l.prepaid = SumFunctionOnSet(ahead, rows)
      /\ l.unallocated \in Nat
      /\ l.status = LedgerStatus(l.outstanding, l.unallocated, l.prepaid)
  BY <1>2 DEF LedgerSums, Fields
<1>9. \A field \in {"outstanding", "prepaid"} :
        l[field] = SumFunction([x \in DOMAIN periods |-> periods[x][field]])
  BY <1>4, <1>6, <1>7, <1>8
<1>10. l.outstanding \in Nat /\ l.prepaid \in Nat
  BY <1>1, <1>5, <1>8, SumNat
<1>11. (l.outstanding = 0 <=> \A x \in rows : owed[x] = 0) /\ (l.prepaid = 0 <=> \A x \in rows : ahead[x] = 0)
  BY <1>1, <1>5, <1>8, SumZero
<1>12. /\ l.status = "outstanding" <=> l.outstanding # 0
       /\ l.status = "settled" => l.outstanding = 0 /\ l.prepaid = 0 /\ l.unallocated = 0
       /\ l.status = "prepaid" => l.prepaid # 0
  BY <1>8, <1>10 DEF LedgerStatus
<1> DEFINE of(s) == {x \in DOMAIN periods : periods[x].status = s}
<1>13. l.status = "outstanding" <=> of("overdue") # {}
  BY <1>4, <1>11, <1>12 DEF Tells
<1>14. l.status = "settled" => DOMAIN periods = of("settled") \cup of("not_due") /\ l.unallocated = 0
  <2>1. ASSUME l.status = "settled" PROVE \A x \in rows : periods[x].status \in {"settled", "not_due"}
    BY <1>4, <1>11, <1>12, <2>1 DEF Tells
  <2> QED BY <1>4, <1>12, <2>1
<1>15. l.status = "prepaid" => of("prepaid") \cup of("partially_prepaid") # {}
  <2> SUFFICES ASSUME l.status = "prepaid" PROVE of("prepaid") \cup of("partially_prepaid") # {}
    OBVIOUS
  <2>1. PICK x \in rows : ahead[x] # 0
    BY <1>11, <1>12
  <2>2. periods[x].status \in {"prepaid", "partially_prepaid"}
    BY <1>4, <2>1 DEF Tells
  <2> QED BY <1>4, <2>2
<1> HIDE DEF of
<1> QED BY <1>3, <1>9, <1>13, <1>14, <1>15 DEF StatusOfPeriods, of

\* The list and the detail of a year are of the same ledgers, one to a tenant.
LEMMA DetailsAre ==
  ASSUME Whole, FinitelyLeased, NEW name, NEW year
  PROVE  ListHasDetails(Ledgers(name, year))
<1>1. PICK ledgers : ledgers = Ledgers(name, year)
  OBVIOUS
<1>2. \A t : LedgerOf(name, t, year).tenant = t
  <2> SUFFICES ASSUME NEW t PROVE LedgerOf(name, t, year).tenant = t
    OBVIOUS
  <2>1. PICK R, Q : R = RowsOf(name, t) /\ Q = PaymentsOfTenant(name, t)
    OBVIOUS
  <2>2. LedgerSums(LedgerOf(name, t, year), t, Selected(R, year), Unallocated(R, Q))
    BY <2>1, TenantRows
  <2> QED BY <2>2 DEF LedgerSums
<1>3. \A l, m \in ledgers : l.tenant = m.tenant => l = m
  BY <1>1, <1>2 DEF Ledgers
<1>4. ASSUME NEW n \in Names, NEW tenant, tenant = {NormalizeTenantName(n)},
             NEW detail, detail = DetailOf(ledgers, n)
      PROVE  /\ detail # {} <=> tenant \subseteq {l.tenant : l \in ledgers}
             /\ ListOf(ledgers, tenant, {l.status : l \in detail}) = detail
             /\ Cardinality(detail) <= 1
  <2>1. \A l : l \in detail <=> l \in ledgers /\ tenant = {l.tenant}
    BY <1>4 DEF DetailOf
  <2>2. detail # {} <=> tenant \subseteq {l.tenant : l \in ledgers}
    BY <1>4, <2>1
  <2>3. \A l, m \in detail : l = m
    BY <1>3, <2>1
  <2>4. ListOf(ledgers, tenant, {l.status : l \in detail}) = detail
    <3>1. \A l : l \in ListOf(ledgers, tenant, {m.status : m \in detail})
                   <=> l \in ledgers /\ tenant \subseteq {l.tenant} /\ {m.status : m \in detail} \subseteq {l.status}
      BY DEF ListOf
    <3>2. \A l : tenant \subseteq {l.tenant} <=> tenant = {l.tenant}
      BY <1>4
    <3>3. \A l \in detail : {m.status : m \in detail} \subseteq {l.status}
      BY <2>3
    <3> QED BY <2>1, <3>1, <3>2, <3>3
  <2>5. Cardinality(detail) <= 1
    <3>1. ASSUME detail = {} PROVE Cardinality(detail) <= 1
      <4>1. Cardinality(detail) = 0
        BY <3>1, FS_EmptySet
      <4> QED BY <4>1
    <3>2. ASSUME NEW d \in detail PROVE Cardinality(detail) <= 1
      <4>1. detail = {d}
        BY <2>3
      <4>2. Cardinality(detail) = 1
        BY <4>1, FS_Singleton
      <4> QED BY <4>2
    <3> QED BY <3>1, <3>2
  <2> QED BY <2>2, <2>4, <2>5
<1> QED BY <1>1, <1>4 DEF ListHasDetails

YearlyLedgers(name, tenant) ==
  {m \in UNION {Ledgers(name, {y}) : y \in AvailableYears} : m.tenant = tenant}

\* The ledgers of a tenant, year by year, have every instalment once.
LEMMA YearsAre ==
  ASSUME Whole, FinitelyLeased, NEW name, NEW tenant
  PROVE  LedgersOfYearsAddUp(LedgerOf(name, tenant, {}), YearlyLedgers(name, tenant))
<1>m. PICK M : M = YearlyLedgers(name, tenant)
  OBVIOUS
<1>1. PICK R, Q : R = RowsOf(name, tenant) /\ Q = PaymentsOfTenant(name, tenant)
  OBVIOUS
<1>2. PICK year, l : /\ year = [x \in LiveRows |-> YearOf(schedules[x[1]][x[2]])]
                     /\ l = [y \in AvailableYears |-> LedgerOf(name, tenant, {y})]
  OBVIOUS
<1>3. PICK whole : whole = LedgerOf(name, tenant, {})
  OBVIOUS
<1>4. R \in SUBSET LiveRows /\ IsFiniteSet(R) /\ \A x \in LiveRows : year[x] \in AvailableYears
  <2>1. R \in SUBSET LiveRows /\ IsFiniteSet(R)
    BY <1>1, TenantRows
  <2>2. \A x \in LiveRows : year[x] \in AvailableYears
    BY <1>2 DEF AvailableYears
  <2> QED BY <2>1, <2>2
<1>5. /\ LedgerSums(whole, tenant, R, Unallocated(R, Q))
      /\ \A y \in AvailableYears :
           LedgerSums(l[y], tenant, {x \in R : year[x] = y}, Unallocated(R, Q))
  <2>1. Selected(R, {}) = R
    BY DEF Selected
  <2>2. LedgerSums(whole, tenant, Selected(R, {}), Unallocated(R, Q))
    BY <1>1, <1>3, TenantRows
  <2>3. ASSUME NEW y \in AvailableYears
        PROVE  LedgerSums(l[y], tenant, {x \in R : year[x] = y}, Unallocated(R, Q))
    <3>1. Selected(R, {y}) = {x \in R : year[x] = y}
      BY <1>2, <1>4 DEF Selected
    <3>2. LedgerSums(LedgerOf(name, tenant, {y}), tenant, Selected(R, {y}), Unallocated(R, Q))
      BY <1>1, TenantRows
    <3> QED BY <1>2, <3>1, <3>2
  <2> QED BY <2>1, <2>2, <2>3
<1>6. M \subseteq {l[y] : y \in AvailableYears}
  <2> SUFFICES ASSUME NEW m \in M PROVE \E y \in AvailableYears : m = l[y]
    OBVIOUS
  <2>1. m.tenant = tenant /\ \E y \in AvailableYears : m \in Ledgers(name, {y})
    BY <1>m DEF YearlyLedgers
  <2>2. PICK y \in AvailableYears : \E t \in Tenants(name, {y}) : m = LedgerOf(name, t, {y})
    BY <2>1 DEF Ledgers
  <2>t. PICK t \in Tenants(name, {y}) : m = LedgerOf(name, t, {y})
    BY <2>2
  <2>3. PICK R2, Q2 : R2 = RowsOf(name, t) /\ Q2 = PaymentsOfTenant(name, t)
    OBVIOUS
  <2>4. LedgerSums(LedgerOf(name, t, {y}), t, Selected(R2, {y}), Unallocated(R2, Q2))
    BY <2>3, TenantRows
  <2>5. m.tenant = t
    BY <2>t, <2>4 DEF LedgerSums
  <2> QED BY <1>2, <2>1, <2>t, <2>5
<1>7. \A x \in R : l[year[x]] \in M
  <2> SUFFICES ASSUME NEW x \in R PROVE l[year[x]] \in M
    OBVIOUS
  <2>1. x \in LiveRows /\ year[x] \in AvailableYears /\ NormalizeTenantName(name[x[1]]) = tenant
    BY <1>1, <1>4 DEF RowsOf
  <2>2. x \in Selected(LiveRows, {year[x]})
    BY <1>2, <2>1 DEF Selected
  <2>3. tenant \in Tenants(name, {year[x]})
    BY <2>1, <2>2 DEF Tenants
  <2>4. l[year[x]] \in Ledgers(name, {year[x]})
    BY <1>2, <2>1, <2>3 DEF Ledgers
  <2>5. l[year[x]].tenant = tenant
    BY <1>5, <2>1 DEF LedgerSums
  <2> QED BY <1>m, <2>1, <2>4, <2>5 DEF YearlyLedgers
<1>8. \A m \in M : \E x \in R : m = l[year[x]]
  <2> SUFFICES ASSUME NEW m \in M PROVE \E x \in R : m = l[year[x]]
    OBVIOUS
  <2>1. m.tenant = tenant /\ \E y \in AvailableYears : m \in Ledgers(name, {y})
    BY <1>m DEF YearlyLedgers
  <2>2. PICK y \in AvailableYears : \E t \in Tenants(name, {y}) : m = LedgerOf(name, t, {y})
    BY <2>1 DEF Ledgers
  <2>t. PICK t \in Tenants(name, {y}) : m = LedgerOf(name, t, {y})
    BY <2>2
  <2>3. PICK R2, Q2 : R2 = RowsOf(name, t) /\ Q2 = PaymentsOfTenant(name, t)
    OBVIOUS
  <2>4. LedgerSums(LedgerOf(name, t, {y}), t, Selected(R2, {y}), Unallocated(R2, Q2))
    BY <2>3, TenantRows
  <2>5. m.tenant = t
    BY <2>t, <2>4 DEF LedgerSums
  <2>6. PICK x \in Selected(LiveRows, {y}) : NormalizeTenantName(name[x[1]]) = t
    BY <2>t DEF Tenants
  <2>7. x \in LiveRows /\ year[x] = y
    BY <1>2, <2>6 DEF Selected
  <2>8. x \in R
    BY <1>1, <2>1, <2>5, <2>6, <2>7 DEF RowsOf
  <2> QED BY <1>2, <2>1, <2>t, <2>5, <2>7, <2>8
<1>9. IsFiniteSet(M)
  <2>1. PICK h : h = [x \in R |-> l[year[x]]]
    OBVIOUS
  <2>2. h \in Surjection(R, M)
    BY <1>7, <1>8, <2>1 DEF Surjection
  <2> QED BY <1>4, <2>2, FS_Surjection
<1>10. PICK I : I = [m \in M |-> DOMAIN m.periods]
  OBVIOUS
<1>11. ASSUME NEW m \in M, NEW x \in R
       PROVE  x \in I[m] <=> m = l[year[x]]
  <2>1. PICK z \in R : m = l[year[z]]
    BY <1>8
  <2>2. I[m] = {w \in R : year[w] = year[z]}
    BY <1>4, <1>5, <1>10, <2>1 DEF LedgerSums
  <2>3. x \in I[l[year[x]]]
    <3>1. l[year[x]] \in M /\ year[x] \in AvailableYears
      BY <1>4, <1>7
    <3>2. DOMAIN l[year[x]].periods = {w \in R : year[w] = year[x]}
      BY <1>5, <3>1 DEF LedgerSums
    <3> QED BY <1>10, <3>1, <3>2
  <2> QED BY <2>1, <2>2, <2>3
<1>12. ASSUME NEW m \in M
       PROVE  LedgerSums(m, tenant, I[m], Unallocated(R, Q)) /\ I[m] \in SUBSET R
  <2>1. PICK x \in R : m = l[year[x]]
    BY <1>8
  <2>2. year[x] \in AvailableYears
    BY <1>4
  <2>3. LedgerSums(m, tenant, {z \in R : year[z] = year[x]}, Unallocated(R, Q))
    BY <1>5, <2>1, <2>2
  <2>4. I[m] = {z \in R : year[z] = year[x]}
    BY <1>10, <2>3 DEF LedgerSums
  <2> QED BY <2>3, <2>4
<1>13. ASSUME NEW field \in Fields
       PROVE  whole[field] = SumFunction([m \in M |-> m[field]])
  <2>1. PICK f, g : f = Figures[field] /\ g = [m \in M |-> m[field]]
    OBVIOUS
  <2>2. \A x \in R : f[x] \in Int
    BY <1>4, <2>1, FiguresAre
  <2>3. \A m \in M : g[m] = SumFunctionOnSet(f, I[m])
    BY <1>12, <2>1 DEF LedgerSums
  <2>4. \A x \in R : \E m \in M : x \in I[m]
    BY <1>7, <1>11
  <2>5. \A m, n \in M : \A x \in I[m] : x \in I[n] => m = n
    <3> SUFFICES ASSUME NEW m \in M, NEW n \in M, NEW x \in I[m], x \in I[n] PROVE m = n
      OBVIOUS
    <3>1. x \in R
      BY <1>12
    <3> QED BY <1>11, <3>1
  <2>p. \A m \in M : I[m] \in SUBSET R
    BY <1>12
  <2>6. SumFunctionOnSet(g, M) = SumFunctionOnSet(f, R)
    BY <1>4, <1>9, <2>p, <2>2, <2>3, <2>4, <2>5, PartsAddUp
  <2>7. whole[field] = SumFunctionOnSet(f, R)
    BY <1>5, <2>1 DEF LedgerSums
  <2> QED BY <2>1, <2>6, <2>7 DEF SumFunction
<1>14. \A m \in M : m.unallocated = whole.unallocated
  BY <1>5, <1>12 DEF LedgerSums
<1> QED BY <1>m, <1>3, <1>13, <1>14 DEF LedgersOfYearsAddUp, Fields

\* What a payment pays for an instalment of its contract.
Gift(c, p, s) == Larger(Overlap(schedules[c], PaymentsOf(payments, c), p, s), 0)

\* The lines of a period are what the payments of its contract pay for it.
LEMMA LinesAre ==
  ASSUME Whole, FinitelyLeased, NEW x \in LiveRows, NEW pay, pay = PaymentsOf(payments, x[1])
  PROVE  /\ DOMAIN Lines(x) = {p \in DOMAIN pay : Gift(x[1], p, x[2]) > 0}
         /\ \A p \in DOMAIN Lines(x) : Lines(x)[p] = Gift(x[1], p, x[2])
         /\ \A p \in DOMAIN pay : Gift(x[1], p, x[2]) \in Nat
         /\ SumFunctionOnSet(Lines(x), DOMAIN Lines(x)) = PaidIn(x)
<1>1. PICK c, s, sch : c = x[1] /\ s = x[2] /\ sch = schedules[c]
  OBVIOUS
<1>2. c \in DOMAIN lease /\ s \in DOMAIN sch /\ Given(sch, pay)
  BY <1>1, LiveRowsAre, PaidIs
<1>3. PICK f : f = [p \in DOMAIN pay |-> Gift(c, p, s)]
  OBVIOUS
<1>4. \A p \in DOMAIN pay : f[p] \in Nat
  <2> SUFFICES ASSUME NEW p \in DOMAIN pay PROVE Gift(c, p, s) \in Nat
    BY <1>3
  <2>1. PICK g : g = [t \in DOMAIN sch |-> Larger(Overlap(sch, pay, p, t), 0)]
    OBVIOUS
  <2>2. \A t \in DOMAIN sch : g[t] = Larger(Overlap(sch, pay, p, t), 0)
    BY <2>1
  <2>3. g[s] \in Nat
    BY <1>2, <2>2, SpentOn
  <2> QED BY <1>1, <1>2, <2>2, <2>3 DEF Gift
<1>5. PICK amounts : amounts = [y \in (DOMAIN pay) \X (DOMAIN sch) |-> Larger(Overlap(sch, pay, y[1], y[2]), 0)]
  OBVIOUS
<1>6. allocations[c] = {[payment |-> y[1], sequence |-> y[2], amount |-> amounts[y]] :
                          y \in {z \in DOMAIN amounts : amounts[z] > 0}}
  <2>1. allocations[c] = PrefixSums(sch, pay)
    BY <1>1, <1>2, FollowingRowsIsFifo DEF Whole, AllocationsAreFifo, TypeOK
  <2> QED BY <1>5, <2>1 DEF PrefixSums, Rows
<1>7. \A p \in DOMAIN pay : <<p, s>> \in DOMAIN amounts /\ amounts[<<p, s>>] = f[p]
  BY <1>1, <1>2, <1>3, <1>5 DEF Gift
<1>8. \A p \in DOMAIN pay : p \in DOMAIN payments
  BY DEF PaymentsOf, Restrict
<1>9. ASSUME NEW p \in DOMAIN pay, f[p] > 0
      PROVE  [payment |-> p, sequence |-> s, amount |-> f[p]] \in Active(x)
  <2>1. [payment |-> <<p, s>>[1], sequence |-> <<p, s>>[2], amount |-> amounts[<<p, s>>]] \in allocations[c]
    BY <1>6, <1>7, <1>9
  <2>2. [payment |-> p, sequence |-> s, amount |-> f[p]] \in allocations[c]
    BY <1>7, <2>1
  <2> QED BY <1>1, <1>8, <2>2 DEF Active
<1>10. ASSUME NEW r \in Active(x)
       PROVE  /\ r.payment \in DOMAIN pay /\ f[r.payment] > 0
              /\ r = [payment |-> r.payment, sequence |-> s, amount |-> f[r.payment]]
  <2>1. r \in allocations[c] /\ r.sequence = s
    BY <1>1 DEF Active
  <2>2. PICK y \in DOMAIN amounts : /\ amounts[y] > 0
                                    /\ r = [payment |-> y[1], sequence |-> y[2], amount |-> amounts[y]]
    BY <1>6, <2>1
  <2>3. y[1] \in DOMAIN pay /\ y = <<y[1], s>>
    BY <1>5, <2>1, <2>2
  <2> QED BY <1>7, <2>2, <2>3
<1>11. {r.payment : r \in Active(x)} = {p \in DOMAIN pay : f[p] > 0}
  <2>1. \A p \in DOMAIN pay : f[p] > 0 => \E r \in Active(x) : r.payment = p
    <3> SUFFICES ASSUME NEW p \in DOMAIN pay, f[p] > 0 PROVE \E r \in Active(x) : r.payment = p
      OBVIOUS
    <3>1. PICK r : r = [payment |-> p, sequence |-> s, amount |-> f[p]]
      OBVIOUS
    <3> QED BY <1>9, <3>1
  <2> QED BY <1>10, <2>1
<1>12. DOMAIN Lines(x) = {p \in DOMAIN pay : f[p] > 0}
  BY <1>11 DEF Lines
<1>13. ASSUME NEW p \in DOMAIN Lines(x) PROVE Lines(x)[p] = f[p]
  <2>1. PICK r : r = [payment |-> p, sequence |-> s, amount |-> f[p]]
    OBVIOUS
  <2>2. p \in DOMAIN pay /\ f[p] > 0 /\ f[p] \in Int
    BY <1>4, <1>12
  <2>3. {q \in Active(x) : q.payment = p} = {r}
    BY <1>9, <1>10, <2>1, <2>2
  <2>4. PICK e : e = [q \in {r} |-> q.amount]
    OBVIOUS
  <2>5. Lines(x)[p] = SumFunction(e)
    BY <2>3, <2>4 DEF Lines
  <2>6. e[r] = f[p] /\ DOMAIN e = {r}
    BY <2>1, <2>4
  <2> QED BY <2>2, <2>5, <2>6, SumOne DEF SumFunction
<1>14. SumFunctionOnSet(Lines(x), DOMAIN Lines(x)) = PaidIn(x)
  <2>1. \A p \in DOMAIN pay : f[p] = Larger(Overlap(sch, pay, p, s), 0)
    BY <1>1, <1>3 DEF Gift
  <2>2. SumFunctionOnSet(f, DOMAIN pay) = Covered(DueBefore(sch, s), sch[s].amount, Total(pay))
    BY <1>2, <2>1, PaidFor
  <2>3. PaidIn(x) = Covered(DueBefore(sch, s), sch[s].amount, Total(pay))
    BY <1>1, <1>2, PaidIs DEF PaidIn
  <2>4. PICK g, D : g = Lines(x) /\ D = DOMAIN Lines(x)
    OBVIOUS
  <2>5. /\ IsFiniteSet(DOMAIN pay) /\ D \in SUBSET DOMAIN pay
        /\ \A p \in DOMAIN pay : f[p] \in Int
        /\ \A p \in D : g[p] = f[p]
        /\ \A p \in DOMAIN pay \ D : f[p] = 0
    BY <1>2, <1>4, <1>12, <1>13, <2>4 DEF Given
  <2>6. SumFunctionOnSet(g, D) = SumFunctionOnSet(f, DOMAIN pay)
    BY <2>5, SumAgrees
  <2> QED BY <2>2, <2>3, <2>4, <2>6
<1> QED BY <1>1, <1>3, <1>4, <1>12, <1>13, <1>14

\* The lines of a tenant's payment are in periods of one contract, for no more than it is.
LEMMA LineAtMost ==
  ASSUME Whole, FinitelyLeased, NEW name, NEW tenant,
         NEW R, R = RowsOf(name, tenant), NEW p \in PaymentsOfTenant(name, tenant),
         NEW X, X = {y \in R : p \in DOMAIN Lines(y)},
         NEW e, \A x \in X : e[x] = Lines(x)[p]
  PROVE  /\ IsFiniteSet(X) /\ \A x \in X : e[x] \in Nat
         /\ SumFunctionOnSet(e, X) <= payments[p].amount
<1>1. PICK c, sch, pay : c = payments[p].contract /\ sch = schedules[c] /\ pay = PaymentsOf(payments, c)
  OBVIOUS
<1>2. /\ c \in LiveContracts /\ NormalizeTenantName(name[c]) = tenant
      /\ p \in DOMAIN pay /\ pay[p] = payments[p]
  BY <1>1 DEF PaymentsOfTenant, PaymentsOf, Restrict
<1>3. Given(sch, pay) /\ c \in DOMAIN lease
  BY <1>1, <1>2, PaidIs DEF LiveContracts
<1>4. R \in SUBSET LiveRows /\ IsFiniteSet(R)
  <2>1. R \in SUBSET LiveRows
    BY DEF RowsOf
  <2> QED BY <2>1, LiveRowsAre, FS_Subset
<1>5. IsFiniteSet(X)
  BY <1>4, FS_Subset
<1>6. PICK f : f = [s \in DOMAIN sch |-> Gift(c, p, s)]
  OBVIOUS
<1>7. /\ SumFunctionOnSet(f, DOMAIN sch) <= pay[p].amount
      /\ \A s \in DOMAIN sch : f[s] \in Nat
  <2>1. \A s \in DOMAIN sch : f[s] = Larger(Overlap(sch, pay, p, s), 0)
    BY <1>1, <1>6 DEF Gift
  <2> QED BY <1>2, <1>3, <2>1, SpentOn
<1>8. ASSUME NEW x \in X PROVE x[2] \in DOMAIN sch /\ x = <<c, x[2]>> /\ e[x] = f[x[2]]
  <2>1. x \in LiveRows /\ p \in DOMAIN Lines(x)
    BY <1>4
  <2>2. p \in DOMAIN PaymentsOf(payments, x[1]) /\ Lines(x)[p] = Gift(x[1], p, x[2])
    BY <2>1, LinesAre
  <2>3. x[1] = c
    BY <1>1, <2>2 DEF PaymentsOf, Restrict
  <2>4. x = <<x[1], x[2]>> /\ x[2] \in DOMAIN schedules[x[1]]
    BY <2>1, LiveRowsAre
  <2> QED BY <1>1, <1>6, <2>2, <2>3, <2>4
<1>9. ASSUME NEW s \in DOMAIN sch PROVE f[s] = 0 \/ <<c, s>> \in X
  <2>1. PICK x : x = <<c, s>>
    OBVIOUS
  <2>2. x \in LiveRows /\ x[1] = c /\ x[2] = s
    BY <1>1, <1>2, <2>1, LiveRowsAre
  <2>3. x \in R
    BY <1>2, <2>2 DEF RowsOf
  <2>4. DOMAIN Lines(x) = {q \in DOMAIN pay : Gift(c, q, s) > 0}
    BY <1>1, <2>2, LinesAre
  <2>5. f[s] = Gift(c, p, s) /\ f[s] \in Nat
    BY <1>6, <1>7
  <2>6. f[s] # 0 => p \in DOMAIN Lines(x)
    BY <1>2, <2>4, <2>5
  <2> QED BY <2>1, <2>3, <2>6
<1>10. PICK h : h = [x \in X |-> x[2]]
  OBVIOUS
<1>11. SumFunctionOnSet(e, X) = SumFunctionOnSet(f, DOMAIN sch)
  <2>1. h \in [X -> DOMAIN sch] /\ \A x, z \in X : h[x] = h[z] => x = z
    BY <1>8, <1>10
  <2>2. \A x \in X : e[x] = f[h[x]]
    BY <1>8, <1>10
  <2>3. \A s \in DOMAIN sch : f[s] \in Int /\ (f[s] = 0 \/ \E x \in X : h[x] = s)
    <3> SUFFICES ASSUME NEW s \in DOMAIN sch, f[s] # 0 PROVE \E x \in X : h[x] = s
      BY <1>7
    <3>1. <<c, s>> \in X
      BY <1>9
    <3>2. h[<<c, s>>] = s
      BY <1>10, <3>1
    <3> QED BY <3>1, <3>2
  <2>4. IsFiniteSet(DOMAIN sch)
    BY <1>3 DEF Given
  <2> QED BY <1>5, <2>1, <2>2, <2>3, <2>4, SumCarried
<1> QED BY <1>2, <1>5, <1>7, <1>8, <1>11

\* Every payment of a tenant is shown with all of its money.
LEMMA LinesAddUpOf ==
  ASSUME Whole, FinitelyLeased, NEW name, NEW tenant
  PROVE  LinesAddUp(LedgerOf(name, tenant, {}), PaymentsOfTenant(name, tenant))
<1>1. PICK R, Q, l : /\ R = RowsOf(name, tenant) /\ Q = PaymentsOfTenant(name, tenant)
                     /\ l = LedgerOf(name, tenant, {})
  OBVIOUS
<1>2. /\ R \in SUBSET LiveRows /\ IsFiniteSet(R)
      /\ Q \in SUBSET DOMAIN payments /\ IsFiniteSet(Q)
      /\ \A p \in Q : payments[p].amount \in Nat
  BY <1>1, TenantRows
<1>3. /\ DOMAIN l.periods = R
      /\ \A x \in R : l.periods[x].payments = Lines(x)
      /\ l.unallocated = Unallocated(R, Q)
  <2>1. Selected(R, {}) = R
    BY DEF Selected
  <2>2. LedgerSums(l, tenant, R, Unallocated(R, Q))
    BY <1>1, <2>1, TenantRows
  <2>3. \A x \in R : SerializePeriod(x).payments = Lines(x)
    BY <1>2, PeriodIs
  <2> QED BY <2>2, <2>3 DEF LedgerSums
<1>4. PICK X : X = [p \in Q |-> {y \in R : p \in DOMAIN Lines(y)}]
  OBVIOUS
<1>5. PICK E : E = [p \in Q |-> [x \in X[p] |-> Lines(x)[p]]]
  OBVIOUS
<1>6. PICK line : line = [p \in Q |-> SumFunction(E[p])]
  OBVIOUS
<1>7. ASSUME NEW p \in Q
      PROVE  /\ IsFiniteSet(X[p]) /\ X[p] \in SUBSET R /\ \A x \in X[p] : E[p][x] \in Nat
             /\ line[p] = SumFunctionOnSet(E[p], X[p])
             /\ line[p] \in Nat /\ line[p] <= payments[p].amount
  <2>1. PICK Y, e : Y = X[p] /\ e = E[p]
    OBVIOUS
  <2>2. Y = {y \in R : p \in DOMAIN Lines(y)} /\ (\A x \in Y : e[x] = Lines(x)[p]) /\ DOMAIN e = Y
    BY <1>4, <1>5, <2>1
  <2>3. /\ IsFiniteSet(Y) /\ \A x \in Y : e[x] \in Nat
        /\ SumFunctionOnSet(e, Y) <= payments[p].amount
    BY <1>1, <2>2, LineAtMost
  <2>4. SumFunctionOnSet(e, Y) \in Nat
    BY <2>3, SumNat
  <2>5. line[p] = SumFunctionOnSet(e, Y)
    BY <1>6, <2>1, <2>2 DEF SumFunction
  <2> QED BY <2>1, <2>2, <2>3, <2>4, <2>5
<1>8. \A x \in R : DOMAIN Lines(x) \in SUBSET Q
  <2> SUFFICES ASSUME NEW x \in R, NEW p \in DOMAIN Lines(x) PROVE p \in Q
    OBVIOUS
  <2>1. /\ x \in LiveRows /\ x[1] \in LiveContracts
        /\ NormalizeTenantName(name[x[1]]) = tenant
    BY <1>1, <1>2, LiveRowsAre DEF RowsOf
  <2>2. p \in DOMAIN PaymentsOf(payments, x[1])
    BY <2>1, LinesAre
  <2>3. p \in DOMAIN payments /\ payments[p].contract = x[1]
    BY <2>2 DEF PaymentsOf, Restrict
  <2> QED BY <1>1, <2>1, <2>3 DEF PaymentsOfTenant
<1>9. PICK paid : paid = [x \in R |-> SumFunction([r \in Active(x) |-> r.amount])]
  OBVIOUS
<1>10. SumFunctionOnSet(line, Q) = SumFunctionOnSet(paid, R)
  <2>1. PICK J, G : J = [x \in R |-> DOMAIN Lines(x)] /\ G = [x \in R |-> Lines(x)]
    OBVIOUS
  <2>2. (\A p \in Q : X[p] \in SUBSET R) /\ (\A x \in R : J[x] \in SUBSET Q)
    BY <1>7, <1>8, <2>1
  <2>3. \A p \in Q, x \in R : x \in X[p] <=> p \in J[x]
    BY <1>4, <2>1
  <2>4. \A p \in Q, x \in R : x \in X[p] => E[p][x] \in Int /\ G[x][p] = E[p][x]
    <3> SUFFICES ASSUME NEW p \in Q, NEW x \in R, x \in X[p]
                 PROVE  E[p][x] \in Int /\ G[x][p] = E[p][x]
      OBVIOUS
    <3>1. E[p][x] \in Nat
      BY <1>7
    <3>2. E[p] = [z \in X[p] |-> Lines(z)[p]]
      BY <1>5
    <3>3. E[p][x] = Lines(x)[p]
      BY <3>2
    <3>4. G[x] = Lines(x)
      BY <2>1
    <3> QED BY <3>1, <3>3, <3>4
  <2>5. \A p \in Q : line[p] = SumFunctionOnSet(E[p], X[p])
    BY <1>7
  <2>6. \A x \in R : paid[x] = SumFunctionOnSet(G[x], J[x])
    <3> SUFFICES ASSUME NEW x \in R PROVE paid[x] = SumFunctionOnSet(Lines(x), DOMAIN Lines(x))
      BY <2>1
    <3>1. x \in LiveRows
      BY <1>2
    <3>2. paid[x] = PaidIn(x)
      BY <1>9, <3>1, PeriodIs
    <3>3. SumFunctionOnSet(Lines(x), DOMAIN Lines(x)) = PaidIn(x)
      BY <3>1, LinesAre
    <3> QED BY <3>2, <3>3
  <2>7. TwoSided(Q, R, X, J, E, G, line, paid)
    BY <1>2, <2>2, <2>3, <2>4, <2>5, <2>6 DEF TwoSided
  <2> QED BY <2>7, SumSwapped
<1>11. PICK received : received = [p \in Q |-> payments[p].amount]
  OBVIOUS
<1>12. /\ SumFunctionOnSet(line, Q) \in Nat /\ SumFunctionOnSet(received, Q) \in Nat
       /\ SumFunctionOnSet(line, Q) <= SumFunctionOnSet(received, Q)
  <2>1. \A p \in Q : /\ line[p] \in Nat /\ line[p] \in Int /\ received[p] \in Nat
                     /\ line[p] <= received[p]
    BY <1>2, <1>7, <1>11
  <2>2. Q \in SUBSET Q
    OBVIOUS
  <2>3. SumFunctionOnSet(line, Q) <= SumFunctionOnSet(received, Q)
    BY <1>2, <2>1, <2>2, SumAtMost
  <2> QED BY <1>2, <2>1, <2>3, SumNat
<1>13. /\ SumFunction(line) = SumFunctionOnSet(line, Q)
       /\ SumFunction(paid) = SumFunctionOnSet(paid, R)
       /\ SumFunction(received) = SumFunctionOnSet(received, Q)
  BY <1>6, <1>9, <1>11 DEF SumFunction
<1>14. l.unallocated = Larger(SumFunction(received) - SumFunction(paid), 0)
  BY <1>3, <1>9, <1>11 DEF Unallocated
<1>15. SumFunction(line) + l.unallocated = SumFunction(received)
  BY <1>10, <1>12, <1>13, <1>14 DEF Larger
<1>16. line = [p \in Q |->
          SumFunction([x \in {y \in DOMAIN l.periods : p \in DOMAIN l.periods[y].payments} |->
                         l.periods[x].payments[p]])]
  <2>1. ASSUME NEW p \in Q
        PROVE  E[p] = [x \in {y \in DOMAIN l.periods : p \in DOMAIN l.periods[y].payments} |->
                         l.periods[x].payments[p]]
    <3>1. X[p] = {y \in DOMAIN l.periods : p \in DOMAIN l.periods[y].payments}
      BY <1>3, <1>4
    <3>2. \A x \in X[p] : Lines(x)[p] = l.periods[x].payments[p]
      BY <1>3, <1>7
    <3> QED BY <1>5, <3>1, <3>2
  <2> QED BY <1>6, <2>1
<1>17. \A p \in Q : line[p] <= payments[p].amount
  BY <1>7
<1>18. UNION {DOMAIN l.periods[x].payments : x \in DOMAIN l.periods} \subseteq Q
  BY <1>3, <1>8
<1> QED BY <1>1, <1>11, <1>15, <1>16, <1>17, <1>18 DEF LinesAddUp

\* Of whole rows the reconciliation says the same in all its ways.
LEMMA WholeTenantsAgree ==
  Whole /\ FinitelyLeased => TenantsAgree
<1> SUFFICES ASSUME Whole, FinitelyLeased, NEW name \in AllNames,
                    NEW all, all = Ledgers(name, {}),
                    NEW ofYears, ofYears = UNION {Ledgers(name, {y}) : y \in AvailableYears}
             PROVE  /\ \A l \in all :
                         /\ LedgersOfYearsAddUp(l, {m \in ofYears : m.tenant = l.tenant})
                         /\ LinesAddUp(l, PaymentsOfTenant(name, l.tenant))
                    /\ \A l \in all \cup ofYears : StatusOfPeriods(l)
                    /\ \A year \in YearsAsked : ListHasDetails(Ledgers(name, year))
  BY DEF TenantsAgree
<1>1. ASSUME NEW t, NEW year
      PROVE  LedgerOf(name, t, year).tenant = t /\ StatusOfPeriods(LedgerOf(name, t, year))
  <2>1. PICK R, Q, rows, l : /\ R = RowsOf(name, t) /\ Q = PaymentsOfTenant(name, t)
                             /\ rows = Selected(R, year) /\ l = LedgerOf(name, t, year)
    OBVIOUS
  <2>2. R \in SUBSET LiveRows /\ Unallocated(R, Q) \in Nat /\ LedgerSums(l, t, rows, Unallocated(R, Q))
    BY <2>1, TenantRows
  <2>3. rows \in SUBSET LiveRows
    BY <2>1, <2>2 DEF Selected
  <2>4. StatusOfPeriods(l)
    BY <2>2, <2>3, StatusIs
  <2>5. l.tenant = t
    BY <2>2 DEF LedgerSums
  <2> QED BY <2>1, <2>4, <2>5
<1>2. ASSUME NEW l \in all
      PROVE  /\ LedgersOfYearsAddUp(l, {m \in ofYears : m.tenant = l.tenant})
             /\ LinesAddUp(l, PaymentsOfTenant(name, l.tenant))
  <2>1. PICK t : l = LedgerOf(name, t, {})
    BY DEF Ledgers
  <2>2. l.tenant = t
    BY <1>1, <2>1
  <2>3. {m \in ofYears : m.tenant = l.tenant} = YearlyLedgers(name, t)
    BY <2>2 DEF YearlyLedgers
  <2> QED BY <2>1, <2>2, <2>3, YearsAre, LinesAddUpOf
<1>3. \A l \in all \cup ofYears : StatusOfPeriods(l)
  <2> SUFFICES ASSUME NEW l \in all \cup ofYears PROVE StatusOfPeriods(l)
    OBVIOUS
  <2>1. PICK year : l \in Ledgers(name, year)
    OBVIOUS
  <2>2. PICK t : l = LedgerOf(name, t, year)
    BY <2>1 DEF Ledgers
  <2> QED BY <1>1, <2>2
<1>4. \A year \in YearsAsked : ListHasDetails(Ledgers(name, year))
  BY DetailsAre
<1> QED BY <1>2, <1>3, <1>4

(***************************************************************************)
(* Of any ledger, and whatever names its contracts have, the               *)
(* reconciliation says the same in all its ways: the ledgers of the years  *)
(* add up to that of all years, a status is that of the periods, the lines *)
(* of the payments are all that was received, and the list has the detail  *)
(* of every tenant.                                                        *)
(***************************************************************************)
THEOREM TenantsAlwaysAgree == Spec => []TenantsAgree
<1>1. Init => FinitelyPaid /\ FinitelyLeased
  BY FS_EmptySet DEF Init, FinitelyPaid, FinitelyLeased
<1>2. Spec => []FinitelyPaid
  BY <1>1, PaymentsFiniteKept, PTL DEF Spec
<1>3. Spec => []FinitelyLeased
  BY <1>1, LeasesFiniteKept, PTL DEF Spec
<1> QED
  BY <1>2, <1>3, WholeTenantsAgree, LedgerTypes, PeriodsAlwaysFollowLease, AllocationsAlwaysFollowRows, PTL
     DEF Whole
-----------------------------------------------------------------------------
(* Transactions *)

Requests == CreatePaymentRequests \cup UpdatePaymentRequests \cup RemovePaymentRequests
              \cup UpdateContractRequests \cup RemoveContractRequests \cup EditRequests

TxTypeOK ==
  /\ step \in [Worker -> {"idle", "locking", "checked", "writing"}]
  /\ request \in [Worker -> {NoRequest} \cup Requests]
  /\ wait \in [Worker -> SUBSET Contract]
  /\ locks \in [Worker -> SUBSET Contract]
  /\ DOMAIN seen = Worker

Exclusive == \A v, w \in Worker : v # w => locks[v] \cap locks[w] = {}

\* A transaction that writes has read the rows in force.
Current(w) ==
  LET r == request[w] IN
  /\ seen[w] = [schedules   |-> Restrict(schedules, ContractsOf(r)),
                payments    |-> PaymentsIn(payments, ContractsOf(r)),
                allocations |-> Restrict(allocations, ContractsOf(r)),
                day         |-> seen[w].day]
  /\ seen[w].day \in AsOf
  /\ Accepts(r, seen[w])

Sound(w) ==
  /\ step[w] = "idle" <=> request[w] = NoRequest
  /\ step[w] = "idle" => locks[w] = {}
  /\ step[w] # "idle" => locks[w] \cup wait[w] = ContractsOf(request[w])
  /\ step[w] \in {"checked", "writing"} => wait[w] = {}
  /\ \A c \in locks[w] : Live(c)
  /\ step[w] \in {"checked", "writing"} /\ ChangesPayment(request[w]) => SamePayment(request[w])
  /\ step[w] = "writing" => Current(w)

\* New payments have ids that no payment and no other request has.
Fresh(w) ==
  request[w].kind = "create payment" =>
    /\ request[w].payment \notin used
    /\ \A v \in Worker \ {w} :
         request[v].kind = "create payment" => request[v].payment # request[w].payment

TxInv ==
  /\ TypeOK
  /\ PeriodsFollowLease
  /\ TxTypeOK
  /\ Exclusive
  /\ \A w \in Worker : Sound(w) /\ Fresh(w)

-----------------------------------------------------------------------------
(* Every commit is a whole request *)

\* What a writing transaction knows.
LEMMA Writing ==
  ASSUME TxInv, NEW w \in Worker, step[w] = "writing"
  PROVE  /\ request[w] \in Requests
         /\ locks[w] = ContractsOf(request[w])
         /\ \A c \in ContractsOf(request[w]) : c \in Contract /\ Live(c)
         /\ ChangesPayment(request[w]) => SamePayment(request[w])
         /\ seen[w].schedules = Restrict(schedules, ContractsOf(request[w]))
         /\ seen[w].payments = PaymentsIn(payments, ContractsOf(request[w]))
         /\ seen[w].allocations = Restrict(allocations, ContractsOf(request[w]))
         /\ seen[w].day \in AsOf
         /\ Accepts(request[w], seen[w])
<1>1. Sound(w) /\ request[w] # NoRequest /\ request[w] \in {NoRequest} \cup Requests
  BY DEF TxInv, TxTypeOK, Sound
<1>2. locks[w] = ContractsOf(request[w]) /\ locks[w] \subseteq Contract
  BY <1>1 DEF TxInv, TxTypeOK, Sound
<1>3. Current(w)
  BY <1>1 DEF Sound
<1>4. /\ seen[w].schedules = Restrict(schedules, ContractsOf(request[w]))
      /\ seen[w].payments = PaymentsIn(payments, ContractsOf(request[w]))
      /\ seen[w].allocations = Restrict(allocations, ContractsOf(request[w]))
  <2> DEFINE a == Restrict(schedules, ContractsOf(request[w]))
             b == PaymentsIn(payments, ContractsOf(request[w]))
             d == Restrict(allocations, ContractsOf(request[w]))
  <2>1. seen[w] = [schedules |-> a, payments |-> b, allocations |-> d, day |-> seen[w].day]
    BY <1>3 DEF Current
  <2> HIDE DEF a, b, d
  <2> QED BY <2>1 DEF a, b, d
<1> QED BY <1>1, <1>2, <1>3, <1>4 DEF Sound, Current

\* Rebuilding from rows that agree on the contracts rebuilt is the same.
LEMMA RebuiltSame ==
  ASSUME NEW contracts, NEW sch1, NEW sch2, NEW pay1, NEW pay2,
         \A c \in contracts : sch1[c] = sch2[c] /\ PaymentsOf(pay1, c) = PaymentsOf(pay2, c)
  PROVE  Rebuilt(contracts, sch1, pay1) = Rebuilt(contracts, sch2, pay2)
BY DEF Rebuilt

\* The payments of a contract are the same among those of some contracts and among all.
LEMMA PaymentsOfSeen ==
  ASSUME NEW pay, NEW contracts, NEW c \in contracts
  PROVE  PaymentsOf(PaymentsIn(pay, contracts), c)
           = PaymentsOf(pay, c)
<1> DEFINE some == PaymentsIn(pay, contracts)
           S == {q \in DOMAIN some : some[q].contract = c}
           T == {q \in DOMAIN pay : pay[q].contract = c}
<1>1. /\ DOMAIN some = {p \in DOMAIN pay : pay[p].contract \in contracts}
      /\ \A q \in DOMAIN some : some[q] = pay[q]
  BY DEF Restrict, PaymentsIn, Drop
<1>2. S = T
  <2> HIDE DEF some
  <2> QED BY <1>1
<1>3. [q \in S |-> some[q]] = [q \in T |-> pay[q]]
  <2>1. \A q \in S : some[q] = pay[q]
    BY <1>1
  <2> HIDE DEF some, S, T
  <2> QED BY <1>2, <2>1
<1> QED BY <1>3 DEF PaymentsOf, Restrict

\* The same with a payment put in, which may come from a contract among them.
LEMMA PaymentsOfSeenPut ==
  ASSUME NEW pay, NEW contracts, NEW c \in contracts, NEW p, NEW row,
         p \in DOMAIN pay => pay[p].contract \in contracts
  PROVE  PaymentsOf(Put(PaymentsIn(pay, contracts), p, row), c)
           = PaymentsOf(Put(pay, p, row), c)
<1> DEFINE some == PaymentsIn(pay, contracts)
           new1 == Put(some, p, row)
           new2 == Put(pay, p, row)
           S == {q \in DOMAIN new1 : new1[q].contract = c}
           T == {q \in DOMAIN new2 : new2[q].contract = c}
<1>1. /\ DOMAIN some = {q \in DOMAIN pay : pay[q].contract \in contracts}
      /\ \A q \in DOMAIN some : some[q] = pay[q]
  BY DEF Restrict, PaymentsIn, Drop
<1>2. /\ DOMAIN new1 = DOMAIN some \cup {p} /\ new1[p] = row
      /\ \A q \in DOMAIN some : q # p => new1[q] = some[q]
  <2> HIDE DEF some
  <2> QED BY DEF Put
<1>3. /\ DOMAIN new2 = DOMAIN pay \cup {p} /\ new2[p] = row
      /\ \A q \in DOMAIN pay : q # p => new2[q] = pay[q]
  BY DEF Put
<1> HIDE DEF some, new1, new2
<1>4. S = T
  <2>1. ASSUME NEW q, q # p PROVE q \in S <=> q \in T
    BY <1>1, <1>2, <1>3, <2>1
  <2>2. p \in S <=> p \in T
    BY <1>2, <1>3
  <2> QED BY <2>1, <2>2
<1>5. \A q \in S : new1[q] = new2[q]
  BY <1>1, <1>2, <1>3
<1>6. [q \in S |-> new1[q]] = [q \in T |-> new2[q]]
  <2> HIDE DEF S, T
  <2> QED BY <1>4, <1>5
<1> QED BY <1>6 DEF PaymentsOf, Restrict, some, new1, new2

\* The same with a payment taken out.
LEMMA PaymentsOfSeenDrop ==
  ASSUME NEW pay, NEW contracts, NEW c \in contracts, NEW p
  PROVE  PaymentsOf(Drop(PaymentsIn(pay, contracts), p), c) = PaymentsOf(Drop(pay, p), c)
<1> DEFINE some == PaymentsIn(pay, contracts)
           new1 == Drop(some, p)
           new2 == Drop(pay, p)
           S == {q \in DOMAIN new1 : new1[q].contract = c}
           T == {q \in DOMAIN new2 : new2[q].contract = c}
<1>1. /\ DOMAIN some = {q \in DOMAIN pay : pay[q].contract \in contracts}
      /\ \A q \in DOMAIN some : some[q] = pay[q]
  BY DEF Restrict, PaymentsIn, Drop
<1>2. DOMAIN new1 = DOMAIN some \ {p} /\ \A q \in DOMAIN new1 : new1[q] = some[q]
  BY DEF Restrict, PaymentsIn, Drop
<1>3. DOMAIN new2 = DOMAIN pay \ {p} /\ \A q \in DOMAIN new2 : new2[q] = pay[q]
  BY DEF Restrict, PaymentsIn, Drop
<1> HIDE DEF new1, new2
<1>4. S = T
  BY <1>1, <1>2, <1>3
<1>5. \A q \in S : new1[q] = new2[q]
  BY <1>1, <1>2, <1>3
<1>6. [q \in S |-> new1[q]] = [q \in T |-> new2[q]]
  <2> HIDE DEF S, T
  <2> QED BY <1>4, <1>5
<1> QED BY <1>6 DEF PaymentsOf, Restrict, new1, new2

LEMMA CommitCreatePaymentImplements ==
  ASSUME TxInv, NEW w \in Worker, CommitCreatePayment(w)
  PROVE  /\ request[w].payment \in Payment
         /\ request[w].row \in PaymentRows
         /\ CreatePayment(request[w].payment, request[w].row)
<1> DEFINE r == request[w]
           rows == seen[w]
<1>1. step[w] = "writing" /\ r.kind = "create payment" /\ PaymentSaved(r, rows)
      /\ used' = used \cup {r.payment} /\ UNCHANGED <<today, lease, removed, schedules>>
  BY DEF CommitCreatePayment, Writes
<1>2. r \in Requests /\ \A c \in ContractsOf(r) : c \in Contract /\ Live(c)
  BY <1>1, Writing
<1>3. r \in CreatePaymentRequests
  BY <1>1, <1>2 DEF Requests, CreatePaymentRequests, UpdatePaymentRequests, RemovePaymentRequests,
     UpdateContractRequests, RemoveContractRequests, EditRequests
<1>4. r.payment \in Payment /\ r.row \in PaymentRows /\ ContractsOf(r) = {r.row.contract}
  BY <1>1, <1>3 DEF CreatePaymentRequests, ContractsOf
<1>5. r.payment \notin used /\ r.payment \notin DOMAIN payments
  BY <1>1 DEF TxInv, Fresh, TypeOK
<1>6. allocations' = Rebuilt(ContractsOf(r), schedules, payments')
  <2>1. payments' = Put(payments, r.payment, r.row)
        /\ allocations' = Rebuilt(ContractsOf(r), rows.schedules, Put(rows.payments, r.payment, r.row))
    BY <1>1 DEF PaymentSaved
  <2>2. \A c \in ContractsOf(r) :
          /\ rows.schedules[c] = schedules[c]
          /\ PaymentsOf(Put(rows.payments, r.payment, r.row), c) = PaymentsOf(payments', c)
    <3>1. /\ rows.schedules = Restrict(schedules, ContractsOf(r))
          /\ rows.payments = PaymentsIn(payments, ContractsOf(r))
      BY <1>1, Writing
    <3>2. \A c \in ContractsOf(r) : rows.schedules[c] = schedules[c]
      BY <3>1 DEF Restrict
    <3> HIDE DEF r, rows
    <3> QED BY <3>1, <3>2, <2>1, <1>5, PaymentsOfSeenPut
  <2> HIDE DEF r, rows
  <2> QED BY <2>1, <2>2, RebuiltSame
<1>7. Live(r.row.contract)
  BY <1>2, <1>4
<1> HIDE DEF r, rows
<1>8. CreatePayment(r.payment, r.row)
  BY <1>1, <1>4, <1>5, <1>6, <1>7 DEF CreatePayment, PaymentSaved
<1> QED BY <1>4, <1>8 DEF r

LEMMA CommitUpdatePaymentImplements ==
  ASSUME TxInv, NEW w \in Worker, CommitUpdatePayment(w)
  PROVE  /\ request[w].payment \in Payment
         /\ request[w].row \in PaymentRows
         /\ ContractsOf(request[w]) = Affected(request[w].payment, request[w].row)
         /\ UpdatePayment(request[w].payment, request[w].row)
<1> DEFINE r == request[w]
           rows == seen[w]
<1>1. step[w] = "writing" /\ r.kind = "update payment" /\ PaymentSaved(r, rows)
      /\ UNCHANGED <<today, lease, removed, schedules, used>>
  BY DEF CommitUpdatePayment, Writes
<1>2. r \in Requests /\ \A c \in ContractsOf(r) : c \in Contract /\ Live(c)
  BY <1>1, Writing
<1>3. r \in UpdatePaymentRequests
  BY <1>1, <1>2 DEF Requests, CreatePaymentRequests, UpdatePaymentRequests, RemovePaymentRequests,
     UpdateContractRequests, RemoveContractRequests, EditRequests
<1>4. r.payment \in Payment /\ r.row \in PaymentRows /\ ContractsOf(r) = {r.from, r.row.contract}
  BY <1>1, <1>3 DEF UpdatePaymentRequests, ContractsOf
<1>5. r.payment \in DOMAIN payments /\ payments[r.payment].contract = r.from
  BY <1>1, Writing DEF ChangesPayment, SamePayment
<1>6. allocations' = Rebuilt(ContractsOf(r), schedules, payments')
  <2>1. payments' = Put(payments, r.payment, r.row)
        /\ allocations' = Rebuilt(ContractsOf(r), rows.schedules, Put(rows.payments, r.payment, r.row))
    BY <1>1 DEF PaymentSaved
  <2>2. \A c \in ContractsOf(r) :
          /\ rows.schedules[c] = schedules[c]
          /\ PaymentsOf(Put(rows.payments, r.payment, r.row), c) = PaymentsOf(payments', c)
    <3>1. /\ rows.schedules = Restrict(schedules, ContractsOf(r))
          /\ rows.payments = PaymentsIn(payments, ContractsOf(r))
      BY <1>1, Writing
    <3>2. \A c \in ContractsOf(r) : rows.schedules[c] = schedules[c]
      BY <3>1 DEF Restrict
    <3>3. payments[r.payment].contract \in ContractsOf(r)
      BY <1>4, <1>5
    <3> HIDE DEF r, rows
    <3> QED BY <3>1, <3>2, <3>3, <2>1, PaymentsOfSeenPut
  <2> HIDE DEF r, rows
  <2> QED BY <2>1, <2>2, RebuiltSame
<1>7. ContractsOf(r) = Affected(r.payment, r.row)
  BY <1>4, <1>5 DEF Affected
<1>8. \A c \in {payments[r.payment].contract, r.row.contract} : Live(c)
  BY <1>2, <1>4, <1>5
<1> HIDE DEF r, rows
<1>9. UpdatePayment(r.payment, r.row)
  BY <1>1, <1>5, <1>6, <1>7, <1>8 DEF UpdatePayment, PaymentSaved
<1> QED BY <1>4, <1>7, <1>9 DEF r

LEMMA CommitRemovePaymentImplements ==
  ASSUME TxInv, NEW w \in Worker, CommitRemovePayment(w)
  PROVE  /\ request[w].payment \in Payment
         /\ ContractsOf(request[w]) = {payments[request[w].payment].contract}
         /\ RemovePayment(request[w].payment)
<1> DEFINE r == request[w]
           rows == seen[w]
<1>1. step[w] = "writing" /\ r.kind = "remove payment"
      /\ payments' = Drop(payments, r.payment)
      /\ allocations' = Rebuilt({r.from}, rows.schedules,
                                Drop(rows.payments, r.payment))
      /\ UNCHANGED <<today, lease, removed, schedules, used>>
  BY DEF CommitRemovePayment, Writes
<1>2. r \in Requests /\ \A c \in ContractsOf(r) : c \in Contract /\ Live(c)
  BY <1>1, Writing
<1>3. r \in RemovePaymentRequests
  BY <1>1, <1>2 DEF Requests, CreatePaymentRequests, UpdatePaymentRequests, RemovePaymentRequests,
     UpdateContractRequests, RemoveContractRequests, EditRequests
<1>4. r.payment \in Payment /\ ContractsOf(r) = {r.from}
  BY <1>1, <1>3 DEF RemovePaymentRequests, ContractsOf
<1>5. r.payment \in DOMAIN payments /\ payments[r.payment].contract = r.from
  BY <1>1, Writing DEF ChangesPayment, SamePayment
<1>6. allocations' = Rebuilt({r.from}, schedules, payments')
  <2>1. /\ rows.schedules = Restrict(schedules, ContractsOf(r))
        /\ rows.payments = PaymentsIn(payments, ContractsOf(r))
    BY <1>1, Writing
  <2>2. rows.schedules[r.from] = schedules[r.from]
    BY <2>1, <1>4 DEF Restrict
  <2>3. PaymentsOf(Drop(rows.payments, r.payment), r.from)
          = PaymentsOf(payments', r.from)
    <3>1. r.from \in ContractsOf(r)
      BY <1>4
    <3>2. PaymentsOf(Drop(PaymentsIn(payments, ContractsOf(r)), r.payment), r.from)
            = PaymentsOf(Drop(payments, r.payment), r.from)
      <4> HIDE DEF r
      <4> QED BY <3>1, PaymentsOfSeenDrop
    <3>3. rows.payments = PaymentsIn(payments, ContractsOf(r))
      BY <2>1
    <3>4. payments' = Drop(payments, r.payment)
      BY <1>1
    <3> HIDE DEF r, rows
    <3> QED BY <3>2, <3>3, <3>4
  <2> HIDE DEF r, rows
  <2> QED BY <1>1, <2>2, <2>3 DEF Rebuilt
<1>7. Live(payments[r.payment].contract)
  BY <1>2, <1>4, <1>5
<1> HIDE DEF r, rows
<1>8. RemovePayment(r.payment)
  BY <1>1, <1>5, <1>6, <1>7 DEF RemovePayment
<1> QED BY <1>4, <1>5, <1>8 DEF r

\* Both commits that replace the instalments of a contract.
LEMMA SchedulesSavedRebuilds ==
  ASSUME TxInv, NEW w \in Worker, step[w] = "writing", NEW c, NEW new,
         ContractsOf(request[w]) = {c}, SchedulesSaved(c, new, seen[w]), UNCHANGED payments
  PROVE  /\ schedules' = [schedules EXCEPT ![c] = new]
         /\ allocations' = Rebuilt({c}, schedules', payments')
<1> DEFINE rows == seen[w]
<1>1. schedules' = [schedules EXCEPT ![c] = new]
      /\ allocations' = Rebuilt({c}, [rows.schedules EXCEPT ![c] = new], rows.payments)
  BY DEF SchedulesSaved
<1>2. rows.schedules = Restrict(schedules, {c})
      /\ rows.payments = PaymentsIn(payments, {c})
  BY Writing
<1>3. c \in Contract
  BY Writing
<1>4. [rows.schedules EXCEPT ![c] = new][c] = schedules'[c]
  <2>1. c \in DOMAIN rows.schedules
    BY <1>2 DEF Restrict
  <2>2. c \in DOMAIN schedules
    BY <1>3 DEF TxInv, TypeOK
  <2> HIDE DEF rows
  <2> QED BY <1>1, <2>1, <2>2
<1>5. PaymentsOf(rows.payments, c) = PaymentsOf(payments', c)
  BY <1>2, PaymentsOfSeen
<1> HIDE DEF rows
<1>6. Rebuilt({c}, [rows.schedules EXCEPT ![c] = new], rows.payments) = Rebuilt({c}, schedules', payments')
  BY <1>4, <1>5 DEF Rebuilt
<1> QED BY <1>1, <1>6

LEMMA CommitUpdateContractImplements ==
  ASSUME TxInv, NEW w \in Worker, CommitUpdateContract(w)
  PROVE  /\ request[w].contract \in Contract
         /\ request[w].lease \in Lease
         /\ seen[w].day \in AsOf
         /\ ContractsOf(request[w]) = {request[w].contract}
         /\ UpdateContract(request[w].contract, request[w].lease, seen[w].day)
<1> DEFINE r == request[w]
           rows == seen[w]
           c == r.contract
           protected(sch, al) == Protected(sch[c], al[c], rows.day)
           new == Synced(Plan[r.lease], rows.schedules[c], protected(rows.schedules, rows.allocations))
<1>1. /\ step[w] = "writing" /\ r.kind = "update contract"
      /\ lease' = [lease EXCEPT ![c] = r.lease]
      /\ SchedulesSaved(c, new, rows)
      /\ UNCHANGED <<today, removed, payments, used>>
  BY DEF CommitUpdateContract, Writes
<1>2. r \in Requests /\ \A d \in ContractsOf(r) : d \in Contract /\ Live(d)
  BY <1>1, Writing
<1>3. r \in UpdateContractRequests
  BY <1>1, <1>2 DEF Requests, CreatePaymentRequests, UpdatePaymentRequests, RemovePaymentRequests,
     UpdateContractRequests, RemoveContractRequests, EditRequests
<1>4. r.lease \in Lease /\ ContractsOf(r) = {c} /\ c \in Contract /\ Live(c)
  BY <1>1, <1>2, <1>3 DEF UpdateContractRequests, ContractsOf
<1>5. rows.day \in AsOf /\ Accepts(r, rows)
      /\ rows.schedules = Restrict(schedules, ContractsOf(r))
      /\ rows.allocations = Restrict(allocations, ContractsOf(r))
  BY <1>1, Writing
<1>6. rows.schedules[c] = schedules[c] /\ rows.allocations[c] = allocations[c]
  BY <1>4, <1>5 DEF Restrict
<1>7. /\ r.lease # lease[c]
      /\ SyncAccepted(Plan[r.lease], schedules[c], protected(schedules, allocations))
  <2>1. /\ r.lease # lease[c]
        /\ SyncAccepted(Plan[r.lease], rows.schedules[c], protected(rows.schedules, rows.allocations))
    BY <1>1, <1>5 DEF Accepts
  <2> HIDE DEF r, rows, c
  <2> QED BY <2>1, <1>6
<1>8. schedules' = [schedules EXCEPT ![c] = new] /\ allocations' = Rebuilt({c}, schedules', payments')
  <2> HIDE DEF new, c
  <2> QED BY <1>1, <1>4, SchedulesSavedRebuilds
<1>9. new = Synced(Plan[r.lease], schedules[c], protected(schedules, allocations))
  <2> HIDE DEF r, rows, c
  <2> QED BY <1>6
<1> HIDE DEF new
<1>10. UpdateContract(c, r.lease, rows.day)
  <2>1. [schedules EXCEPT ![c] = new]
          = [schedules EXCEPT ![c] = Synced(Plan[r.lease], @, protected(schedules, allocations))]
    <3> HIDE DEF r, rows, c
    <3> QED BY <1>9
  <2> HIDE DEF r, rows, c
  <2> QED BY <1>1, <1>4, <1>7, <1>8, <2>1 DEF UpdateContract
<1> QED BY <1>4, <1>5, <1>10

LEMMA CommitEditImplements ==
  ASSUME TxInv, NEW w \in Worker, CommitEdit(w)
  PROVE  LET r == request[w] IN
         /\ r.contract \in Contract
         /\ r.sequence \in DOMAIN schedules[r.contract]
         /\ r.due \in Dates \cup {Unsent}
         /\ r.amount \in Amounts \cup {Unsent}
         /\ seen[w].day \in AsOf
         /\ ContractsOf(r) = {r.contract}
         /\ EditSchedule(r.contract, r.sequence, r.due, r.amount, seen[w].day)
<1> DEFINE r == request[w]
           rows == seen[w]
           c == r.contract
           row == Edited(rows.schedules[c][r.sequence], r.due, r.amount)
           new == [rows.schedules[c] EXCEPT ![r.sequence] = row]
<1>1. /\ step[w] = "writing" /\ r.kind = "edit"
      /\ SchedulesSaved(c, new, rows)
      /\ UNCHANGED <<today, lease, removed, payments, used>>
  BY DEF CommitEdit, Writes
<1>2. r \in Requests /\ \A d \in ContractsOf(r) : d \in Contract /\ Live(d)
  BY <1>1, Writing
<1>3. r \in EditRequests
  BY <1>1, <1>2 DEF Requests, CreatePaymentRequests, UpdatePaymentRequests, RemovePaymentRequests,
     UpdateContractRequests, RemoveContractRequests, EditRequests
<1>4. /\ r.due \in Dates \cup {Unsent} /\ r.amount \in Amounts \cup {Unsent}
      /\ ContractsOf(r) = {c} /\ c \in Contract /\ Live(c)
  BY <1>1, <1>2, <1>3 DEF EditRequests, ContractsOf
<1>5. rows.day \in AsOf /\ Accepts(r, rows)
      /\ rows.schedules = Restrict(schedules, ContractsOf(r))
      /\ rows.allocations = Restrict(allocations, ContractsOf(r))
  BY <1>1, Writing
<1>6. rows.schedules[c] = schedules[c] /\ rows.allocations[c] = allocations[c]
  BY <1>4, <1>5 DEF Restrict
<1>7. /\ r.sequence \in DOMAIN schedules[c]
      /\ schedules[c][r.sequence].due > rows.day
      /\ Allocated(allocations[c], r.sequence) = 0
  <2>1. /\ r.sequence \in DOMAIN rows.schedules[c]
        /\ rows.schedules[c][r.sequence].due > rows.day
        /\ Allocated(rows.allocations[c], r.sequence) = 0
    BY <1>1, <1>5 DEF Accepts
  <2> HIDE DEF r, rows, c
  <2> QED BY <2>1, <1>6
<1>8. schedules' = [schedules EXCEPT ![c] = new] /\ allocations' = Rebuilt({c}, schedules', payments')
  <2> HIDE DEF new, c
  <2> QED BY <1>1, <1>4, SchedulesSavedRebuilds
<1>9. schedules' = [schedules EXCEPT ![c][r.sequence] = Edited(@, r.due, r.amount)]
  <2>1. new = [schedules[c] EXCEPT ![r.sequence] = Edited(@, r.due, r.amount)]
    <3> HIDE DEF r, rows, c
    <3> QED BY <1>6
  <2> HIDE DEF new, r, c
  <2> QED BY <1>8, <2>1
<1> HIDE DEF new
<1>10. EditSchedule(c, r.sequence, r.due, r.amount, rows.day)
  <2> HIDE DEF r, rows, c
  <2> QED BY <1>1, <1>4, <1>7, <1>8, <1>9 DEF EditSchedule
<1> QED BY <1>4, <1>5, <1>7, <1>10

LEMMA CommitRemoveContractImplements ==
  ASSUME TxInv, NEW w \in Worker, CommitRemoveContract(w)
  PROVE  /\ request[w].contract \in Contract
         /\ ContractsOf(request[w]) = {request[w].contract}
         /\ RemoveContract(request[w].contract)
<1> DEFINE r == request[w]
<1>1. step[w] = "writing" /\ r.kind = "remove contract"
  BY DEF CommitRemoveContract, Writes
<1>2. r \in Requests /\ \A d \in ContractsOf(r) : d \in Contract /\ Live(d)
  BY <1>1, Writing
<1>3. r \in RemoveContractRequests
  BY <1>1, <1>2 DEF Requests, CreatePaymentRequests, UpdatePaymentRequests, RemovePaymentRequests,
     UpdateContractRequests, RemoveContractRequests, EditRequests
<1>4. ContractsOf(r) = {r.contract} /\ r.contract \in Contract /\ Live(r.contract)
  BY <1>1, <1>2, <1>3 DEF RemoveContractRequests, ContractsOf
<1> QED BY <1>4 DEF CommitRemoveContract, RemoveContract

-----------------------------------------------------------------------------
(* A request changes nothing outside its contracts *)

\* The rows of some contracts stay as they are, and the contracts stay there.
RowsKept(contracts) ==
  /\ \A c \in contracts : /\ schedules'[c] = schedules[c]
                          /\ allocations'[c] = allocations[c]
                          /\ lease'[c] = lease[c]
                          /\ Live(c)'
  /\ PaymentsIn(payments', contracts) = PaymentsIn(payments, contracts)

LEMMA PaymentsInPut ==
  ASSUME NEW pay, NEW p, NEW row, NEW contracts, row.contract \notin contracts,
         p \in DOMAIN pay => pay[p].contract \notin contracts
  PROVE  PaymentsIn(Put(pay, p, row), contracts) = PaymentsIn(pay, contracts)
<1> DEFINE new == Put(pay, p, row)
           S == {q \in DOMAIN new : new[q].contract \in contracts}
           T == {q \in DOMAIN pay : pay[q].contract \in contracts}
<1>1. /\ DOMAIN new = DOMAIN pay \cup {p} /\ new[p] = row
      /\ \A q \in DOMAIN pay : q # p => new[q] = pay[q]
  BY DEF Put
<1> HIDE DEF new
<1>2. S = T
  BY <1>1
<1>3. \A q \in T : new[q] = pay[q]
  BY <1>1
<1>4. [q \in S |-> new[q]] = [q \in T |-> pay[q]]
  <2> HIDE DEF S, T
  <2> QED BY <1>2, <1>3
<1> QED BY <1>4 DEF PaymentsIn, Restrict, new

LEMMA PaymentsInDrop ==
  ASSUME NEW pay, NEW p, NEW contracts,
         p \in DOMAIN pay => pay[p].contract \notin contracts
  PROVE  PaymentsIn(Drop(pay, p), contracts) = PaymentsIn(pay, contracts)
<1> DEFINE new == Drop(pay, p)
           S == {q \in DOMAIN new : new[q].contract \in contracts}
           T == {q \in DOMAIN pay : pay[q].contract \in contracts}
<1>1. DOMAIN new = DOMAIN pay \ {p} /\ \A q \in DOMAIN new : new[q] = pay[q]
  BY DEF Drop, Restrict
<1> HIDE DEF new
<1>2. S = T
  BY <1>1
<1>3. \A q \in T : new[q] = pay[q]
  BY <1>1, <1>2
<1>4. [q \in S |-> new[q]] = [q \in T |-> pay[q]]
  <2> HIDE DEF S, T
  <2> QED BY <1>2, <1>3
<1> QED BY <1>4 DEF PaymentsIn, Restrict, new

LEMMA PaymentRequestFrame ==
  ASSUME TypeOK, NEW L \in SUBSET Contract, \A c \in L : Live(c), NEW p,
         \/ \E row : CreatePayment(p, row) /\ row.contract \notin L
         \/ \E row : UpdatePayment(p, row) /\ Affected(p, row) \cap L = {}
         \/ RemovePayment(p) /\ payments[p].contract \notin L
  PROVE  RowsKept(L)
<1>1. ASSUME UNCHANGED <<lease, removed, schedules>>, NEW contracts, NEW pay,
             allocations' = Rebuilt(contracts, schedules, pay), contracts \cap L = {}
      PROVE  \A c \in L : /\ schedules'[c] = schedules[c]
                          /\ allocations'[c] = allocations[c]
                          /\ lease'[c] = lease[c]
                          /\ Live(c)'
  <2> SUFFICES ASSUME NEW c \in L PROVE allocations'[c] = allocations[c] /\ Live(c)'
    BY <1>1
  <2>1. c \in Contract \ contracts
    BY <1>1
  <2> QED BY <1>1, <2>1, RebuiltElsewhere DEF Live
<1>2. ASSUME NEW row, CreatePayment(p, row), row.contract \notin L PROVE RowsKept(L)
  <2>1. p \notin DOMAIN payments /\ payments' = Put(payments, p, row)
    BY <1>2 DEF CreatePayment, TypeOK
  <2>2. PaymentsIn(payments', L) = PaymentsIn(payments, L)
    BY <1>2, <2>1, PaymentsInPut
  <2>3. {row.contract} \cap L = {} /\ UNCHANGED <<lease, removed, schedules>>
        /\ allocations' = Rebuilt({row.contract}, schedules, payments')
    BY <1>2 DEF CreatePayment
  <2> QED BY <1>1, <2>2, <2>3 DEF RowsKept
<1>3. ASSUME NEW row, UpdatePayment(p, row), Affected(p, row) \cap L = {} PROVE RowsKept(L)
  <2>1. payments' = Put(payments, p, row) /\ row.contract \notin L /\ payments[p].contract \notin L
    BY <1>3 DEF UpdatePayment, Affected
  <2>2. PaymentsIn(payments', L) = PaymentsIn(payments, L)
    BY <2>1, PaymentsInPut
  <2>3. UNCHANGED <<lease, removed, schedules>>
        /\ allocations' = Rebuilt(Affected(p, row), schedules, payments')
    BY <1>3 DEF UpdatePayment
  <2> QED BY <1>1, <1>3, <2>2, <2>3 DEF RowsKept
<1>4. ASSUME RemovePayment(p), payments[p].contract \notin L PROVE RowsKept(L)
  <2>1. payments' = Drop(payments, p)
    BY <1>4 DEF RemovePayment
  <2>2. PaymentsIn(payments', L) = PaymentsIn(payments, L)
    BY <1>4, <2>1, PaymentsInDrop
  <2>3. {payments[p].contract} \cap L = {} /\ UNCHANGED <<lease, removed, schedules>>
        /\ allocations' = Rebuilt({payments[p].contract}, schedules, payments')
    BY <1>4 DEF RemovePayment
  <2> QED BY <1>1, <2>2, <2>3 DEF RowsKept
<1> QED BY <1>2, <1>3, <1>4

LEMMA ContractRequestFrame ==
  ASSUME TypeOK, NEW L \in SUBSET Contract, \A d \in L : Live(d), NEW c, c \notin L,
         \/ \E l : CreateContract(c, l)
         \/ \E l, day : UpdateContract(c, l, day)
         \/ RemoveContract(c)
         \/ \E s, due, amount, day : EditSchedule(c, s, due, amount, day)
  PROVE  RowsKept(L)
<1> DEFINE Frame == /\ payments' = payments
                    /\ \A d \in L : /\ schedules'[d] = schedules[d]
                                    /\ allocations'[d] = allocations[d]
                                    /\ lease'[d] = lease[d]
                                    /\ Live(d)'
<1>s. DOMAIN schedules = Contract /\ \A d \in L : d \in DOMAIN lease /\ d \notin removed
  BY DEF TypeOK, Live
<1>1. ASSUME NEW l, CreateContract(c, l) PROVE Frame
  <2>1. /\ payments' = payments /\ removed' = removed /\ lease' = Put(lease, c, l)
        /\ schedules' = [schedules EXCEPT ![c] = Plan[l]]
        /\ allocations' = Rebuilt({c}, schedules', payments)
    BY <1>1 DEF CreateContract
  <2>2. \A d \in L : d # c /\ d \in Contract \ {c}
    OBVIOUS
  <2>3. \A d \in L : allocations'[d] = allocations[d]
    BY <2>1, <2>2, RebuiltElsewhere
  <2>4. \A d \in L : lease'[d] = lease[d] /\ d \in DOMAIN lease'
    BY <2>1, <2>2, <1>s DEF Put
  <2> QED BY <2>1, <2>2, <2>3, <2>4, <1>s DEF Live
<1>2. ASSUME NEW l, NEW day, UpdateContract(c, l, day) PROVE Frame
  <2> DEFINE new == Synced(Plan[l], schedules[c], Protected(schedules[c], allocations[c], day))
  <2>1. /\ payments' = payments /\ removed' = removed /\ lease' = [lease EXCEPT ![c] = l]
        /\ schedules' = [schedules EXCEPT ![c] = new]
        /\ allocations' = Rebuilt({c}, schedules', payments)
    BY <1>2 DEF UpdateContract
  <2> HIDE DEF new
  <2>2. \A d \in L : d # c /\ d \in Contract \ {c}
    OBVIOUS
  <2>3. \A d \in L : allocations'[d] = allocations[d]
    BY <2>1, <2>2, RebuiltElsewhere
  <2>4. \A d \in L : lease'[d] = lease[d] /\ d \in DOMAIN lease'
    BY <2>1, <2>2, <1>s
  <2> QED BY <2>1, <2>2, <2>3, <2>4, <1>s DEF Live
<1>3. ASSUME RemoveContract(c) PROVE Frame
  BY <1>3, <1>s DEF RemoveContract, Live
<1>4. ASSUME NEW s, NEW due, NEW amount, NEW day, EditSchedule(c, s, due, amount, day) PROVE Frame
  <2>1. /\ payments' = payments /\ removed' = removed /\ lease' = lease
        /\ schedules' = [schedules EXCEPT ![c][s] = Edited(@, due, amount)]
        /\ allocations' = Rebuilt({c}, schedules', payments)
    BY <1>4 DEF EditSchedule
  <2>2. \A d \in L : d # c /\ d \in Contract \ {c}
    OBVIOUS
  <2>3. \A d \in L : allocations'[d] = allocations[d]
    BY <2>1, <2>2, RebuiltElsewhere
  <2> QED BY <2>1, <2>2, <2>3, <1>s DEF Live
<1>5. Frame
  BY <1>1, <1>2, <1>3, <1>4
<1> QED BY <1>5 DEF RowsKept

\* A commit leaves the rows of other transactions alone.
LEMMA CommitFrame ==
  ASSUME TxInv, NEW w \in Worker, Commit(w)
  PROVE  \A v \in Worker \ {w} : RowsKept(locks[v])
<1> SUFFICES ASSUME NEW v \in Worker \ {w} PROVE RowsKept(locks[v])
  OBVIOUS
<1>1. TypeOK /\ locks[v] \in SUBSET Contract /\ (\A c \in locks[v] : Live(c))
  BY DEF TxInv, TxTypeOK, Sound
<1>2. step[w] = "writing"
  BY DEF Commit, CommitCreatePayment, CommitUpdatePayment, CommitRemovePayment,
         CommitUpdateContract, CommitEdit, CommitRemoveContract, Writes
<1>3. ContractsOf(request[w]) \cap locks[v] = {}
  BY <1>2, Writing DEF TxInv, Exclusive
<1> DEFINE r == request[w]
<1>4. CASE CommitCreatePayment(w)
  <2>1. CreatePayment(r.payment, r.row)
    BY <1>4, CommitCreatePaymentImplements
  <2>2. r.kind = "create payment"
    BY <1>4 DEF CommitCreatePayment, Writes
  <2>3. r.row.contract \notin locks[v]
    BY <1>3, <2>2 DEF ContractsOf
  <2> HIDE DEF r
  <2> QED BY <1>1, <2>1, <2>3, PaymentRequestFrame
<1>5. CASE CommitUpdatePayment(w)
  <2>1. UpdatePayment(r.payment, r.row) /\ ContractsOf(r) = Affected(r.payment, r.row)
    BY <1>5, CommitUpdatePaymentImplements
  <2>2. Affected(r.payment, r.row) \cap locks[v] = {}
    BY <1>3, <2>1
  <2> HIDE DEF r
  <2> QED BY <1>1, <2>1, <2>2, PaymentRequestFrame
<1>6. CASE CommitRemovePayment(w)
  <2>1. RemovePayment(r.payment) /\ ContractsOf(r) = {payments[r.payment].contract}
    BY <1>6, CommitRemovePaymentImplements
  <2>2. payments[r.payment].contract \notin locks[v]
    BY <1>3, <2>1
  <2> HIDE DEF r
  <2> QED BY <1>1, <2>1, <2>2, PaymentRequestFrame
<1>7. ASSUME ContractsOf(r) = {r.contract} PROVE r.contract \notin locks[v]
  BY <1>3, <1>7
<1>8. CASE CommitUpdateContract(w)
  <2>1. UpdateContract(r.contract, r.lease, seen[w].day) /\ ContractsOf(r) = {r.contract}
    BY <1>8, CommitUpdateContractImplements
  <2>2. r.contract \notin locks[v]
    BY <1>7, <2>1
  <2> HIDE DEF r
  <2> QED BY <1>1, <2>1, <2>2, ContractRequestFrame
<1>9. CASE CommitEdit(w)
  <2>1. EditSchedule(r.contract, r.sequence, r.due, r.amount, seen[w].day)
        /\ ContractsOf(r) = {r.contract}
    BY <1>9, CommitEditImplements
  <2>2. r.contract \notin locks[v]
    BY <1>7, <2>1
  <2> HIDE DEF r
  <2> QED BY <1>1, <2>1, <2>2, ContractRequestFrame
<1>10. CASE CommitRemoveContract(w)
  <2>1. RemoveContract(r.contract) /\ ContractsOf(r) = {r.contract}
    BY <1>10, CommitRemoveContractImplements
  <2>2. r.contract \notin locks[v]
    BY <1>7, <2>1
  <2> HIDE DEF r
  <2> QED BY <1>1, <2>1, <2>2, ContractRequestFrame
<1> QED BY <1>4, <1>5, <1>6, <1>8, <1>9, <1>10 DEF Commit

-----------------------------------------------------------------------------
(* The ledger's steps *)

\* A day read stays the date, or the date before the last midnight.
LEMMA DayKept ==
  ASSUME NEW day \in AsOf, TypeOK,
         \/ UNCHANGED today
         \/ day = today /\ Tomorrow
  PROVE  day \in AsOf'
<1>1. Days \subseteq Int /\ today \in Days
  BY LedgerConstants DEF TypeOK
<1>2. CASE UNCHANGED today
  BY <1>2 DEF AsOf
<1>3. CASE day = today /\ Tomorrow
  <2>1. PICK d \in Days : d > today /\ (\A e \in Days : e > today => d <= e) /\ today' = d
    BY <1>3 DEF Tomorrow
  <2>2. day \in Days /\ day <= today'
    BY <1>1, <1>3, <2>1
  <2>3. ~ \E e \in Days : day < e /\ e < today'
    BY <1>1, <1>3, <2>1
  <2> QED BY <2>2, <2>3 DEF AsOf
<1> QED BY <1>2, <1>3

\* The refinement: a commit is the request, midnight is midnight, creating a
\* contract is itself, and nothing else changes the ledger.
LEMMA StepImplements ==
  ASSUME TxInv, [TxNext]_allVars
  PROVE  [Next]_vars
<1>1. ASSUME NEW w \in Worker, Ask(w) PROVE UNCHANGED vars
  BY <1>1 DEF Ask, BeginCreatePayment, BeginUpdatePayment, BeginRemovePayment,
              BeginUpdateContract, BeginRemoveContract, BeginEdit, Begin
<1>2. ASSUME NEW w \in Worker, Fail(w) \/ LockContract(w) \/ LockPayment(w) \/ Read(w) \/ Refuse(w)
      PROVE  UNCHANGED vars
  BY <1>2 DEF Fail, LockContract, LockPayment, Read, Refuse
<1>3. ASSUME NEW w \in Worker, CommitCreatePayment(w) PROVE Next
  BY <1>3, CommitCreatePaymentImplements DEF Next
<1>4. ASSUME NEW w \in Worker, CommitUpdatePayment(w) PROVE Next
  BY <1>4, CommitUpdatePaymentImplements DEF Next
<1>5. ASSUME NEW w \in Worker, CommitRemovePayment(w) PROVE Next
  BY <1>5, CommitRemovePaymentImplements DEF Next
<1>6. ASSUME NEW w \in Worker, CommitUpdateContract(w) PROVE Next
  BY <1>6, CommitUpdateContractImplements DEF Next
<1>7. ASSUME NEW w \in Worker, CommitEdit(w) PROVE Next
  BY <1>7, CommitEditImplements DEF Next
<1>8. ASSUME NEW w \in Worker, CommitRemoveContract(w) PROVE Next
  BY <1>8, CommitRemoveContractImplements DEF Next
<1>9. ASSUME NEW c \in Contract, NEW l \in Lease, TxCreateContract(c, l) PROVE Next
  BY <1>9 DEF TxCreateContract, Next
<1>10. CASE Midnight
  BY <1>10 DEF Midnight, Next
<1>11. CASE UNCHANGED allVars
  BY <1>11 DEF allVars
<1> QED BY <1>1, <1>2, <1>3, <1>4, <1>5, <1>6, <1>7, <1>8, <1>9, <1>10, <1>11
        DEF TxNext, Proceed, Commit

-----------------------------------------------------------------------------
(* The invariant *)

\* What a step of the ledger leaves of a transaction that does not move.
Unmoved(v) ==
  /\ step'[v] = step[v]
  /\ request'[v] = request[v]
  /\ wait'[v] = wait[v]
  /\ locks'[v] = locks[v]
  /\ seen'[v] = seen[v]

LEMMA AcceptsKept ==
  ASSUME NEW v \in Worker, Unmoved(v), request[v] \in Requests, Accepts(request[v], seen[v]),
         \A c \in ContractsOf(request[v]) : lease'[c] = lease[c]
  PROVE  Accepts(request[v], seen[v])'
<1> DEFINE r == request[v]
           rows == seen[v]
<1>1. CASE r.kind = "update contract"
  <2>1. lease'[r.contract] = lease[r.contract]
    BY <1>1 DEF ContractsOf
  <2>2. /\ r.lease # lease[r.contract]
        /\ SyncAccepted(Plan[r.lease], rows.schedules[r.contract],
             Protected(rows.schedules[r.contract], rows.allocations[r.contract], rows.day))
    BY <1>1 DEF Accepts
  <2>3. request'[v] = r /\ seen'[v] = rows
    BY DEF Unmoved
  <2> HIDE DEF r, rows
  <2> QED BY <1>1, <2>1, <2>2, <2>3 DEF Accepts
<1>2. CASE r.kind # "update contract"
  <2>1. request'[v] = r /\ seen'[v] = rows /\ Accepts(r, rows)
    BY DEF Unmoved
  <2> HIDE DEF r, rows
  <2> QED BY <1>2, <2>1 DEF Accepts
<1> QED BY <1>1, <1>2

LEMMA CurrentKept ==
  ASSUME TypeOK, NEW v \in Worker, Unmoved(v), request[v] \in Requests, Current(v),
         RowsKept(ContractsOf(request[v])),
         UNCHANGED today \/ (seen[v].day = today /\ Tomorrow)
  PROVE  Current(v)'
<1> DEFINE r == request[v]
           rows == seen[v]
<1>1. request'[v] = r /\ seen'[v] = rows
  BY DEF Unmoved
<1>2. rows.day \in AsOf'
  BY DayKept DEF Current
<1>3. Accepts(request[v], seen[v])'
  BY AcceptsKept DEF Current, RowsKept
<1>4. /\ Restrict(schedules', ContractsOf(r)) = Restrict(schedules, ContractsOf(r))
      /\ Restrict(allocations', ContractsOf(r)) = Restrict(allocations, ContractsOf(r))
      /\ PaymentsIn(payments', ContractsOf(r)) = PaymentsIn(payments, ContractsOf(r))
  <2> HIDE DEF r
  <2> QED BY DEF RowsKept, Restrict, r
<1>5. rows = [schedules   |-> Restrict(schedules, ContractsOf(r)),
              payments    |-> PaymentsIn(payments, ContractsOf(r)),
              allocations |-> Restrict(allocations, ContractsOf(r)),
              day         |-> rows.day]
  BY DEF Current
<1>6. seen'[v] = [schedules   |-> Restrict(schedules', ContractsOf(r)),
                  payments    |-> PaymentsIn(payments', ContractsOf(r)),
                  allocations |-> Restrict(allocations', ContractsOf(r)),
                  day         |-> rows.day]
  <2> HIDE DEF r, rows
  <2> QED BY <1>1, <1>4, <1>5
<1>7. ContractsOf(request[v])' = ContractsOf(r)
  <2> HIDE DEF r
  <2> QED BY <1>1 DEF ContractsOf
<1> QED BY <1>1, <1>2, <1>3, <1>6, <1>7 DEF Current

\* A transaction that does not move stays sound when the rows of its contracts stay.
LEMMA SoundKept ==
  ASSUME TypeOK, TxTypeOK, NEW v \in Worker, Unmoved(v), Sound(v), RowsKept(locks[v]),
         \/ UNCHANGED today
         \/ Tomorrow /\ (step[v] = "writing" => seen[v].day = today)
  PROVE  Sound(v)'
<1> DEFINE r == request[v]
<1>1. /\ step'[v] = step[v] /\ request'[v] = r /\ wait'[v] = wait[v] /\ locks'[v] = locks[v]
  BY DEF Unmoved
<1>2. ContractsOf(request[v])' = ContractsOf(r)
  <2> HIDE DEF r
  <2> QED BY <1>1 DEF ContractsOf
<1>3. \A c \in locks[v] : Live(c)'
  BY DEF RowsKept
<1>4. step[v] \in {"checked", "writing"} => locks[v] = ContractsOf(r) /\ r \in Requests
  BY DEF Sound, TxTypeOK
<1>5. ASSUME step[v] \in {"checked", "writing"}, ChangesPayment(r)
      PROVE  SamePayment(request[v])'
  <2>1. r.payment \in DOMAIN payments /\ payments[r.payment].contract = r.from
    BY <1>5 DEF Sound, SamePayment
  <2>2. r.from \in locks[v]
    BY <1>4, <1>5 DEF ChangesPayment, ContractsOf
  <2>3. PaymentsIn(payments', locks[v]) = PaymentsIn(payments, locks[v])
    BY DEF RowsKept
  <2>4. r.payment \in DOMAIN PaymentsIn(payments, locks[v])
        /\ PaymentsIn(payments, locks[v])[r.payment] = payments[r.payment]
    BY <2>1, <2>2 DEF PaymentsIn, Restrict
  <2>5. r.payment \in DOMAIN payments' /\ payments'[r.payment] = payments[r.payment]
    BY <2>3, <2>4 DEF PaymentsIn, Restrict
  <2> HIDE DEF r
  <2> QED BY <1>1, <2>1, <2>5 DEF SamePayment
<1>6. ASSUME step[v] = "writing" PROVE Current(v)'
  <2>1. Current(v) /\ RowsKept(ContractsOf(request[v])) /\ request[v] \in Requests
    BY <1>4, <1>6 DEF Sound
  <2> QED BY <1>6, <2>1, CurrentKept
<1>7. ChangesPayment(request[v])' <=> ChangesPayment(r)
  BY <1>1 DEF ChangesPayment
<1> HIDE DEF r
<1>8. /\ step[v] = "idle" <=> r = NoRequest
      /\ step[v] = "idle" => locks[v] = {}
      /\ step[v] # "idle" => locks[v] \cup wait[v] = ContractsOf(r)
      /\ step[v] \in {"checked", "writing"} => wait[v] = {}
  BY DEF Sound, r
<1>9. NoRequest' = NoRequest
  BY DEF NoRequest
<1> QED BY <1>1, <1>2, <1>3, <1>5, <1>6, <1>7, <1>8, <1>9 DEF Sound

\* A step that leaves the ledger alone keeps the transactions that do not move.
LEMMA LedgerUntouched ==
  ASSUME TxInv, UNCHANGED vars, NEW v \in Worker, Unmoved(v)
  PROVE  Sound(v)'
<1>1. TypeOK /\ TxTypeOK /\ Sound(v) /\ \A c \in locks[v] : Live(c)
  BY DEF TxInv, Sound
<1>2. RowsKept(locks[v])
  BY <1>1 DEF RowsKept, vars, Live
<1>3. UNCHANGED today
  BY DEF vars
<1> QED BY <1>1, <1>2, <1>3, SoundKept

LEMMA RequestContracts ==
  ASSUME NEW r \in Requests
  PROVE  ContractsOf(r) \subseteq Contract /\ r # NoRequest
<1>1. r.kind \in {"create payment", "update payment", "remove payment", "update contract",
                 "remove contract", "edit"}
  BY DEF Requests, CreatePaymentRequests, UpdatePaymentRequests, RemovePaymentRequests,
     UpdateContractRequests, RemoveContractRequests, EditRequests
<1>2. r # NoRequest
  <2>1. NoRequest.kind = "none"
    BY DEF NoRequest
  <2> QED BY <1>1, <2>1
<1>3. CASE r \in CreatePaymentRequests \cup UpdatePaymentRequests
  <2>1. r.kind \in {"create payment", "update payment"} /\ r.row \in PaymentRows
    BY <1>3 DEF CreatePaymentRequests, UpdatePaymentRequests
  <2>2. r.kind = "update payment" => r.from \in Contract
    BY <1>3 DEF CreatePaymentRequests, UpdatePaymentRequests
  <2>3. r.row.contract \in Contract
    BY <2>1 DEF PaymentRows
  <2>4. ContractsOf(r) \subseteq Contract
    BY <2>1, <2>2, <2>3 DEF ContractsOf
  <2> QED BY <1>2, <2>4
<1>4. CASE r \in RemovePaymentRequests
  <2>1. r.kind = "remove payment" /\ r.from \in Contract
    BY <1>4 DEF RemovePaymentRequests
  <2>2. ContractsOf(r) \subseteq Contract
    BY <2>1 DEF ContractsOf
  <2> QED BY <1>2, <2>2
<1>5. CASE r \in UpdateContractRequests \cup RemoveContractRequests \cup EditRequests
  <2>1. r.kind \in {"update contract", "remove contract", "edit"} /\ r.contract \in Contract
    BY <1>5 DEF UpdateContractRequests, RemoveContractRequests, EditRequests
  <2>2. ContractsOf(r) \subseteq Contract
    BY <2>1 DEF ContractsOf
  <2> QED BY <1>2, <2>2
<1> QED BY <1>3, <1>4, <1>5 DEF Requests

\* Sequence numbers of instalments are integers.
LEMMA SequencesAreNumbers ==
  ASSUME TypeOK, PeriodsFollowLease, NEW c \in DOMAIN lease, NEW s \in DOMAIN schedules[c]
  PROVE  s \in Int
<1>1. lease[c] \in Lease
  BY DEF TypeOK
<1>2. s \in DOMAIN BuildRentSchedule(lease[c])
  BY <1>1 DEF PeriodsFollowLease, Plan
<1> QED BY <1>2 DEF BuildRentSchedule, Indices

\* What is asked for: a request with, for a new payment, a new id.
LEMMA Asked ==
  ASSUME TxInv, NEW w \in Worker, Ask(w)
  PROVE  \E r \in Requests :
           /\ Begin(w, r)
           /\ r.kind = "create payment" =>
                /\ r.payment \notin used
                /\ \A v \in Worker :
                     request[v].kind = "create payment" => request[v].payment # r.payment
<1>1. ASSUME NEW p \in Payment, NEW row \in PaymentRows, BeginCreatePayment(w, p, row)
      PROVE  [kind |-> "create payment", payment |-> p, row |-> row] \in Requests
  BY DEF Requests, CreatePaymentRequests
<1>2. ASSUME NEW p \in Payment, NEW row \in PaymentRows, BeginUpdatePayment(w, p, row)
      PROVE  [kind |-> "update payment", payment |-> p, row |-> row,
              from |-> payments[p].contract] \in Requests
  <2>1. payments[p].contract \in Contract
    BY <1>2 DEF BeginUpdatePayment, TxInv, TypeOK, PaymentRows
  <2> QED BY <2>1 DEF Requests, UpdatePaymentRequests
<1>3. ASSUME NEW p \in Payment, BeginRemovePayment(w, p)
      PROVE  [kind |-> "remove payment", payment |-> p, from |-> payments[p].contract] \in Requests
  <2>1. payments[p].contract \in Contract
    BY <1>3 DEF BeginRemovePayment, TxInv, TypeOK, PaymentRows
  <2> QED BY <2>1 DEF Requests, RemovePaymentRequests
<1>c. DOMAIN lease \subseteq Contract
  BY DEF TxInv, TypeOK
<1>4. ASSUME NEW c \in DOMAIN lease, NEW l \in Lease
      PROVE  [kind |-> "update contract", contract |-> c, lease |-> l] \in Requests
  BY <1>c DEF Requests, UpdateContractRequests
<1>5. ASSUME NEW c \in DOMAIN lease
      PROVE  [kind |-> "remove contract", contract |-> c] \in Requests
  BY <1>c DEF Requests, RemoveContractRequests
<1>6. ASSUME NEW c \in DOMAIN lease, NEW s \in DOMAIN schedules[c],
             NEW due \in Dates \cup {Unsent}, NEW amount \in Amounts \cup {Unsent}
      PROVE  [kind |-> "edit", contract |-> c, sequence |-> s, due |-> due, amount |-> amount]
               \in Requests
  <2>1. s \in Int
    BY SequencesAreNumbers DEF TxInv
  <2> QED BY <1>c, <2>1 DEF Requests, EditRequests
<1>7. ASSUME NEW p \in Payment, NEW row \in PaymentRows,
             BeginCreatePayment(w, p, row) \/ BeginUpdatePayment(w, p, row)
      PROVE  \E r \in Requests :
               /\ Begin(w, r)
               /\ r.kind = "create payment" =>
                    /\ r.payment \notin used
                    /\ \A v \in Worker :
                         request[v].kind = "create payment" => request[v].payment # r.payment
  <2>1. CASE BeginCreatePayment(w, p, row)
    BY <2>1, <1>1 DEF BeginCreatePayment
  <2>2. CASE BeginUpdatePayment(w, p, row)
    BY <2>2, <1>2 DEF BeginUpdatePayment
  <2> QED BY <1>7, <2>1, <2>2
<1>8. ASSUME NEW p \in Payment, BeginRemovePayment(w, p)
      PROVE  \E r \in Requests : Begin(w, r) /\ r.kind # "create payment"
  BY <1>8, <1>3 DEF BeginRemovePayment
<1>9. ASSUME NEW c \in DOMAIN lease,
             \/ \E l \in Lease : BeginUpdateContract(w, c, l)
             \/ BeginRemoveContract(w, c)
             \/ \E s \in DOMAIN schedules[c] :
                  \E due \in Dates \cup {Unsent}, amount \in Amounts \cup {Unsent} :
                    BeginEdit(w, c, s, due, amount)
      PROVE  \E r \in Requests : Begin(w, r) /\ r.kind # "create payment"
  <2>1. ASSUME NEW l \in Lease, BeginUpdateContract(w, c, l)
        PROVE  \E r \in Requests : Begin(w, r) /\ r.kind # "create payment"
    BY <2>1, <1>4 DEF BeginUpdateContract
  <2>2. ASSUME BeginRemoveContract(w, c)
        PROVE  \E r \in Requests : Begin(w, r) /\ r.kind # "create payment"
    BY <2>2, <1>5 DEF BeginRemoveContract
  <2>3. ASSUME NEW s \in DOMAIN schedules[c], NEW due \in Dates \cup {Unsent},
               NEW amount \in Amounts \cup {Unsent}, BeginEdit(w, c, s, due, amount)
        PROVE  \E r \in Requests : Begin(w, r) /\ r.kind # "create payment"
    BY <2>3, <1>6 DEF BeginEdit
  <2> QED BY <1>9, <2>1, <2>2, <2>3
<1> QED BY <1>7, <1>8, <1>9 DEF Ask

\* The part of the invariant about the transactions.
TransactionsOK ==
  /\ TxTypeOK
  /\ Exclusive
  /\ \A w \in Worker : Sound(w) /\ Fresh(w)

LEMMA BeginKeeps ==
  ASSUME TxInv, NEW w \in Worker, NEW r \in Requests, Begin(w, r),
         r.kind = "create payment" =>
           /\ r.payment \notin used
           /\ \A v \in Worker : request[v].kind = "create payment" => request[v].payment # r.payment
  PROVE  TransactionsOK'
<1>1. /\ step[w] = "idle" /\ step' = [step EXCEPT ![w] = "locking"]
      /\ request' = [request EXCEPT ![w] = r]
      /\ wait' = [wait EXCEPT ![w] = ContractsOf(r)]
      /\ locks' = locks /\ seen' = seen /\ UNCHANGED vars
  BY DEF Begin
<1>2. TxTypeOK
  BY DEF TxInv
<1>3. ContractsOf(r) \subseteq Contract /\ r # NoRequest
  BY RequestContracts
<1>4. TxTypeOK'
  BY <1>1, <1>2, <1>3 DEF TxTypeOK, Requests, CreatePaymentRequests, UpdatePaymentRequests,
     RemovePaymentRequests, UpdateContractRequests, RemoveContractRequests, EditRequests,
     NoRequest, PaymentRows
<1>5. Exclusive'
  BY <1>1 DEF TxInv, Exclusive
<1>6. ASSUME NEW v \in Worker, v # w PROVE Sound(v)'
  <2>1. Unmoved(v)
    BY <1>1, <1>2, <1>6 DEF TxTypeOK, Unmoved
  <2> QED BY <1>1, <2>1, LedgerUntouched
<1>7. Sound(w)'
  <2>1. step'[w] = "locking" /\ request'[w] = r /\ wait'[w] = ContractsOf(r) /\ locks'[w] = {}
    BY <1>1, <1>2 DEF TxTypeOK, TxInv, Sound
  <2>2. ContractsOf(request[w])' = ContractsOf(r)
    BY <2>1 DEF ContractsOf
  <2>3. NoRequest' = NoRequest
    BY DEF NoRequest
  <2> QED BY <1>3, <2>1, <2>2, <2>3 DEF Sound
<1>8. ASSUME NEW v \in Worker PROVE Fresh(v)'
  <2>1. used' = used /\ request'[w] = r /\ \A u \in Worker \ {w} : request'[u] = request[u]
    BY <1>1, <1>2 DEF vars, TxTypeOK
  <2>2. \A u \in Worker : Fresh(u)
    BY DEF TxInv
  <2> QED BY <2>1, <2>2 DEF Fresh
<1> QED BY <1>4, <1>5, <1>6, <1>7, <1>8 DEF TransactionsOK

\* Locks are taken one at a time, in the order of the contracts.
LEMMA NextIsWaitedFor ==
  ASSUME TxInv, NEW w \in Worker, wait[w] # {}, step[w] = "locking"
  PROVE  NextToLock(w) \in wait[w]
<1> DEFINE r == request[w]
<1>1. wait[w] \subseteq ContractsOf(r) /\ wait[w] \subseteq Int
  BY ContractsOrdered DEF TxInv, TxTypeOK, Sound
<1>2. PICK a, b : ContractsOf(r) \subseteq {a, b}
  <2>1. r \in Requests
    BY DEF TxInv, TxTypeOK, Sound
  <2>2. r.kind \in {"create payment", "update payment", "remove payment", "update contract",
                    "remove contract", "edit"}
    BY <2>1 DEF Requests, CreatePaymentRequests, UpdatePaymentRequests,
       RemovePaymentRequests, UpdateContractRequests, RemoveContractRequests, EditRequests
  <2> HIDE DEF r
  <2> QED BY <2>2 DEF ContractsOf
<1>3. \E c \in wait[w] : \A d \in wait[w] : c <= d
  <2>1. PICK c \in wait[w] : TRUE
    OBVIOUS
  <2>2. wait[w] \subseteq {a, b}
    BY <1>1, <1>2
  <2> QED BY <1>1, <2>1, <2>2
<1> QED BY <1>3 DEF NextToLock

LEMMA LockContractKeeps ==
  ASSUME TxInv, NEW w \in Worker, LockContract(w)
  PROVE  TransactionsOK'
<1> DEFINE c == NextToLock(w)
<1>1. /\ step[w] = "locking" /\ wait[w] # {} /\ ContractFree(w, c) /\ Live(c)
      /\ wait' = [wait EXCEPT ![w] = @ \ {c}]
      /\ locks' = [locks EXCEPT ![w] = @ \cup {c}]
      /\ UNCHANGED vars /\ step' = step /\ request' = request /\ seen' = seen
  BY DEF LockContract
<1>2. TxTypeOK /\ Sound(w)
  BY DEF TxInv
<1>3. c \in wait[w]
  BY <1>1, NextIsWaitedFor
<1> HIDE DEF c
<1>4. /\ wait'[w] = wait[w] \ {c} /\ locks'[w] = locks[w] \cup {c}
      /\ \A v \in Worker \ {w} : wait'[v] = wait[v] /\ locks'[v] = locks[v]
  BY <1>1, <1>2 DEF TxTypeOK
<1>5. TxTypeOK'
  BY <1>1, <1>2, <1>3 DEF TxTypeOK, Requests, CreatePaymentRequests, UpdatePaymentRequests,
     RemovePaymentRequests, UpdateContractRequests, RemoveContractRequests, EditRequests,
     NoRequest, PaymentRows
<1>6. Exclusive'
  BY <1>1, <1>4 DEF TxInv, Exclusive, ContractFree
<1>7. ASSUME NEW v \in Worker, v # w PROVE Sound(v)'
  <2>1. Unmoved(v)
    BY <1>1, <1>4, <1>7 DEF Unmoved
  <2> QED BY <1>1, <2>1, LedgerUntouched
<1>8. Sound(w)'
  <2>1. step'[w] = "locking" /\ request'[w] = request[w]
    BY <1>1
  <2>2. locks'[w] \cup wait'[w] = ContractsOf(request[w])
    BY <1>1, <1>2, <1>3, <1>4 DEF Sound
  <2>3. ContractsOf(request[w])' = ContractsOf(request[w])
    BY <2>1 DEF ContractsOf
  <2>4. \A d \in locks'[w] : Live(d)'
    BY <1>1, <1>2, <1>4 DEF Sound, Live, vars
  <2>5. NoRequest' = NoRequest
    BY DEF NoRequest
  <2> QED BY <1>1, <1>2, <2>1, <2>2, <2>3, <2>4, <2>5 DEF Sound
<1>9. ASSUME NEW v \in Worker PROVE Fresh(v)'
  BY <1>1 DEF TxInv, Fresh, vars
<1> QED BY <1>5, <1>6, <1>7, <1>8, <1>9 DEF TransactionsOK

LEMMA LockPaymentKeeps ==
  ASSUME TxInv, NEW w \in Worker, LockPayment(w)
  PROVE  TransactionsOK'
<1>1. /\ step[w] = "locking" /\ wait[w] = {} /\ SamePayment(request[w])
      /\ step' = [step EXCEPT ![w] = "checked"]
      /\ UNCHANGED <<vars, request, wait, locks, seen>>
  BY DEF LockPayment
<1>2. TxTypeOK /\ Sound(w)
  BY DEF TxInv
<1>3. TxTypeOK'
  BY <1>1, <1>2 DEF TxTypeOK, Requests, CreatePaymentRequests, UpdatePaymentRequests,
     RemovePaymentRequests, UpdateContractRequests, RemoveContractRequests, EditRequests,
     NoRequest, PaymentRows
<1>4. Exclusive'
  BY <1>1 DEF TxInv, Exclusive
<1>5. ASSUME NEW v \in Worker, v # w PROVE Sound(v)'
  <2>1. Unmoved(v)
    BY <1>1, <1>2, <1>5 DEF TxTypeOK, Unmoved
  <2> QED BY <1>1, <2>1, LedgerUntouched
<1>6. Sound(w)'
  <2>1. step'[w] = "checked"
    BY <1>1, <1>2 DEF TxTypeOK
  <2>2. ContractsOf(request[w])' = ContractsOf(request[w])
    BY <1>1 DEF ContractsOf
  <2>3. SamePayment(request[w])'
    BY <1>1 DEF SamePayment, vars
  <2>4. \A c \in locks'[w] : Live(c)'
    BY <1>1, <1>2 DEF Sound, Live, vars
  <2>5. NoRequest' = NoRequest
    BY DEF NoRequest
  <2> QED BY <1>1, <1>2, <2>1, <2>2, <2>3, <2>4, <2>5 DEF Sound
<1>7. ASSUME NEW v \in Worker PROVE Fresh(v)'
  BY <1>1 DEF TxInv, Fresh, vars
<1> QED BY <1>3, <1>4, <1>5, <1>6, <1>7 DEF TransactionsOK

LEMMA ReadKeeps ==
  ASSUME TxInv, NEW w \in Worker, Read(w)
  PROVE  TransactionsOK'
<1>1. /\ wait[w] = {} /\ step[w] = IF ChangesPayment(request[w]) THEN "checked" ELSE "locking"
      /\ Accepts(request[w], RowsSeen(w))
      /\ seen' = [seen EXCEPT ![w] = RowsSeen(w)]
      /\ step' = [step EXCEPT ![w] = "writing"]
      /\ UNCHANGED <<vars, request, wait, locks>>
  BY DEF Read, LocksHeld
<1>2. TxTypeOK /\ Sound(w)
  BY DEF TxInv
<1>3. TxTypeOK'
  BY <1>1, <1>2 DEF TxTypeOK, Requests, CreatePaymentRequests, UpdatePaymentRequests,
     RemovePaymentRequests, UpdateContractRequests, RemoveContractRequests, EditRequests,
     NoRequest, PaymentRows
<1>4. Exclusive'
  BY <1>1 DEF TxInv, Exclusive
<1>5. ASSUME NEW v \in Worker, v # w PROVE Sound(v)'
  <2>1. Unmoved(v)
    BY <1>1, <1>2, <1>5 DEF TxTypeOK, Unmoved
  <2> QED BY <1>1, <2>1, LedgerUntouched
<1>6. Sound(w)'
  <2>1. step'[w] = "writing" /\ request'[w] = request[w] /\ seen'[w] = RowsSeen(w)
    BY <1>1, <1>2 DEF TxTypeOK
  <2>2. ContractsOf(request[w])' = ContractsOf(request[w])
    BY <1>1 DEF ContractsOf
  <2>3. ChangesPayment(request[w]) => SamePayment(request[w])'
    BY <1>1, <1>2 DEF Sound, SamePayment, vars
  <2>4. \A c \in locks'[w] : Live(c)'
    BY <1>1, <1>2 DEF Sound, Live, vars
  <2>5. NoRequest' = NoRequest
    BY DEF NoRequest
  <2>6. today \in AsOf'
    <3>1. today \in AsOf
      BY LedgerConstants DEF TxInv, TypeOK, AsOf
    <3> QED BY <1>1, <3>1, DayKept DEF vars, TxInv
  <2>7. Accepts(request[w], seen[w])'
    BY <1>1, <2>1 DEF Accepts, vars
  <2>8. /\ RowsSeen(w)' = RowsSeen(w) /\ RowsSeen(w).day = today
    BY <1>1, <2>2 DEF RowsSeen, vars
  <2>9. Current(w)'
    <3>1. seen'[w] = [schedules   |-> Restrict(schedules', ContractsOf(request[w])'),
                      payments    |-> PaymentsIn(payments', ContractsOf(request[w])'),
                      allocations |-> Restrict(allocations', ContractsOf(request[w])'),
                      day         |-> today']
      BY <2>1, <2>8 DEF RowsSeen
    <3>2. seen'[w].day = today' /\ today' = today
      BY <1>1, <3>1 DEF vars
    <3> QED BY <2>6, <2>7, <3>1, <3>2 DEF Current
  <2>10. step[w] # "idle"
    BY <1>1
  <2> QED BY <1>1, <1>2, <2>1, <2>2, <2>3, <2>4, <2>5, <2>9, <2>10
          DEF Sound, ChangesPayment
<1>7. ASSUME NEW v \in Worker PROVE Fresh(v)'
  BY <1>1 DEF TxInv, Fresh, vars
<1> QED BY <1>3, <1>4, <1>5, <1>6, <1>7 DEF TransactionsOK

\* The end of a transaction, with or without a commit.
LEMMA EndKeeps ==
  ASSUME TxInv, NEW w \in Worker, End(w), UNCHANGED today,
         \A v \in Worker \ {w} : RowsKept(locks[v]),
         \/ UNCHANGED used
         \/ request[w].kind = "create payment" /\ used' = used \cup {request[w].payment}
  PROVE  TransactionsOK'
<1>1. /\ step' = [step EXCEPT ![w] = "idle"]
      /\ request' = [request EXCEPT ![w] = NoRequest]
      /\ wait' = [wait EXCEPT ![w] = {}]
      /\ locks' = [locks EXCEPT ![w] = {}]
      /\ seen' = [seen EXCEPT ![w] = NothingSeen]
  BY DEF End
<1>2. TxTypeOK /\ TypeOK
  BY DEF TxInv
<1>3. TxTypeOK'
  BY <1>1, <1>2 DEF TxTypeOK, Requests, CreatePaymentRequests, UpdatePaymentRequests,
     RemovePaymentRequests, UpdateContractRequests, RemoveContractRequests, EditRequests,
     NoRequest, PaymentRows
<1>4. /\ step'[w] = "idle" /\ request'[w] = NoRequest /\ locks'[w] = {}
      /\ \A v \in Worker \ {w} : Unmoved(v)
  BY <1>1, <1>2 DEF TxTypeOK, Unmoved
<1>5. Exclusive'
  BY <1>4 DEF TxInv, Exclusive, Unmoved
<1>6. ASSUME NEW v \in Worker, v # w PROVE Sound(v)'
  BY <1>2, <1>4, <1>6, SoundKept DEF TxInv
<1>7. Sound(w)'
  <2>1. NoRequest' = NoRequest
    BY DEF NoRequest
  <2> QED BY <1>4, <2>1 DEF Sound
<1>8. ASSUME NEW v \in Worker PROVE Fresh(v)'
  <2>1. CASE v = w
    <3>1. NoRequest.kind = "none"
      BY DEF NoRequest
    <3> QED BY <1>4, <2>1, <3>1 DEF Fresh
  <2>2. CASE v # w
    <3>1. request'[v] = request[v] /\ Fresh(v)
      BY <1>4, <2>2 DEF Unmoved, TxInv
    <3>2. \A u \in Worker : request'[u] = request[u] \/ request'[u].kind = "none"
      <4>1. NoRequest.kind = "none"
        BY DEF NoRequest
      <4>2. \A u \in Worker \ {w} : request'[u] = request[u]
        BY <1>4 DEF Unmoved
      <4> QED BY <1>4, <4>1, <4>2
    <3>3. request[v].kind = "create payment" => request[v].payment \notin used'
      BY <2>2, <3>1 DEF Fresh
    <3> QED BY <3>1, <3>2, <3>3 DEF Fresh
  <2> QED BY <2>1, <2>2
<1> QED BY <1>3, <1>5, <1>6, <1>7, <1>8 DEF TransactionsOK

LEMMA CommitKeeps ==
  ASSUME TxInv, NEW w \in Worker, Commit(w)
  PROVE  TransactionsOK'
<1>1. End(w) /\ UNCHANGED today
  BY DEF Commit, CommitCreatePayment, CommitUpdatePayment, CommitRemovePayment,
         CommitUpdateContract, CommitEdit, CommitRemoveContract, Writes
<1>2. \/ UNCHANGED used
      \/ request[w].kind = "create payment" /\ used' = used \cup {request[w].payment}
  BY DEF Commit, CommitCreatePayment, CommitUpdatePayment, CommitRemovePayment,
         CommitUpdateContract, CommitEdit, CommitRemoveContract, Writes
<1> QED BY <1>1, <1>2, CommitFrame, EndKeeps

LEMMA EndWithoutCommitKeeps ==
  ASSUME TxInv, NEW w \in Worker, Refuse(w) \/ Fail(w)
  PROVE  TransactionsOK'
<1>1. End(w) /\ UNCHANGED vars
  BY DEF Refuse, Fail
<1>2. ASSUME NEW v \in Worker PROVE RowsKept(locks[v])
  <2>1. \A c \in locks[v] : Live(c)
    BY DEF TxInv, Sound
  <2> QED BY <1>1, <2>1 DEF RowsKept, vars, Live
<1> QED BY <1>1, <1>2, EndKeeps DEF vars

\* Steps of the ledger that are no transaction's.
LEMMA OthersKeep ==
  ASSUME TxInv, Midnight \/ (\E c \in Contract, l \in Lease : TxCreateContract(c, l))
                  \/ UNCHANGED allVars
  PROVE  TransactionsOK'
<1>1. UNCHANGED txVars /\ UNCHANGED used
  BY DEF Midnight, TxCreateContract, Tomorrow, CreateContract, allVars, vars
<1>2. \A v \in Worker : Unmoved(v)
  BY <1>1 DEF Unmoved, txVars
<1>3. TypeOK /\ TxTypeOK /\ \A v \in Worker : Sound(v) /\ locks[v] \in SUBSET Contract
                                           /\ (\A c \in locks[v] : Live(c))
  BY DEF TxInv, TxTypeOK, Sound
<1>4. ASSUME NEW v \in Worker PROVE Sound(v)'
  <2>1. CASE Midnight
    <3>1. Tomorrow /\ (step[v] = "writing" => seen[v].day = today)
      BY <2>1 DEF Midnight
    <3>2. RowsKept(locks[v])
      BY <1>3, <3>1 DEF Tomorrow, RowsKept, Live
    <3> QED BY <1>2, <1>3, <3>1, <3>2, SoundKept
  <2>2. ASSUME NEW c \in Contract, NEW l \in Lease, TxCreateContract(c, l) PROVE Sound(v)'
    <3>1. CreateContract(c, l) /\ UNCHANGED today
      BY <2>2 DEF TxCreateContract, CreateContract
    <3>2. c \notin locks[v]
      BY <1>3, <3>1 DEF CreateContract, Live
    <3>3. RowsKept(locks[v])
      BY <1>3, <3>1, <3>2, ContractRequestFrame
    <3> QED BY <1>2, <1>3, <3>1, <3>3, SoundKept
  <2>3. CASE UNCHANGED allVars
    BY <1>2, <2>3, LedgerUntouched DEF allVars
  <2> QED BY <2>1, <2>2, <2>3
<1>5. TxTypeOK' /\ Exclusive'
  BY <1>1, <1>3 DEF TxInv, Exclusive, txVars, TxTypeOK, Requests, CreatePaymentRequests,
     UpdatePaymentRequests, RemovePaymentRequests, UpdateContractRequests,
     RemoveContractRequests, EditRequests, NoRequest, PaymentRows
<1>6. \A v \in Worker : Fresh(v)'
  BY <1>1 DEF TxInv, Fresh, txVars
<1> QED BY <1>4, <1>5, <1>6 DEF TransactionsOK

LEMMA TxInvInitially == TxInit => TxInv
<1> SUFFICES ASSUME TxInit PROVE TxInv
  OBVIOUS
<1>1. TypeOK /\ PeriodsFollowLease
  BY TypesInitially DEF TxInit, Init, PeriodsFollowLease
<1>2. TxTypeOK /\ Exclusive
  BY DEF TxInit, TxTypeOK, Exclusive
<1>3. ASSUME NEW w \in Worker PROVE Sound(w) /\ Fresh(w)
  <2>1. step[w] = "idle" /\ request[w] = NoRequest /\ locks[w] = {} /\ NoRequest.kind = "none"
    BY DEF TxInit, NoRequest
  <2> QED BY <2>1 DEF Sound, Fresh
<1> QED BY <1>1, <1>2, <1>3 DEF TxInv

LEMMA TxInvKept == TxInv /\ [TxNext]_allVars => TxInv'
<1> SUFFICES ASSUME TxInv, [TxNext]_allVars PROVE TxInv'
  OBVIOUS
<1>1. TypeOK' /\ PeriodsFollowLease'
  BY StepImplements, TypesKept, PeriodsKept DEF TxInv
<1>2. ASSUME NEW w \in Worker, Ask(w) PROVE TransactionsOK'
  BY <1>2, Asked, BeginKeeps
<1>3. ASSUME NEW w \in Worker, Proceed(w) \/ Fail(w) PROVE TransactionsOK'
  BY <1>3, LockContractKeeps, LockPaymentKeeps, ReadKeeps, CommitKeeps, EndWithoutCommitKeeps
     DEF Proceed
<1>4. TransactionsOK'
  BY <1>2, <1>3, OthersKeep DEF TxNext
<1> QED BY <1>1, <1>4 DEF TxInv, TransactionsOK

-----------------------------------------------------------------------------
(* Theorems *)

\* Transactions hold the locks of all they read, and have read what is in force.
THEOREM TransactionsStaySound == TxSafety => []TxInv
BY TxInvInitially, TxInvKept, PTL DEF TxSafety

(***************************************************************************)
(* What a transaction read of its contracts is unchanged until it commits, *)
(* because it holds the locks of lockContracts, update() and remove().     *)
(***************************************************************************)
THEOREM SeenStaysCurrent == TxSafety => []SeenIsCurrent
<1>1. TxInv => SeenIsCurrent
  <2> SUFFICES ASSUME TxInv, NEW w \in Worker, step[w] = "writing"
               PROVE  [RowsSeen(w) EXCEPT !.day = seen[w].day] = seen[w]
    BY DEF SeenIsCurrent
  <2>1. Current(w)
    BY DEF TxInv, Sound
  <2> QED BY <2>1 DEF Current, RowsSeen
<1> QED BY <1>1, TransactionsStaySound, PTL

(***************************************************************************)
(* The transactions, interleaved in any way, failing anywhere and crossing *)
(* midnight, do to the ledger what whole requests of RentLedger do, one    *)
(* after another.                                                          *)
(***************************************************************************)
THEOREM TransactionsImplementLedger == TxSafety => ImplementsLedger
<1>1. TxInit => Init
  BY DEF TxInit
<1>2. TxInv /\ [TxNext]_allVars => [Next]_vars
  BY StepImplements
<1> QED BY <1>1, <1>2, TransactionsStaySound, PTL DEF TxSafety, ImplementsLedger, Spec

(***************************************************************************)
(* What is proved of whole requests holds of the transactions.             *)
(***************************************************************************)
COROLLARY LedgerSurvivesTransactions ==
  TxSafety => [](TypeOK /\ AllocationsFollowRows /\ AllocationsAreFifo /\ PeriodsFollowLease) /\ ClosedRowsKept
BY TransactionsImplementLedger, LedgerTypes, AllocationsAlwaysFollowRows, AllocationsAlwaysFifo,
   PeriodsAlwaysFollowLease, ClosedRowsAlwaysKept, PTL DEF ImplementsLedger
=============================================================================
