---------------------------- MODULE Treasury_proofs ----------------------------
(* Proofs about Treasury: types, payments that add up, net worth explained  *)
(* and AFFORDABLE only for the solvent.  A month of either calculation is a *)
(* fold over the debts in some order and its figures are sums, so the first *)
(* half says what sums, folds and orders are, by induction on their size.   *)
EXTENDS Treasury, FiniteSetTheorems, TLAPS

-----------------------------------------------------------------------------
(* Sums over finite sets.  NatSet is induction on the naturals in first     *)
(* order form: a set of numbers in place of a predicate.                    *)

LEMMA NatSet ==
    ASSUME NEW N \in SUBSET Nat, 0 \in N, \A n \in N : n + 1 \in N
    PROVE  \A n \in Nat : n \in N
<1> SUFFICES ASSUME Nat \ N # {} PROVE FALSE
  OBVIOUS
<1>1. PICK m \in Nat \ N : \A k \in Nat \ N : <<k, m>> \notin OpToRel(<, Nat)
  BY NatLessThanWellFounded, WFMin
<1>2. \A k \in Nat \ N : ~ (k < m)
  BY <1>1 DEF OpToRel
<1>3. m # 0 /\ m - 1 \in Nat
  OBVIOUS
<1>4. m - 1 \in N
  BY <1>2, <1>3
<1>5. (m - 1) + 1 \in N
  BY <1>4
<1> QED
  BY <1>5

\* The table SumFunctionOnSet is read from, one member taken out at a time.
AnyOf(s) == CHOOSE x \in s : TRUE
IsSum(g, f, T) == g = [s \in SUBSET T |-> IF s = {} THEN 0 ELSE f[AnyOf(s)] + g[s \ {AnyOf(s)}]]
Table(f, T) == CHOOSE g : IsSum(g, f, T)

LEMMA SumTable == ASSUME NEW f, NEW T PROVE SumFunctionOnSet(f, T) = Table(f, T)[T]
BY DEF SumFunctionOnSet, FoldFunctionOnSet, MapThenFoldSet, Table, IsSum, AnyOf

LEMMA AnyMember == ASSUME NEW s, s # {} PROVE AnyOf(s) \in s
BY DEF AnyOf

\* A smaller set.
LEMMA OneLess ==
    ASSUME NEW T, IsFiniteSet(T), NEW s \in SUBSET T, NEW x \in s
    PROVE  /\ s \ {x} \in SUBSET T
           /\ Cardinality(s) \in Nat /\ Cardinality(s \ {x}) \in Nat
           /\ Cardinality(s) = Cardinality(s \ {x}) + 1
<1>1. IsFiniteSet(s)
  BY FS_Subset
<1>2. Cardinality(s) \in Nat
  BY <1>1, FS_CardinalityType
<1>3. Cardinality(s \ {x}) = Cardinality(s) - 1 /\ IsFiniteSet(s \ {x})
  BY <1>1, FS_RemoveElement
<1> QED
  BY <1>2, <1>3, FS_CardinalityType

LEMMA TableIs ==
    ASSUME NEW T, IsFiniteSet(T), NEW f, \A x \in T : f[x] \in Int
    PROVE  /\ Table(f, T)[{}] = 0
           /\ \A s \in SUBSET T : s # {} =>
                Table(f, T)[s] = f[AnyOf(s)] + Table(f, T)[s \ {AnyOf(s)}]
           /\ \A s \in SUBSET T : Table(f, T)[s] \in Int
<1> DEFINE Eqn(g, s) == g[s] = IF s = {} THEN 0 ELSE f[AnyOf(s)] + g[s \ {AnyOf(s)}]
           Upto(g, n) == \A s \in SUBSET T : Cardinality(s) <= n => Eqn(g, s)
           N == {n \in Nat : \E g \in [SUBSET T -> Int] : Upto(g, n)}
<1>0. \A s \in SUBSET T : Cardinality(s) \in Nat /\ (Cardinality(s) = 0 <=> s = {})
  BY FS_Subset, FS_CardinalityType, FS_EmptySet
<1>1. 0 \in N
  <2> DEFINE g == [s \in SUBSET T |-> 0]
  <2>1. g \in [SUBSET T -> Int] /\ Upto(g, 0)
    BY <1>0
  <2> QED
    BY <2>1
<1>2. ASSUME NEW n \in N PROVE n + 1 \in N
  <2>1. PICK g \in [SUBSET T -> Int] : Upto(g, n)
    BY <1>2
  <2> DEFINE h == [s \in SUBSET T |-> IF s = {} THEN 0 ELSE f[AnyOf(s)] + g[s \ {AnyOf(s)}]]
  <2>2. h \in [SUBSET T -> Int]
    <3>1. \A s \in SUBSET T : s # {} => f[AnyOf(s)] \in Int /\ g[s \ {AnyOf(s)}] \in Int
      BY AnyMember
    <3>2. \A s \in SUBSET T : (IF s = {} THEN 0 ELSE f[AnyOf(s)] + g[s \ {AnyOf(s)}]) \in Int
      <4> TAKE s \in SUBSET T
      <4>1. CASE s = {}
        BY <4>1
      <4>2. CASE s # {}
        BY <3>1, <4>2
      <4> QED
        BY <4>1, <4>2
    <3> QED
      BY <3>2
  <2>3. ASSUME NEW s \in SUBSET T, Cardinality(s) <= n + 1 PROVE Eqn(h, s)
    <3>0. h[s] = IF s = {} THEN 0 ELSE f[AnyOf(s)] + g[s \ {AnyOf(s)}]
      OBVIOUS
    <3>1. CASE s = {}
      BY <3>0, <3>1 DEF h
    <3>2. CASE s # {}
      <4> DEFINE r == s \ {AnyOf(s)}
      <4>1. r \in SUBSET T /\ Cardinality(r) <= n
        BY <2>3, <3>2, AnyMember, OneLess, <1>0
      <4>2. h[r] = g[r]
        BY <2>1, <4>1
      <4> QED
        BY <3>0, <3>2, <4>1, <4>2
    <3> QED
      BY <3>1, <3>2
  <2>4. Upto(h, n + 1)
    BY <2>3
  <2>5. \E k \in [SUBSET T -> Int] : Upto(k, n + 1)
    <3> HIDE DEF h
    <3> QED
      BY <2>2, <2>4
  <2>6. n + 1 \in Nat
    OBVIOUS
  <2> HIDE DEF Upto
  <2> QED
    BY <2>5, <2>6
<1>3. Cardinality(T) \in N
  <2> HIDE DEF N
  <2>1. N \subseteq Nat
    BY DEF N
  <2> QED
    BY <1>1, <1>2, <2>1, NatSet, FS_CardinalityType
<1>4. PICK g \in [SUBSET T -> Int] : Upto(g, Cardinality(T))
  BY <1>3
<1>5. \A s \in SUBSET T : Eqn(g, s)
  BY <1>4, FS_Subset
<1>6. IsSum(g, f, T)
  BY <1>5 DEF IsSum
<1>7. IsSum(Table(f, T), f, T)
  BY <1>6 DEF Table
<1> DEFINE t == Table(f, T)
<1>8. \A s \in SUBSET T : t[s] = IF s = {} THEN 0 ELSE f[AnyOf(s)] + t[s \ {AnyOf(s)}]
  <2> HIDE DEF t
  <2> QED
    BY <1>7 DEF IsSum, t
<1>9. \A s \in SUBSET T : t[s] \in Int
  <2> HIDE DEF t
  <2> DEFINE M == {n \in Nat : \A s \in SUBSET T : Cardinality(s) = n => t[s] \in Int}
  <2>0. \A s \in SUBSET T : (s = {} => t[s] = 0) /\ (s # {} => t[s] = f[AnyOf(s)] + t[s \ {AnyOf(s)}])
    BY <1>8
  <2>1. 0 \in M
    <3>1. ASSUME NEW s \in SUBSET T, Cardinality(s) = 0 PROVE t[s] \in Int
      <4>1. s = {}
        BY <1>0, <3>1
      <4>2. t[s] = 0
        BY <2>0, <4>1
      <4> QED
        BY <4>2
    <3> QED
      BY <3>1
  <2>2. ASSUME NEW n \in M PROVE n + 1 \in M
    <3> SUFFICES ASSUME NEW s \in SUBSET T, Cardinality(s) = n + 1 PROVE t[s] \in Int
      OBVIOUS
    <3>1. s # {}
      BY <1>0
    <3>2. s \ {AnyOf(s)} \in SUBSET T /\ Cardinality(s \ {AnyOf(s)}) = n
      BY <3>1, AnyMember, OneLess
    <3>3. t[s \ {AnyOf(s)}] \in Int /\ f[AnyOf(s)] \in Int
      BY <3>1, <3>2, AnyMember
    <3> QED
      BY <2>0, <3>1, <3>3
  <2>3. \A n \in Nat : n \in M
    <3> HIDE DEF M
    <3>1. M \subseteq Nat
      BY DEF M
    <3> QED
      BY <2>1, <2>2, <3>1, NatSet
  <2> QED
    BY <2>3, <1>0
<1> QED
  BY <1>8, <1>9

\* The value of a table depends on the set summed, and on f inside it, only.
LEMMA TablesAgree ==
    ASSUME NEW T, IsFiniteSet(T), NEW f, \A x \in T : f[x] \in Int,
           NEW V, IsFiniteSet(V), NEW h, \A x \in V : h[x] \in Int
    PROVE  \A s \in SUBSET (T \cap V) :
             (\A x \in s : f[x] = h[x]) => Table(f, T)[s] = Table(h, V)[s]
<1> DEFINE Same(s) == (\A x \in s : f[x] = h[x]) => Table(f, T)[s] = Table(h, V)[s]
           N == {n \in Nat : \A s \in SUBSET (T \cap V) : Cardinality(s) = n => Same(s)}
<1>1. ASSUME NEW s \in SUBSET (T \cap V), s = {} PROVE Same(s)
  <2>1. Table(f, T)[{}] = 0 /\ Table(h, V)[{}] = 0
    BY TableIs
  <2> QED
    BY <1>1, <2>1
<1>2. \A s \in SUBSET (T \cap V) : IsFiniteSet(s) /\ Cardinality(s) \in Nat
                                   /\ (Cardinality(s) = 0 <=> s = {})
  BY FS_Subset, FS_CardinalityType, FS_EmptySet
<1>3. 0 \in N
  BY <1>1, <1>2
<1>4. ASSUME NEW n \in N PROVE n + 1 \in N
  <2>1. ASSUME NEW s \in SUBSET (T \cap V), Cardinality(s) = n + 1, \A x \in s : f[x] = h[x]
        PROVE  Table(f, T)[s] = Table(h, V)[s]
    <3>1. s # {} /\ s \in SUBSET T /\ s \in SUBSET V /\ n \in Nat
      BY <1>2, <2>1
    <3> DEFINE a == AnyOf(s)
               r == s \ {a}
    <3>2. a \in s
      BY <3>1, AnyMember
    <3>3. r \in SUBSET (T \cap V) /\ Cardinality(r) = n
      BY <2>1, <3>1, <3>2, OneLess
    <3>4. Table(f, T)[r] = Table(h, V)[r]
      BY <2>1, <3>3
    <3>5. Table(f, T)[s] = f[a] + Table(f, T)[r]
      BY <3>1, TableIs
    <3>6. Table(h, V)[s] = h[a] + Table(h, V)[r]
      BY <3>1, TableIs
    <3> QED
      BY <2>1, <3>2, <3>4, <3>5, <3>6
  <2> QED
    BY <2>1
<1>5. \A n \in Nat : n \in N
  <2> HIDE DEF N
  <2>1. N \subseteq Nat
    BY DEF N
  <2> QED
    BY <1>3, <1>4, <2>1, NatSet
<1> QED
  BY <1>2, <1>5

LEMMA SumIsInt ==
    ASSUME NEW T, IsFiniteSet(T), NEW f, \A x \in T : f[x] \in Int
    PROVE  SumFunctionOnSet(f, T) \in Int
BY TableIs, SumTable

LEMMA SumOfNone == ASSUME NEW f PROVE SumFunctionOnSet(f, {}) = 0
BY TableIs, SumTable, FS_EmptySet

LEMMA SumsAgree ==
    ASSUME NEW T, IsFiniteSet(T), NEW f, NEW h, \A x \in T : f[x] \in Int /\ f[x] = h[x]
    PROVE  SumFunctionOnSet(f, T) = SumFunctionOnSet(h, T)
BY TablesAgree, SumTable

\* Any member may be taken out first.
LEMMA SumWithout ==
    ASSUME NEW T, IsFiniteSet(T), NEW f, \A x \in T : f[x] \in Int, NEW x \in T
    PROVE  SumFunctionOnSet(f, T) = f[x] + SumFunctionOnSet(f, T \ {x})
<1> DEFINE t == Table(f, T)
           N == {n \in Nat : \A s \in SUBSET T : Cardinality(s) = n =>
                               \A y \in s : t[s] = f[y] + t[s \ {y}]}
<1>1. \A s \in SUBSET T : IsFiniteSet(s) /\ Cardinality(s) \in Nat
                          /\ (Cardinality(s) = 0 <=> s = {})
  BY FS_Subset, FS_CardinalityType, FS_EmptySet
<1>2. \A s \in SUBSET T : t[s] \in Int
  BY TableIs
<1>3. 0 \in N
  <2>1. \A s \in SUBSET T : Cardinality(s) = 0 => \A y \in s : t[s] = f[y] + t[s \ {y}]
    BY <1>1
  <2> QED
    BY <2>1
<1>4. ASSUME NEW n \in N PROVE n + 1 \in N
  <2>1. ASSUME NEW s \in SUBSET T, Cardinality(s) = n + 1, NEW y \in s
        PROVE  t[s] = f[y] + t[s \ {y}]
    <3> DEFINE a == AnyOf(s)
    <3>1. s # {} /\ a \in s /\ n \in Nat
      BY AnyMember
    <3>2. t[s] = f[a] + t[s \ {a}]
      BY <3>1, TableIs
    <3>3. CASE y = a
      BY <3>2, <3>3
    <3>4. CASE y # a
      <4>1. /\ s \ {a} \in SUBSET T /\ Cardinality(s \ {a}) = n
            /\ s \ {y} \in SUBSET T /\ Cardinality(s \ {y}) = n
            /\ (s \ {a}) \ {y} \in SUBSET T /\ (s \ {a}) \ {y} = (s \ {y}) \ {a}
        BY <2>1, <3>1, OneLess
      <4>2. t[s \ {a}] = f[y] + t[(s \ {a}) \ {y}]
        <5>1. y \in s \ {a}
          BY <3>4
        <5> QED
          BY <4>1, <5>1
      <4>3. t[s \ {y}] = f[a] + t[(s \ {y}) \ {a}]
        <5>1. a \in s \ {y}
          BY <3>1, <3>4
        <5> QED
          BY <4>1, <5>1
      <4>4. f[a] \in Int /\ f[y] \in Int /\ t[(s \ {a}) \ {y}] \in Int
        BY <1>2, <3>1, <4>1
      <4>5. t[(s \ {y}) \ {a}] = t[(s \ {a}) \ {y}]
        BY <4>1
      <4> HIDE DEF t, a
      <4>6. \A i, j, k, l, m \in Int : k = i + l /\ l = j + m => k = j + (i + m)
        OBVIOUS
      <4> QED
        BY <1>2, <2>1, <3>2, <4>1, <4>2, <4>3, <4>4, <4>5, <4>6
    <3> QED
      BY <3>3, <3>4
  <2> QED
    BY <2>1
<1>5. \A n \in Nat : n \in N
  <2> HIDE DEF N
  <2>1. N \subseteq Nat
    BY DEF N
  <2> QED
    BY <1>3, <1>4, <2>1, NatSet
<1>6. t[T] = f[x] + t[T \ {x}]
  BY <1>1, <1>5
<1>7. t[T \ {x}] = Table(f, T \ {x})[T \ {x}]
  BY TablesAgree, FS_Subset
<1> QED
  BY <1>6, <1>7, SumTable

\* A part of the set may be summed apart.
LEMMA SumSplit ==
    ASSUME NEW T, IsFiniteSet(T), NEW f, \A x \in T : f[x] \in Int, NEW V \in SUBSET T
    PROVE  SumFunctionOnSet(f, T) = SumFunctionOnSet(f, T \ V) + SumFunctionOnSet(f, V)
<1> DEFINE Sum(s) == SumFunctionOnSet(f, s)
           N == {n \in Nat : \A s \in SUBSET T : Cardinality(s) = n =>
                               Sum(T) = Sum(T \ s) + Sum(s)}
<1>1. \A s \in SUBSET T : /\ IsFiniteSet(s) /\ Cardinality(s) \in Nat
                          /\ Cardinality(s) = 0 <=> s = {}
                          /\ Sum(s) \in Int
  BY FS_Subset, FS_CardinalityType, FS_EmptySet, SumIsInt
<1>2. 0 \in N
  <2>1. Sum({}) = 0 /\ Sum(T) \in Int /\ T \ {} = T
    BY <1>1, SumOfNone
  <2>2. \A s \in SUBSET T : Cardinality(s) = 0 => Sum(T) = Sum(T \ s) + Sum(s)
    BY <1>1, <2>1
  <2> QED
    BY <2>2
<1>3. ASSUME NEW n \in N PROVE n + 1 \in N
  <2>1. ASSUME NEW s \in SUBSET T, Cardinality(s) = n + 1
        PROVE  Sum(T) = Sum(T \ s) + Sum(s)
    <3>1. PICK x \in s : TRUE
      BY <1>1, <2>1
    <3> DEFINE r == s \ {x}
    <3>2. r \in SUBSET T /\ Cardinality(r) = n
      BY <2>1, <3>1, OneLess
    <3>3. Sum(T) = Sum(T \ r) + Sum(r)
      BY <3>2
    <3>4. Sum(s) = f[x] + Sum(r)
      BY <1>1, <3>1, SumWithout
    <3>5. Sum(T \ r) = f[x] + Sum((T \ r) \ {x})
      <4>1. T \ r \in SUBSET T /\ x \in T \ r
        BY <3>1
      <4> QED
        BY <1>1, <4>1, SumWithout
    <3>6. (T \ r) \ {x} = T \ s
      BY <3>1
    <3>7. f[x] \in Int /\ Sum(r) \in Int /\ Sum(T \ s) \in Int
      BY <1>1, <3>1, <3>2
    <3>8. Sum(T \ r) = f[x] + Sum(T \ s)
      BY <3>5, <3>6
    <3>9. \A a, b, c, d, e, v \in Int : d = v + b /\ e = v + a /\ c = e + b => c = a + d
      OBVIOUS
    <3>10. Sum(T) \in Int /\ Sum(s) \in Int /\ Sum(T \ r) \in Int
      BY <1>1
    <3> HIDE DEF Sum, r
    <3> QED
      BY <3>3, <3>4, <3>7, <3>8, <3>9, <3>10
  <2> HIDE DEF Sum
  <2> QED
    BY <2>1
<1>4. \A n \in Nat : n \in N
  <2> HIDE DEF N
  <2>1. N \subseteq Nat
    BY DEF N
  <2> QED
    BY <1>2, <1>3, <2>1, NatSet
<1> QED
  BY <1>1, <1>4

LEMMA SumIsNat ==
    ASSUME NEW T, IsFiniteSet(T), NEW f, \A x \in T : f[x] \in Nat
    PROVE  SumFunctionOnSet(f, T) \in Nat
<1> DEFINE Sum(s) == SumFunctionOnSet(f, s)
           N == {n \in Nat : \A s \in SUBSET T : Cardinality(s) = n => Sum(s) \in Nat}
<1>1. \A s \in SUBSET T : /\ IsFiniteSet(s) /\ Cardinality(s) \in Nat
                          /\ Cardinality(s) = 0 <=> s = {}
  BY FS_Subset, FS_CardinalityType, FS_EmptySet
<1>2. 0 \in N
  <2>1. \A s \in SUBSET T : Cardinality(s) = 0 => Sum(s) \in Nat
    BY <1>1, SumOfNone
  <2> QED
    BY <2>1
<1>3. ASSUME NEW n \in N PROVE n + 1 \in N
  <2>1. ASSUME NEW s \in SUBSET T, Cardinality(s) = n + 1 PROVE Sum(s) \in Nat
    <3>1. PICK x \in s : TRUE
      BY <1>1, <2>1
    <3>2. s \ {x} \in SUBSET T /\ Cardinality(s \ {x}) = n
      BY <2>1, <3>1, OneLess
    <3>3. Sum(s) = f[x] + Sum(s \ {x})
      BY <1>1, <3>1, SumWithout
    <3>4. Sum(s \ {x}) \in Nat /\ f[x] \in Nat
      BY <3>1, <3>2
    <3> HIDE DEF Sum
    <3> QED
      BY <3>3, <3>4
  <2> HIDE DEF Sum
  <2> QED
    BY <2>1
<1>4. \A n \in Nat : n \in N
  <2> HIDE DEF N
  <2>1. N \subseteq Nat
    BY DEF N
  <2> QED
    BY <1>2, <1>3, <2>1, NatSet
<1> QED
  BY <1>1, <1>4

LEMMA SumGrows ==
    ASSUME NEW T, IsFiniteSet(T), NEW f, \A x \in T : f[x] \in Nat, NEW V \in SUBSET T
    PROVE  SumFunctionOnSet(f, V) <= SumFunctionOnSet(f, T)
<1>1. /\ SumFunctionOnSet(f, V) \in Nat /\ SumFunctionOnSet(f, T \ V) \in Nat
      /\ SumFunctionOnSet(f, T) \in Nat
  BY FS_Subset, SumIsNat
<1>2. SumFunctionOnSet(f, T) = SumFunctionOnSet(f, T \ V) + SumFunctionOnSet(f, V)
  BY SumSplit
<1> QED
  BY <1>1, <1>2

-----------------------------------------------------------------------------
(* Folds.  FoldLeft is read from a table over the subsets of the indices,   *)
(* the greatest index taken out first; FoldTable is that table for a step   *)
(* given as a function.                                                     *)

IsFold(t, g, base, seq, n) ==
  \A s \in SUBSET (1 .. n) :
    t[s] = IF s = {} THEN base ELSE g[t[s \ {Max(s)}]][seq[Max(s)]]

LEMMA Greatest ==
    ASSUME NEW k \in Nat, NEW s \in SUBSET (1 .. k), k \in s PROVE Max(s) = k
<1>1. s \subseteq Int /\ \A y \in s : k >= y
  OBVIOUS
<1>2. \E x \in s : \A y \in s : x >= y
  BY <1>1
<1>3. Max(s) \in s /\ \A y \in s : Max(s) >= y
  BY <1>2 DEF Max
<1>4. Max(s) \in Int /\ Max(s) >= k /\ k >= Max(s)
  BY <1>1, <1>3
<1> QED
  BY <1>4

LEMMA FoldExists ==
    ASSUME NEW n \in Nat, NEW A, NEW E, NEW g \in [A -> [E -> A]], NEW base \in A,
           NEW seq \in [1 .. n -> E]
    PROVE  \E t \in [SUBSET (1 .. n) -> A] : IsFold(t, g, base, seq, n)
<1> DEFINE Eqn(t, s) == t[s] = IF s = {} THEN base ELSE g[t[s \ {Max(s)}]][seq[Max(s)]]
           Upto(t, k) == \A s \in SUBSET (1 .. k) : Eqn(t, s)
           Has(k) == \E t \in [SUBSET (1 .. n) -> A] : Upto(t, k)
<1>1. Has(0)
  <2> DEFINE t == [s \in SUBSET (1 .. n) |-> base]
  <2>1. t \in [SUBSET (1 .. n) -> A] /\ Upto(t, 0)
    OBVIOUS
  <2> QED
    BY <2>1
<1>2. ASSUME NEW k \in Nat, k + 1 <= n, Has(k) PROVE Has(k + 1)
  <2>1. k <= n
    BY <1>2
  <2>2. PICK t \in [SUBSET (1 .. n) -> A] : Upto(t, k)
    BY <1>2
  <2> DEFINE h == [s \in SUBSET (1 .. n) |->
                     IF k + 1 \in s THEN g[t[s \ {k + 1}]][seq[k + 1]] ELSE t[s]]
  <2>3. h \in [SUBSET (1 .. n) -> A]
    <3>1. ASSUME NEW s \in SUBSET (1 .. n), k + 1 \in s
          PROVE  g[t[s \ {k + 1}]][seq[k + 1]] \in A
      <4>1. t[s \ {k + 1}] \in A /\ seq[k + 1] \in E
        BY <1>2, <3>1
      <4>2. g[t[s \ {k + 1}]] \in [E -> A]
        BY <4>1
      <4> QED
        BY <4>1, <4>2
    <3> QED
      BY <3>1
  <2>4. ASSUME NEW s \in SUBSET (1 .. k + 1) PROVE Eqn(h, s)
    <3>1. s \in SUBSET (1 .. n)
      BY <1>2, <2>4
    <3>2. CASE k + 1 \in s
      <4>1. Max(s) = k + 1
        BY <2>1, <3>2, Greatest
      <4>2. s \ {k + 1} \in SUBSET (1 .. n) /\ k + 1 \notin s \ {k + 1}
        BY <3>1
      <4>3. h[s \ {k + 1}] = t[s \ {k + 1}]
        BY <4>2
      <4>4. h[s] = g[t[s \ {k + 1}]][seq[k + 1]]
        BY <3>1, <3>2
      <4> HIDE DEF h
      <4> QED
        BY <3>2, <4>1, <4>3, <4>4
    <3>3. CASE k + 1 \notin s
      <4> DEFINE r == s \ {Max(s)}
      <4>1. s \in SUBSET (1 .. k) /\ r \in SUBSET (1 .. n) /\ k + 1 \notin r
        <5>1. \A y \in s : y \in 1 .. k
          BY <2>1, <2>4, <3>3
        <5> QED
          BY <3>1, <3>3, <5>1
      <4>2. h[s] = t[s] /\ h[r] = t[r]
        BY <3>1, <3>3, <4>1
      <4>3. Eqn(t, s)
        BY <2>2, <4>1
      <4> HIDE DEF h
      <4> QED
        BY <4>2, <4>3
    <3> QED
      BY <3>2, <3>3
  <2> HIDE DEF h
  <2> QED
    BY <2>3, <2>4
<1>3. Has(n)
  <2> DEFINE N == {k \in Nat : k <= n => Has(k)}
  <2> HIDE DEF Has
  <2>1. N \subseteq Nat /\ 0 \in N
    BY <1>1
  <2>2. \A k \in N : k + 1 \in N
    BY <1>2
  <2>3. \A k \in Nat : k \in N
    <3> HIDE DEF N
    <3> QED
      BY <2>1, <2>2, NatSet
  <2> QED
    BY <2>3
<1> QED
  BY <1>3 DEF IsFold

\* What holds at the start of a fold and is kept by each step holds throughout.
LEMMA Throughout ==
    ASSUME NEW n \in Nat, NEW A, NEW c, c[0] \in A,
           \A i \in 1 .. n : c[i - 1] \in A => c[i] \in A
    PROVE  \A i \in 0 .. n : c[i] \in A
<1> DEFINE N == {i \in Nat : i <= n => c[i] \in A}
<1>1. 0 \in N
  OBVIOUS
<1>2. ASSUME NEW i \in N PROVE i + 1 \in N
  <2>1. i + 1 <= n => i + 1 \in 1 .. n /\ (i + 1) - 1 = i
    OBVIOUS
  <2> QED
    BY <2>1
<1>3. \A i \in Nat : i \in N
  <2> HIDE DEF N
  <2>1. N \subseteq Nat
    BY DEF N
  <2> QED
    BY <1>1, <1>2, <2>1, NatSet
<1> QED
  BY <1>3

LEMMA PrefixFacts ==
    ASSUME NEW n \in Nat, NEW i \in 1 .. n
    PROVE  /\ 1 .. i \in SUBSET (1 .. n) /\ 1 .. (i - 1) \in SUBSET (1 .. n)
           /\ 1 .. i # {} /\ Max(1 .. i) = i /\ (1 .. i) \ {i} = 1 .. (i - 1)
           /\ 1 .. 0 = {}
<1>1. i \in Nat /\ i \in 1 .. i
  OBVIOUS
<1>2. Max(1 .. i) = i
  BY <1>1, Greatest
<1>3. 1 .. i \in SUBSET (1 .. n) /\ 1 .. (i - 1) \in SUBSET (1 .. n) /\ 1 .. i # {}
  OBVIOUS
<1>4. (1 .. i) \ {i} = 1 .. (i - 1) /\ 1 .. 0 = {}
  OBVIOUS
<1> QED
  BY <1>2, <1>3, <1>4

-----------------------------------------------------------------------------
(* Orders: a finite set can be put in a strict total order.                 *)

TotalOrder(R, T) ==
  /\ \A x, y \in T : x # y => <<x, y>> \in R \/ <<y, x>> \in R
  /\ \A x \in T : <<x, x>> \notin R
  /\ \A x, y, z \in T : <<x, y>> \in R /\ <<y, z>> \in R => <<x, z>> \in R
Ascends(f, R, n) == \A i, j \in 1 .. n : i < j => <<f[i], f[j]>> \in R

LEMMA LastMember ==
    ASSUME NEW T, IsFiniteSet(T), NEW R, TotalOrder(R, T)
    PROVE  \A s \in SUBSET T : s # {} => \E m \in s : \A y \in s \ {m} : <<y, m>> \in R
<1> DEFINE HasLast(s) == \E m \in s : \A y \in s \ {m} : <<y, m>> \in R
           N == {n \in Nat : \A s \in SUBSET T : Cardinality(s) = n + 1 => HasLast(s)}
<1>1. \A s \in SUBSET T : /\ IsFiniteSet(s) /\ Cardinality(s) \in Nat
                          /\ Cardinality(s) = 0 <=> s = {}
  BY FS_Subset, FS_CardinalityType, FS_EmptySet
<1>2. 0 \in N
  <2>1. ASSUME NEW s \in SUBSET T, Cardinality(s) = 1 PROVE HasLast(s)
    <3>1. PICK x : s = {x}
      BY <1>1, <2>1, FS_Singleton
    <3> QED
      BY <3>1
  <2> QED
    BY <2>1
<1>3. ASSUME NEW n \in N PROVE n + 1 \in N
  <2>1. ASSUME NEW s \in SUBSET T, Cardinality(s) = (n + 1) + 1 PROVE HasLast(s)
    <3>1. PICK x \in s : TRUE
      BY <1>1, <2>1
    <3>2. s \ {x} \in SUBSET T /\ Cardinality(s \ {x}) = n + 1
      BY <2>1, <3>1, OneLess
    <3>3. PICK m \in s \ {x} : \A y \in (s \ {x}) \ {m} : <<y, m>> \in R
      BY <3>2
    <3>4. CASE <<x, m>> \in R
      BY <3>3, <3>4
    <3>5. CASE <<m, x>> \in R
      <4>1. ASSUME NEW y \in s \ {x} PROVE <<y, x>> \in R
        BY <3>3, <3>5, <3>1 DEF TotalOrder
      <4> QED
        BY <3>1, <4>1
    <3> QED
      BY <3>1, <3>3, <3>4, <3>5 DEF TotalOrder
  <2> QED
    BY <2>1
<1>4. \A n \in Nat : n \in N
  <2> HIDE DEF N
  <2>1. N \subseteq Nat
    BY DEF N
  <2> QED
    BY <1>2, <1>3, <2>1, NatSet
<1>5. ASSUME NEW s \in SUBSET T, s # {} PROVE HasLast(s)
  <2>1. Cardinality(s) - 1 \in Nat /\ Cardinality(s) = (Cardinality(s) - 1) + 1
    BY <1>1, <1>5
  <2> QED
    BY <1>4, <2>1
<1> QED
  BY <1>5

LEMMA OrderExists ==
    ASSUME NEW T, IsFiniteSet(T), NEW R, TotalOrder(R, T)
    PROVE  \E f \in [1 .. Cardinality(T) -> T] : Ascends(f, R, Cardinality(T))
<1> DEFINE N == {n \in Nat : \A s \in SUBSET T : Cardinality(s) = n =>
                               \E f \in [1 .. n -> s] : Ascends(f, R, n)}
<1>1. \A s \in SUBSET T : /\ IsFiniteSet(s) /\ Cardinality(s) \in Nat
                          /\ Cardinality(s) = 0 <=> s = {}
  BY FS_Subset, FS_CardinalityType, FS_EmptySet
<1>2. 0 \in N
  <2>1. ASSUME NEW s \in SUBSET T PROVE \E f \in [1 .. 0 -> s] : Ascends(f, R, 0)
    <3> DEFINE f == [i \in 1 .. 0 |-> i]
    <3>1. f \in [1 .. 0 -> s] /\ Ascends(f, R, 0)
      BY DEF Ascends
    <3> QED
      BY <3>1
  <2> QED
    BY <2>1
<1>3. ASSUME NEW n \in N PROVE n + 1 \in N
  <2>1. ASSUME NEW s \in SUBSET T, Cardinality(s) = n + 1
        PROVE  \E f \in [1 .. n + 1 -> s] : Ascends(f, R, n + 1)
    <3>0. n \in Nat /\ s # {}
      BY <1>1, <2>1
    <3>1. PICK m \in s : \A y \in s \ {m} : <<y, m>> \in R
      BY <3>0, LastMember
    <3>2. s \ {m} \in SUBSET T /\ Cardinality(s \ {m}) = n
      BY <2>1, <3>1, OneLess
    <3>3. PICK f \in [1 .. n -> s \ {m}] : Ascends(f, R, n)
      BY <3>2
    <3> DEFINE h == [i \in 1 .. n + 1 |-> IF i = n + 1 THEN m ELSE f[i]]
    <3>4. \A i \in 1 .. n : h[i] = f[i] /\ f[i] \in s \ {m}
      BY <3>0, <3>3
    <3>5. h[n + 1] = m
      BY <3>0
    <3>6. h \in [1 .. n + 1 -> s]
      BY <3>0, <3>1, <3>3
    <3>7. ASSUME NEW i \in 1 .. n + 1, NEW j \in 1 .. n + 1, i < j PROVE <<h[i], h[j]>> \in R
      <4>1. i \in 1 .. n
        BY <3>0, <3>7
      <4>2. CASE j = n + 1
        BY <3>1, <3>4, <3>5, <4>1, <4>2
      <4>3. CASE j # n + 1
        <5>1. j \in 1 .. n
          BY <3>0, <4>3
        <5> QED
          BY <3>3, <3>4, <3>7, <4>1, <5>1 DEF Ascends
      <4> QED
        BY <4>2, <4>3
    <3> HIDE DEF h
    <3> QED
      BY <3>6, <3>7 DEF Ascends
  <2> QED
    BY <2>1
<1>4. \A n \in Nat : n \in N
  <2> HIDE DEF N
  <2>1. N \subseteq Nat
    BY DEF N
  <2> QED
    BY <1>2, <1>3, <2>1, NatSet
<1> QED
  BY <1>1, <1>4

LEMMA AscentReachesAll ==
    ASSUME NEW T, IsFiniteSet(T), NEW R, TotalOrder(R, T),
           NEW f \in [1 .. Cardinality(T) -> T], Ascends(f, R, Cardinality(T))
    PROVE  Cardinality(T) \in Nat /\ \A x \in T : \E i \in 1 .. Cardinality(T) : f[i] = x
<1>1. Cardinality(T) \in Nat
  BY FS_CardinalityType
<1>2. \A i, j \in 1 .. Cardinality(T) : f[i] = f[j] => i = j
  <2>1. ASSUME NEW i \in 1 .. Cardinality(T), NEW j \in 1 .. Cardinality(T), i < j
        PROVE  f[i] # f[j]
    BY <1>1, <2>1 DEF Ascends, TotalOrder
  <2> QED
    BY <1>1, <2>1
<1>3. f \in Injection(1 .. Cardinality(T), T)
  BY <1>2 DEF Injection, IsInjective
<1>4. Cardinality(1 .. Cardinality(T)) = Cardinality(T)
  BY <1>1, FS_Interval
<1>5. f \in Surjection(1 .. Cardinality(T), T)
  BY <1>3, <1>4, FS_Injection
<1> QED
  BY <1>1, <1>5 DEF Surjection

-----------------------------------------------------------------------------
(* The household: interest and one payment, totals, debts put in order.     *)

LEMMA InterestIs ==
    ASSUME NEW p \in Nat, NEW q \in Nat, NEW r \in Nat
    PROVE  /\ Interest(p, r) \in Nat
           /\ Interest(0, r) = 0
           /\ p <= q => Interest(p, r) <= Interest(q, r)
<1>1. RateUnit \in Nat \ {0}
  BY HouseholdAssumption
<1>2. \A a \in Nat : a \div RateUnit \in Nat
  BY <1>1
<1>3. p * r \in Nat /\ q * r \in Nat /\ 0 * r = 0
  OBVIOUS
<1>4. 0 \div RateUnit = 0
  BY <1>1
<1>5. \A a, b \in Nat : a <= b => a \div RateUnit <= b \div RateUnit
  BY <1>1
<1>6. p <= q => p * r <= q * r
  OBVIOUS
<1> QED
  BY <1>2, <1>3, <1>4, <1>5, <1>6 DEF Interest

\* One payment: what it takes, and what it leaves.
LEMMA PaymentIs ==
    ASSUME NEW p \in Nat, NEW r \in Nat, NEW pay \in Nat
    PROVE  /\ PaymentApplied(p, r, pay) \in Nat /\ PaymentApplied(p, r, pay) <= pay
           /\ RemainingPrincipal(p, r, pay) \in Nat
           /\ RemainingPrincipal(p, r, pay) = p + Interest(p, r) - PaymentApplied(p, r, pay)
           /\ p = 0 => RemainingPrincipal(p, r, pay) = 0
           /\ \/ RemainingPrincipal(p, r, pay) = p + Interest(p, r) - pay
              \/ RemainingPrincipal(p, r, pay) = 0
<1>1. Interest(p, r) \in Nat /\ (p = 0 => Interest(p, r) = 0)
  BY InterestIs
<1> DEFINE due == p + Interest(p, r)
<1>2. due \in Nat /\ due >= p
  BY <1>1
<1>3. PaymentApplied(p, r, pay) = IF pay < due THEN pay ELSE due
  BY DEF PaymentApplied, Least
<1>4. PaymentApplied(p, r, pay) \in Nat
  BY <1>2, <1>3
<1>5. RemainingPrincipal(p, r, pay) = due - PaymentApplied(p, r, pay)
  BY <1>1, <1>4 DEF RemainingPrincipal
<1> QED
  BY <1>1, <1>2, <1>3, <1>5

LEMMA TotalIsSum ==
    ASSUME NEW f \in [Debts -> Nat]
    PROVE  Total(f) = SumFunctionOnSet(f, Debts) /\ Total(f) \in Nat
<1>1. Total(f) = SumFunctionOnSet(f, Debts)
  BY DEF Total, SumFunction
<1> QED
  BY <1>1, SumIsNat, HouseholdAssumption

\* A debt moves the total by what it moves itself.
LEMMA TotalMoved ==
    ASSUME NEW f \in [Debts -> Nat], NEW d \in Debts, NEW v \in Nat
    PROVE  Total([f EXCEPT ![d] = v]) = Total(f) - f[d] + v
<1> DEFINE h == [f EXCEPT ![d] = v]
           rest == Debts \ {d}
<1>1. h \in [Debts -> Nat] /\ h[d] = v /\ \A e \in rest : h[e] = f[e]
  OBVIOUS
<1>2. IsFiniteSet(Debts) /\ IsFiniteSet(rest)
  BY HouseholdAssumption, FS_RemoveElement
<1> HIDE DEF h
<1>3. SumFunctionOnSet(h, rest) = SumFunctionOnSet(f, rest)
  BY <1>1, <1>2, SumsAgree
<1>4. SumFunctionOnSet(f, rest) \in Int
  BY <1>2, SumIsInt
<1>5. /\ SumFunctionOnSet(f, Debts) = f[d] + SumFunctionOnSet(f, rest)
      /\ SumFunctionOnSet(h, Debts) = h[d] + SumFunctionOnSet(h, rest)
  BY <1>1, <1>2, SumWithout
<1>6. Total(f) = SumFunctionOnSet(f, Debts) /\ Total(h) = SumFunctionOnSet(h, Debts)
  BY <1>1, TotalIsSum
<1>7. Total(h) = Total(f) - f[d] + v
  <2>1. f[d] \in Int /\ v \in Int
    OBVIOUS
  <2> HIDE DEF rest
  <2> QED
    BY <1>1, <1>3, <1>4, <1>5, <1>6, <2>1
<1> QED
  BY <1>7 DEF h

LEMMA SavedIs ==
    ASSUME NEW S \in SUBSET Savings
    PROVE  /\ SavedIn(S) \in Nat
           /\ \A V \in SUBSET S : SavedIn(S) = SavedIn(S \ V) + SavedIn(V)
<1>1. \A V : SavedIn(V) = SumFunctionOnSet(Saved, V)
  BY DEF SavedIn, MapThenSumSet, SumFunctionOnSet, FoldFunctionOnSet, MapThenFoldSet
<1>2. IsFiniteSet(S) /\ \A x \in S : Saved[x] \in Nat
  BY HouseholdAssumption, FS_Subset
<1>3. SumFunctionOnSet(Saved, S) \in Nat
  BY <1>2, SumIsNat
<1>4. ASSUME NEW V \in SUBSET S PROVE SavedIn(S) = SavedIn(S \ V) + SavedIn(V)
  BY <1>1, <1>2, SumSplit
<1> QED
  BY <1>1, <1>3, <1>4

LEMMA MinimumsAre ==
    ASSUME NEW left \in [Debts -> Nat]
    PROVE  /\ MinimumsOf(left) \in Nat
           /\ \A more \in [Debts -> Nat] :
                Unpaid(left) \subseteq Unpaid(more) => MinimumsOf(left) <= MinimumsOf(more)
<1>1. \A f : MinimumsOf(f) = SumFunctionOnSet(Payment, Unpaid(f))
  BY DEF MinimumsOf, MapThenSumSet, SumFunctionOnSet, FoldFunctionOnSet, MapThenFoldSet
<1>2. \A f : IsFiniteSet(Unpaid(f)) /\ \A d \in Unpaid(f) : Payment[d] \in Nat
  BY HouseholdAssumption, FS_Subset DEF Unpaid
<1>3. SumFunctionOnSet(Payment, Unpaid(left)) \in Nat
  BY <1>2, SumIsNat
<1>4. ASSUME NEW more \in [Debts -> Nat], Unpaid(left) \subseteq Unpaid(more)
      PROVE  MinimumsOf(left) <= MinimumsOf(more)
  BY <1>1, <1>2, <1>4, SumGrows
<1> QED
  BY <1>1, <1>3, <1>4

\* A sequence of unpaid debts that leaves none out.
Lists(seq, n, left) ==
  /\ n \in Nat
  /\ seq \in [1 .. n -> Unpaid(left)]
  /\ \A d \in Unpaid(left) : \E i \in 1 .. n : seq[i] = d

\* The order of paydown names every unpaid debt, in the order of the strategy.
InStrategyOrder(seq, n, strategy, left) ==
  \A i, j \in 1 .. n : i < j => Precedes(strategy, left, seq[i], seq[j])

LEMMA SortLiabilitiesLists ==
    ASSUME NEW strategy, NEW left \in [Debts -> Nat]
    PROVE  /\ \E n \in Nat : /\ Lists(SortLiabilities(strategy, left), n, left)
                             /\ InStrategyOrder(SortLiabilities(strategy, left), n, strategy, left)
           /\ \A d, e \in Debts : Precedes(strategy, left, d, e) => ~Precedes(strategy, left, e, d)
<1> DEFINE T == Unpaid(left)
           R == {e \in T \X T : Precedes(strategy, left, e[1], e[2])}
           n == Cardinality(T)
           seq == SortLiabilities(strategy, left)
<1>1. IsFiniteSet(T) /\ T \subseteq Debts
  BY HouseholdAssumption, FS_Subset DEF Unpaid
<1>2. \A d, e \in T : <<d, e>> \in R <=> Precedes(strategy, left, d, e)
  OBVIOUS
<1>3. TotalOrder(R, T)
  <2>1. \A d \in T : d \in Int /\ Rate[d] \in Int /\ left[d] \in Int
    <3>1. \A d \in Debts : d \in Int /\ Rate[d] \in Int /\ left[d] \in Int
      BY HouseholdAssumption
    <3> QED
      BY <1>1, <3>1
  <2> HIDE DEF T
  <2>2. \A d, e \in T : d # e => Precedes(strategy, left, d, e) \/ Precedes(strategy, left, e, d)
    BY <2>1 DEF Precedes, DearerFirst, SmallerFirst
  <2>3. \A d \in T : ~Precedes(strategy, left, d, d)
    BY <2>1 DEF Precedes, DearerFirst, SmallerFirst
  <2>4. \A d, e, c \in T : Precedes(strategy, left, d, e) /\ Precedes(strategy, left, e, c)
                             => Precedes(strategy, left, d, c)
    BY <2>1 DEF Precedes, DearerFirst, SmallerFirst
  <2> HIDE DEF R
  <2> QED
    BY <1>2, <2>2, <2>3, <2>4 DEF TotalOrder
<1>4. PICK f \in [1 .. n -> T] : Ascends(f, R, n)
  BY <1>1, <1>3, OrderExists
<1>5. \A i, j \in 1 .. n : i < j => Precedes(strategy, left, f[i], f[j])
  BY <1>2, <1>4 DEF Ascends
<1>6. seq \in [1 .. n -> T] /\ \A i, j \in 1 .. n : i < j => Precedes(strategy, left, seq[i], seq[j])
  BY <1>4, <1>5 DEF SortLiabilities, InOrder
<1>7. Ascends(seq, R, n)
  BY <1>2, <1>6 DEF Ascends
<1>8. n \in Nat /\ \A x \in T : \E i \in 1 .. n : seq[i] = x
  BY <1>1, <1>3, <1>6, <1>7, AscentReachesAll
<1>9. \A d, e \in Debts : Precedes(strategy, left, d, e) => ~Precedes(strategy, left, e, d)
  <2>1. \A d \in Debts : d \in Int /\ Rate[d] \in Int /\ left[d] \in Int
    BY HouseholdAssumption
  <2> QED
    BY <2>1 DEF Precedes, DearerFirst, SmallerFirst
<1> QED
  BY <1>6, <1>8, <1>9 DEF Lists, InStrategyOrder

\* The order of the books names none twice.
EachOnce(seq, n) == \A i, j \in 1 .. n : i # j => seq[i] # seq[j]

LEMMA NumberedLists ==
    ASSUME NEW left \in [Debts -> Nat]
    PROVE  \E n \in Nat :
             /\ Lists(InOrder(Unpaid(left), LAMBDA d, e : d < e), n, left)
             /\ EachOnce(InOrder(Unpaid(left), LAMBDA d, e : d < e), n)
<1> DEFINE T == Unpaid(left)
           R == {e \in T \X T : e[1] < e[2]}
           n == Cardinality(T)
           seq == InOrder(T, LAMBDA d, e : d < e)
<1>1. IsFiniteSet(T) /\ T \subseteq Int
  <2>1. IsFiniteSet(Debts) /\ Debts \subseteq Int /\ T \subseteq Debts
    BY HouseholdAssumption DEF Unpaid
  <2> QED
    BY <2>1, FS_Subset
<1>2. \A d, e \in T : <<d, e>> \in R <=> d < e
  OBVIOUS
<1>3. TotalOrder(R, T)
  <2> HIDE DEF R, T
  <2> QED
    BY <1>1, <1>2 DEF TotalOrder
<1>4. PICK f \in [1 .. n -> T] : Ascends(f, R, n)
  BY <1>1, <1>3, OrderExists
<1>5. \A i, j \in 1 .. n : i < j => f[i] < f[j]
  BY <1>2, <1>4 DEF Ascends
<1>6. seq \in [1 .. n -> T] /\ \A i, j \in 1 .. n : i < j => seq[i] < seq[j]
  BY <1>4, <1>5 DEF InOrder
<1>7. Ascends(seq, R, n)
  BY <1>2, <1>6 DEF Ascends
<1>8. n \in Nat /\ \A x \in T : \E i \in 1 .. n : seq[i] = x
  BY <1>1, <1>3, <1>6, <1>7, AscentReachesAll
<1>9. ASSUME NEW i \in 1 .. n, NEW j \in 1 .. n, i # j PROVE seq[i] # seq[j]
  <2>1. i < j \/ j < i
    <3> HIDE DEF n, seq, T
    <3> QED
      BY <1>8, <1>9
  <2>2. seq[i] \in Int /\ seq[j] \in Int
    BY <1>1, <1>6
  <2> HIDE DEF seq
  <2> QED
    BY <1>6, <2>1, <2>2
<1> QED
  BY <1>6, <1>8, <1>9 DEF Lists, EachOnce

LEMMA GreatestMember ==
    ASSUME NEW n \in Nat, NEW s \in SUBSET (1 .. n), s # {} PROVE Max(s) \in s
<1> DEFINE N == {k \in Nat : \A r \in SUBSET (1 .. k) : r # {} => Max(r) \in r}
<1>1. 0 \in N
  <2>1. \A r \in SUBSET (1 .. 0) : r = {}
    OBVIOUS
  <2> QED
    BY <2>1
<1>2. ASSUME NEW k \in N PROVE k + 1 \in N
  <2>1. ASSUME NEW r \in SUBSET (1 .. k + 1), r # {} PROVE Max(r) \in r
    <3>1. CASE k + 1 \in r
      BY <3>1, Greatest
    <3>2. CASE k + 1 \notin r
      <4>1. r \in SUBSET (1 .. k)
        <5>1. \A y \in r : y \in 1 .. k
          BY <2>1, <3>2
        <5> QED
          BY <5>1
      <4> QED
        BY <2>1, <4>1
    <3> QED
      BY <3>1, <3>2
  <2> QED
    BY <2>1
<1>3. \A k \in Nat : k \in N
  <2>1. N \subseteq Nat
    OBVIOUS
  <2> HIDE DEF N
  <2> QED
    BY <1>1, <1>2, <2>1, NatSet
<1> QED
  BY <1>3

-----------------------------------------------------------------------------
(* Spreading money: a fold of PayDown.                                       *)

Down == [left : [Debts -> Nat], money : Nat]

IsDown(t, base, seq) ==
  t = [s \in SUBSET (DOMAIN seq) |->
         IF s = {} THEN base ELSE PayDown(t[s \ {Max(s)}], seq[Max(s)])]
DownTable(base, seq) == CHOOSE t : IsDown(t, base, seq)

LEMMA PayDownTable ==
    ASSUME NEW base, NEW seq
    PROVE  FoldLeft(PayDown, base, seq) = DownTable(base, seq)[DOMAIN seq]
BY DEF FoldLeft, MapThenFoldSet, IsDown, DownTable

LEMMA PayDownIs ==
    ASSUME NEW a \in Down, NEW d \in Debts
    PROVE  \E pay \in Nat :
             /\ pay <= a.money /\ pay <= a.left[d]
             /\ pay = a.money \/ pay = a.left[d]
             /\ PayDown(a, d).left = [a.left EXCEPT ![d] = a.left[d] - pay]
             /\ PayDown(a, d).money = a.money - pay
             /\ PayDown(a, d) \in Down
<1> DEFINE pay == Least(a.money, a.left[d])
<1>1. a.left \in [Debts -> Nat] /\ a.money \in Nat
  BY DEF Down
<1>2. /\ pay \in Nat /\ pay <= a.money /\ pay <= a.left[d]
      /\ pay = a.money \/ pay = a.left[d]
  BY <1>1 DEF Least
<1>3. /\ PayDown(a, d).left = [a.left EXCEPT ![d] = a.left[d] - pay]
      /\ PayDown(a, d).money = a.money - pay
  BY DEF PayDown
<1>4. PayDown(a, d) = [left |-> [a.left EXCEPT ![d] = a.left[d] - pay], money |-> a.money - pay]
  BY DEF PayDown
<1>5. a.left[d] - pay \in Nat /\ a.money - pay \in Nat
  BY <1>1, <1>2
<1>6. PayDown(a, d) \in Down
  <2> HIDE DEF pay
  <2> QED
    BY <1>1, <1>4, <1>5 DEF Down
<1> QED
  BY <1>2, <1>3, <1>6

LEMMA PayDownChain ==
    ASSUME NEW n \in Nat, NEW seq \in [1 .. n -> Debts], NEW base \in Down
    PROVE  \E c : /\ c[0] = base
                  /\ c[n] = DownTable(base, seq)[DOMAIN seq]
                  /\ \A i \in 0 .. n : c[i] \in Down
                  /\ \A i \in 1 .. n : c[i] = PayDown(c[i - 1], seq[i])
<1> DEFINE g == [a \in Down |-> [d \in Debts |-> PayDown(a, d)]]
           u == DownTable(base, seq)
           c == [i \in 0 .. n |-> u[1 .. i]]
<1>1. g \in [Down -> [Debts -> Down]]
  BY PayDownIs
<1>2. PICK t \in [SUBSET (1 .. n) -> Down] : IsFold(t, g, base, seq, n)
  <2> HIDE DEF g
  <2> QED
    BY <1>1, FoldExists
<1>3. ASSUME NEW s \in SUBSET (1 .. n)
      PROVE  t[s] = IF s = {} THEN base ELSE PayDown(t[s \ {Max(s)}], seq[Max(s)])
  <2>1. CASE s = {}
    BY <1>2, <2>1 DEF IsFold
  <2>2. CASE s # {}
    <3>1. t[s \ {Max(s)}] \in Down /\ Max(s) \in s
      BY <2>2, GreatestMember
    <3>2. seq[Max(s)] \in Debts
      BY <3>1
    <3>3. g[t[s \ {Max(s)}]][seq[Max(s)]] = PayDown(t[s \ {Max(s)}], seq[Max(s)])
      BY <3>1, <3>2
    <3> HIDE DEF g
    <3> QED
      BY <1>2, <2>2, <3>3 DEF IsFold
  <2> QED
    BY <2>1, <2>2
<1>4. IsDown(t, base, seq)
  BY <1>3 DEF IsDown
<1>5. IsDown(u, base, seq)
  BY <1>4 DEF DownTable
<1>6. /\ u[{}] = base
      /\ \A s \in SUBSET (1 .. n) : s # {} => u[s] = PayDown(u[s \ {Max(s)}], seq[Max(s)])
  <2> HIDE DEF u
  <2> QED
    BY <1>5 DEF IsDown
<1>7. c[0] = base
  <2>1. 1 .. 0 = {} /\ 0 \in 0 .. n
    OBVIOUS
  <2> HIDE DEF u
  <2> QED
    BY <1>6, <2>1
<1>8. ASSUME NEW i \in 1 .. n PROVE c[i] = PayDown(c[i - 1], seq[i])
  <2>1. /\ 1 .. i \in SUBSET (1 .. n) /\ 1 .. i # {} /\ Max(1 .. i) = i
        /\ (1 .. i) \ {i} = 1 .. (i - 1)
    BY PrefixFacts
  <2>2. c[i] = u[1 .. i] /\ c[i - 1] = u[1 .. (i - 1)]
    OBVIOUS
  <2> HIDE DEF u, c
  <2> QED
    BY <1>6, <2>1, <2>2
<1>9. c[n] = u[DOMAIN seq]
  OBVIOUS
<1> HIDE DEF c
<1>10. \A i \in 0 .. n : c[i] \in Down
  <2>0. \A a \in Down, d \in Debts : PayDown(a, d) \in Down
    BY PayDownIs
  <2>1. \A i \in 1 .. n : c[i - 1] \in Down => c[i] \in Down
    BY <1>8, <2>0
  <2> QED
    BY <1>7, <2>1, Throughout
<1> QED
  BY <1>7, <1>8, <1>9, <1>10

-----------------------------------------------------------------------------
(* Paying the minimums: a fold of PayMinimum.                                *)

Minimum == [left : [Debts -> Nat], money : Nat, interest : Nat, refused : BOOLEAN]

IsMinimum(t, base, seq) ==
  t = [s \in SUBSET (DOMAIN seq) |->
         IF s = {} THEN base ELSE PayMinimum(t[s \ {Max(s)}], seq[Max(s)])]
MinimumTable(base, seq) == CHOOSE t : IsMinimum(t, base, seq)

LEMMA PayMinimumTable ==
    ASSUME NEW base, NEW seq
    PROVE  FoldLeft(PayMinimum, base, seq) = MinimumTable(base, seq)[DOMAIN seq]
BY DEF FoldLeft, MapThenFoldSet, IsMinimum, MinimumTable

\* A minimum takes money and leaves principal, the interest apart; what is
\* paid off stays paid off.
LEMMA PayMinimumIs ==
    ASSUME NEW a \in Minimum, NEW d \in Debts
    PROVE  \E pay, interest, rest \in Nat :
             /\ pay <= a.money
             /\ rest = a.left[d] + interest - pay
             /\ a.left[d] = 0 => rest = 0
             /\ PayMinimum(a, d).left = [a.left EXCEPT ![d] = rest]
             /\ PayMinimum(a, d).money = a.money - pay
             /\ PayMinimum(a, d).interest = a.interest + interest
             /\ PayMinimum(a, d) \in Minimum
<1> DEFINE payment == Least(Payment[d], a.money)
<1>1. /\ a.left \in [Debts -> Nat] /\ a.left[d] \in Nat /\ a.money \in Nat
      /\ a.interest \in Nat /\ a.refused \in BOOLEAN
      /\ Rate[d] \in Nat /\ Payment[d] \in Nat
  BY HouseholdAssumption DEF Minimum
<1>2. payment \in Nat /\ payment <= a.money
  BY <1>1 DEF Least
<1>3. CASE payment = 0
  <2>1. PayMinimum(a, d) = a
    BY <1>3 DEF PayMinimum
  <2>2. a.left = [a.left EXCEPT ![d] = a.left[d]]
    BY <1>1
  <2>3. a.left[d] = a.left[d] + 0 - 0 /\ a.money = a.money - 0 /\ a.interest = a.interest + 0
    BY <1>1
  <2>4. 0 \in Nat /\ 0 <= a.money
    BY <1>1
  <2> QED
    BY ONLY <1>1, <2>1, <2>2, <2>3, <2>4, a \in Minimum
<1>4. CASE payment # 0
  <2> DEFINE pay == PaymentApplied(a.left[d], Rate[d], payment)
             interest == Interest(a.left[d], Rate[d])
             rest == RemainingPrincipal(a.left[d], Rate[d], payment)
             covers == CoversInterest(a.left[d], Rate[d], payment)
  <2>1. PayMinimum(a, d) =
          [left     |-> [a.left EXCEPT ![d] = rest],
           money    |-> a.money - pay,
           interest |-> a.interest + interest,
           refused  |-> a.refused \/ ~covers]
    BY <1>4 DEF PayMinimum
  <2>2. pay \in Nat /\ pay <= payment /\ rest \in Nat
        /\ rest = a.left[d] + interest - pay /\ (a.left[d] = 0 => rest = 0)
    BY <1>1, <1>2, PaymentIs
  <2>3. interest \in Nat
    BY <1>1, InterestIs
  <2> HIDE DEF pay, interest, rest, covers, payment
  <2>4. pay <= a.money /\ a.money - pay \in Nat /\ a.interest + interest \in Nat
    BY <1>1, <1>2, <2>2, <2>3
  <2>5. (a.refused \/ ~covers) \in BOOLEAN
    OBVIOUS
  <2>6. PayMinimum(a, d) \in Minimum
    BY <1>1, <2>1, <2>2, <2>4, <2>5 DEF Minimum
  <2>7. /\ PayMinimum(a, d).left = [a.left EXCEPT ![d] = rest]
        /\ PayMinimum(a, d).money = a.money - pay
        /\ PayMinimum(a, d).interest = a.interest + interest
    BY <2>1
  <2> QED
    BY <2>2, <2>3, <2>4, <2>6, <2>7
<1> QED
  BY <1>3, <1>4

LEMMA PayMinimumChain ==
    ASSUME NEW n \in Nat, NEW seq \in [1 .. n -> Debts], NEW base \in Minimum
    PROVE  \E c : /\ c[0] = base
                  /\ c[n] = MinimumTable(base, seq)[DOMAIN seq]
                  /\ \A i \in 0 .. n : c[i] \in Minimum
                  /\ \A i \in 1 .. n : c[i] = PayMinimum(c[i - 1], seq[i])
<1> DEFINE g == [a \in Minimum |-> [d \in Debts |-> PayMinimum(a, d)]]
           u == MinimumTable(base, seq)
           c == [i \in 0 .. n |-> u[1 .. i]]
<1>1. g \in [Minimum -> [Debts -> Minimum]]
  BY PayMinimumIs
<1>2. PICK t \in [SUBSET (1 .. n) -> Minimum] : IsFold(t, g, base, seq, n)
  <2> HIDE DEF g
  <2> QED
    BY <1>1, FoldExists
<1>3. ASSUME NEW s \in SUBSET (1 .. n)
      PROVE  t[s] = IF s = {} THEN base ELSE PayMinimum(t[s \ {Max(s)}], seq[Max(s)])
  <2>1. CASE s = {}
    BY <1>2, <2>1 DEF IsFold
  <2>2. CASE s # {}
    <3>1. t[s \ {Max(s)}] \in Minimum /\ Max(s) \in s
      BY <2>2, GreatestMember
    <3>2. seq[Max(s)] \in Debts
      BY <3>1
    <3>3. g[t[s \ {Max(s)}]][seq[Max(s)]] = PayMinimum(t[s \ {Max(s)}], seq[Max(s)])
      BY <3>1, <3>2
    <3> HIDE DEF g
    <3> QED
      BY <1>2, <2>2, <3>3 DEF IsFold
  <2> QED
    BY <2>1, <2>2
<1>4. IsMinimum(t, base, seq)
  BY <1>3 DEF IsMinimum
<1>5. IsMinimum(u, base, seq)
  BY <1>4 DEF MinimumTable
<1>6. /\ u[{}] = base
      /\ \A s \in SUBSET (1 .. n) : s # {} => u[s] = PayMinimum(u[s \ {Max(s)}], seq[Max(s)])
  <2> HIDE DEF u
  <2> QED
    BY <1>5 DEF IsMinimum
<1>7. c[0] = base
  <2>1. 1 .. 0 = {} /\ 0 \in 0 .. n
    OBVIOUS
  <2> HIDE DEF u
  <2> QED
    BY <1>6, <2>1
<1>8. ASSUME NEW i \in 1 .. n PROVE c[i] = PayMinimum(c[i - 1], seq[i])
  <2>1. /\ 1 .. i \in SUBSET (1 .. n) /\ 1 .. i # {} /\ Max(1 .. i) = i
        /\ (1 .. i) \ {i} = 1 .. (i - 1)
    BY PrefixFacts
  <2>2. c[i] = u[1 .. i] /\ c[i - 1] = u[1 .. (i - 1)]
    OBVIOUS
  <2> HIDE DEF u, c
  <2> QED
    BY <1>6, <2>1, <2>2
<1>9. c[n] = u[DOMAIN seq]
  OBVIOUS
<1> HIDE DEF c
<1>10. \A i \in 0 .. n : c[i] \in Minimum
  <2>0. \A a \in Minimum, d \in Debts : PayMinimum(a, d) \in Minimum
    BY PayMinimumIs
  <2>1. \A i \in 1 .. n : c[i - 1] \in Minimum => c[i] \in Minimum
    BY <1>8, <2>0
  <2> QED
    BY <1>7, <2>1, Throughout
<1> QED
  BY <1>7, <1>8, <1>9, <1>10

-----------------------------------------------------------------------------
(* Installments of a month: a fold of Service.                               *)

Served == [cash : Int, debt : [Debts -> Nat], short : BOOLEAN, refused : BOOLEAN,
           interest : Nat, unused : Nat]

IsServed(t, base, seq) ==
  t = [s \in SUBSET (DOMAIN seq) |->
         IF s = {} THEN base ELSE Service(t[s \ {Max(s)}], seq[Max(s)])]
ServedTable(base, seq) == CHOOSE t : IsServed(t, base, seq)

LEMMA ServiceTable ==
    ASSUME NEW base, NEW seq
    PROVE  FoldLeft(Service, base, seq) = ServedTable(base, seq)[DOMAIN seq]
BY DEF FoldLeft, MapThenFoldSet, IsServed, ServedTable

\* An installment is paid in full or not at all; what it exceeds the debt by is
\* unused, what the debt bears is interest.  If it is neither missed nor refused
\* the cash was there, and the debt is settled.
InFull(a, d, pay, rest) ==
  pay = Payment[d] /\ a.cash >= pay /\ Settled(a.debt[d], rest, d)

LEMMA ServiceIs ==
    ASSUME NEW a \in Served, NEW d \in Debts
    PROVE  /\ Service(a, d) \in Served
           /\ a.short => Service(a, d).short
           /\ a.refused => Service(a, d).refused
           /\ \E rest, interest, unused \in Nat, pay \in Int :
                /\ pay + rest = a.debt[d] + interest + unused
                /\ Service(a, d).cash = a.cash - pay
                /\ Service(a, d).debt = [a.debt EXCEPT ![d] = rest]
                /\ Service(a, d).interest = a.interest + interest
                /\ Service(a, d).unused = a.unused + unused
                /\ a.debt[d] = 0 => rest = 0
                /\ Service(a, d).short \/ Service(a, d).refused \/ InFull(a, d, pay, rest)
<1> DEFINE p == a.debt[d]
           can == CanPay(a.cash, d)
           covers == CoversInterest(p, Rate[d], Payment[d])
           applied == PaymentApplied(p, Rate[d], Payment[d])
           left == RemainingPrincipal(p, Rate[d], Payment[d])
           rest == Owes(a.cash, p, d)
           pay == IF can THEN Payment[d] ELSE 0
           interest == IF can THEN Interest(p, Rate[d]) ELSE 0
           unused == IF can THEN Payment[d] - applied ELSE 0
<1>1. /\ a.debt \in [Debts -> Nat] /\ p \in Nat /\ a.cash \in Int
      /\ a.interest \in Nat /\ a.unused \in Nat
      /\ a.short \in BOOLEAN /\ a.refused \in BOOLEAN
      /\ Rate[d] \in Nat /\ Payment[d] \in Nat
  BY HouseholdAssumption DEF Served
<1>2. Interest(p, Rate[d]) \in Nat
  BY <1>1, InterestIs
<1>3. /\ applied \in Nat /\ applied <= Payment[d] /\ left \in Nat
      /\ left = p + Interest(p, Rate[d]) - applied
      /\ p = 0 => left = 0
      /\ left = p + Interest(p, Rate[d]) - Payment[d] \/ left = 0
  BY <1>1, PaymentIs
<1>4. rest = IF can THEN left ELSE p
  BY DEF Owes
<1>5. rest \in Nat /\ pay \in Int /\ interest \in Nat /\ unused \in Nat
      /\ pay + rest = p + interest + unused
      /\ (p = 0 => rest = 0)
  <2> HIDE DEF applied, left, rest, can, p
  <2> QED
    BY <1>1, <1>2, <1>3, <1>4
<1>6. can /\ covers => InFull(a, d, pay, rest)
  <2>1. can => a.cash >= Payment[d]
    BY DEF CanPay
  <2>2. covers => Interest(p, Rate[d]) <= Payment[d]
    BY <1>1, <1>2 DEF CoversInterest
  <2>3. /\ left \in Nat /\ Payment[d] \in Nat
        /\ left = p + Interest(p, Rate[d]) - Payment[d] => p - left = Payment[d] - Interest(p, Rate[d])
    BY <1>1, <1>2, <1>3
  <2>4. can => rest = left /\ pay = Payment[d]
    BY <1>4
  <2>5. covers => Settled(p, left, d)
    BY <1>3, <2>2, <2>3 DEF Settled
  <2> HIDE DEF left, rest, can, covers, pay
  <2> QED
    BY <2>1, <2>4, <2>5 DEF InFull, p
<1>7. Service(a, d) = [cash |-> IF can THEN a.cash - Payment[d] ELSE a.cash,
                       debt |-> [a.debt EXCEPT ![d] = rest],
                       short |-> a.short \/ ~can,
                       refused |-> a.refused \/ (can /\ ~covers),
                       interest |-> a.interest + interest,
                       unused |-> a.unused + unused]
  BY DEF Service
<1>8. (IF can THEN a.cash - Payment[d] ELSE a.cash) = a.cash - pay
  <2> HIDE DEF can
  <2> QED
    BY <1>1
<1> HIDE DEF applied, left, rest, can, covers, p, pay, interest, unused
<1>9. (a.short \/ ~can) \in BOOLEAN /\ (a.refused \/ (can /\ ~covers)) \in BOOLEAN
      /\ a.cash - pay \in Int /\ a.interest + interest \in Nat /\ a.unused + unused \in Nat
  BY <1>1, <1>5
<1>10. Service(a, d) \in Served
  BY <1>1, <1>5, <1>7, <1>8, <1>9 DEF Served
<1>11. /\ Service(a, d).cash = a.cash - pay
       /\ Service(a, d).debt = [a.debt EXCEPT ![d] = rest]
       /\ Service(a, d).interest = a.interest + interest
       /\ Service(a, d).unused = a.unused + unused
  BY <1>7, <1>8
<1>12. /\ Service(a, d).short = (a.short \/ ~can)
       /\ Service(a, d).refused = (a.refused \/ (can /\ ~covers))
  BY <1>7
<1>13. /\ p = 0 => rest = 0
       /\ Service(a, d).short \/ Service(a, d).refused \/ InFull(a, d, pay, rest)
       /\ a.short => Service(a, d).short
       /\ a.refused => Service(a, d).refused
  BY <1>5, <1>6, <1>12
<1> QED
  BY <1>5, <1>10, <1>11, <1>13 DEF p

LEMMA ServiceChain ==
    ASSUME NEW n \in Nat, NEW seq \in [1 .. n -> Debts], NEW base \in Served
    PROVE  \E c : /\ c[0] = base
                  /\ c[n] = ServedTable(base, seq)[DOMAIN seq]
                  /\ \A i \in 0 .. n : c[i] \in Served
                  /\ \A i \in 1 .. n : c[i] = Service(c[i - 1], seq[i])
<1> DEFINE g == [a \in Served |-> [d \in Debts |-> Service(a, d)]]
           u == ServedTable(base, seq)
           c == [i \in 0 .. n |-> u[1 .. i]]
<1>1. g \in [Served -> [Debts -> Served]]
  BY ServiceIs
<1>2. PICK t \in [SUBSET (1 .. n) -> Served] : IsFold(t, g, base, seq, n)
  <2> HIDE DEF g
  <2> QED
    BY <1>1, FoldExists
<1>3. ASSUME NEW s \in SUBSET (1 .. n)
      PROVE  t[s] = IF s = {} THEN base ELSE Service(t[s \ {Max(s)}], seq[Max(s)])
  <2>1. CASE s = {}
    BY <1>2, <2>1 DEF IsFold
  <2>2. CASE s # {}
    <3>1. t[s \ {Max(s)}] \in Served /\ Max(s) \in s
      BY <2>2, GreatestMember
    <3>2. seq[Max(s)] \in Debts
      BY <3>1
    <3>3. g[t[s \ {Max(s)}]][seq[Max(s)]] = Service(t[s \ {Max(s)}], seq[Max(s)])
      BY <3>1, <3>2
    <3> HIDE DEF g
    <3> QED
      BY <1>2, <2>2, <3>3 DEF IsFold
  <2> QED
    BY <2>1, <2>2
<1>4. IsServed(t, base, seq)
  BY <1>3 DEF IsServed
<1>5. IsServed(u, base, seq)
  BY <1>4 DEF ServedTable
<1>6. /\ u[{}] = base
      /\ \A s \in SUBSET (1 .. n) : s # {} => u[s] = Service(u[s \ {Max(s)}], seq[Max(s)])
  <2> HIDE DEF u
  <2> QED
    BY <1>5 DEF IsServed
<1>7. c[0] = base
  <2>1. 1 .. 0 = {} /\ 0 \in 0 .. n
    OBVIOUS
  <2> HIDE DEF u
  <2> QED
    BY <1>6, <2>1
<1>8. ASSUME NEW i \in 1 .. n PROVE c[i] = Service(c[i - 1], seq[i])
  <2>1. /\ 1 .. i \in SUBSET (1 .. n) /\ 1 .. i # {} /\ Max(1 .. i) = i
        /\ (1 .. i) \ {i} = 1 .. (i - 1)
    BY PrefixFacts
  <2>2. c[i] = u[1 .. i] /\ c[i - 1] = u[1 .. (i - 1)]
    OBVIOUS
  <2> HIDE DEF u, c
  <2> QED
    BY <1>6, <2>1, <2>2
<1>9. c[n] = u[DOMAIN seq]
  OBVIOUS
<1> HIDE DEF c
<1>10. \A i \in 0 .. n : c[i] \in Served
  <2>0. \A a \in Served, d \in Debts : Service(a, d) \in Served
    BY ServiceIs
  <2>1. \A i \in 1 .. n : c[i - 1] \in Served => c[i] \in Served
    BY <1>8, <2>0
  <2> QED
    BY <1>7, <2>1, Throughout
<1> QED
  BY <1>7, <1>8, <1>9, <1>10

-----------------------------------------------------------------------------
(* What the folds of a month come to.                                       *)

(* Money is spread as the strategy says, for any debts and any money: it is *)
(* taken off debts unit by unit, a debt gets some only if every debt before *)
(* it has been paid off, and none is left over while a debt is             *)
(* (payment-plan.ts:467-486, 566-606).                                      *)
THEOREM SpreadInOrder ==
    ASSUME NEW strategy, NEW left \in [Debts -> Nat], NEW money \in Nat
    PROVE  LET r == Spread(strategy, left, money) IN
           /\ r \in Down
           /\ r.money <= money
           /\ r.money - Total(r.left) = money - Total(left)
           /\ \A d \in Debts : left[d] = 0 => r.left[d] = 0
           /\ r.money = 0 \/ Unpaid(r.left) = {}
           /\ \A d, e \in Unpaid(left) :
                Precedes(strategy, left, d, e) /\ r.left[e] < left[e] => r.left[d] = 0
<1> DEFINE seq == SortLiabilities(strategy, left)
           base == [left |-> left, money |-> money]
           r == Spread(strategy, left, money)
<1>1. PICK n \in Nat : Lists(seq, n, left) /\ InStrategyOrder(seq, n, strategy, left)
  BY SortLiabilitiesLists
<1>2. seq \in [1 .. n -> Debts]
  BY <1>1 DEF Lists, Unpaid
<1>3. base \in Down /\ base.left = left /\ base.money = money
  BY DEF Down
<1>4. r = DownTable(base, seq)[DOMAIN seq]
  BY PayDownTable DEF Spread
<1> HIDE DEF seq, base, r
<1>5. PICK c : /\ c[0] = base
               /\ c[n] = r
               /\ \A i \in 0 .. n : c[i] \in Down
               /\ \A i \in 1 .. n : c[i] = PayDown(c[i - 1], seq[i])
  <2>1. \E c : /\ c[0] = base
               /\ c[n] = DownTable(base, seq)[DOMAIN seq]
               /\ \A i \in 0 .. n : c[i] \in Down
               /\ \A i \in 1 .. n : c[i] = PayDown(c[i - 1], seq[i])
    BY <1>2, <1>3, PayDownChain, Zenon
  <2> QED
    BY <1>4, <2>1, Zenon
<1> DEFINE A == {a \in Down : /\ a.money <= money
                              /\ a.money - Total(a.left) = money - Total(left)
                              /\ \A d \in Debts : left[d] = 0 => a.left[d] = 0}
<1>6. base \in A
  BY <1>3
<1>7. ASSUME NEW a \in A, NEW d \in Debts PROVE PayDown(a, d) \in A
  <2>1. PICK pay \in Nat :
             /\ pay <= a.money /\ pay <= a.left[d]
             /\ PayDown(a, d).left = [a.left EXCEPT ![d] = a.left[d] - pay]
             /\ PayDown(a, d).money = a.money - pay
             /\ PayDown(a, d) \in Down
    BY PayDownIs
  <2>2. a.left \in [Debts -> Nat] /\ a.left[d] \in Nat /\ a.money \in Nat
    BY DEF Down
  <2>3. a.left[d] - pay \in Nat
    BY <2>1, <2>2
  <2>4. Total(PayDown(a, d).left) = Total(a.left) - a.left[d] + (a.left[d] - pay)
    BY <2>1, <2>2, <2>3, TotalMoved
  <2>5. Total(a.left) \in Int /\ Total(left) \in Int
    BY <2>2, TotalIsSum
  <2>6. a.money <= money /\ a.money - Total(a.left) = money - Total(left)
    OBVIOUS
  <2>7. PayDown(a, d).money <= money
    BY <2>1, <2>2, <2>6
  <2>8. PayDown(a, d).money - Total(PayDown(a, d).left) = money - Total(left)
    BY <2>1, <2>2, <2>4, <2>5, <2>6
  <2>9. \A e \in Debts : left[e] = 0 => PayDown(a, d).left[e] = 0
    BY <2>1, <2>2
  <2> QED
    BY <2>1, <2>7, <2>8, <2>9
<1>8. r \in A
  <2>1. \A i \in 1 .. n : c[i - 1] \in A => c[i] \in A
    <3>1. \A a \in A, d \in Debts : PayDown(a, d) \in A
      BY <1>7
    <3> HIDE DEF A
    <3> QED
      BY <1>2, <1>5, <3>1
  <2>2. \A i \in 0 .. n : c[i] \in A
    <3> HIDE DEF A
    <3> QED
      BY <1>5, <1>6, <2>1, Throughout
  <2> HIDE DEF A
  <2> QED
    BY <1>5, <2>2
<1>9. \A i \in 0 .. n : c[i].money = 0 \/ \A k \in 1 .. i : c[i].left[seq[k]] = 0
  <2> DEFINE Spent(i) == c[i].money = 0 \/ \A k \in 1 .. i : c[i].left[seq[k]] = 0
             N == {i \in Nat : i <= n => Spent(i)}
  <2>1. 0 \in N
    OBVIOUS
  <2>2. ASSUME NEW i \in Nat, i + 1 <= n, Spent(i) PROVE Spent(i + 1)
    <3> DEFINE a == c[i]
               b == c[i + 1]
               d == seq[i + 1]
    <3>1. a \in Down /\ d \in Debts /\ b = PayDown(a, d)
      <4>1. i \in 0 .. n /\ i + 1 \in 1 .. n /\ (i + 1) - 1 = i
        BY <2>2
      <4> QED
        BY <1>2, <1>5, <4>1
    <3>2. a.left \in [Debts -> Nat] /\ a.money \in Nat
      BY <3>1 DEF Down
    <3>3. PICK pay \in Nat :
             /\ pay <= a.money /\ pay <= a.left[d]
             /\ pay = a.money \/ pay = a.left[d]
             /\ b.left = [a.left EXCEPT ![d] = a.left[d] - pay]
             /\ b.money = a.money - pay
      BY <3>1, PayDownIs
    <3>4. CASE pay = a.money
      <4>1. b.money = 0
        BY <3>2, <3>3, <3>4
      <4> QED
        BY <4>1
    <3>5. CASE pay # a.money
      <4>1. pay = a.left[d] /\ a.money # 0
        BY <3>2, <3>3, <3>5
      <4>2. b.left[d] = 0 /\ \A e \in Debts : a.left[e] = 0 => b.left[e] = 0
        BY <3>1, <3>2, <3>3, <4>1
      <4>3. \A k \in 1 .. i : a.left[seq[k]] = 0
        BY <2>2, <4>1
      <4>4. ASSUME NEW k \in 1 .. (i + 1) PROVE b.left[seq[k]] = 0
        <5>1. CASE k = i + 1
          BY <4>2, <5>1
        <5>2. CASE k # i + 1
          <6>1. k \in 1 .. i /\ k \in 1 .. n
            BY <2>2, <5>2
          <6>2. seq[k] \in Debts /\ a.left[seq[k]] = 0
            BY <1>2, <4>3, <6>1
          <6> QED
            BY <4>2, <6>2
        <5> QED
          BY <5>1, <5>2
      <4> QED
        BY <4>4
    <3> QED
      BY <3>4, <3>5
  <2>3. \A i \in N : i + 1 \in N
    <3> HIDE DEF Spent
    <3> QED
      BY <2>2
  <2>4. \A i \in Nat : i \in N
    <3>1. N \subseteq Nat
      OBVIOUS
    <3> HIDE DEF N
    <3> QED
      BY <2>1, <2>3, <3>1, NatSet
  <2>5. \A i \in 0 .. n : Spent(i)
    <3> HIDE DEF Spent
    <3> QED
      BY <2>4
  <2> QED
    BY <2>5
<1>10. r.money = 0 \/ Unpaid(r.left) = {}
  <2>1. ASSUME \A k \in 1 .. n : r.left[seq[k]] = 0, NEW d \in Debts PROVE ~(r.left[d] > 0)
    <3>1. CASE left[d] > 0
      <4>1. \E i \in 1 .. n : seq[i] = d
        BY <1>1, <3>1 DEF Lists, Unpaid
      <4> QED
        BY <2>1, <4>1
    <3>2. CASE ~(left[d] > 0)
      BY <1>8, <3>2
    <3> QED
      BY <3>1, <3>2
  <2> QED
    BY <1>5, <1>9, <2>1 DEF Unpaid
\* A debt is paid down in its turn, and with money left the debts before it
\* are paid off by then.
<1>11. ASSUME NEW d \in Unpaid(left), NEW e \in Unpaid(left), Precedes(strategy, left, d, e)
       PROVE  r.left[e] < left[e] => r.left[d] = 0
  <2> DEFINE B == {a \in Down : a.left[e] <= left[e] /\ (a.left[e] < left[e] => a.left[d] = 0)}
  <2>1. d \in Debts /\ e \in Debts
    BY DEF Unpaid
  <2>2. PICK m \in 1 .. n : seq[m] = d
    BY <1>1 DEF Lists
  <2>3. \A i \in 1 .. n : seq[i] = e => m < i
    <3>1. ~Precedes(strategy, left, e, d) /\ ~Precedes(strategy, left, d, d)
      BY <1>11, <2>1, SortLiabilitiesLists
    <3> QED
      BY <1>1, <1>11, <2>2, <3>1 DEF InStrategyOrder
  <2>4. base \in B
    BY <1>3, <2>1
  <2>5. ASSUME NEW i \in 1 .. n, c[i - 1] \in B PROVE c[i] \in B
    <3> DEFINE a == c[i - 1]
               b == c[i]
               f == seq[i]
    <3>1. a \in Down /\ b \in Down /\ f \in Debts /\ b = PayDown(a, f)
      BY <1>2, <1>5
    <3>2. a.left \in [Debts -> Nat] /\ a.money \in Nat
      BY <3>1 DEF Down
    <3>3. PICK pay \in Nat :
             /\ pay <= a.money /\ pay <= a.left[f]
             /\ b.left = [a.left EXCEPT ![f] = a.left[f] - pay]
      BY <3>1, PayDownIs
    <3>4. a.left[d] = 0 => b.left[d] = 0
      BY <2>1, <3>1, <3>2, <3>3
    <3>5. a.left[e] <= left[e] /\ (a.left[e] < left[e] => a.left[d] = 0)
      BY <2>5
    <3> HIDE DEF a, b, f
    <3>6. CASE f # e
      BY <2>1, <3>1, <3>2, <3>3, <3>4, <3>5, <3>6 DEF b
    <3>7. CASE f = e /\ a.money = 0
      BY <2>1, <3>1, <3>2, <3>3, <3>4, <3>5, <3>7 DEF b
    <3>8. CASE f = e /\ a.money # 0
      <4>1. i - 1 \in 0 .. n /\ m \in 1 .. (i - 1)
        BY <2>2, <2>3, <3>8 DEF f
      <4>2. a.left[d] = 0
        BY <1>9, <2>2, <3>8, <4>1 DEF a
      <4> QED
        BY <2>1, <3>1, <3>2, <3>3, <3>4, <3>5, <3>8, <4>2 DEF b
    <3> QED
      BY <3>6, <3>7, <3>8
  <2>6. r \in B
    <3> HIDE DEF B
    <3>1. \A i \in 0 .. n : c[i] \in B
      BY <1>5, <2>4, <2>5, Throughout
    <3> QED
      BY <1>5, <3>1
  <2> QED
    BY <2>6
<1> QED
  BY <1>8, <1>10, <1>11 DEF r


\* What the months below need of it.
LEMMA SpreadIs ==
    ASSUME NEW strategy, NEW left \in [Debts -> Nat], NEW money \in Nat
    PROVE  LET r == Spread(strategy, left, money) IN
           /\ r \in Down
           /\ r.money <= money
           /\ r.money - Total(r.left) = money - Total(left)
           /\ \A d \in Debts : left[d] = 0 => r.left[d] = 0
           /\ r.money = 0 \/ Unpaid(r.left) = {}
BY SpreadInOrder

\* The minimums take off the debts what they take from the money, the interest
\* apart.
LEMMA PayMinimumsIs ==
    ASSUME NEW strategy, NEW left \in [Debts -> Nat], NEW money \in Nat
    PROVE  LET r == PayMinimums(strategy, left, money) IN
           /\ r \in Minimum
           /\ r.money <= money
           /\ r.money - Total(r.left) + r.interest = money - Total(left)
           /\ \A d \in Debts : left[d] = 0 => r.left[d] = 0
<1> DEFINE seq == SortLiabilities(strategy, left)
           base == [left |-> left, money |-> money, interest |-> 0, refused |-> FALSE]
           r == PayMinimums(strategy, left, money)
<1>1. PICK n \in Nat : Lists(seq, n, left)
  BY SortLiabilitiesLists
<1>2. seq \in [1 .. n -> Debts]
  BY <1>1 DEF Lists, Unpaid
<1>3. base \in Minimum /\ base.left = left /\ base.money = money /\ base.interest = 0
  BY DEF Minimum
<1>4. r = MinimumTable(base, seq)[DOMAIN seq]
  BY PayMinimumTable DEF PayMinimums
<1> HIDE DEF seq, base, r
<1>5. PICK c : /\ c[0] = base
               /\ c[n] = r
               /\ \A i \in 0 .. n : c[i] \in Minimum
               /\ \A i \in 1 .. n : c[i] = PayMinimum(c[i - 1], seq[i])
  <2>1. \E c : /\ c[0] = base
               /\ c[n] = MinimumTable(base, seq)[DOMAIN seq]
               /\ \A i \in 0 .. n : c[i] \in Minimum
               /\ \A i \in 1 .. n : c[i] = PayMinimum(c[i - 1], seq[i])
    BY <1>2, <1>3, PayMinimumChain, Zenon
  <2> QED
    BY <1>4, <2>1, Zenon
<1> DEFINE A == {a \in Minimum : /\ a.money <= money
                                 /\ a.money - Total(a.left) + a.interest = money - Total(left)
                                 /\ \A d \in Debts : left[d] = 0 => a.left[d] = 0}
<1>6. base \in A
  <2>1. Total(left) \in Int
    BY TotalIsSum
  <2> QED
    BY <1>3, <2>1
<1>7. ASSUME NEW a \in A, NEW d \in Debts PROVE PayMinimum(a, d) \in A
  <2> DEFINE b == PayMinimum(a, d)
  <2>1. PICK pay, interest, rest \in Nat :
             /\ pay <= a.money
             /\ rest = a.left[d] + interest - pay
             /\ a.left[d] = 0 => rest = 0
             /\ b.left = [a.left EXCEPT ![d] = rest]
             /\ b.money = a.money - pay
             /\ b.interest = a.interest + interest
             /\ b \in Minimum
    BY PayMinimumIs
  <2> HIDE DEF b
  <2>2. a.left \in [Debts -> Nat] /\ a.left[d] \in Nat /\ a.money \in Nat /\ a.interest \in Nat
    BY DEF Minimum
  <2>3. Total(b.left) = Total(a.left) - a.left[d] + rest
    BY <2>1, <2>2, TotalMoved
  <2>4. Total(a.left) \in Int /\ Total(left) \in Int
    BY <2>2, TotalIsSum
  <2>5. a.money <= money /\ a.money - Total(a.left) + a.interest = money - Total(left)
    OBVIOUS
  <2>6. b.money <= money
    BY <2>1, <2>2, <2>5
  <2>7. b.money - Total(b.left) + b.interest = money - Total(left)
    <3>1. \A m, t, p, i, l, j, q \in Int :
            q = l + j - p => (m - p) - (t - l + q) + (i + j) = m - t + i
      OBVIOUS
    <3> QED
      BY <2>1, <2>2, <2>3, <2>4, <2>5, <3>1
  <2>8. \A e \in Debts : left[e] = 0 => b.left[e] = 0
    BY <2>1, <2>2
  <2> QED
    BY <2>1, <2>6, <2>7, <2>8 DEF b
<1>8. r \in A
  <2>1. \A i \in 1 .. n : c[i - 1] \in A => c[i] \in A
    <3>1. \A a \in A, d \in Debts : PayMinimum(a, d) \in A
      BY <1>7
    <3> HIDE DEF A
    <3> QED
      BY <1>2, <1>5, <3>1
  <2>2. \A i \in 0 .. n : c[i] \in A
    <3> HIDE DEF A
    <3> QED
      BY <1>5, <1>6, <2>1, Throughout
  <2> HIDE DEF A
  <2> QED
    BY <1>5, <2>2
<1> QED
  BY <1>8 DEF r

\* The installments of a month: what leaves the cash pays off principal, pays
\* interest or is unused; if none is missed or refused the cash covers them
\* together and every debt is settled.
AllInFull(cash, before, left) ==
  Unpaid(before) # {} =>
    /\ cash >= MinimumsOf(before)
    /\ \A d \in Unpaid(before) : Settled(before[d], left[d], d)

LEMMA ServiceAllIs ==
    ASSUME debt \in [Debts -> Nat], NEW cash \in Int
    PROVE  LET r == ServiceAll(cash) IN
           /\ r \in Served
           /\ r.cash - Total(r.debt) + r.interest + r.unused = cash - Total(debt)
           /\ \A d \in Debts : debt[d] = 0 => r.debt[d] = 0
           /\ ~r.short /\ ~r.refused => AllInFull(cash, debt, r.debt)
<1> DEFINE seq == InOrder(Unpaid(debt), LAMBDA d, e : d < e)
           base == [cash |-> cash, debt |-> debt, short |-> FALSE, refused |-> FALSE,
                    interest |-> 0, unused |-> 0]
           r == ServiceAll(cash)
<1>1. PICK n \in Nat : Lists(seq, n, debt) /\ EachOnce(seq, n)
  BY NumberedLists
<1>2. seq \in [1 .. n -> Debts]
  BY <1>1 DEF Lists, Unpaid
<1>3. /\ base \in Served /\ base.cash = cash /\ base.debt = debt
      /\ base.interest = 0 /\ base.unused = 0
  BY DEF Served
<1>4. r = ServedTable(base, seq)[DOMAIN seq]
  BY ServiceTable DEF ServiceAll
<1> HIDE DEF seq, base, r
<1>5. PICK c : /\ c[0] = base
               /\ c[n] = r
               /\ \A i \in 0 .. n : c[i] \in Served
               /\ \A i \in 1 .. n : c[i] = Service(c[i - 1], seq[i])
  <2>1. \E c : /\ c[0] = base
               /\ c[n] = ServedTable(base, seq)[DOMAIN seq]
               /\ \A i \in 0 .. n : c[i] \in Served
               /\ \A i \in 1 .. n : c[i] = Service(c[i - 1], seq[i])
    BY <1>2, <1>3, ServiceChain, Zenon
  <2> QED
    BY <1>4, <2>1, Zenon
<1> DEFINE Kept(a) ==
             /\ a.cash - Total(a.debt) + a.interest + a.unused = cash - Total(debt)
             /\ \A d \in Debts : debt[d] = 0 => a.debt[d] = 0
           A == {a \in Served : Kept(a)}
<1>6. base \in A
  <2>1. Total(debt) \in Int /\ \A d \in Debts : debt[d] \in Nat
    BY TotalIsSum
  <2> QED
    BY <1>3, <2>1
<1>7. ASSUME NEW a \in A, NEW d \in Debts PROVE Service(a, d) \in A
  <2> DEFINE b == Service(a, d)
  <2>0. a \in Served /\ Kept(a)
    OBVIOUS
  <2>1. b \in Served
    BY ServiceIs
  <2>2. PICK rest, interest, unused \in Nat, pay \in Int :
             /\ pay + rest = a.debt[d] + interest + unused
             /\ b.cash = a.cash - pay
             /\ b.debt = [a.debt EXCEPT ![d] = rest]
             /\ b.interest = a.interest + interest
             /\ b.unused = a.unused + unused
             /\ a.debt[d] = 0 => rest = 0
    BY <2>0, ServiceIs
  <2> HIDE DEF b
  <2>3. /\ a.debt \in [Debts -> Nat] /\ a.debt[d] \in Nat /\ a.cash \in Int
        /\ a.interest \in Nat /\ a.unused \in Nat
    BY <2>0 DEF Served
  <2>4. Total(b.debt) = Total(a.debt) - a.debt[d] + rest
    BY <2>2, <2>3, TotalMoved
  <2>5. Total(a.debt) \in Int /\ Total(debt) \in Int
    BY <2>3, TotalIsSum
  <2>6. b.cash - Total(b.debt) + b.interest + b.unused = cash - Total(debt)
    <3>1. \A m, t, p, i, u, l, j, k, q, x \in Int :
            p + q = l + j + k /\ m - t + i + u = x =>
              (m - p) - (t - l + q) + (i + j) + (u + k) = x
      OBVIOUS
    <3>2. cash - Total(debt) \in Int
      BY <2>5
    <3> QED
      BY <2>0, <2>2, <2>3, <2>4, <2>5, <3>1, <3>2
  <2>7. \A e \in Debts : debt[e] = 0 => b.debt[e] = 0
    BY <2>0, <2>2, <2>3
  <2> QED
    BY <2>1, <2>6, <2>7 DEF b
<1>8. \A i \in 0 .. n : c[i] \in A
  <2>1. \A i \in 1 .. n : c[i - 1] \in A => c[i] \in A
    <3>1. \A a \in A, d \in Debts : Service(a, d) \in A
      BY <1>7
    <3> HIDE DEF A
    <3> QED
      BY <1>2, <1>5, <3>1
  <2> HIDE DEF A
  <2> QED
    BY <1>5, <1>6, <2>1, Throughout
<1>9. r \in Served /\ Kept(r)
  <2>1. r \in A
    <3> HIDE DEF A
    <3> QED
      BY <1>5, <1>8
  <2> QED
    BY <2>1
<1> DEFINE Names(i) == {seq[k] : k \in 1 .. i}
           InHand(i) ==
             /\ c[i].cash = cash - SumFunctionOnSet(Payment, Names(i))
             /\ i # 0 => c[i].cash >= 0
             /\ \A k \in 1 .. n :
                  IF k <= i THEN Settled(debt[seq[k]], c[i].debt[seq[k]], seq[k])
                  ELSE c[i].debt[seq[k]] = debt[seq[k]]
           Paid(i) == c[i].short \/ c[i].refused \/ InHand(i)
<1>10. Paid(0)
  <2>1. Names(0) = {}
    OBVIOUS
  <2>2. c[0].cash = cash /\ c[0].debt = debt
    BY <1>3, <1>5
  <2>3. c[0].cash = cash - SumFunctionOnSet(Payment, Names(0))
    BY <2>1, <2>2, SumOfNone
  <2> HIDE DEF Names
  <2> QED
    BY <2>2, <2>3
<1>11. ASSUME NEW i \in 0 .. n, i + 1 <= n, Paid(i) PROVE Paid(i + 1)
  <2> DEFINE a == c[i]
             b == c[i + 1]
             e == seq[i + 1]
  <2>1. /\ i + 1 \in 1 .. n /\ i \in 0 .. n /\ (i + 1) - 1 = i /\ i \in Nat
        /\ i + 1 # 0
    BY <1>11
  <2>2. a \in Served /\ e \in Debts /\ b = Service(a, e)
    <3> HIDE DEF A
    <3> QED
      BY <1>2, <1>5, <2>1
  <2>3. (a.short => b.short) /\ (a.refused => b.refused)
    BY <2>2, ServiceIs
  <2>4. \E rest, interest, unused \in Nat, pay \in Int :
          /\ pay + rest = a.debt[e] + interest + unused
          /\ Service(a, e).cash = a.cash - pay
          /\ Service(a, e).debt = [a.debt EXCEPT ![e] = rest]
          /\ Service(a, e).interest = a.interest + interest
          /\ Service(a, e).unused = a.unused + unused
          /\ a.debt[e] = 0 => rest = 0
          /\ Service(a, e).short \/ Service(a, e).refused \/ InFull(a, e, pay, rest)
    <3> HIDE DEF a, b, e
    <3> QED
      BY <2>2, ServiceIs
  <2>5. PICK rest \in Nat, pay \in Int :
          /\ b.cash = a.cash - pay
          /\ b.debt = [a.debt EXCEPT ![e] = rest]
          /\ b.short \/ b.refused \/ InFull(a, e, pay, rest)
    <3> HIDE DEF a, b, e
    <3> QED
      BY <2>2, <2>4
  <2>6. SUFFICES ASSUME ~b.short, ~b.refused PROVE InHand(i + 1)
    OBVIOUS
  <2>7. InFull(a, e, pay, rest)
    BY <2>5, <2>6
  <2>8. InHand(i)
    <3> HIDE DEF InHand
    <3> QED
      BY <1>11, <2>3, <2>6
  <2>9. a.debt \in [Debts -> Nat] /\ a.cash \in Int /\ Payment[e] \in Nat
    BY <2>2, HouseholdAssumption DEF Served
  <2>10. /\ Names(i + 1) \subseteq Debts /\ e \in Names(i + 1)
         /\ Names(i + 1) \ {e} = Names(i)
    <3>1. \A k \in 1 .. i : seq[k] # e
      BY <1>1, <2>1 DEF EachOnce
    <3>2. 1 .. (i + 1) = (1 .. i) \cup {i + 1}
      BY <2>1
    <3>3. \A k \in 1 .. (i + 1) : seq[k] \in Debts
      BY <1>2, <2>1
    <3> QED
      BY <3>1, <3>2, <3>3
  <2>11. /\ SumFunctionOnSet(Payment, Names(i + 1)) = Payment[e] + SumFunctionOnSet(Payment, Names(i))
         /\ SumFunctionOnSet(Payment, Names(i)) \in Int
    <3>1. IsFiniteSet(Names(i + 1)) /\ IsFiniteSet(Names(i))
      <4>1. Names(i + 1) \subseteq Debts /\ Names(i) \subseteq Debts
        BY <2>10
      <4> HIDE DEF Names
      <4> QED
        BY <4>1, HouseholdAssumption, FS_Subset
    <3>2. \A d \in Names(i + 1) : Payment[d] \in Int
      <4>1. Names(i + 1) \subseteq Debts
        BY <2>10
      <4>2. \A d \in Debts : Payment[d] \in Int
        BY HouseholdAssumption
      <4> HIDE DEF Names
      <4> QED
        BY <4>1, <4>2
    <3> HIDE DEF Names, e
    <3> QED
      BY <2>10, <3>1, <3>2, SumWithout, SumIsInt
  <2> HIDE DEF Names
  <2>12. b.cash = a.cash - Payment[e] /\ a.cash >= Payment[e]
    BY <2>5, <2>7 DEF InFull
  <2>13. b.cash = cash - SumFunctionOnSet(Payment, Names(i + 1)) /\ b.cash >= 0
    <3>1. a.cash = cash - SumFunctionOnSet(Payment, Names(i))
      BY <2>8
    <3> HIDE DEF a, b, e
    <3> QED
      BY <2>9, <2>11, <2>12, <3>1
  <2>14. b.debt[e] = rest /\ \A d \in Debts : d # e => b.debt[d] = a.debt[d]
    <3> HIDE DEF a, b, e
    <3> QED
      BY <2>2, <2>5, <2>9
  <2>15. ASSUME NEW k \in 1 .. n
         PROVE  IF k <= i + 1 THEN Settled(debt[seq[k]], b.debt[seq[k]], seq[k])
                ELSE b.debt[seq[k]] = debt[seq[k]]
    <3>1. /\ seq[k] \in Debts
          /\ IF k <= i THEN Settled(debt[seq[k]], a.debt[seq[k]], seq[k])
             ELSE a.debt[seq[k]] = debt[seq[k]]
      BY <1>2, <2>8
    <3>2. CASE k = i + 1
      <4>1. a.debt[e] = debt[e] /\ ~(i + 1 <= i)
        BY <2>1, <3>1, <3>2
      <4>2. Settled(debt[e], b.debt[e], e)
        BY <2>7, <2>14, <4>1 DEF InFull
      <4> QED
        BY <2>1, <3>2, <4>2
    <3>3. CASE k # i + 1
      <4>1. seq[k] # e
        BY <1>1, <2>1, <3>3 DEF EachOnce
      <4>2. b.debt[seq[k]] = a.debt[seq[k]]
        BY <2>14, <3>1, <4>1
      <4>3. k <= i + 1 <=> k <= i
        BY <2>1, <3>3
      <4> QED
        BY <3>1, <4>2, <4>3
    <3> QED
      BY <3>2, <3>3
  <2> QED
    BY <2>13, <2>15
<1>12. Paid(n)
  <2> DEFINE N == {i \in Nat : i <= n => Paid(i)}
  <2>1. 0 \in N
    BY <1>10
  <2>2. ASSUME NEW i \in N PROVE i + 1 \in N
    <3>1. i \in Nat /\ (i <= n => Paid(i))
      BY <2>2
    <3>2. i + 1 <= n => i \in 0 .. n /\ i <= n
      BY <3>1
    <3> HIDE DEF Paid
    <3> QED
      BY <1>11, <3>1, <3>2
  <2>3. \A i \in Nat : i \in N
    <3>1. N \subseteq Nat
      OBVIOUS
    <3> HIDE DEF N
    <3> QED
      BY <2>1, <2>2, <3>1, NatSet
  <2> HIDE DEF Paid
  <2> QED
    BY <2>3
<1>13. ASSUME ~r.short, ~r.refused, Unpaid(debt) # {}
       PROVE  /\ cash >= MinimumsOf(debt)
              /\ \A d \in Unpaid(debt) : Settled(debt[d], r.debt[d], d)
  <2>1. InHand(n)
    <3> HIDE DEF InHand
    <3> QED
      BY <1>5, <1>12, <1>13
  <2>2. /\ seq \in [1 .. n -> Unpaid(debt)]
        /\ \A d \in Unpaid(debt) : \E k \in 1 .. n : seq[k] = d
    BY <1>1 DEF Lists
  <2>3. Names(n) = Unpaid(debt) /\ n # 0
    BY <1>13, <2>2
  <2>4. MinimumsOf(debt) = SumFunctionOnSet(Payment, Unpaid(debt)) /\ MinimumsOf(debt) \in Nat
    BY MinimumsAre
       DEF MinimumsOf, MapThenSumSet, SumFunctionOnSet, FoldFunctionOnSet, MapThenFoldSet
  <2>5. r.cash = cash - SumFunctionOnSet(Payment, Names(n)) /\ r.cash >= 0
    <3> HIDE DEF Names
    <3> QED
      BY <1>5, <2>1, <2>3
  <2>6. cash >= MinimumsOf(debt)
    <3>1. r.cash = cash - MinimumsOf(debt) /\ r.cash >= 0
      BY <2>3, <2>4, <2>5
    <3> QED
      BY <2>4, <3>1
  <2>7. ASSUME NEW d \in Unpaid(debt) PROVE Settled(debt[d], r.debt[d], d)
    <3>1. PICK k \in 1 .. n : seq[k] = d
      BY <2>2
    <3>2. k <= n /\ (IF k <= n THEN Settled(debt[seq[k]], r.debt[seq[k]], seq[k])
                     ELSE r.debt[seq[k]] = debt[seq[k]])
      BY <1>5, <2>1
    <3> QED
      BY <3>1, <3>2
  <2> QED
    BY <2>6, <2>7
<1> QED
  BY <1>9, <1>13 DEF r, AllInFull

-----------------------------------------------------------------------------
(* The payment plan.                                                        *)

LEMMA InputIs ==
    ASSUME NEW p \in Inputs
    PROVE  /\ p.owed \in [Debts -> Nat] /\ p.matures \in [Savings -> Nat]
           /\ Deployable(p) \in Nat /\ MonthlyExtra(p) \in Nat
           /\ MinimumsOf(p.owed) \in Nat
           /\ \A m : SavedIn(MaturesIn(p, m)) \in Nat
<1>1. /\ p.owed \in [Debts -> Nat] /\ p.matures \in [Savings -> Nat]
      /\ p.cash \in Nat /\ p.reserve \in Nat /\ p.income \in Nat /\ p.expense \in Nat
      /\ p.extra \in Nat \cup {None}
  BY PaymentPlanAssumption DEF Input
<1>2. Deployable(p) \in Nat
  BY <1>1 DEF Deployable, AtLeastZero
<1>3. MinimumsOf(p.owed) \in Nat
  BY <1>1, MinimumsAre
<1>4. Surplus(p) \in Int
  BY <1>1, <1>3 DEF Surplus
<1>5. MonthlyExtra(p) \in Nat
  BY <1>4 DEF MonthlyExtra, AtLeastZero
<1>6. \A m : SavedIn(MaturesIn(p, m)) \in Nat
  <2>1. \A m : MaturesIn(p, m) \in SUBSET Savings
    BY DEF MaturesIn
  <2> QED
    BY <2>1, SavedIs
<1> QED
  BY <1>1, <1>2, <1>3, <1>5, <1>6

(* A plan that runs has an input and months to go; what is paid, left and   *)
(* pooled adds up, and no debt comes back.  SumsUp says it of any state.    *)
PlanRuns == outcome = "running" => plan \in Inputs /\ month < MaxMonths

Income(p, m) == Deployable(p) + SavedIn({d \in Savings : p.matures[d] <= m})
                  + m * (MinimumsOf(p.owed) + MonthlyExtra(p))
SumsUp(p, left, m, cash, sum, interest) ==
  /\ sum = Total(p.owed) - Total(left) + interest
  /\ sum + cash <= Income(p, m)
  /\ Unpaid(left) # {} => cash = 0
  /\ Unpaid(left) \subseteq Unpaid(p.owed)
PlanSumsUp ==
  plan # None /\ outcome # "refused" => SumsUp(plan, owed, month, pool, paid, charged)

LEMMA PlanSumsUpNext ==
    PlanSumsUp' <=> (plan' # None /\ outcome' # "refused" =>
                       SumsUp(plan', owed', month', pool', paid', charged'))
BY DEF PlanSumsUp, SumsUp, Income, Deployable, AtLeastZero, SavedIn, MonthlyExtra, Surplus,
       MinimumsOf, Unpaid, Total, SumFunction, SumFunctionOnSet, FoldFunctionOnSet,
       MapThenSumSet, MapThenFoldSet

LEMMA OutcomeIs ==
    ASSUME NEW left, NEW m \in 0 .. MaxMonths
    PROVE  /\ OutcomeOf(left, m) \in {"running", "free", "late"}
           /\ OutcomeOf(left, m) = "running" => m < MaxMonths
BY PaymentPlanAssumption DEF OutcomeOf

LEMMA BuildIs ==
    ASSUME NEW p \in Inputs, BuildPaymentPlan(p)
    PROVE  PlanTypeOK' /\ PlanRuns' /\ PlanSumsUp'
<1> DEFINE money == Deployable(p) + SavedIn(MaturesIn(p, 0))
           lump  == Spread(p.strategy, p.owed, money)
<1>1. /\ plan' = p /\ month' = 0 /\ owed' = lump.left /\ pool' = lump.money
      /\ paid' = money - lump.money /\ charged' = 0 /\ unlocked' = MaturesIn(p, 0)
      /\ outcome' = OutcomeOf(lump.left, 0)
  BY DEF BuildPaymentPlan
<1>2. /\ p.owed \in [Debts -> Nat] /\ p.matures \in [Savings -> Nat]
      /\ Deployable(p) \in Nat /\ SavedIn(MaturesIn(p, 0)) \in Nat
      /\ MinimumsOf(p.owed) \in Nat /\ MonthlyExtra(p) \in Nat
  BY InputIs
<1>3. money \in Nat
  BY <1>2
<1> HIDE DEF money
<1>4. /\ lump \in Down
      /\ lump.money <= money
      /\ lump.money - Total(lump.left) = money - Total(p.owed)
      /\ \A d \in Debts : p.owed[d] = 0 => lump.left[d] = 0
      /\ lump.money = 0 \/ Unpaid(lump.left) = {}
  BY <1>2, <1>3, SpreadIs
<1> HIDE DEF lump
<1>5. lump.left \in [Debts -> Nat] /\ lump.money \in Nat
  BY <1>4 DEF Down
<1>6. 0 \in 0 .. MaxMonths
  BY PaymentPlanAssumption
<1>7. PlanTypeOK'
  <2>1. paid' \in Nat
    BY <1>1, <1>3, <1>4, <1>5
  <2>2. outcome' \in {"running", "free", "late"}
    BY <1>1, <1>6, OutcomeIs
  <2>3. unlocked' \subseteq Savings
    BY <1>1 DEF MaturesIn
  <2> QED
    BY <1>1, <1>5, <1>6, <2>1, <2>2, <2>3 DEF PlanTypeOK
<1>8. PlanRuns'
  BY <1>1, <1>6, OutcomeIs DEF PlanRuns
<1>9. SumsUp(p, lump.left, 0, lump.money, money - lump.money, 0)
  <2>1. Total(lump.left) \in Int /\ Total(p.owed) \in Int
    BY <1>2, <1>5, TotalIsSum
  <2>2. money - lump.money = Total(p.owed) - Total(lump.left) + 0
    BY <1>3, <1>4, <1>5, <2>1
  <2>3. Income(p, 0) = money
    <3>1. {d \in Savings : p.matures[d] <= 0} = MaturesIn(p, 0)
      BY <1>2 DEF MaturesIn
    <3>2. 0 * (MinimumsOf(p.owed) + MonthlyExtra(p)) = 0
      BY <1>2
    <3>3. Income(p, 0) = Deployable(p) + SavedIn(MaturesIn(p, 0)) + 0
      BY <3>1, <3>2 DEF Income
    <3> QED
      BY <1>2, <3>3 DEF money
  <2>4. (money - lump.money) + lump.money <= Income(p, 0)
    BY <1>3, <1>5, <2>3
  <2>5. Unpaid(lump.left) \subseteq Unpaid(p.owed)
    BY <1>2, <1>4, <1>5 DEF Unpaid
  <2> QED
    BY <1>4, <2>2, <2>4, <2>5 DEF SumsUp
<1> QED
  BY <1>1, <1>7, <1>8, <1>9, PlanSumsUpNext

LEMMA IncomeNext ==
    ASSUME NEW p \in Inputs, NEW m \in Nat
    PROVE  /\ Income(p, m) \in Int
           /\ Income(p, m + 1) = Income(p, m) + SavedIn(MaturesIn(p, m + 1))
                                   + MinimumsOf(p.owed) + MonthlyExtra(p)
<1> DEFINE U == {d \in Savings : p.matures[d] <= m + 1}
           V == MaturesIn(p, m + 1)
           x == MinimumsOf(p.owed) + MonthlyExtra(p)
<1>1. /\ p.matures \in [Savings -> Nat] /\ Deployable(p) \in Nat
      /\ MinimumsOf(p.owed) \in Nat /\ MonthlyExtra(p) \in Nat
  BY InputIs
<1>2. U \in SUBSET Savings /\ V \in SUBSET U /\ U \ V = {d \in Savings : p.matures[d] <= m}
  BY <1>1 DEF MaturesIn
<1>3. SavedIn(U) = SavedIn(U \ V) + SavedIn(V) /\ SavedIn(V) \in Nat /\ SavedIn(U \ V) \in Nat
  BY <1>2, SavedIs
<1>4. x \in Nat /\ m * x \in Int /\ (m + 1) * x = m * x + x
  <2>1. x \in Nat
    BY <1>1
  <2> HIDE DEF x
  <2> QED
    BY <2>1
<1>5. Income(p, m) = Deployable(p) + SavedIn(U \ V) + m * x
  BY <1>2 DEF Income
<1>6. Income(p, m + 1) = Deployable(p) + SavedIn(U) + (m + 1) * x
  BY DEF Income
<1>7. x = MinimumsOf(p.owed) + MonthlyExtra(p)
  OBVIOUS
<1> HIDE DEF U, V, x
<1>8. Income(p, m) \in Int
  BY <1>1, <1>3, <1>4, <1>5
<1>9. Income(p, m + 1) = Income(p, m) + SavedIn(V) + MinimumsOf(p.owed) + MonthlyExtra(p)
  BY <1>1, <1>3, <1>4, <1>5, <1>6, <1>7
<1> QED
  BY <1>8, <1>9 DEF V

LEMMA PlanMonthIs ==
    ASSUME PlanTypeOK, PlanRuns, PlanSumsUp, PlanMonth
    PROVE  PlanTypeOK' /\ PlanRuns' /\ PlanSumsUp'
<1> DEFINE money    == MinimumsOf(owed) + MonthlyExtra(plan) + pool
                         + SavedIn(MaturesIn(plan, month'))
           minimums == PayMinimums(plan.strategy, owed, money)
           rest     == Spread(plan.strategy, minimums.left, minimums.money)
<1>1. /\ outcome = "running" /\ month' = month + 1 /\ plan' = plan
      /\ IF minimums.refused
         THEN outcome' = "refused" /\ UNCHANGED <<owed, pool, paid, charged, unlocked>>
         ELSE /\ owed' = rest.left
              /\ pool' = 0
              /\ paid' = paid + money - rest.money
              /\ charged' = charged + minimums.interest
              /\ unlocked' = unlocked \cup MaturesIn(plan, month')
              /\ outcome' = OutcomeOf(rest.left, month')
  BY DEF PlanMonth
<1>2. plan \in Inputs /\ month \in Nat /\ month + 1 \in 0 .. MaxMonths
  BY <1>1, PaymentPlanAssumption DEF PlanRuns, PlanTypeOK
<1>3. owed \in [Debts -> Nat] /\ pool \in Nat /\ paid \in Nat /\ charged \in Nat
      /\ unlocked \subseteq Savings
  BY DEF PlanTypeOK
<1>4. MonthlyExtra(plan) \in Nat /\ SavedIn(MaturesIn(plan, month')) \in Nat
      /\ MinimumsOf(owed) \in Nat /\ plan.owed \in [Debts -> Nat] /\ MinimumsOf(plan.owed) \in Nat
  BY <1>2, <1>3, InputIs, MinimumsAre
<1>5. money \in Nat /\ money = MinimumsOf(owed) + MonthlyExtra(plan) + pool
                                 + SavedIn(MaturesIn(plan, month'))
  BY <1>3, <1>4
<1> HIDE DEF money
<1>6. /\ minimums \in Minimum
      /\ minimums.money <= money
      /\ minimums.money - Total(minimums.left) + minimums.interest = money - Total(owed)
      /\ \A d \in Debts : owed[d] = 0 => minimums.left[d] = 0
  BY <1>3, <1>5, PayMinimumsIs
<1>7. minimums.left \in [Debts -> Nat] /\ minimums.money \in Nat /\ minimums.interest \in Nat
  BY <1>6 DEF Minimum
<1> HIDE DEF minimums
<1>8. /\ rest \in Down
      /\ rest.money <= minimums.money
      /\ rest.money - Total(rest.left) = minimums.money - Total(minimums.left)
      /\ \A d \in Debts : minimums.left[d] = 0 => rest.left[d] = 0
  BY <1>7, SpreadIs
<1>9. rest.left \in [Debts -> Nat] /\ rest.money \in Nat
  BY <1>8 DEF Down
<1> HIDE DEF rest
<1>10. CASE minimums.refused
  <2>1. outcome' = "refused" /\ UNCHANGED <<owed, pool, paid, charged, unlocked>>
    BY <1>1, <1>10
  <2>2. PlanTypeOK'
    BY <1>1, <1>2, <2>1 DEF PlanTypeOK
  <2> QED
    BY <2>1, <2>2, PlanSumsUpNext DEF PlanRuns
<1>11. CASE ~minimums.refused
  <2>1. /\ owed' = rest.left /\ pool' = 0 /\ paid' = paid + money - rest.money
        /\ charged' = charged + minimums.interest
        /\ unlocked' = unlocked \cup MaturesIn(plan, month')
        /\ outcome' = OutcomeOf(rest.left, month')
    BY <1>1, <1>11
  <2>2. month' \in 0 .. MaxMonths
    BY <1>1, <1>2
  <2>3. PlanTypeOK'
    <3>1. paid' \in Nat
      BY <1>3, <1>5, <1>6, <1>7, <1>8, <1>9, <2>1
    <3>2. charged' \in Nat
      BY <1>3, <1>7, <2>1
    <3>3. outcome' \in {"running", "free", "late"}
      BY <2>1, <2>2, OutcomeIs
    <3>4. unlocked' \subseteq Savings
      BY <1>3, <2>1 DEF MaturesIn
    <3>5. plan' \in Inputs
      BY <1>1, <1>2
    <3> QED
      BY <1>9, <2>1, <2>2, <3>1, <3>2, <3>3, <3>4, <3>5 DEF PlanTypeOK
  <2>4. PlanRuns'
    BY <1>1, <1>2, <2>1, <2>2, OutcomeIs DEF PlanRuns
  <2>5. ASSUME plan # None
        PROVE  SumsUp(plan, rest.left, month + 1, 0, paid + money - rest.money,
                      charged + minimums.interest)
    <3>1. /\ paid = Total(plan.owed) - Total(owed) + charged
          /\ paid + pool <= Income(plan, month)
          /\ Unpaid(owed) \subseteq Unpaid(plan.owed)
      BY <1>1, <2>5 DEF PlanSumsUp, SumsUp
    <3>2. /\ Total(plan.owed) \in Int /\ Total(owed) \in Int
          /\ Total(minimums.left) \in Int /\ Total(rest.left) \in Int
      BY <1>3, <1>4, <1>7, <1>9, TotalIsSum
    <3>3. paid + money - rest.money
            = Total(plan.owed) - Total(rest.left) + (charged + minimums.interest)
      <4>1. \A a, b, e, f, g, h, i, j, k, l \in Int :
              /\ a = b - e + f                \* paid before
              /\ g - h + i = j - e            \* the minimums
              /\ k - l = g - h                \* the rest
              => a + (j - k) = b - l + (f + i)
        OBVIOUS
      <4> QED
        BY <1>3, <1>5, <1>6, <1>7, <1>8, <1>9, <3>1, <3>2, <4>1
    <3>4. Income(plan, month + 1) = Income(plan, month) + SavedIn(MaturesIn(plan, month'))
                                      + MinimumsOf(plan.owed) + MonthlyExtra(plan)
          /\ Income(plan, month) \in Int
      BY <1>1, <1>2, IncomeNext
    <3>5. MinimumsOf(owed) <= MinimumsOf(plan.owed)
      BY <1>3, <1>4, <3>1, MinimumsAre
    <3>6. (paid + money - rest.money) + 0 <= Income(plan, month + 1)
      BY <1>3, <1>4, <1>5, <1>9, <3>1, <3>4, <3>5
    <3>7. Unpaid(rest.left) \subseteq Unpaid(plan.owed)
      <4>1. Unpaid(rest.left) \subseteq Unpaid(owed)
        BY <1>3, <1>6, <1>7, <1>8, <1>9 DEF Unpaid
      <4> QED
        BY <3>1, <4>1
    <3> QED
      BY <3>3, <3>6, <3>7 DEF SumsUp
  <2>6. PlanSumsUp'
    BY <1>1, <2>1, <2>5, PlanSumsUpNext
  <2> QED
    BY <2>3, <2>4, <2>6
<1> QED
  BY <1>10, <1>11

LEMMA PlanInitIs == PlanInit => PlanTypeOK /\ PlanRuns /\ PlanSumsUp
BY PaymentPlanAssumption DEF PlanInit, PlanTypeOK, PlanRuns, PlanSumsUp

LEMMA PlanRests ==
    ASSUME PlanTypeOK, PlanRuns, PlanSumsUp, UNCHANGED planVars
    PROVE  PlanTypeOK' /\ PlanRuns' /\ PlanSumsUp'
<1>1. PlanTypeOK'
  BY DEF PlanTypeOK, planVars
<1>2. PlanRuns'
  BY DEF PlanRuns, planVars
<1>3. PlanSumsUp'
  BY PlanSumsUpNext DEF PlanSumsUp, planVars
<1> QED
  BY <1>1, <1>2, <1>3

LEMMA PlanPays == PlanSumsUp => PaymentsAddUp
BY DEF PlanSumsUp, SumsUp, Income, PaymentsAddUp

-----------------------------------------------------------------------------
(* The projection.                                                          *)

LEMMA BookIs ==
    ASSUME NEW b \in Books
    PROVE  /\ b.cash \in Nat /\ b.portfolio \in Nat /\ b.property \in Nat
           /\ b.income \in Nat /\ b.expense \in Nat
           /\ b.owed \in [Debts -> Nat] /\ b.matures \in [Savings -> Nat]
           /\ b.event \in Event
           /\ b.event.type \in {"none", "one_off", "recurring", "buy_property"}
           /\ b.event.at \in Nat /\ b.event.amount \in Int /\ b.event.value \in Nat
           /\ Checked(b)
<1>1. b \in Book /\ Checked(b)
  BY ProjectionAssumption
<1>2. b.event \in Event
  BY <1>1 DEF Book
<1>3. /\ b.event.type \in {"none", "one_off", "recurring", "buy_property"}
      /\ b.event.at \in Nat /\ b.event.amount \in Int /\ b.event.value \in Nat
  BY <1>2 DEF Event
<1>4. /\ b.cash \in Nat /\ b.portfolio \in Nat /\ b.property \in Nat
      /\ b.income \in Nat /\ b.expense \in Nat
      /\ b.owed \in [Debts -> Nat] /\ b.matures \in [Savings -> Nat]
  BY <1>1 DEF Book
<1> QED
  BY <1>1, <1>2, <1>3, <1>4

LEMMA GrowsIs ==
    ASSUME NEW amount \in Nat
    PROVE  Grows(amount) \in Nat
<1>1. RateUnit \in Nat \ {0} /\ Growth \in Nat
  BY HouseholdAssumption, ProjectionAssumption
<1>2. amount * Growth \in Nat
  BY <1>1
<1>3. \A a \in Nat : a \div RateUnit \in Nat
  BY <1>1
<1> QED
  BY <1>2, <1>3 DEF Grows

LEMMA WorthIs ==
    ASSUME NEW cash \in Int, NEW assets \in Int, NEW deposits \in SUBSET Savings,
           NEW debts \in [Debts -> Nat]
    PROVE  /\ SavedIn(deposits) \in Int /\ Total(debts) \in Int
           /\ Worth(cash, assets, deposits, debts) \in Int
           /\ Worth(cash, assets, deposits, debts)
                = cash + assets + SavedIn(deposits) - Total(debts)
<1>1. SavedIn(deposits) \in Int /\ Total(debts) \in Int
  BY SavedIs, TotalIsSum
<1> QED
  BY <1>1 DEF Worth

\* What a projection keeps in every month.  Beside what is wanted of the rows,
\* the last row is about the accounts as they are, and the mortgage is open only
\* after the purchase.
LastWorth(b, months) ==
  IF months = <<>> THEN WorthOfBooks(b) ELSE months[Len(months)].worth
LastDebts(b, months) == IF months = <<>> THEN b.owed ELSE months[Len(months)].debts
LastCash(b, months) == IF months = <<>> THEN b.cash ELSE months[Len(months)].cash
Explained(b, months) ==
  \A i \in DOMAIN months :
    months[i].worth - (IF i = 1 THEN WorthOfBooks(b) ELSE months[i - 1].worth)
      = months[i].earned - months[i].interest + months[i].growth - months[i].unused
PaidFrom(cash, before, row) == ~row.short => AllInFull(cash + row.earned, before, row.debts)
Covered(b, months) ==
  Bought(b.event) =>
    \A i \in DOMAIN months :
      PaidFrom(IF i = 1 THEN b.cash ELSE months[i - 1].cash,
               IF i = 1 THEN b.owed ELSE months[i - 1].debts, months[i])
Follows(b, cash, assets, deposits, debts, months) ==
  /\ b \in Books
  /\ LastWorth(b, months) = Worth(cash, assets, deposits, debts)
  /\ LastDebts(b, months) = debts
  /\ LastCash(b, months) = cash
  /\ Bought(b.event) /\ Len(months) <= b.event.at => debts[Mortgage] = 0
  /\ Explained(b, months)
  /\ Covered(b, months)
ProjectFollows ==
  /\ books = None => rows = <<>>
  /\ books # None => Follows(books, free, portfolio + property, held, debt, rows)

LEMMA ProjectFollowsNext ==
    ProjectFollows' <=>
      /\ books' = None => rows' = <<>>
      /\ books' # None => Follows(books', free', portfolio' + property', held', debt', rows')
BY DEF ProjectFollows, Follows, LastWorth, LastDebts, LastCash, WorthOfBooks, Worth, Explained,
       Covered, PaidFrom, AllInFull, MinimumsOf, Settled, Bought, Interest, SavedIn, Unpaid,
       Total, SumFunction, SumFunctionOnSet, FoldFunctionOnSet, MapThenSumSet, MapThenFoldSet

\* A month more: what is to be shown of its row.
LEMMA OneMonthMore ==
    ASSUME NEW b, NEW months \in Seq(Row), NEW row \in Row,
           Explained(b, months), Covered(b, months),
           row.worth - LastWorth(b, months)
             = row.earned - row.interest + row.growth - row.unused,
           Bought(b.event) => PaidFrom(LastCash(b, months), LastDebts(b, months), row)
    PROVE  LET more == Append(months, row) IN
           /\ more \in Seq(Row) /\ Len(more) = Len(months) + 1
           /\ LastWorth(b, more) = row.worth /\ LastDebts(b, more) = row.debts
           /\ LastCash(b, more) = row.cash
           /\ Explained(b, more) /\ Covered(b, more)
<1> DEFINE more == Append(months, row)
           n == Len(months)
<1>1. /\ more \in Seq(Row) /\ Len(more) = n + 1 /\ n \in Nat
      /\ DOMAIN more = 1 .. (n + 1) /\ DOMAIN months = 1 .. n
      /\ more[n + 1] = row /\ \A i \in 1 .. n : more[i] = months[i]
      /\ more # <<>> /\ (months = <<>> <=> n = 0)
  OBVIOUS
<1> HIDE DEF more, n
<1>2. /\ LastWorth(b, more) = row.worth /\ LastDebts(b, more) = row.debts
      /\ LastCash(b, more) = row.cash
  BY <1>1 DEF LastWorth, LastDebts, LastCash
<1>3. /\ LastWorth(b, months) = IF n = 0 THEN WorthOfBooks(b) ELSE months[n].worth
      /\ LastDebts(b, months) = IF n = 0 THEN b.owed ELSE months[n].debts
      /\ LastCash(b, months) = IF n = 0 THEN b.cash ELSE months[n].cash
  BY <1>1 DEF LastWorth, LastDebts, LastCash, n
<1>4. ASSUME NEW i \in 1 .. (n + 1)
      PROVE  /\ IF i = n + 1
                THEN /\ more[i] = row
                     /\ (IF i = 1 THEN WorthOfBooks(b) ELSE more[i - 1].worth)
                          = LastWorth(b, months)
                     /\ (IF i = 1 THEN b.owed ELSE more[i - 1].debts) = LastDebts(b, months)
                     /\ (IF i = 1 THEN b.cash ELSE more[i - 1].cash) = LastCash(b, months)
                ELSE /\ i \in 1 .. n /\ more[i] = months[i]
                     /\ i # 1 => more[i - 1] = months[i - 1]
  <2>1. CASE i = n + 1
    <3>1. i # 1 => n \in 1 .. n /\ i - 1 = n
      BY <1>1, <2>1
    <3>2. i = 1 => n = 0
      BY <1>1, <2>1
    <3> QED
      BY <1>1, <1>3, <2>1, <3>1, <3>2
  <2>2. CASE i # n + 1
    <3>1. i \in 1 .. n /\ (i # 1 => i - 1 \in 1 .. n)
      BY <1>1, <2>2
    <3> QED
      BY <1>1, <2>2, <3>1
  <2> QED
    BY <2>1, <2>2
<1>5. Explained(b, more)
  <2> SUFFICES ASSUME NEW i \in 1 .. (n + 1)
               PROVE  more[i].worth - (IF i = 1 THEN WorthOfBooks(b) ELSE more[i - 1].worth)
                        = more[i].earned - more[i].interest + more[i].growth - more[i].unused
    BY <1>1 DEF Explained
  <2>1. CASE i = n + 1
    BY <1>4, <2>1
  <2>2. CASE i # n + 1
    <3>1. more[i] = months[i] /\ (i # 1 => more[i - 1] = months[i - 1]) /\ i \in DOMAIN months
      BY <1>1, <1>4, <2>2
    <3>2. months[i].worth - (IF i = 1 THEN WorthOfBooks(b) ELSE months[i - 1].worth)
            = months[i].earned - months[i].interest + months[i].growth - months[i].unused
      BY <3>1 DEF Explained
    <3> QED
      BY <3>1, <3>2
  <2> QED
    BY <2>1, <2>2
<1>6. Covered(b, more)
  <2> DEFINE owing(i) == IF i = 1 THEN b.owed ELSE more[i - 1].debts
             had(i) == IF i = 1 THEN b.cash ELSE more[i - 1].cash
  <2> SUFFICES ASSUME Bought(b.event), NEW i \in 1 .. (n + 1)
               PROVE  PaidFrom(had(i), owing(i), more[i])
    BY <1>1 DEF Covered
  <2>1. CASE i = n + 1
    <3>1. more[i] = row /\ owing(i) = LastDebts(b, months) /\ had(i) = LastCash(b, months)
      BY <1>4, <2>1
    <3> HIDE DEF owing, had
    <3> QED
      BY <3>1
  <2>2. CASE i # n + 1
    <3>1. /\ more[i] = months[i] /\ i \in DOMAIN months
          /\ owing(i) = IF i = 1 THEN b.owed ELSE months[i - 1].debts
          /\ had(i) = IF i = 1 THEN b.cash ELSE months[i - 1].cash
      BY <1>1, <1>4, <2>2
    <3> HIDE DEF owing, had
    <3> QED
      BY <3>1 DEF Covered
  <2> QED
    BY <2>1, <2>2
<1> QED
  BY <1>1, <1>2, <1>5, <1>6 DEF more, n

LEMMA ProjectInitIs == ProjectInit => ProjectTypeOK /\ ProjectFollows
<1>1. ProjectInit => thrown \in BOOLEAN
  BY Zenon DEF ProjectInit
<1>2. ProjectInit => /\ books = None
                     /\ debt \in [Debts -> Nat] /\ held \in SUBSET Savings
                     /\ free \in Int /\ portfolio \in Nat /\ property \in Nat /\ recurring \in Int
                     /\ rows = <<>>
  BY DEF ProjectInit
<1> QED
  BY <1>1, <1>2 DEF ProjectTypeOK, ProjectFollows

LEMMA ProjectRests ==
    ASSUME ProjectTypeOK, ProjectFollows, UNCHANGED projectVars
    PROVE  ProjectTypeOK' /\ ProjectFollows'
<1>1. ProjectTypeOK'
  BY DEF ProjectTypeOK, projectVars, accounts
<1>2. ProjectFollows'
  BY ProjectFollowsNext DEF ProjectFollows, projectVars, accounts
<1> QED
  BY <1>1, <1>2

\* A projection that throws leaves the accounts alone.
LEMMA ProjectThrowsIs ==
    ASSUME ProjectTypeOK, ProjectFollows, ProjectThrows
    PROVE  ProjectTypeOK' /\ ProjectFollows'
<1>1. ProjectTypeOK'
  BY DEF ProjectTypeOK, ProjectThrows, accounts
<1>2. ProjectFollows'
  BY ProjectFollowsNext DEF ProjectFollows, ProjectThrows, accounts
<1> QED
  BY <1>1, <1>2

LEMMA ProjectStartIs ==
    ASSUME ProjectTypeOK, ProjectFollows, NEW b \in Books, ProjectStart(b)
    PROVE  ProjectTypeOK' /\ ProjectFollows'
<1>1. /\ books' = b /\ free' = b.cash /\ debt' = b.owed /\ held' = Savings
      /\ portfolio' = b.portfolio /\ property' = b.property
      /\ recurring' = recurring /\ rows' = rows /\ rows = <<>> /\ thrown' = thrown
  BY DEF ProjectStart, ProjectFollows
<1>2. /\ b.cash \in Nat /\ b.portfolio \in Nat /\ b.property \in Nat
      /\ b.owed \in [Debts -> Nat] /\ Checked(b)
  BY BookIs
<1>3. ProjectTypeOK'
  BY <1>1, <1>2 DEF ProjectTypeOK
<1>4. Follows(b, b.cash, b.portfolio + b.property, Savings, b.owed, <<>>)
  <2>1. b.owed[Mortgage] = 0
    BY <1>2 DEF Checked
  <2>2. /\ LastWorth(b, <<>>) = Worth(b.cash, b.portfolio + b.property, Savings, b.owed)
        /\ LastDebts(b, <<>>) = b.owed /\ LastCash(b, <<>>) = b.cash
    BY DEF LastWorth, LastDebts, LastCash, WorthOfBooks
  <2>3. Explained(b, <<>>) /\ Covered(b, <<>>)
    BY DEF Explained, Covered
  <2> QED
    BY <2>1, <2>2, <2>3 DEF Follows
<1> QED
  BY <1>1, <1>3, <1>4, ProjectFollowsNext

\* The scenario of a month: nothing outside its month, and a purchase only once.
LEMMA ScenarioIs ==
    ASSUME NEW b \in Books, NEW happens \in BOOLEAN
    PROVE  LET event == IF happens THEN b.event ELSE [b.event EXCEPT !.type = "none"] IN
           /\ event.amount = b.event.amount /\ event.value = b.event.value
           /\ CashOf(event) \in Int
           /\ Bought(event) <=> happens /\ Bought(b.event)
           /\ Bought(event) => CashOf(event) = -event.amount
           /\ Bought(b.event) /\ event.type # "buy_property" => CashOf(event) = 0
<1> DEFINE event == IF happens THEN b.event ELSE [b.event EXCEPT !.type = "none"]
<1>1. /\ b.event.type \in {"none", "one_off", "recurring", "buy_property"}
      /\ b.event.amount \in Int /\ b.event \in Event
  BY BookIs
<1>2. /\ event.amount = b.event.amount /\ event.value = b.event.value
      /\ event.type = IF happens THEN b.event.type ELSE "none"
  BY <1>1 DEF Event
<1> HIDE DEF event
<1>3. Bought(event) <=> happens /\ Bought(b.event)
  BY <1>2 DEF Bought
<1>4. Bought(event) => CashOf(event) = -event.amount
  BY DEF Bought, CashOf
<1>5. CashOf(event) \in Int
  <2>1. event.amount \in Int
    BY <1>1, <1>2
  <2>2. CASE event.type \in {"one_off", "recurring"}
    BY <2>1, <2>2 DEF CashOf
  <2>3. CASE event.type = "buy_property"
    BY <2>1, <2>3 DEF CashOf
  <2>4. CASE event.type = "none"
    BY <2>1, <2>4 DEF CashOf
  <2> QED
    BY <1>1, <1>2, <2>2, <2>3, <2>4
<1>6. Bought(b.event) /\ event.type # "buy_property" => CashOf(event) = 0
  <2>1. Bought(b.event) /\ event.type # "buy_property" => event.type = "none"
    BY <1>2 DEF Bought
  <2> QED
    BY <2>1 DEF CashOf
<1> QED
  BY <1>2, <1>3, <1>4, <1>5, <1>6 DEF event

LEMMA ProjectMonthIs ==
    ASSUME ProjectTypeOK, ProjectFollows, ProjectMonth
    PROVE  ProjectTypeOK' /\ ProjectFollows'
<1> DEFINE t       == Len(rows)
           flow    == Flow
           served  == ServiceAll(free + flow)
           matured == Released(held, t)
           event   == IF Happens(t) THEN books.event ELSE [books.event EXCEPT !.type = "none"]
           cash    == served.cash + SavedIn({d \in held : books.matures[d] = t})
           growth  == Grows(portfolio) + Grows(property)
           worth   == Worth(free', portfolio' + property', held', debt')
           earned  == flow + (IF event.type = "buy_property" THEN 0 ELSE CashOf(event))
           row     == [cash |-> free', worth |-> worth, net |-> free' - free,
                       short |-> served.short \/ EventShort(event, cash), debts |-> debt',
                       earned |-> earned, interest |-> served.interest, growth |-> growth,
                       unused |-> served.unused]
<1>1. /\ books # None /\ books' = books /\ thrown' = thrown /\ ~served.refused
      /\ free' = cash + CashOf(event)
      /\ held' = held \ matured
      /\ portfolio' = portfolio + Grows(portfolio)
      /\ property' = property + Grows(property) + (IF Bought(event) THEN event.value ELSE 0)
      /\ debt' = IF Bought(event) THEN [served.debt EXCEPT ![Mortgage] = event.value - event.amount]
                 ELSE served.debt
      /\ recurring' = IF event.type = "recurring" THEN recurring + event.amount ELSE recurring
      /\ rows' = Append(rows, row)
  BY DEF ProjectMonth, Running
<1>2. /\ free \in Int /\ debt \in [Debts -> Nat] /\ held \in SUBSET Savings
      /\ portfolio \in Nat /\ property \in Nat /\ recurring \in Int /\ rows \in Seq(Row)
      /\ t \in Nat /\ thrown \in BOOLEAN
  BY DEF ProjectTypeOK
<1>3. /\ books \in Books
      /\ LastWorth(books, rows) = Worth(free, portfolio + property, held, debt)
      /\ LastDebts(books, rows) = debt /\ LastCash(books, rows) = free
      /\ Bought(books.event) /\ t <= books.event.at => debt[Mortgage] = 0
      /\ Explained(books, rows) /\ Covered(books, rows)
  BY <1>1 DEF ProjectFollows, Follows
<1>4. /\ books.income \in Nat /\ books.expense \in Nat
      /\ books.event.at \in Nat /\ books.event.amount \in Int /\ books.event.value \in Nat
      /\ Checked(books)
  BY <1>3, BookIs
<1>5. flow \in Int /\ free + flow \in Int
  BY <1>2, <1>4 DEF Flow
<1>6. Happens(t) \in BOOLEAN /\ (Happens(t) <=> books.event.at = t)
  BY DEF Happens
<1>7. /\ event.amount = books.event.amount /\ event.value = books.event.value
      /\ CashOf(event) \in Int
      /\ Bought(event) <=> Happens(t) /\ Bought(books.event)
      /\ Bought(event) => CashOf(event) = -event.amount
      /\ Bought(books.event) /\ event.type # "buy_property" => CashOf(event) = 0
  BY <1>3, <1>6, ScenarioIs
<1>8. Bought(event) <=> event.type = "buy_property"
  BY DEF Bought
<1>9. matured \in SUBSET held /\ matured = {d \in held : books.matures[d] = t}
  BY DEF Released
<1>10. /\ SavedIn(held) = SavedIn(held \ matured) + SavedIn(matured)
       /\ SavedIn(held) \in Nat /\ SavedIn(matured) \in Nat /\ SavedIn(held \ matured) \in Nat
  BY <1>2, <1>9, SavedIs
<1>11. cash = served.cash + SavedIn(matured)
  BY <1>9
<1>12. Grows(portfolio) \in Nat /\ Grows(property) \in Nat /\ growth \in Nat
       /\ growth = Grows(portfolio) + Grows(property)
  BY <1>2, GrowsIs
<1> HIDE DEF flow, event, matured, growth
<1>13. /\ served \in Served
       /\ served.cash - Total(served.debt) + served.interest + served.unused
            = (free + flow) - Total(debt)
       /\ \A d \in Debts : debt[d] = 0 => served.debt[d] = 0
       /\ ~served.short /\ ~served.refused => AllInFull(free + flow, debt, served.debt)
  BY <1>2, <1>3, <1>5, ServiceAllIs
<1> HIDE DEF served
<1>14. /\ served.cash \in Int /\ served.debt \in [Debts -> Nat] /\ served.short \in BOOLEAN
       /\ served.interest \in Nat /\ served.unused \in Nat
  BY <1>13 DEF Served
<1> HIDE DEF cash
<1>15. cash \in Int /\ free' \in Int
  <2>1. free' = cash + CashOf(event)
    BY <1>1
  <2> QED
    BY <1>7, <1>10, <1>11, <1>14, <2>1
<1>16. Mortgage \in Debts
  BY ProjectionAssumption
<1>17. Bought(event) =>
         /\ event.value - event.amount \in Nat
         /\ debt[Mortgage] = 0 /\ served.debt[Mortgage] = 0
         /\ books.event.at = t
  <2>1. Bought(event) => books.event.type = "buy_property" /\ books.event.at = t
    BY <1>6, <1>7 DEF Bought
  <2>2. books.event.type = "buy_property" => books.event.amount <= books.event.value
    BY <1>4 DEF Checked
  <2>3. Bought(event) => debt[Mortgage] = 0
    BY <1>2, <1>3, <1>7, <2>1
  <2> QED
    BY <1>4, <1>7, <1>13, <1>16, <2>1, <2>2, <2>3
<1>18. /\ debt' \in [Debts -> Nat]
       /\ Total(debt') = Total(served.debt)
                           + (IF Bought(event) THEN event.value - event.amount ELSE 0)
       /\ \A d \in Debts : d # Mortgage \/ ~Bought(event) => debt'[d] = served.debt[d]
       /\ Bought(event) => debt'[Mortgage] = event.value - event.amount
  <2>1. Total(served.debt) \in Int
    BY <1>14, TotalIsSum
  <2>2. CASE Bought(event)
    <3> DEFINE v == event.value - event.amount
    <3>1. v \in Nat /\ debt' = [served.debt EXCEPT ![Mortgage] = v] /\ served.debt[Mortgage] = 0
      BY <1>1, <1>17, <2>2
    <3> HIDE DEF v
    <3>2. Total([served.debt EXCEPT ![Mortgage] = v])
            = Total(served.debt) - served.debt[Mortgage] + v
      BY <1>14, <1>16, <3>1, TotalMoved
    <3>3. Total([served.debt EXCEPT ![Mortgage] = v]) = Total(served.debt) + v
      BY <2>1, <3>1, <3>2
    <3>4. Total(debt') = Total(served.debt) + v
      BY <3>1, <3>3
    <3>5. /\ debt' \in [Debts -> Nat] /\ debt'[Mortgage] = v
          /\ \A d \in Debts : d # Mortgage => debt'[d] = served.debt[d]
      BY <1>14, <1>16, <3>1
    <3> QED
      BY <2>2, <3>4, <3>5 DEF v
  <2>3. CASE ~Bought(event)
    BY <1>1, <1>14, <2>1, <2>3
  <2> QED
    BY <2>2, <2>3
<1> DEFINE home == IF Bought(event) THEN event.value ELSE 0
           loan == IF Bought(event) THEN event.value - event.amount ELSE 0
<1>19. /\ portfolio' \in Nat
       /\ property' \in Nat
       /\ home \in Nat
       /\ portfolio' + property' = (portfolio + property) + growth + home
  <2>1. home \in Nat
    BY <1>4, <1>7
  <2>2. property' = property + Grows(property) + home
    BY <1>1
  <2>3. portfolio' = portfolio + Grows(portfolio)
    BY <1>1
  <2> DEFINE gr == Grows(property)
             gf == Grows(portfolio)
  <2>4. gr \in Nat /\ gf \in Nat /\ growth = gf + gr
    BY <1>12
  <2> HIDE DEF home, gr, gf
  <2>5. property \in Nat /\ portfolio \in Nat
    BY <1>2
  <2>6. property' = property + gr + home /\ portfolio' = portfolio + gf
    BY <2>2, <2>3 DEF gr, gf
  <2> QED
    BY <2>1, <2>4, <2>5, <2>6
<1>20. /\ SavedIn(held') \in Int /\ Total(debt') \in Int /\ worth \in Int
       /\ worth = free' + (portfolio' + property') + SavedIn(held') - Total(debt')
       /\ held' \in SUBSET Savings
  <2>1. held' \in SUBSET Savings
    BY <1>1, <1>2
  <2>2. portfolio' + property' \in Int
    BY <1>19
  <2> QED
    BY <1>15, <1>18, <2>1, <2>2, WorthIs
<1>21. /\ Worth(free, portfolio + property, held, debt)
            = free + (portfolio + property) + SavedIn(held) - Total(debt)
       /\ Total(debt) \in Int
  <2>1. portfolio + property \in Int
    BY <1>2
  <2> QED
    BY <1>2, <2>1, WorthIs
<1>22. /\ loan \in Int /\ earned \in Int
       /\ earned = flow + (CashOf(event) + home - loan)
       /\ Total(debt') = Total(served.debt) + loan
  <2>1. CASE Bought(event)
    <3>1. home = event.value /\ loan = event.value - event.amount /\ earned = flow
      BY <1>5, <1>8, <2>1
    <3> HIDE DEF home, loan, earned
    <3> QED
      BY <1>4, <1>5, <1>7, <1>18, <2>1, <3>1
  <2>2. CASE ~Bought(event)
    <3>1. home = 0 /\ loan = 0 /\ earned = flow + CashOf(event)
      BY <1>8, <2>2
    <3> HIDE DEF home, loan, earned
    <3> QED
      BY <1>5, <1>7, <1>18, <2>2, <3>1
  <2> QED
    BY <2>1, <2>2
<1> HIDE DEF worth, earned, home, loan
<1>23. worth - Worth(free, portfolio + property, held, debt)
         = earned - served.interest + growth - served.unused
  <2>1. Total(served.debt) \in Int
    BY <1>14, TotalIsSum
  <2>2. SavedIn(held') = SavedIn(held) - SavedIn(matured)
    <3>1. SavedIn(held') = SavedIn(held \ matured)
      BY <1>1
    <3> QED
      BY <1>10, <3>1
  <2>3. free' = served.cash + SavedIn(matured) + CashOf(event)
    BY <1>1, <1>11
  <2>4. served.cash - Total(served.debt) + served.interest + served.unused
          = (free + flow) - Total(debt)
    BY <1>13
  <2>5. \A a, b, c, e, f, g, h, i, l, m, s, u, x, y \in Int :
          x - y + i + u = (a + b) - e =>
            ((x + m + c) + (f + g + h) + (s - m) - (y + l)) - (a + f + s - e)
              = (b + (c + h - l)) - i + g - u
    OBVIOUS
  <2>6. /\ free \in Int /\ flow \in Int /\ CashOf(event) \in Int /\ Total(debt) \in Int
        /\ portfolio + property \in Int /\ growth \in Int /\ home \in Int
        /\ served.interest \in Int /\ loan \in Int /\ SavedIn(matured) \in Int
        /\ SavedIn(held) \in Int /\ served.unused \in Int /\ served.cash \in Int
    <3>1. portfolio + property \in Int
      BY <1>2
    <3>2. /\ growth \in Int /\ home \in Int /\ loan \in Int
          /\ SavedIn(matured) \in Int /\ SavedIn(held) \in Int
      BY <1>10, <1>12, <1>19, <1>22
    <3>3. /\ served.interest \in Int /\ served.unused \in Int /\ served.cash \in Int
      BY <1>14
    <3> QED
      BY <1>2, <1>5, <1>7, <1>21, <3>1, <3>2, <3>3
  <2>7. worth = (served.cash + SavedIn(matured) + CashOf(event))
                  + ((portfolio + property) + growth + home)
                  + (SavedIn(held) - SavedIn(matured)) - (Total(served.debt) + loan)
    BY <1>19, <1>20, <1>22, <2>2, <2>3
  <2> QED
    BY <1>21, <1>22, <2>1, <2>4, <2>5, <2>6, <2>7
<1>24. row \in Row
  <2>1. EventShort(event, cash) \in BOOLEAN
    BY DEF EventShort
  <2>2. free' - free \in Int
    BY <1>2, <1>15
  <2> QED
    BY <1>12, <1>14, <1>15, <1>18, <1>20, <1>22, <2>1, <2>2 DEF Row
<1>25. /\ row.worth = worth /\ row.debts = debt' /\ row.earned = earned /\ row.cash = free'
       /\ row.interest = served.interest /\ row.growth = growth /\ row.unused = served.unused
       /\ row.short = (served.short \/ EventShort(event, cash))
  OBVIOUS
<1> HIDE DEF row
<1>26. Bought(books.event) => PaidFrom(LastCash(books, rows), LastDebts(books, rows), row)
  <2>1. SUFFICES ASSUME Bought(books.event), ~row.short
                 PROVE  AllInFull(free + earned, debt, debt')
    BY <1>3, <1>25 DEF PaidFrom
  <2>2. earned = flow
    <3>1. event.type # "buy_property" => CashOf(event) = 0
      BY <1>7, <2>1
    <3> QED
      BY <1>5, <3>1 DEF earned
  <2>3. AllInFull(free + flow, debt, served.debt)
    BY <1>1, <1>13, <1>25, <2>1
  <2>4. ASSUME NEW d \in Unpaid(debt) PROVE debt'[d] = served.debt[d]
    <3>1. d \in Debts /\ debt[d] > 0
      BY <2>4 DEF Unpaid
    <3>2. d # Mortgage \/ ~Bought(event)
      BY <1>17, <3>1
    <3> QED
      BY <1>18, <3>1, <3>2
  <2> QED
    BY <2>2, <2>3, <2>4 DEF AllInFull
<1>27. /\ rows' \in Seq(Row) /\ Len(rows') = t + 1
       /\ LastWorth(books, rows') = worth /\ LastDebts(books, rows') = debt'
       /\ LastCash(books, rows') = free'
       /\ Explained(books, rows') /\ Covered(books, rows')
  BY <1>1, <1>2, <1>3, <1>23, <1>24, <1>25, <1>26, OneMonthMore
<1>28. Bought(books.event) /\ t + 1 <= books.event.at => debt'[Mortgage] = 0
  <2>1. SUFFICES ASSUME Bought(books.event), t + 1 <= books.event.at
                 PROVE  debt'[Mortgage] = 0
    OBVIOUS
  <2>2. ~Bought(event) /\ debt[Mortgage] = 0
    BY <1>2, <1>3, <1>4, <1>17, <2>1
  <2> QED
    BY <1>13, <1>16, <1>18, <2>2
<1>29. Follows(books, free', portfolio' + property', held', debt', rows')
  BY <1>3, <1>27, <1>28 DEF Follows, worth
<1>30. recurring' \in Int
  BY <1>1, <1>2, <1>4, <1>7
<1>31. ProjectTypeOK'
  BY <1>1, <1>3, <1>15, <1>18, <1>19, <1>20, <1>27, <1>30 DEF ProjectTypeOK
<1> QED
  BY <1>1, <1>29, <1>31, ProjectFollowsNext

LEMMA ProjectExplains == ProjectFollows => NetWorthExplained
BY DEF ProjectFollows, Follows, Explained, NetWorthExplained, WorthBefore

LEMMA ProjectSolvent == ProjectTypeOK /\ ProjectFollows => AffordableSolvent
<1>1. SUFFICES ASSUME ProjectTypeOK, ProjectFollows, Bought(books.event),
                      EvaluateAffordability = "AFFORDABLE", NEW i \in DOMAIN rows
               PROVE  Unpaid(DebtsBefore(i)) # {} =>
                        /\ CashBefore(i) + rows[i].earned >= MinimumsOf(DebtsBefore(i))
                        /\ \A d \in Unpaid(DebtsBefore(i)) :
                             Settled(DebtsBefore(i)[d], rows[i].debts[d], d)
  BY DEF AffordableSolvent
<1>2. ~rows[i].short
  BY <1>1 DEF EvaluateAffordability, Considered
<1>3. rows # <<>>
  BY <1>1
<1>4. books # None /\ Covered(books, rows)
  BY <1>1, <1>3 DEF ProjectFollows, Follows
<1>5. PaidFrom(CashBefore(i), DebtsBefore(i), rows[i])
  BY <1>1, <1>4 DEF Covered, CashBefore, DebtsBefore
<1> QED
  BY <1>2, <1>5 DEF PaidFrom, AllInFull

-----------------------------------------------------------------------------
(* The two calculations together.                                           *)

Sound == PlanTypeOK /\ ProjectTypeOK /\ PlanRuns /\ PlanSumsUp /\ ProjectFollows

LEMMA InitSound == Init => Sound
BY PlanInitIs, ProjectInitIs DEF Init, Sound

LEMMA NextSound == Sound /\ [Next]_treasuryVars => Sound'
<1> SUFFICES ASSUME Sound, [Next]_treasuryVars PROVE Sound'
  OBVIOUS
<1> USE DEF Sound
<1>1. CASE PlanNext /\ UNCHANGED projectVars
  <2>1. ProjectTypeOK' /\ ProjectFollows'
    BY <1>1, ProjectRests
  <2>2. CASE PlanMonth
    BY <2>1, <2>2, PlanMonthIs
  <2>3. ASSUME NEW p \in Inputs, BuildPaymentPlan(p) PROVE Sound'
    BY <2>1, <2>3, BuildIs
  <2> QED
    BY <1>1, <2>2, <2>3 DEF PlanNext
<1>2. CASE ProjectNext /\ UNCHANGED planVars
  <2>1. PlanTypeOK' /\ PlanRuns' /\ PlanSumsUp'
    BY <1>2, PlanRests
  <2>2. CASE ProjectMonth
    BY <2>1, <2>2, ProjectMonthIs
  <2>3. CASE ProjectThrows
    BY <2>1, <2>3, ProjectThrowsIs
  <2>4. ASSUME NEW b \in Books, ProjectStart(b) PROVE Sound'
    BY <2>1, <2>4, ProjectStartIs
  <2> QED
    BY <1>2, <2>2, <2>3, <2>4 DEF ProjectNext
<1>3. CASE UNCHANGED treasuryVars
  BY <1>3, PlanRests, ProjectRests DEF treasuryVars
<1> QED
  BY <1>1, <1>2, <1>3 DEF Next

(* The plan and the projection each keep what the theorems below rest on,   *)
(* and the steps of one leave the other alone.                              *)
THEOREM TreasurySound == Spec => []Sound
<1> QED
  BY InitSound, NextSound, PTL DEF Spec

(* No debt, no cash of a plan and no deposit goes negative, a plan does not *)
(* run beyond its last month, and the rows of a projection are of their     *)
(* type (payment-plan.ts, project.ts).                                      *)
THEOREM TreasuryTyped == Spec => []TypeOK
<1>1. Sound => TypeOK
  BY DEF Sound, TypeOK
<1> QED
  BY <1>1, TreasurySound, PTL

(* What a plan says was paid is the principal paid off and the interest,    *)
(* comes out of the cash beyond the reserve, the minimums, the surplus and  *)
(* the deposits released so far, and leaves no cash over while debts are    *)
(* (payment-plan.ts:434-618).                                               *)
THEOREM PlanAddsUp == Spec => []PaymentsAddUp
<1>1. Sound => PaymentsAddUp
  BY PlanPays DEF Sound
<1> QED
  BY <1>1, TreasurySound, PTL

(* A month of a projection changes net worth by what was earned, the        *)
(* interest, the growth and the unused part of last installments alone      *)
(* (project.ts:281-304).                                                    *)
THEOREM WorthIsExplained == Spec => []NetWorthExplained
<1>1. Sound => NetWorthExplained
  BY ProjectExplains DEF Sound
<1> QED
  BY <1>1, TreasurySound, PTL

(* When a purchase is called AFFORDABLE the money of every month covers all *)
(* its installments together, and each debt gets its interest whole and the *)
(* rest of the installment taken off; nothing is assumed of the size of an  *)
(* installment (affordability.ts:36, 63-117).                               *)
THEOREM AffordableIsSolvent == Spec => []AffordableSolvent
<1>1. Sound => AffordableSolvent
  BY ProjectSolvent DEF Sound
<1> QED
  BY <1>1, TreasurySound, PTL
=============================================================================
