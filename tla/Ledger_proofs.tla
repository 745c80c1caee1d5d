---------------------------- MODULE Ledger_proofs ----------------------------
(* Proofs about Ledger: types, books that balance, requests posted once,    *)
(* debts no deeper than reported, and lots in line with the document.  The  *)
(* balance is a sum over all accounts: what a sum is, and how it moves with *)
(* one account, comes first, by induction on the size of the set summed.    *)
EXTENDS Ledger, FiniteSetTheorems, TLAPS

-----------------------------------------------------------------------------
(* Sums over finite sets.  NatSet is induction on the naturals in first     *)
(* order form: a set of numbers in place of a predicate.                    *)

LEMMA NatSet ==
    ASSUME NEW N \in SUBSET Nat, 0 \in N, \A n \in N : n + 1 \in N
    PROVE  \A n \in Nat : n \in N
<1> SUFFICES ASSUME Nat \ N # {} PROVE FALSE
  OBVIOUS
<1>1. PICK m \in Nat \ N : \A k \in Nat \ N : <<k, m>> \notin OpToRel(<, Nat)
  BY NatLessThanWellFounded, WFMin
<1>2. \A k \in Nat \ N : ~ (k < m)
  BY <1>1 DEF OpToRel
<1>3. m # 0 /\ m - 1 \in Nat
  OBVIOUS
<1>4. m - 1 \in N
  BY <1>2, <1>3
<1>5. (m - 1) + 1 \in N
  BY <1>4
<1> QED
  BY <1>5

\* The table SumFunctionOnSet is read from, one member taken out at a time.
AnyOf(s) == CHOOSE x \in s : TRUE
IsSum(g, f, T) == g = [s \in SUBSET T |-> IF s = {} THEN 0 ELSE f[AnyOf(s)] + g[s \ {AnyOf(s)}]]
Table(f, T) == CHOOSE g : IsSum(g, f, T)

LEMMA SumTable == ASSUME NEW f, NEW T PROVE SumFunctionOnSet(f, T) = Table(f, T)[T]
BY DEF SumFunctionOnSet, FoldFunctionOnSet, MapThenFoldSet, Table, IsSum, AnyOf

LEMMA AnyMember == ASSUME NEW s, s # {} PROVE AnyOf(s) \in s
BY DEF AnyOf

\* A smaller set.
LEMMA OneLess ==
    ASSUME NEW T, IsFiniteSet(T), NEW s \in SUBSET T, NEW x \in s
    PROVE  /\ s \ {x} \in SUBSET T
           /\ Cardinality(s) \in Nat /\ Cardinality(s \ {x}) \in Nat
           /\ Cardinality(s) = Cardinality(s \ {x}) + 1
<1>1. IsFiniteSet(s)
  BY FS_Subset
<1>2. Cardinality(s) \in Nat
  BY <1>1, FS_CardinalityType
<1>3. Cardinality(s \ {x}) = Cardinality(s) - 1 /\ IsFiniteSet(s \ {x})
  BY <1>1, FS_RemoveElement
<1> QED
  BY <1>2, <1>3, FS_CardinalityType

LEMMA TableIs ==
    ASSUME NEW T, IsFiniteSet(T), NEW f, \A x \in T : f[x] \in Int
    PROVE  /\ Table(f, T)[{}] = 0
           /\ \A s \in SUBSET T : s # {} =>
                Table(f, T)[s] = f[AnyOf(s)] + Table(f, T)[s \ {AnyOf(s)}]
           /\ \A s \in SUBSET T : Table(f, T)[s] \in Int
<1> DEFINE Eqn(g, s) == g[s] = IF s = {} THEN 0 ELSE f[AnyOf(s)] + g[s \ {AnyOf(s)}]
           Upto(g, n) == \A s \in SUBSET T : Cardinality(s) <= n => Eqn(g, s)
           N == {n \in Nat : \E g \in [SUBSET T -> Int] : Upto(g, n)}
<1>0. \A s \in SUBSET T : Cardinality(s) \in Nat /\ (Cardinality(s) = 0 <=> s = {})
  BY FS_Subset, FS_CardinalityType, FS_EmptySet
<1>1. 0 \in N
  <2> DEFINE g == [s \in SUBSET T |-> 0]
  <2>1. g \in [SUBSET T -> Int] /\ Upto(g, 0)
    BY <1>0
  <2> QED
    BY <2>1
<1>2. ASSUME NEW n \in N PROVE n + 1 \in N
  <2>1. PICK g \in [SUBSET T -> Int] : Upto(g, n)
    BY <1>2
  <2> DEFINE h == [s \in SUBSET T |-> IF s = {} THEN 0 ELSE f[AnyOf(s)] + g[s \ {AnyOf(s)}]]
  <2>2. h \in [SUBSET T -> Int]
    <3>1. \A s \in SUBSET T : s # {} => f[AnyOf(s)] \in Int /\ g[s \ {AnyOf(s)}] \in Int
      BY AnyMember
    <3>2. \A s \in SUBSET T : (IF s = {} THEN 0 ELSE f[AnyOf(s)] + g[s \ {AnyOf(s)}]) \in Int
      <4> TAKE s \in SUBSET T
      <4>1. CASE s = {}
        BY <4>1
      <4>2. CASE s # {}
        BY <3>1, <4>2
      <4> QED
        BY <4>1, <4>2
    <3> QED
      BY <3>2
  <2>3. ASSUME NEW s \in SUBSET T, Cardinality(s) <= n + 1 PROVE Eqn(h, s)
    <3>0. h[s] = IF s = {} THEN 0 ELSE f[AnyOf(s)] + g[s \ {AnyOf(s)}]
      OBVIOUS
    <3>1. CASE s = {}
      BY <3>0, <3>1 DEF h
    <3>2. CASE s # {}
      <4> DEFINE r == s \ {AnyOf(s)}
      <4>1. r \in SUBSET T /\ Cardinality(r) <= n
        BY <2>3, <3>2, AnyMember, OneLess, <1>0
      <4>2. h[r] = g[r]
        BY <2>1, <4>1
      <4> QED
        BY <3>0, <3>2, <4>1, <4>2
    <3> QED
      BY <3>1, <3>2
  <2>4. Upto(h, n + 1)
    BY <2>3
  <2>5. \E k \in [SUBSET T -> Int] : Upto(k, n + 1)
    <3> HIDE DEF h
    <3> QED
      BY <2>2, <2>4
  <2>6. n + 1 \in Nat
    OBVIOUS
  <2> HIDE DEF Upto
  <2> QED
    BY <2>5, <2>6
<1>3. Cardinality(T) \in N
  <2> HIDE DEF N
  <2>1. N \subseteq Nat
    BY DEF N
  <2> QED
    BY <1>1, <1>2, <2>1, NatSet, FS_CardinalityType
<1>4. PICK g \in [SUBSET T -> Int] : Upto(g, Cardinality(T))
  BY <1>3
<1>5. \A s \in SUBSET T : Eqn(g, s)
  BY <1>4, FS_Subset
<1>6. IsSum(g, f, T)
  BY <1>5 DEF IsSum
<1>7. IsSum(Table(f, T), f, T)
  BY <1>6 DEF Table
<1> DEFINE t == Table(f, T)
<1>8. \A s \in SUBSET T : t[s] = IF s = {} THEN 0 ELSE f[AnyOf(s)] + t[s \ {AnyOf(s)}]
  <2> HIDE DEF t
  <2> QED
    BY <1>7 DEF IsSum, t
<1>9. \A s \in SUBSET T : t[s] \in Int
  <2> HIDE DEF t
  <2> DEFINE M == {n \in Nat : \A s \in SUBSET T : Cardinality(s) = n => t[s] \in Int}
  <2>0. \A s \in SUBSET T : (s = {} => t[s] = 0) /\ (s # {} => t[s] = f[AnyOf(s)] + t[s \ {AnyOf(s)}])
    BY <1>8
  <2>1. 0 \in M
    <3>1. ASSUME NEW s \in SUBSET T, Cardinality(s) = 0 PROVE t[s] \in Int
      <4>1. s = {}
        BY <1>0, <3>1
      <4>2. t[s] = 0
        BY <2>0, <4>1
      <4> QED
        BY <4>2
    <3> QED
      BY <3>1
  <2>2. ASSUME NEW n \in M PROVE n + 1 \in M
    <3> SUFFICES ASSUME NEW s \in SUBSET T, Cardinality(s) = n + 1 PROVE t[s] \in Int
      OBVIOUS
    <3>1. s # {}
      BY <1>0
    <3>2. s \ {AnyOf(s)} \in SUBSET T /\ Cardinality(s \ {AnyOf(s)}) = n
      BY <3>1, AnyMember, OneLess
    <3>3. t[s \ {AnyOf(s)}] \in Int /\ f[AnyOf(s)] \in Int
      BY <3>1, <3>2, AnyMember
    <3> QED
      BY <2>0, <3>1, <3>3
  <2>3. \A n \in Nat : n \in M
    <3> HIDE DEF M
    <3>1. M \subseteq Nat
      BY DEF M
    <3> QED
      BY <2>1, <2>2, <3>1, NatSet
  <2> QED
    BY <2>3, <1>0
<1> QED
  BY <1>8, <1>9

\* The value of a table depends on the set summed, and on f inside it, only.
LEMMA TablesAgree ==
    ASSUME NEW T, IsFiniteSet(T), NEW f, \A x \in T : f[x] \in Int,
           NEW V, IsFiniteSet(V), NEW h, \A x \in V : h[x] \in Int
    PROVE  \A s \in SUBSET (T \cap V) :
             (\A x \in s : f[x] = h[x]) => Table(f, T)[s] = Table(h, V)[s]
<1> DEFINE Same(s) == (\A x \in s : f[x] = h[x]) => Table(f, T)[s] = Table(h, V)[s]
           N == {n \in Nat : \A s \in SUBSET (T \cap V) : Cardinality(s) = n => Same(s)}
<1>1. ASSUME NEW s \in SUBSET (T \cap V), s = {} PROVE Same(s)
  <2>1. Table(f, T)[{}] = 0 /\ Table(h, V)[{}] = 0
    BY TableIs
  <2> QED
    BY <1>1, <2>1
<1>2. \A s \in SUBSET (T \cap V) : IsFiniteSet(s) /\ Cardinality(s) \in Nat
                                   /\ (Cardinality(s) = 0 <=> s = {})
  BY FS_Subset, FS_CardinalityType, FS_EmptySet
<1>3. 0 \in N
  BY <1>1, <1>2
<1>4. ASSUME NEW n \in N PROVE n + 1 \in N
  <2>1. ASSUME NEW s \in SUBSET (T \cap V), Cardinality(s) = n + 1, \A x \in s : f[x] = h[x]
        PROVE  Table(f, T)[s] = Table(h, V)[s]
    <3>1. s # {} /\ s \in SUBSET T /\ s \in SUBSET V /\ n \in Nat
      BY <1>2, <2>1
    <3> DEFINE a == AnyOf(s)
               r == s \ {a}
    <3>2. a \in s
      BY <3>1, AnyMember
    <3>3. r \in SUBSET (T \cap V) /\ Cardinality(r) = n
      BY <2>1, <3>1, <3>2, OneLess
    <3>4. Table(f, T)[r] = Table(h, V)[r]
      BY <2>1, <3>3
    <3>5. Table(f, T)[s] = f[a] + Table(f, T)[r]
      BY <3>1, TableIs
    <3>6. Table(h, V)[s] = h[a] + Table(h, V)[r]
      BY <3>1, TableIs
    <3> QED
      BY <2>1, <3>2, <3>4, <3>5, <3>6
  <2> QED
    BY <2>1
<1>5. \A n \in Nat : n \in N
  <2> HIDE DEF N
  <2>1. N \subseteq Nat
    BY DEF N
  <2> QED
    BY <1>3, <1>4, <2>1, NatSet
<1> QED
  BY <1>2, <1>5

LEMMA SumIsInt ==
    ASSUME NEW T, IsFiniteSet(T), NEW f, \A x \in T : f[x] \in Int
    PROVE  SumFunctionOnSet(f, T) \in Int
BY TableIs, SumTable

LEMMA SumOfNone == ASSUME NEW f PROVE SumFunctionOnSet(f, {}) = 0
BY TableIs, SumTable, FS_EmptySet

LEMMA SumsAgree ==
    ASSUME NEW T, IsFiniteSet(T), NEW f, NEW h, \A x \in T : f[x] \in Int /\ f[x] = h[x]
    PROVE  SumFunctionOnSet(f, T) = SumFunctionOnSet(h, T)
BY TablesAgree, SumTable

\* Any member may be taken out first.
LEMMA SumWithout ==
    ASSUME NEW T, IsFiniteSet(T), NEW f, \A x \in T : f[x] \in Int, NEW x \in T
    PROVE  SumFunctionOnSet(f, T) = f[x] + SumFunctionOnSet(f, T \ {x})
<1> DEFINE t == Table(f, T)
           N == {n \in Nat : \A s \in SUBSET T : Cardinality(s) = n =>
                               \A y \in s : t[s] = f[y] + t[s \ {y}]}
<1>1. \A s \in SUBSET T : IsFiniteSet(s) /\ Cardinality(s) \in Nat
                          /\ (Cardinality(s) = 0 <=> s = {})
  BY FS_Subset, FS_CardinalityType, FS_EmptySet
<1>2. \A s \in SUBSET T : t[s] \in Int
  BY TableIs
<1>3. 0 \in N
  <2>1. \A s \in SUBSET T : Cardinality(s) = 0 => \A y \in s : t[s] = f[y] + t[s \ {y}]
    BY <1>1
  <2> QED
    BY <2>1
<1>4. ASSUME NEW n \in N PROVE n + 1 \in N
  <2>1. ASSUME NEW s \in SUBSET T, Cardinality(s) = n + 1, NEW y \in s
        PROVE  t[s] = f[y] + t[s \ {y}]
    <3> DEFINE a == AnyOf(s)
    <3>1. s # {} /\ a \in s /\ n \in Nat
      BY AnyMember
    <3>2. t[s] = f[a] + t[s \ {a}]
      BY <3>1, TableIs
    <3>3. CASE y = a
      BY <3>2, <3>3
    <3>4. CASE y # a
      <4>1. /\ s \ {a} \in SUBSET T /\ Cardinality(s \ {a}) = n
            /\ s \ {y} \in SUBSET T /\ Cardinality(s \ {y}) = n
            /\ (s \ {a}) \ {y} \in SUBSET T /\ (s \ {a}) \ {y} = (s \ {y}) \ {a}
        BY <2>1, <3>1, OneLess
      <4>2. t[s \ {a}] = f[y] + t[(s \ {a}) \ {y}]
        <5>1. y \in s \ {a}
          BY <3>4
        <5> QED
          BY <4>1, <5>1
      <4>3. t[s \ {y}] = f[a] + t[(s \ {y}) \ {a}]
        <5>1. a \in s \ {y}
          BY <3>1, <3>4
        <5> QED
          BY <4>1, <5>1
      <4>4. f[a] \in Int /\ f[y] \in Int /\ t[(s \ {a}) \ {y}] \in Int
        BY <1>2, <3>1, <4>1
      <4>5. t[(s \ {y}) \ {a}] = t[(s \ {a}) \ {y}]
        BY <4>1
      <4> HIDE DEF t, a
      <4>6. \A i, j, k, l, m \in Int : k = i + l /\ l = j + m => k = j + (i + m)
        OBVIOUS
      <4> QED
        BY <1>2, <2>1, <3>2, <4>1, <4>2, <4>3, <4>4, <4>5, <4>6
    <3> QED
      BY <3>3, <3>4
  <2> QED
    BY <2>1
<1>5. \A n \in Nat : n \in N
  <2> HIDE DEF N
  <2>1. N \subseteq Nat
    BY DEF N
  <2> QED
    BY <1>3, <1>4, <2>1, NatSet
<1>6. t[T] = f[x] + t[T \ {x}]
  BY <1>1, <1>5
<1>7. t[T \ {x}] = Table(f, T \ {x})[T \ {x}]
  BY TablesAgree, FS_Subset
<1> QED
  BY <1>6, <1>7, SumTable

LEMMA SumOfZeros ==
    ASSUME NEW T, IsFiniteSet(T), NEW f, \A x \in T : f[x] = 0
    PROVE  SumFunctionOnSet(f, T) = 0
<1> DEFINE t == Table(f, T)
           N == {n \in Nat : \A s \in SUBSET T : Cardinality(s) = n => t[s] = 0}
<1>1. \A s \in SUBSET T : IsFiniteSet(s) /\ Cardinality(s) \in Nat
                          /\ (Cardinality(s) = 0 <=> s = {})
  BY FS_Subset, FS_CardinalityType, FS_EmptySet
<1>2. t[{}] = 0
  BY TableIs
<1>3. 0 \in N
  BY <1>1, <1>2
<1>4. ASSUME NEW n \in N PROVE n + 1 \in N
  <2>1. ASSUME NEW s \in SUBSET T, Cardinality(s) = n + 1 PROVE t[s] = 0
    <3>1. s # {} /\ AnyOf(s) \in s
      BY <1>1, <2>1, AnyMember
    <3>2. s \ {AnyOf(s)} \in SUBSET T /\ Cardinality(s \ {AnyOf(s)}) = n
      BY <2>1, <3>1, OneLess
    <3>3. t[s] = f[AnyOf(s)] + t[s \ {AnyOf(s)}]
      BY <3>1, TableIs
    <3>4. f[AnyOf(s)] = 0 /\ t[s \ {AnyOf(s)}] = 0
      BY <3>1, <3>2
    <3> HIDE DEF t
    <3> QED
      BY <3>3, <3>4
  <2> QED
    BY <2>1
<1>5. \A n \in Nat : n \in N
  <2> HIDE DEF N
  <2>1. N \subseteq Nat
    BY DEF N
  <2> QED
    BY <1>3, <1>4, <2>1, NatSet
<1> QED
  BY <1>1, <1>5, SumTable

-----------------------------------------------------------------------------
(* Totals of accounts.                                                      *)

LEMMA TotalIsSum ==
    ASSUME NEW T, IsFiniteSet(T), NEW f \in [T -> Int]
    PROVE  Total(f) = SumFunctionOnSet(f, T) /\ Total(f) \in Int
<1>1. Total(f) = SumFunctionOnSet(f, T)
  BY DEF Total, FoldFunction, SumFunctionOnSet
<1> QED
  BY <1>1, SumIsInt

\* An account moves the total by what it moves itself.
LEMMA TotalMoved ==
    ASSUME NEW T, IsFiniteSet(T), NEW f \in [T -> Int], NEW h \in [T -> Int], NEW x \in T,
           \A y \in T \ {x} : h[y] = f[y]
    PROVE  Total(h) = Total(f) - f[x] + h[x]
<1>1. IsFiniteSet(T \ {x})
  BY FS_RemoveElement
<1>2. SumFunctionOnSet(h, T \ {x}) = SumFunctionOnSet(f, T \ {x})
  BY <1>1, SumsAgree
<1>3. SumFunctionOnSet(f, T \ {x}) \in Int
  BY <1>1, SumIsInt
<1>4. /\ SumFunctionOnSet(f, T) = f[x] + SumFunctionOnSet(f, T \ {x})
      /\ SumFunctionOnSet(h, T) = h[x] + SumFunctionOnSet(h, T \ {x})
  BY SumWithout
<1>5. f[x] \in Int /\ h[x] \in Int
  OBVIOUS
<1> QED
  BY <1>2, <1>3, <1>4, <1>5, TotalIsSum

-----------------------------------------------------------------------------
(* Lots and their figures.                                                  *)

Working == [step : {"loaded", "posted"}, revision : Nat, lots : [Lots -> Lot \cup {None}]]

LEMMA NearestType ==
    ASSUME NEW n \in Int, NEW d \in Int, d # 0 PROVE Nearest(n, d) \in Int
<1>1. CASE d > 0
  <2>1. 2 * d \in Int /\ 2 * d > 0 /\ 2 * n + d \in Int
    BY <1>1
  <2> QED
    BY <1>1, <2>1 DEF Nearest
<1>2. CASE d < 0
  <2>1. -2 * d \in Int /\ -2 * d > 0 /\ d - 2 * n \in Int
    BY <1>2
  <2> QED
    BY <1>2, <2>1 DEF Nearest
<1> QED
  BY <1>1, <1>2

LEMMA TruncatedType ==
    ASSUME NEW n \in Int, NEW d \in Int, d > 0 PROVE Truncated(n, d) \in Int
<1>1. (-n) \in Int
  OBVIOUS
<1> QED
  BY <1>1 DEF Truncated

LEMMA LotFigures ==
    ASSUME NEW l \in Lots, NEW lot \in Lot \cup {None}
    PROVE  SignedCost(l, lot) \in Int /\ UnitsOf(lot) \in Int /\ UnitPrice(lot) \in Int
<1>1. CASE lot = None
  BY <1>1 DEF SignedCost, UnitsOf, UnitPrice
<1>2. CASE lot # None
  <2>1. lot.units \in Int /\ lot.units # 0 /\ lot.cost \in Int
    BY <1>2 DEF Lot
  <2> QED
    BY <1>2, <2>1, NearestType DEF SignedCost, UnitsOf, UnitPrice
<1> QED
  BY <1>1, <1>2

LEMMA BoughtType ==
    ASSUME NEW u \in 1 .. MaxUnits, NEW p \in Prices
    PROVE  Bought(u, p) \in Lot /\ u * p \in Int /\ u \in Int /\ u > 0 /\ p \in Int
<1>1. u \in Int \ {0} /\ p \in Int /\ u > 0
  BY LedgerAssumption
<1>2. u * p \in Int
  BY <1>1
<1> QED
  BY <1>1, <1>2 DEF Bought, Lot

LEMMA NextAverageType ==
    ASSUME TypeOK, NEW l \in Lots, NEW units \in Int, NEW p \in Int \cup {None},
           NEW signed \in BOOLEAN, ~signed => quantity[l] + units >= 0
    PROVE  NextAverage(l, units, p, signed) \in Int
<1> DEFINE next == quantity[l] + units
<1>1. next \in Int /\ quantity[l] \in Int /\ average[l] \in Int
  BY DEF TypeOK
<1>2. CASE next = 0
  BY <1>2 DEF NextAverage
<1>3. CASE next # 0 /\ p # None /\ signed
  BY <1>3 DEF NextAverage
<1>4. CASE next # 0 /\ ~(p # None /\ signed) /\ p # None /\ units > 0
  <2>1. next > 0
    BY <1>1, <1>4
  <2>2. average[l] * quantity[l] + p * units \in Int
    BY <1>1, <1>4
  <2>3. Truncated(average[l] * quantity[l] + p * units, next) \in Int
    BY <2>1, <2>2, <1>1, TruncatedType
  <2> QED
    BY <1>4, <2>3 DEF NextAverage
<1>5. CASE next # 0 /\ ~(p # None /\ signed) /\ ~(p # None /\ units > 0)
  BY <1>1, <1>5 DEF NextAverage
<1> QED
  BY <1>2, <1>3, <1>4, <1>5

-----------------------------------------------------------------------------
(* Parts of the operations: what each does to the accounts and to a job.     *)

LEMMA MoveCashType ==
    ASSUME TypeOK, NEW c \in Channels, NEW delta \in Int, MoveCash(c, delta)
    PROVE  cash' \in [Channels -> Int]
BY DEF MoveCash, TypeOK

LEMMA MoveLotType ==
    ASSUME TypeOK, NEW l \in Lots, NEW units \in Int, NEW amount \in Int,
           NEW p \in Int \cup {None}, NEW signed \in BOOLEAN,
           MoveLot(l, units, amount, p, signed)
    PROVE  /\ quantity' \in [Lots -> Int]
           /\ basis' \in [Lots -> Int]
           /\ average' \in [Lots -> Int]
<1>1. NextAverage(l, units, p, signed) \in Int
  BY NextAverageType DEF MoveLot
<1> QED
  BY <1>1 DEF MoveLot, TypeOK

LEMMA AgainstType ==
    ASSUME TypeOK, NEW amount \in Int, NEW adjustCash \in BOOLEAN,
           AgainstCashOrEquity(amount, adjustCash)
    PROVE  cash' \in [Channels -> Int]
<1>1. CASE adjustCash
  BY <1>1, MoveCashType, LedgerAssumption DEF AgainstCashOrEquity
<1>2. CASE ~adjustCash
  BY <1>2 DEF AgainstCashOrEquity, TypeOK
<1> QED
  BY <1>1, <1>2

LEMMA EnteredType ==
    ASSUME TypeOK, NEW r \in Requests \cup {Fresh}, Entered(r)
    PROVE  journal' \in SUBSET Requests
BY DEF Entered, TypeOK

LEMMA WorkingJob ==
    ASSUME TypeOK, NEW j \in Jobs, job[j].step # "idle"
    PROVE  job[j] \in Working
BY DEF TypeOK, Working, Idle

LEMMA BecomesType ==
    ASSUME TypeOK, NEW j \in Jobs, job[j].step = "loaded",
           NEW lots \in [Lots -> Lot \cup {None}], Becomes(j, "posted", lots)
    PROVE  job' \in [Jobs -> {Idle} \cup Working]
<1>1. job[j] \in Working
  BY WorkingJob
<1>2. [job[j] EXCEPT !.step = "posted", !.lots = lots] \in Working
  BY <1>1 DEF Working
<1>3. job' = [job EXCEPT ![j] = [job[j] EXCEPT !.step = "posted", !.lots = lots]]
  BY DEF Becomes, TypeOK
<1> QED
  BY <1>2, <1>3 DEF TypeOK, Working

LEMMA ReplaceLotsType ==
    ASSUME TypeOK, NEW lots \in [Lots -> Lot \cup {None}], ReplaceLots(lots)
    PROVE  /\ quantity' \in [Lots -> Int]
           /\ basis' \in [Lots -> Int]
           /\ average' \in [Lots -> Int]
BY LotFigures DEF ReplaceLots, TypeOK

-----------------------------------------------------------------------------
(* Types.                                                                    *)

LEMMA PostCashType ==
    ASSUME TypeOK, NEW r \in Requests \cup {Fresh}, NEW c \in Channels,
           NEW delta \in Int, PostCash(r, c, delta)
    PROVE  TypeOK'
<1>1. cash' \in [Channels -> Int] /\ journal' \in SUBSET Requests
  BY MoveCashType, EnteredType DEF PostCash
<1> QED
  BY <1>1 DEF PostCash, LotsUntouched, BooksOnly, document, TypeOK

LEMMA MoveDepositType ==
    ASSUME TypeOK, NEW r \in Requests \cup {Fresh}, NEW d \in Deposits,
           NEW amount \in Int, NEW adjustCash \in BOOLEAN,
           MoveDeposit(r, d, amount, adjustCash)
    PROVE  TypeOK'
<1>1. deposit' \in [Deposits -> Nat]
  BY DEF MoveDeposit, TypeOK
<1>2. cash' \in [Channels -> Int]
  BY LedgerAssumption, MoveCashType DEF MoveDeposit, TypeOK
<1>3. journal' \in SUBSET Requests
  BY EnteredType DEF MoveDeposit
<1> QED
  BY <1>1, <1>2, <1>3 DEF MoveDeposit, LotsUntouched, BooksOnly, document, TypeOK

LEMMA OpenType ==
    ASSUME TypeOK, NEW j \in Jobs, NEW l \in Lots, NEW u \in 1 .. MaxUnits,
           NEW p \in Prices, NEW adjustCash \in BOOLEAN,
           PostHoldingOpen(j, l, u, p, adjustCash)
    PROVE  TypeOK'
<1> DEFINE before == job[j].lots[l]
           after  == IF before = None THEN Bought(u, p)
                     ELSE [units |-> before.units + u, cost |-> before.cost + u * p]
           amount == SignedCost(l, Bought(u, p))
<1>1. /\ MoveLot(l, u, amount, p, ~adjustCash)
      /\ AgainstCashOrEquity(amount, adjustCash)
      /\ Becomes(j, "posted", [job[j].lots EXCEPT ![l] = after])
      /\ before # None => before.units > 0 /\ before.cost > 0
      /\ job[j].step = "loaded"
      /\ ahead' = ahead \cup {l}
      /\ UNCHANGED <<deposit, document, journal, reported>>
  BY DEF PostHoldingOpen
<1>2. job[j] \in Working
  BY <1>1, WorkingJob
<1>3. before \in Lot \cup {None}
  BY <1>2 DEF Working
<1>4. after \in Lot
  <2>1. CASE before = None
    BY <2>1, BoughtType
  <2>2. CASE before # None
    <3>1. before.units \in Int /\ before.units > 0 /\ before.cost \in Int
      BY <1>1, <1>3, <2>2 DEF Lot
    <3>2. before.units + u \in Int \ {0} /\ before.cost + u * p \in Int
      BY <3>1, BoughtType
    <3> QED
      BY <2>2, <3>2 DEF Lot
  <2> QED
    BY <2>1, <2>2
<1>5. [job[j].lots EXCEPT ![l] = after] \in [Lots -> Lot \cup {None}]
  BY <1>2, <1>4 DEF Working
<1>6. job' \in [Jobs -> {Idle} \cup Working]
  BY <1>1, <1>5, BecomesType
<1>7. amount \in Int /\ u \in Int /\ p \in Int
  BY BoughtType, LotFigures
<1>8. /\ quantity' \in [Lots -> Int]
      /\ basis' \in [Lots -> Int]
      /\ average' \in [Lots -> Int]
  <2>1. MoveLot(l, u, amount, p, ~adjustCash)
    BY <1>1
  <2> QED
    BY <2>1, <1>7, MoveLotType
<1>9. cash' \in [Channels -> Int]
  BY <1>1, <1>7, AgainstType
<1> QED
  BY <1>1, <1>6, <1>8, <1>9 DEF document, Working, TypeOK

LEMMA CloseType ==
    ASSUME TypeOK, NEW j \in Jobs, NEW l \in Lots, NEW adjustCash \in BOOLEAN,
           PostHoldingClose(j, l, adjustCash)
    PROVE  TypeOK'
<1> DEFINE lot      == job[j].lots[l]
           closeQty == IF quantity[l] # 0 THEN quantity[l] ELSE lot.units
           closeBal == IF basis[l] # 0 THEN basis[l] ELSE SignedCost(l, lot)
<1>1. /\ job[j].step = "loaded"
      /\ lot # None
      /\ MoveLot(l, -closeQty, -closeBal, None, ~adjustCash)
      /\ AgainstCashOrEquity(-closeBal, adjustCash)
      /\ Becomes(j, "posted", [job[j].lots EXCEPT ![l] = None])
      /\ ahead' = ahead \cup {l}
      /\ UNCHANGED <<deposit, document, journal, reported>>
  BY DEF PostHoldingClose
<1>2. job[j] \in Working
  BY <1>1, WorkingJob
<1>3. lot \in Lot
  BY <1>1, <1>2 DEF Working
<1>4. job' \in [Jobs -> {Idle} \cup Working]
  <2>1. [job[j].lots EXCEPT ![l] = None] \in [Lots -> Lot \cup {None}]
    BY <1>2 DEF Working
  <2> QED
    BY <1>1, <2>1, BecomesType
<1>5. -closeQty \in Int /\ -closeBal \in Int
  <2>1. lot.units \in Int /\ SignedCost(l, lot) \in Int
    BY <1>3, LotFigures DEF Lot
  <2>2. closeQty \in Int /\ closeBal \in Int
    BY <2>1 DEF TypeOK
  <2> QED
    BY <2>2
<1>6. /\ quantity' \in [Lots -> Int]
      /\ basis' \in [Lots -> Int]
      /\ average' \in [Lots -> Int]
  <2>1. MoveLot(l, -closeQty, -closeBal, None, ~adjustCash)
    BY <1>1
  <2> QED
    BY <2>1, <1>5, MoveLotType
<1>7. cash' \in [Channels -> Int]
  BY <1>1, <1>5, AgainstType
<1> QED
  BY <1>1, <1>4, <1>6, <1>7 DEF document, Working, TypeOK

LEMMA SnapshotType ==
    ASSUME TypeOK, NEW j \in Jobs, NEW lots \in [Lots -> BrokerLots \cup {None}],
           NEW balance \in BrokerCash, NEW sections \in SUBSET {"positions", "cash"},
           PostSnapshot(j, lots, balance, sections)
    PROVE  TypeOK'
<1>1. lots \in [Lots -> Lot \cup {None}] /\ balance \in Int /\ Home \in Channels
  BY LedgerAssumption DEF Lot
<1>2. job[j] \in Working /\ job[j].step = "loaded"
  BY WorkingJob DEF PostSnapshot
<1>3. /\ quantity' \in [Lots -> Int]
      /\ basis' \in [Lots -> Int]
      /\ average' \in [Lots -> Int]
      /\ ahead' \in SUBSET Lots
      /\ job' \in [Jobs -> {Idle} \cup Working]
  <2>1. CASE "positions" \in sections
    BY <2>1, <1>1, <1>2, ReplaceLotsType, BecomesType DEF PostSnapshot
  <2>2. CASE "positions" \notin sections
    <3>1. job[j].lots \in [Lots -> Lot \cup {None}]
      BY <1>2 DEF Working
    <3>2. LotsUntouched /\ Becomes(j, "posted", job[j].lots)
      BY <2>2 DEF PostSnapshot
    <3> QED
      BY <3>1, <3>2, <1>2, BecomesType DEF LotsUntouched, TypeOK
  <2> QED
    BY <2>1, <2>2
<1>4. cash' \in [Channels -> Int] /\ reported' \in [Channels -> Int]
  BY <1>1 DEF PostSnapshot, TypeOK
<1>5. UNCHANGED <<deposit, document, journal>>
  BY DEF PostSnapshot
<1> QED
  BY <1>3, <1>4, <1>5 DEF document, Working, TypeOK

LEMMA SaveRecordType ==
    ASSUME TypeOK, NEW j \in Jobs, SaveRecord(j)
    PROVE  /\ job[j].lots \in [Lots -> Lot \cup {None}]
           /\ doc' \in [Lots -> Lot \cup {None}]
           /\ revision' \in Nat
           /\ job' \in [Jobs -> {Idle} \cup Working]
           /\ UNCHANGED <<journal, reported>>
<1>1. job[j] \in Working
  BY WorkingJob DEF SaveRecord
<1>2. job[j].lots \in [Lots -> Lot \cup {None}]
  BY <1>1 DEF Working
<1> QED
  BY <1>2 DEF SaveRecord, TypeOK, Working

LEMMA SaveType ==
    ASSUME TypeOK, NEW j \in Jobs, NEW balances \in [Channels -> -MaxMoney .. MaxMoney],
           NEW principals \in [Deposits -> 0 .. MaxMoney], Save(j, balances, principals)
    PROVE  TypeOK'
<1>1. SaveRecord(j) /\ ReplaceLots(job[j].lots) /\ ReplaceCash(balances, principals)
      /\ ahead' = {}
  BY DEF Save
<1>2. /\ quantity' \in [Lots -> Int]
      /\ basis' \in [Lots -> Int]
      /\ average' \in [Lots -> Int]
  BY <1>1, SaveRecordType, ReplaceLotsType
<1>3. cash' \in [Channels -> Int] /\ deposit' \in [Deposits -> Nat]
  BY <1>1, LedgerAssumption DEF ReplaceCash
<1> QED
  BY <1>1, <1>2, <1>3, SaveRecordType DEF Working, TypeOK

LEMMA SaveSameType ==
    ASSUME TypeOK, NEW j \in Jobs, SaveSameMoney(j) PROVE TypeOK'
BY SaveRecordType DEF SaveSameMoney, LotsUntouched, Working, TypeOK

LEMMA CashStepType == ASSUME TypeOK, CashStep PROVE TypeOK'
<1> USE LedgerAssumption
<1>1. PICK r \in Requests \cup {Fresh}, c \in Channels :
        \/ \E delta \in Signed(Amounts), create \in BOOLEAN : ApplyCashDelta(r, c, delta, create)
        \/ \E amount \in Amounts : OpeningBalance(r, c, amount)
        \/ \E delta \in Signed(Amounts) : CashAdjustment(r, c, delta)
        \/ ClearCashSleeve(r, c)
        \/ \E to \in Channels, amount \in Amounts : Transfer(r, c, to, amount)
  BY DEF CashStep
<1>2. Signed(Amounts) \subseteq Int
  <2>1. \A a \in Amounts : a \in Int /\ -a \in Int
    OBVIOUS
  <2> QED
    BY <2>1 DEF Signed
<1>3. CASE \/ \E delta \in Signed(Amounts), create \in BOOLEAN : ApplyCashDelta(r, c, delta, create)
           \/ \E amount \in Amounts : OpeningBalance(r, c, amount)
           \/ \E delta \in Signed(Amounts) : CashAdjustment(r, c, delta)
           \/ ClearCashSleeve(r, c)
  <2>1. cash[c] \in Int
    BY DEF TypeOK
  <2>2. \E delta \in Int : PostCash(r, c, delta)
    BY <1>2, <1>3, <2>1 DEF ApplyCashDelta, OpeningBalance, CashAdjustment, ClearCashSleeve
  <2> QED
    BY <2>2, PostCashType
<1>4. ASSUME NEW to \in Channels, NEW amount \in Amounts, Transfer(r, c, to, amount)
      PROVE  TypeOK'
  <2>1. journal' \in SUBSET Requests
    BY <1>4, EnteredType DEF Transfer
  <2>2. cash' \in [Channels -> Int]
    BY <1>4 DEF Transfer, TypeOK
  <2>3. UNCHANGED <<deposit, basis, quantity, average, ahead, doc, revision, job, reported>>
    BY <1>4 DEF Transfer, LotsUntouched, BooksOnly, document
  <2> QED
    BY <2>1, <2>2, <2>3 DEF TypeOK
<1> QED
  BY <1>1, <1>3, <1>4

LEMMA DepositStepType == ASSUME TypeOK, DepositStep PROVE TypeOK'
<1>1. PICK r \in Requests \cup {Fresh}, d \in Deposits, adjustCash \in BOOLEAN :
        \/ \E amount \in Amounts : AddDeposit(r, d, amount, adjustCash)
        \/ \E amount \in Amounts : MatureDeposit(r, d, amount, adjustCash)
        \/ RemoveDeposit(r, d, adjustCash)
  BY DEF DepositStep
<1>2. deposit[d] \in Int
  BY DEF TypeOK
<1>3. Amounts \subseteq Int
  BY LedgerAssumption
<1>4. \E amount \in Int : MoveDeposit(r, d, amount, adjustCash)
  BY <1>1, <1>2, <1>3 DEF AddDeposit, MatureDeposit, RemoveDeposit
<1> QED
  BY <1>4, MoveDepositType

LEMMA LotStepType == ASSUME TypeOK, LotStep PROVE TypeOK'
<1>1. ASSUME NEW j \in Jobs, Load(j) PROVE TypeOK'
  BY <1>1 DEF Load, Loaded, accounts, document, observed, TypeOK
<1>2. ASSUME NEW j \in Jobs, NEW l \in Lots, NEW u \in 1 .. MaxUnits, NEW p \in Prices,
             EditHolding(j, l, u, p)
      PROVE  TypeOK'
  <2>1. job[j] \in Working
    BY <1>2, WorkingJob DEF EditHolding
  <2>2. [job[j].lots EXCEPT ![l] = Bought(u, p)] \in [Lots -> Lot \cup {None}]
    BY <2>1, BoughtType DEF Working
  <2>3. job' \in [Jobs -> {Idle} \cup Working]
    BY <1>2, <2>2, BecomesType DEF EditHolding
  <2> QED
    BY <1>2, <2>3 DEF EditHolding, accounts, document, observed, Working, TypeOK
<1>3. ASSUME NEW j \in Jobs, Abandon(j) PROVE TypeOK'
  BY <1>3 DEF Abandon, accounts, document, observed, TypeOK
<1> QED
  BY <1>1, <1>2, <1>3, OpenType, CloseType, SnapshotType, SaveType, SaveSameType DEF LotStep

LEMMA InitType == Init => TypeOK
<1> SUFFICES ASSUME Init PROVE TypeOK
  OBVIOUS
<1> USE LedgerAssumption
<1>1. doc \in [Lots -> Lot \cup {None}]
  <2>1. \A p \in Prices : Bought(1, p) \in Lot
    BY DEF Bought, Lot
  <2> QED
    BY <2>1 DEF Init
<1>2. /\ basis \in [Lots -> Int]
      /\ quantity \in [Lots -> Int]
      /\ average \in [Lots -> Int]
  BY <1>1, LotFigures DEF Init
<1>3. /\ cash \in [Channels -> Int]
      /\ deposit \in [Deposits -> Nat]
      /\ journal \in SUBSET Requests
      /\ reported \in [Channels -> Int]
  <2>1. /\ cash \in [Channels -> {0} \cup Amounts \cup BrokerCash]
        /\ Amounts \subseteq Int /\ BrokerCash \subseteq Int
    BY DEF Init
  <2>2. {0} \cup Amounts \cup BrokerCash \subseteq Int
    BY <2>1
  <2>3. cash \in [Channels -> Int]
    BY <2>1, <2>2
  <2>4. /\ deposit = [d \in Deposits |-> 0]
        /\ journal = {}
        /\ reported = [c \in Channels |-> IF cash[c] < 0 THEN cash[c] ELSE 0]
    BY DEF Init
  <2> QED
    BY ONLY <2>3, <2>4
<1>4. job \in [Jobs -> {Idle}] /\ revision \in Nat /\ ahead \in SUBSET Lots
  BY DEF Init
<1> QED
  BY <1>1, <1>2, <1>3, <1>4 DEF TypeOK

LEMMA TypeStep == ASSUME TypeOK, [Next]_vars PROVE TypeOK'
<1>1. ASSUME UNCHANGED vars PROVE TypeOK'
  BY <1>1 DEF vars, TypeOK
<1> QED
  BY <1>1, CashStepType, DepositStepType, LotStepType DEF Next

(***************************************************************************)
(* Deposits are never overdrawn and the documents at work are documents    *)
(* (TypeOK), for any channels, lots, amounts and bounds.                   *)
(***************************************************************************)
THEOREM LedgerTyped == Spec => []TypeOK
<1>1. TypeOK /\ [Next]_vars => TypeOK'
  BY TypeStep
<1> QED
  BY <1>1, InitType, PTL DEF Spec

-----------------------------------------------------------------------------
(* What a step of cash, of deposits or of lots comes down to.                *)

LEMMA CashStepIs ==
    ASSUME TypeOK, CashStep
    PROVE  \E r \in Requests \cup {Fresh}, c \in Channels :
             \/ \E delta \in Int : PostCash(r, c, delta)
             \/ \E to \in Channels, amount \in Amounts : Transfer(r, c, to, amount)
<1>1. PICK r \in Requests \cup {Fresh}, c \in Channels :
        \/ \E delta \in Signed(Amounts), create \in BOOLEAN : ApplyCashDelta(r, c, delta, create)
        \/ \E amount \in Amounts : OpeningBalance(r, c, amount)
        \/ \E delta \in Signed(Amounts) : CashAdjustment(r, c, delta)
        \/ ClearCashSleeve(r, c)
        \/ \E to \in Channels, amount \in Amounts : Transfer(r, c, to, amount)
  BY DEF CashStep
<1>2. Signed(Amounts) \subseteq Int
  <2>1. \A a \in Amounts : a \in Int /\ -a \in Int
    BY LedgerAssumption
  <2> QED
    BY <2>1 DEF Signed
<1>3. cash[c] \in Int /\ Amounts \subseteq Int
  BY LedgerAssumption DEF TypeOK
<1> QED
  BY <1>1, <1>2, <1>3 DEF ApplyCashDelta, OpeningBalance, CashAdjustment, ClearCashSleeve

LEMMA DepositStepIs ==
    ASSUME TypeOK, DepositStep
    PROVE  \E r \in Requests \cup {Fresh}, d \in Deposits, amount \in Int,
              adjustCash \in BOOLEAN : MoveDeposit(r, d, amount, adjustCash)
<1>1. PICK r \in Requests \cup {Fresh}, d \in Deposits, adjustCash \in BOOLEAN :
        \/ \E amount \in Amounts : AddDeposit(r, d, amount, adjustCash)
        \/ \E amount \in Amounts : MatureDeposit(r, d, amount, adjustCash)
        \/ RemoveDeposit(r, d, adjustCash)
  BY DEF DepositStep
<1>2. deposit[d] \in Int
  BY DEF TypeOK
<1>3. Amounts \subseteq Int
  BY LedgerAssumption
<1>4. \E amount \in Int : MoveDeposit(r, d, amount, adjustCash)
  BY <1>1, <1>2, <1>3 DEF AddDeposit, MatureDeposit, RemoveDeposit
<1> QED
  BY <1>4

-----------------------------------------------------------------------------
(* Debts.                                                                    *)

LEMMA CoveredMove ==
    ASSUME TypeOK, DebtReported, NEW c \in Channels, NEW delta \in Int,
           CashCovers(c, delta), MoveCash(c, delta), reported' = reported
    PROVE  DebtReported'
BY DEF TypeOK, DebtReported, CashCovers, MoveCash

LEMMA CoveredTrade ==
    ASSUME TypeOK, DebtReported, NEW amount \in Int, NEW adjustCash \in BOOLEAN,
           AgainstCashOrEquity(amount, adjustCash), reported' = reported
    PROVE  DebtReported'
<1>1. CASE adjustCash
  BY <1>1, CoveredMove, LedgerAssumption DEF AgainstCashOrEquity
<1>2. CASE ~adjustCash
  BY <1>2 DEF AgainstCashOrEquity, DebtReported
<1> QED
  BY <1>1, <1>2

(***************************************************************************)
(* Debit cash comes from brokers only: a sleeve is at or above zero, or    *)
(* not deeper in debt than its broker last reported (DebtReported).        *)
(***************************************************************************)
THEOREM DebtsReported == Spec => []DebtReported
<1>1. Init => DebtReported
  <2> SUFFICES ASSUME Init PROVE DebtReported
    OBVIOUS
  <2>1. cash \in [Channels -> Int]
    BY InitType DEF TypeOK
  <2>2. reported = [c \in Channels |-> IF cash[c] < 0 THEN cash[c] ELSE 0]
    BY DEF Init
  <2> QED
    BY <2>1, <2>2 DEF DebtReported
<1>2. ASSUME TypeOK, DebtReported, [Next]_vars PROVE DebtReported'
  <2>1. CASE CashStep
    <3>1. PICK r \in Requests \cup {Fresh}, c \in Channels :
            \/ \E delta \in Int : PostCash(r, c, delta)
            \/ \E to \in Channels, amount \in Amounts : Transfer(r, c, to, amount)
      BY <1>2, <2>1, CashStepIs
    <3>2. ASSUME NEW delta \in Int, PostCash(r, c, delta) PROVE DebtReported'
      BY <1>2, <3>2, CoveredMove DEF PostCash, BooksOnly
    <3>3. ASSUME NEW to \in Channels, NEW amount \in Amounts, Transfer(r, c, to, amount)
          PROVE  DebtReported'
      <4>1. amount \in Int /\ amount > 0 /\ to # c /\ reported' = reported
        BY <3>3, LedgerAssumption DEF Transfer, BooksOnly
      <4>2. cash[c] - amount >= 0
        BY <1>2, <3>3, <4>1 DEF Transfer, CashCovers, TypeOK
      <4>3. cash' = [cash EXCEPT ![c] = @ - amount, ![to] = @ + amount]
        BY <3>3 DEF Transfer
      <4> QED
        BY <1>2, <4>1, <4>2, <4>3 DEF TypeOK, DebtReported
    <3> QED
      BY <3>1, <3>2, <3>3
  <2>2. CASE DepositStep
    <3>1. PICK r \in Requests \cup {Fresh}, d \in Deposits, amount \in Int,
              adjustCash \in BOOLEAN : MoveDeposit(r, d, amount, adjustCash)
      BY <1>2, <2>2, DepositStepIs
    <3>2. reported' = reported /\ -amount \in Int
      BY <3>1 DEF MoveDeposit, BooksOnly
    <3>3. CASE adjustCash
      BY <1>2, <3>1, <3>2, <3>3, CoveredMove, LedgerAssumption DEF MoveDeposit
    <3>4. CASE ~adjustCash
      BY <1>2, <3>1, <3>2, <3>4 DEF MoveDeposit, DebtReported
    <3> QED
      BY <3>3, <3>4
  <2>3. CASE LotStep
    <3>1. ASSUME NEW j \in Jobs, NEW l \in Lots, NEW u \in 1 .. MaxUnits, NEW p \in Prices,
                 NEW adjustCash \in BOOLEAN, PostHoldingOpen(j, l, u, p, adjustCash)
          PROVE  DebtReported'
      <4>1. SignedCost(l, Bought(u, p)) \in Int
        BY BoughtType, LotFigures
      <4> QED
        BY <1>2, <3>1, <4>1, CoveredTrade DEF PostHoldingOpen
    <3>2. ASSUME NEW j \in Jobs, NEW l \in Lots, NEW adjustCash \in BOOLEAN,
                 PostHoldingClose(j, l, adjustCash)
          PROVE  DebtReported'
      <4> DEFINE lot == job[j].lots[l]
                 closeBal == IF basis[l] # 0 THEN basis[l] ELSE SignedCost(l, lot)
      <4>1. lot \in Lot
        BY <1>2, <3>2, WorkingJob DEF PostHoldingClose, Working
      <4>2. closeBal \in Int
        BY <1>2, <4>1, LotFigures DEF TypeOK
      <4>3. AgainstCashOrEquity(-closeBal, adjustCash) /\ reported' = reported
        BY <3>2 DEF PostHoldingClose
      <4>4. -closeBal \in Int
        BY <4>2
      <4> QED
        BY <1>2, <4>3, <4>4, CoveredTrade
    <3>3. ASSUME NEW j \in Jobs, NEW lots \in [Lots -> BrokerLots \cup {None}],
                 NEW balance \in BrokerCash, NEW sections \in SUBSET {"positions", "cash"},
                 PostSnapshot(j, lots, balance, sections)
          PROVE  DebtReported'
      <4>1. balance \in Int /\ Home \in Channels
        BY LedgerAssumption
      <4> QED
        BY <1>2, <3>3, <4>1 DEF PostSnapshot, TypeOK, DebtReported
    <3>4. ASSUME cash' = cash, reported' = reported PROVE DebtReported'
      BY <1>2, <3>4 DEF DebtReported
    <3>5. ASSUME NEW j \in Jobs, NEW balances \in [Channels -> -MaxMoney .. MaxMoney],
                 NEW principals, Save(j, balances, principals)
          PROVE  DebtReported'
      <4>1. \A c \in Channels : balances[c] \in Int
        BY LedgerAssumption
      <4> QED
        BY <1>2, <3>5, <4>1 DEF Save, SaveRecord, ReplaceCash, TypeOK, DebtReported
    <3> QED
      BY <2>3, <3>1, <3>2, <3>3, <3>4, <3>5 DEF LotStep, Load, EditHolding, SaveSameMoney,
                                                SaveRecord, Abandon, accounts, observed
  <2>4. CASE UNCHANGED vars
    BY <1>2, <2>4 DEF vars, DebtReported
  <2> QED
    BY <1>2, <2>1, <2>2, <2>3, <2>4 DEF Next
<1> QED
  BY <1>1, <1>2, LedgerTyped, PTL DEF Spec

-----------------------------------------------------------------------------
(* Lots.                                                                     *)

\* What a reconciliation leaves behind: the lots it was asked for.
LEMMA Replaced ==
    ASSUME TypeOK, NEW lots \in [Lots -> Lot \cup {None}], ReplaceLots(lots), NEW l \in Lots
    PROVE  quantity'[l] = UnitsOf(lots[l]) /\ basis'[l] = SignedCost(l, lots[l])
BY DEF ReplaceLots, Matches

LEMMA OneLotMoved ==
    ASSUME TypeOK, LotsAgree, NEW l \in Lots, NEW units, NEW amount, NEW p, NEW signed,
           MoveLot(l, units, amount, p, signed), ahead' = ahead \cup {l}, doc' = doc
    PROVE  LotsAgree'
<1>1. ASSUME NEW k \in Lots \ ahead'
      PROVE  quantity'[k] = quantity[k] /\ basis'[k] = basis[k] /\ k \in Lots \ ahead
  BY <1>1 DEF MoveLot, TypeOK
<1> QED
  BY <1>1 DEF LotsAgree, UnitsOf, SignedCost

(***************************************************************************)
(* The accounts of every lot that was not posted to since the last         *)
(* reconciliation hold the units and the cost of the stored document, in   *)
(* spite of conflicts, lost saves and other edits (LotsAgree).             *)
(***************************************************************************)
THEOREM LotsFollowDocument == Spec => []LotsAgree
<1>1. Init => LotsAgree
  BY DEF Init, LotsAgree
<1>2. ASSUME TypeOK, LotsAgree, [Next]_vars PROVE LotsAgree'
  <2>1. ASSUME LotsUntouched, doc' = doc PROVE LotsAgree'
    BY <1>2, <2>1 DEF LotsUntouched, LotsAgree, UnitsOf, SignedCost
  <2>2. CASE CashStep
    BY <1>2, <2>1, <2>2, CashStepIs DEF PostCash, Transfer, BooksOnly, document
  <2>3. CASE DepositStep
    BY <1>2, <2>1, <2>3, DepositStepIs DEF MoveDeposit, BooksOnly, document
  <2>4. CASE LotStep
    <3>1. ASSUME NEW j \in Jobs, NEW l \in Lots, NEW u \in 1 .. MaxUnits, NEW p \in Prices,
                 NEW adjustCash \in BOOLEAN, PostHoldingOpen(j, l, u, p, adjustCash)
          PROVE  LotsAgree'
      BY <1>2, <3>1, OneLotMoved DEF PostHoldingOpen, document
    <3>2. ASSUME NEW j \in Jobs, NEW l \in Lots, NEW adjustCash \in BOOLEAN,
                 PostHoldingClose(j, l, adjustCash)
          PROVE  LotsAgree'
      BY <1>2, <3>2, OneLotMoved DEF PostHoldingClose, document
    <3>3. ASSUME NEW j \in Jobs, NEW lots, NEW balance, NEW sections,
                 PostSnapshot(j, lots, balance, sections)
          PROVE  LotsAgree'
      <4>1. CASE "positions" \in sections
        BY <3>3, <4>1 DEF PostSnapshot, LotsAgree
      <4>2. CASE "positions" \notin sections
        BY <2>1, <3>3, <4>2 DEF PostSnapshot, document
      <4> QED
        BY <4>1, <4>2
    <3>4. ASSUME NEW j \in Jobs, NEW balances, NEW principals, Save(j, balances, principals)
          PROVE  LotsAgree'
      <4>1. SaveRecord(j) /\ ReplaceLots(job[j].lots)
        BY <3>4 DEF Save
      <4>2. job[j].lots \in [Lots -> Lot \cup {None}] /\ doc' = job[j].lots
        BY <1>2, <4>1, SaveRecordType DEF SaveRecord
      <4>3. ASSUME NEW l \in Lots
            PROVE  quantity'[l] = UnitsOf(doc'[l]) /\ basis'[l] = SignedCost(l, doc'[l])
        BY <1>2, <4>1, <4>2, Replaced
      <4> QED
        BY <4>3 DEF LotsAgree, UnitsOf, SignedCost
    <3>5. ASSUME UNCHANGED <<accounts, document, ahead>> PROVE LotsAgree'
      BY <2>1, <3>5 DEF accounts, document, LotsUntouched
    <3>6. ASSUME NEW j \in Jobs, SaveSameMoney(j) PROVE LotsAgree'
      BY <2>1, <3>6 DEF SaveSameMoney, SaveRecord
    <3> QED
      BY <2>4, <3>1, <3>2, <3>3, <3>4, <3>5, <3>6 DEF LotStep, Load, EditHolding, Abandon,
                                                      observed
  <2>5. CASE UNCHANGED vars
    BY <2>1, <2>5 DEF vars, LotsUntouched
  <2> QED
    BY <1>2, <2>2, <2>3, <2>4, <2>5 DEF Next
<1> QED
  BY <1>1, <1>2, LedgerTyped, PTL DEF Spec

-----------------------------------------------------------------------------
(* The balance.                                                             *)

Balanced == equity \in Int /\ BooksBalance

LEMMA TotalsAre ==
    ASSUME TypeOK
    PROVE  Total(cash) \in Int /\ Total(deposit) \in Int /\ Total(basis) \in Int
<1>1. IsFiniteSet(Channels) /\ IsFiniteSet(Deposits) /\ IsFiniteSet(Lots)
  BY LedgerAssumption
<1>2. deposit \in [Deposits -> Int]
  BY DEF TypeOK
<1> QED
  BY <1>1, <1>2, TotalIsSum DEF TypeOK

LEMMA TotalsStay ==
    /\ cash' = cash => Total(cash)' = Total(cash)
    /\ deposit' = deposit => Total(deposit)' = Total(deposit)
    /\ basis' = basis => Total(basis)' = Total(basis)
BY DEF Total, FoldFunction, FoldFunctionOnSet, MapThenFoldSet

LEMMA CashMoved ==
    ASSUME TypeOK, NEW c \in Channels, NEW delta \in Int, MoveCash(c, delta)
    PROVE  Total(cash)' = Total(cash) + delta
<1>1. cash' \in [Channels -> Int] /\ cash \in [Channels -> Int] /\ IsFiniteSet(Channels)
  BY MoveCashType, LedgerAssumption DEF TypeOK
<1>2. cash'[c] = cash[c] + delta /\ \A d \in Channels \ {c} : cash'[d] = cash[d]
  BY <1>1 DEF MoveCash
<1>3. Total(cash') = Total(cash) - cash[c] + cash'[c]
  BY ONLY <1>1, <1>2, c \in Channels, TotalMoved
<1>4. Total(cash) \in Int /\ cash[c] \in Int
  BY <1>1, TotalsAre
<1>5. Total(cash)' = Total(cash')
  BY DEF Total, FoldFunction, FoldFunctionOnSet, MapThenFoldSet
<1> QED
  BY <1>2, <1>3, <1>4, <1>5

LEMMA TradeMoved ==
    ASSUME TypeOK, equity \in Int, NEW amount \in Int, NEW adjustCash \in BOOLEAN,
           AgainstCashOrEquity(amount, adjustCash)
    PROVE  /\ equity' \in Int /\ Total(cash)' \in Int
           /\ Total(cash)' + equity' = Total(cash) + equity - amount
<1>1. Total(cash) \in Int
  BY TotalsAre
<1>2. CASE adjustCash
  <2>1. Total(cash)' = Total(cash) + (-amount) /\ equity' = equity
    BY <1>2, CashMoved, LedgerAssumption DEF AgainstCashOrEquity
  <2> QED
    BY <1>1, <2>1
<1>3. CASE ~adjustCash
  <2>1. equity' = equity - amount /\ cash' = cash
    BY <1>3 DEF AgainstCashOrEquity
  <2>2. Total(cash)' = Total(cash)
    BY <2>1, TotalsStay
  <2> QED
    BY <1>1, <2>1, <2>2
<1> QED
  BY <1>2, <1>3

LEMMA DepositMoved ==
    ASSUME TypeOK, NEW d \in Deposits, NEW amount \in Int, deposit[d] + amount >= 0,
           deposit' = [deposit EXCEPT ![d] = @ + amount]
    PROVE  Total(deposit)' = Total(deposit) + amount
<1>1. deposit \in [Deposits -> Int] /\ deposit' \in [Deposits -> Int] /\ IsFiniteSet(Deposits)
  BY LedgerAssumption DEF TypeOK
<1>2. deposit'[d] = deposit[d] + amount /\ \A e \in Deposits \ {d} : deposit'[e] = deposit[e]
  BY <1>1
<1>3. Total(deposit') = Total(deposit) - deposit[d] + deposit'[d]
  BY ONLY <1>1, <1>2, d \in Deposits, TotalMoved
<1>4. Total(deposit) \in Int /\ deposit[d] \in Int
  BY <1>1, TotalsAre
<1>5. Total(deposit)' = Total(deposit')
  BY DEF Total, FoldFunction, FoldFunctionOnSet, MapThenFoldSet
<1> QED
  BY <1>2, <1>3, <1>4, <1>5

LEMMA LotMoved ==
    ASSUME TypeOK, NEW l \in Lots, NEW units \in Int, NEW amount \in Int,
           NEW p \in Int \cup {None}, NEW signed \in BOOLEAN,
           MoveLot(l, units, amount, p, signed)
    PROVE  Total(basis)' = Total(basis) + amount
<1>1. basis \in [Lots -> Int] /\ basis' \in [Lots -> Int] /\ IsFiniteSet(Lots)
  BY MoveLotType, LedgerAssumption DEF TypeOK
<1>2. basis'[l] = basis[l] + amount /\ \A k \in Lots \ {l} : basis'[k] = basis[k]
  BY <1>1 DEF MoveLot
<1>3. Total(basis') = Total(basis) - basis[l] + basis'[l]
  BY ONLY <1>1, <1>2, l \in Lots, TotalMoved
<1>4. Total(basis) \in Int /\ basis[l] \in Int
  BY <1>1, TotalsAre
<1>5. Total(basis)' = Total(basis')
  BY DEF Total, FoldFunction, FoldFunctionOnSet, MapThenFoldSet
<1> QED
  BY <1>2, <1>3, <1>4, <1>5

LEMMA CashStepBalances == ASSUME TypeOK, Balanced, CashStep PROVE Balanced'
<1>1. PICK r \in Requests \cup {Fresh}, c \in Channels :
        \/ \E delta \in Int : PostCash(r, c, delta)
        \/ \E to \in Channels, amount \in Amounts : Transfer(r, c, to, amount)
  BY CashStepIs
<1>2. Total(cash) \in Int /\ Total(deposit) \in Int /\ Total(basis) \in Int /\ equity \in Int
  BY TotalsAre DEF Balanced
<1>3. ASSUME NEW delta \in Int, PostCash(r, c, delta) PROVE Balanced'
  <2>1. Total(cash)' = Total(cash) + delta /\ equity' = equity - delta
    BY <1>3, CashMoved DEF PostCash
  <2>2. Total(deposit)' = Total(deposit) /\ Total(basis)' = Total(basis)
    BY <1>3, TotalsStay DEF PostCash, LotsUntouched
  <2> QED
    BY <1>2, <2>1, <2>2 DEF Balanced, BooksBalance
<1>4. ASSUME NEW to \in Channels, NEW amount \in Amounts, Transfer(r, c, to, amount)
      PROVE  Balanced'
  <2>1. amount \in Int /\ to # c /\ IsFiniteSet(Channels)
    BY <1>4, LedgerAssumption DEF Transfer
  <2>2. cash \in [Channels -> Int] /\ cash[c] \in Int /\ cash[to] \in Int
    BY DEF TypeOK
  <2> DEFINE mid == [cash EXCEPT ![c] = @ - amount]
  <2>3. cash' = [mid EXCEPT ![to] = @ + amount]
    BY <1>4, <2>1, <2>2 DEF Transfer
  <2>4. /\ mid \in [Channels -> Int]
        /\ mid[c] = cash[c] - amount
        /\ \A d \in Channels \ {c} : mid[d] = cash[d]
    BY <2>1, <2>2
  <2>5. /\ cash' \in [Channels -> Int]
        /\ cash'[to] = mid[to] + amount
        /\ \A d \in Channels \ {to} : cash'[d] = mid[d]
    <3> HIDE DEF mid
    <3> QED
      BY <2>1, <2>3, <2>4
  <2>6. Total(mid) = Total(cash) - cash[c] + mid[c]
    <3> HIDE DEF mid
    <3> QED
      BY ONLY <2>1, <2>2, <2>4, c \in Channels, TotalMoved
  <2>7. Total(cash') = Total(mid) - mid[to] + cash'[to]
    <3> HIDE DEF mid
    <3> QED
      BY ONLY <2>1, <2>4, <2>5, to \in Channels, TotalMoved
  <2>8. Total(cash') = Total(cash)
    <3>1. mid[c] \in Int /\ mid[to] \in Int /\ Total(mid) \in Int
      <4> HIDE DEF mid
      <4> QED
        BY <2>1, <2>4, TotalIsSum
    <3> HIDE DEF mid
    <3> QED
      BY <1>2, <2>1, <2>2, <2>4, <2>5, <2>6, <2>7, <3>1
  <2>9. Total(cash)' = Total(cash')
    BY DEF Total, FoldFunction, FoldFunctionOnSet, MapThenFoldSet
  <2>10. equity' = equity /\ Total(deposit)' = Total(deposit) /\ Total(basis)' = Total(basis)
    BY <1>4, TotalsStay DEF Transfer, LotsUntouched
  <2> QED
    BY <1>2, <2>8, <2>9, <2>10 DEF Balanced, BooksBalance
<1> QED
  BY <1>1, <1>3, <1>4

LEMMA DepositStepBalances == ASSUME TypeOK, Balanced, DepositStep PROVE Balanced'
<1>1. PICK r \in Requests \cup {Fresh}, d \in Deposits, amount \in Int,
           adjustCash \in BOOLEAN : MoveDeposit(r, d, amount, adjustCash)
  BY DepositStepIs
<1>2. Total(cash) \in Int /\ Total(deposit) \in Int /\ Total(basis) \in Int /\ equity \in Int
  BY TotalsAre DEF Balanced
<1>3. Total(deposit)' = Total(deposit) + amount
  BY <1>1, DepositMoved DEF MoveDeposit
<1>4. AgainstCashOrEquity(amount, adjustCash) /\ Total(basis)' = Total(basis)
  BY <1>1, TotalsStay DEF MoveDeposit, AgainstCashOrEquity, LotsUntouched
<1>5. /\ equity' \in Int /\ Total(cash)' \in Int
      /\ Total(cash)' + equity' = Total(cash) + equity - amount
  BY <1>2, <1>4, TradeMoved
<1> QED
  BY <1>2, <1>3, <1>4, <1>5 DEF Balanced, BooksBalance

\* A trade: what a lot takes in is what cash or equity gives out.
LEMMA TradeBalances ==
    ASSUME TypeOK, Balanced, NEW l \in Lots, NEW units \in Int, NEW amount \in Int,
           NEW p \in Int \cup {None}, NEW adjustCash \in BOOLEAN,
           MoveLot(l, units, amount, p, ~adjustCash), AgainstCashOrEquity(amount, adjustCash),
           deposit' = deposit
    PROVE  Balanced'
<1>1. Total(cash) \in Int /\ Total(deposit) \in Int /\ Total(basis) \in Int /\ equity \in Int
  BY TotalsAre DEF Balanced
<1>2. Total(basis)' = Total(basis) + amount /\ Total(deposit)' = Total(deposit)
  BY LotMoved, TotalsStay
<1>3. /\ equity' \in Int /\ Total(cash)' \in Int
      /\ Total(cash)' + equity' = Total(cash) + equity - amount
  BY <1>1, TradeMoved
<1> QED
  BY <1>1, <1>2, <1>3 DEF Balanced, BooksBalance

LEMMA SnapshotBalances ==
    ASSUME TypeOK, Balanced, NEW j \in Jobs, NEW lots \in [Lots -> BrokerLots \cup {None}],
           NEW balance \in BrokerCash, NEW sections \in SUBSET {"positions", "cash"},
           PostSnapshot(j, lots, balance, sections)
    PROVE  Balanced'
<1>1. Total(cash) \in Int /\ Total(deposit) \in Int /\ Total(basis) \in Int /\ equity \in Int
  BY TotalsAre DEF Balanced
<1>2. TypeOK'
  BY SnapshotType
<1>3. Total(basis)' \in Int /\ Total(cash)' \in Int
  BY <1>2, TotalsAre, LedgerAssumption, TotalIsSum DEF TypeOK
<1>4. Total(deposit)' = Total(deposit)
  BY TotalsStay DEF PostSnapshot
<1>5. Total(cash)' = Total(cash) + (cash'[Home] - cash[Home])
  <2>1. /\ cash' \in [Channels -> Int] /\ cash \in [Channels -> Int]
        /\ Home \in Channels /\ IsFiniteSet(Channels)
    BY <1>2, LedgerAssumption DEF TypeOK
  <2>2. \A c \in Channels \ {Home} : cash'[c] = cash[c]
    BY <2>1 DEF PostSnapshot
  <2>3. Total(cash') = Total(cash) - cash[Home] + cash'[Home]
    BY ONLY <2>1, <2>2, TotalMoved
  <2>4. cash[Home] \in Int /\ cash'[Home] \in Int
    BY <2>1
  <2>5. Total(cash)' = Total(cash')
    BY DEF Total, FoldFunction, FoldFunctionOnSet, MapThenFoldSet
  <2> QED
    BY <1>1, <2>3, <2>4, <2>5
<1>6. equity' = equity - (Total(basis)' - Total(basis)) - (cash'[Home] - cash[Home])
  <2>1. equity' = equity - (Total(basis') - Total(basis)) - (cash'[Home] - cash[Home])
    BY DEF PostSnapshot
  <2>2. Total(basis)' = Total(basis')
    BY DEF Total, FoldFunction, FoldFunctionOnSet, MapThenFoldSet
  <2> QED
    BY <2>1, <2>2
<1>7. cash[Home] \in Int /\ cash'[Home] \in Int
  BY <1>2, LedgerAssumption DEF TypeOK
<1> QED
  BY <1>1, <1>3, <1>4, <1>5, <1>6, <1>7 DEF Balanced, BooksBalance

LEMMA SaveBalances ==
    ASSUME TypeOK, Balanced, NEW j \in Jobs, NEW balances \in [Channels -> -MaxMoney .. MaxMoney],
           NEW principals \in [Deposits -> 0 .. MaxMoney], Save(j, balances, principals)
    PROVE  Balanced'
<1>1. Total(cash) \in Int /\ Total(deposit) \in Int /\ Total(basis) \in Int /\ equity \in Int
  BY TotalsAre DEF Balanced
<1>2. TypeOK'
  BY SaveType
<1>3. Total(cash') \in Int /\ Total(deposit') \in Int /\ Total(basis') \in Int
  <2>1. /\ cash' \in [Channels -> Int] /\ deposit' \in [Deposits -> Int] /\ basis' \in [Lots -> Int]
        /\ IsFiniteSet(Channels) /\ IsFiniteSet(Deposits) /\ IsFiniteSet(Lots)
    BY <1>2, LedgerAssumption DEF TypeOK
  <2> QED
    BY <2>1, TotalIsSum
<1>4. equity' = equity - (Total(basis') - Total(basis)) - (Total(cash') - Total(cash))
                 - (Total(deposit') - Total(deposit))
  BY DEF Save
<1>5. /\ Total(cash)' = Total(cash') /\ Total(deposit)' = Total(deposit')
      /\ Total(basis)' = Total(basis')
  BY DEF Total, FoldFunction, FoldFunctionOnSet, MapThenFoldSet
<1> QED
  BY <1>1, <1>3, <1>4, <1>5 DEF Balanced, BooksBalance

LEMMA LotStepBalances == ASSUME TypeOK, Balanced, LotStep PROVE Balanced'
<1>1. ASSUME UNCHANGED <<cash, deposit, basis, equity>> PROVE Balanced'
  BY <1>1, TotalsStay DEF Balanced, BooksBalance
<1>2. ASSUME NEW j \in Jobs, NEW l \in Lots, NEW u \in 1 .. MaxUnits, NEW p \in Prices,
             NEW adjustCash \in BOOLEAN, PostHoldingOpen(j, l, u, p, adjustCash)
      PROVE  Balanced'
  <2> DEFINE amount == SignedCost(l, Bought(u, p))
  <2>1. amount \in Int /\ u \in Int /\ p \in Int
    BY BoughtType, LotFigures
  <2>2. /\ MoveLot(l, u, amount, p, ~adjustCash) /\ AgainstCashOrEquity(amount, adjustCash)
        /\ deposit' = deposit
    BY <1>2 DEF PostHoldingOpen
  <2> QED
    BY <2>1, <2>2, TradeBalances
<1>3. ASSUME NEW j \in Jobs, NEW l \in Lots, NEW adjustCash \in BOOLEAN,
             PostHoldingClose(j, l, adjustCash)
      PROVE  Balanced'
  <2> DEFINE lot      == job[j].lots[l]
             closeQty == IF quantity[l] # 0 THEN quantity[l] ELSE lot.units
             closeBal == IF basis[l] # 0 THEN basis[l] ELSE SignedCost(l, lot)
  <2>1. /\ MoveLot(l, -closeQty, -closeBal, None, ~adjustCash)
        /\ AgainstCashOrEquity(-closeBal, adjustCash)
        /\ deposit' = deposit
    BY <1>3 DEF PostHoldingClose
  <2>2. lot \in Lot
    BY <1>3, WorkingJob DEF PostHoldingClose, Working
  <2>3. -closeQty \in Int /\ -closeBal \in Int
    <3>1. lot.units \in Int /\ SignedCost(l, lot) \in Int
      BY <2>2, LotFigures DEF Lot
    <3>2. closeQty \in Int /\ closeBal \in Int
      BY <3>1 DEF TypeOK
    <3> QED
      BY <3>2
  <2> QED
    BY <2>1, <2>3, TradeBalances
<1>4. \A j : Load(j) \/ Abandon(j) => UNCHANGED <<cash, deposit, basis, equity>>
  BY DEF Load, Abandon, accounts
<1>5. \A j, l, u, p : EditHolding(j, l, u, p) => UNCHANGED <<cash, deposit, basis, equity>>
  BY DEF EditHolding, accounts
<1>6. \A j : SaveSameMoney(j) => UNCHANGED <<cash, deposit, basis, equity>>
  BY DEF SaveSameMoney, LotsUntouched
<1> QED
  BY <1>1, <1>2, <1>3, <1>4, <1>5, <1>6, SnapshotBalances, SaveBalances DEF LotStep

LEMMA InitBalances == Init => Balanced
<1> SUFFICES ASSUME Init PROVE Balanced
  OBVIOUS
<1>1. TypeOK
  BY InitType
<1>2. Total(deposit) = 0
  <2>1. IsFiniteSet(Deposits) /\ deposit = [d \in Deposits |-> 0]
    BY LedgerAssumption DEF Init
  <2>2. deposit \in [Deposits -> Int] /\ \A d \in Deposits : deposit[d] = 0
    BY <2>1
  <2> QED
    BY <2>1, <2>2, TotalIsSum, SumOfZeros
<1>3. equity = -(Total(cash) + Total(basis))
  BY DEF Init
<1> QED
  BY <1>1, <1>2, <1>3, TotalsAre DEF Balanced, BooksBalance

(***************************************************************************)
(* Double entry: cash, deposits, lots and equity of any number of accounts *)
(* add up to nothing after every posting, trade, import and save           *)
(* (BooksBalance), so no operation makes or loses money.                   *)
(***************************************************************************)
THEOREM BooksAreBalanced == Spec => []BooksBalance
<1>1. TypeOK /\ Balanced /\ [Next]_vars => Balanced'
  <2> SUFFICES ASSUME TypeOK, Balanced, [Next]_vars PROVE Balanced'
    OBVIOUS
  <2>1. CASE UNCHANGED vars
    BY <2>1, TotalsStay DEF vars, Balanced, BooksBalance
  <2> QED
    BY <2>1, CashStepBalances, DepositStepBalances, LotStepBalances DEF Next
<1>2. Balanced => BooksBalance
  BY DEF Balanced
<1> QED
  BY <1>1, <1>2, InitBalances, LedgerTyped, PTL DEF Spec
=============================================================================
