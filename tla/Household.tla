------------------------------ MODULE Household ------------------------------
(***************************************************************************)
(* The debts and deposits of a household, and one monthly payment on a     *)
(* debt (src/src/treasury/amortize.ts), in whole units of one currency:    *)
(* interest is rounded down, and rates are in parts of RateUnit a month,   *)
(* so that small amounts bear interest.                                    *)
(***************************************************************************)
EXTENDS Integers, Sequences, FiniteSetsExt, Functions, SequencesExt

CONSTANTS
  Debts,       \* debts, by number: the last tie-break of an order is the id
  Rate,        \* monthly interest of each debt, in parts of RateUnit
  Payment,     \* contractual payment of each debt
  RateUnit,
  Savings,     \* deposits
  Saved,       \* principal of each deposit
  None

ASSUME HouseholdAssumption ==
  /\ Debts \subseteq Nat
  /\ IsFiniteSet(Debts) /\ IsFiniteSet(Savings)
  /\ RateUnit \in Nat \ {0}
  /\ Rate \in [Debts -> Nat] /\ Payment \in [Debts -> Nat]
  /\ Saved \in [Savings -> Nat]
  /\ None \notin Int

Least(a, b) == IF a < b THEN a ELSE b
AtLeastZero(a) == IF a > 0 THEN a ELSE 0
Total(f) == SumFunction(f)
SavedIn(deposits) == MapThenSumSet(LAMBDA d : Saved[d], deposits)
Unpaid(left) == {d \in Debts : left[d] > 0}
MinimumsOf(left) == MapThenSumSet(LAMBDA d : Payment[d], Unpaid(left))

(* The members of a set as a sequence in a strict total order.  SetToSortSeq *)
(* says the same, by way of an operator that the proofs cannot look into.    *)
InOrder(S, Before(_, _)) ==
  CHOOSE s \in [1 .. Cardinality(S) -> S] :
    \A i, j \in 1 .. Cardinality(S) : i < j => Before(s[i], s[j])

Interest(principal, rate) == (principal * rate) \div RateUnit

(* A payment that does not cover the interest is refused. *)
CoversInterest(principal, rate, payment) == payment >= Interest(principal, rate)

(* The last payment takes no more than is owed. *)
\* Mutant: every payment is applied in full.
AppliedInFull(principal, rate, payment) == payment
PaymentApplied(principal, rate, payment) == Least(payment, principal + Interest(principal, rate))

RemainingPrincipal(principal, rate, payment) ==
  principal + Interest(principal, rate) - PaymentApplied(principal, rate, payment)
=============================================================================
