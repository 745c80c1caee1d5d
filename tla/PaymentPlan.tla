----------------------------- MODULE PaymentPlan -----------------------------
(***************************************************************************)
(* The payment plan of a household (src/src/treasury/payment-plan.ts): its *)
(* debts paid down month by month out of a lump sum, the contractual       *)
(* minimums, a fixed monthly surplus and deposits as they mature.  A step  *)
(* is one row of the schedule.                                             *)
(***************************************************************************)
EXTENDS Household

CONSTANTS
  Inputs,     \* what a plan may be asked for
  MaxMonths   \* maxMonths of the plan

Strategies == {"avalanche", "snowball"}
Input == [strategy : Strategies, cash : Nat, reserve : Nat, income : Nat, expense : Nat,
          extra : Nat \cup {None}, owed : [Debts -> Nat], matures : [Savings -> Nat]]

ASSUME PaymentPlanAssumption ==
  /\ Inputs \subseteq Input
  /\ MaxMonths \in Nat \ {0}

VARIABLES
  plan,      \* the input, None before
  outcome,   \* running, debt free, still in debt at the end, or refused
  month,     \* months of the schedule so far
  owed,      \* principal left of each debt
  pool,      \* cash not yet spent
  paid,      \* payments so far
  charged,   \* interest so far
  unlocked   \* deposits released so far

planVars == <<plan, outcome, month, owed, pool, paid, charged, unlocked>>

-----------------------------------------------------------------------------
(* Orders of paydown.                                                         *)

DearerFirst(left, d, e) ==
  \/ Rate[d] > Rate[e]
  \/ Rate[d] = Rate[e] /\ left[d] < left[e]
  \/ Rate[d] = Rate[e] /\ left[d] = left[e] /\ d < e
SmallerFirst(left, d, e) ==
  \/ left[d] < left[e]
  \/ left[d] = left[e] /\ Rate[d] > Rate[e]
  \/ left[d] = left[e] /\ Rate[d] = Rate[e] /\ d < e
Precedes(strategy, left, d, e) ==
  IF strategy = "avalanche" THEN DearerFirst(left, d, e) ELSE SmallerFirst(left, d, e)

SortLiabilities(strategy, left) ==
  InOrder(Unpaid(left), LAMBDA d, e : Precedes(strategy, left, d, e))

(* Money beyond the minimums goes to the first debt in order, then the next. *)
PayDown(s, d) ==
  LET pay == Least(s.money, s.left[d]) IN
  [left |-> [s.left EXCEPT ![d] = @ - pay], money |-> s.money - pay]
Spread(strategy, left, money) ==
  FoldLeft(PayDown, [left |-> left, money |-> money], SortLiabilities(strategy, left))

(* Minimums, in order; one below the interest refuses the whole plan. *)
PayMinimum(s, d) ==
  LET payment == Least(Payment[d], s.money) IN
  IF payment = 0 THEN s
  ELSE [left     |-> [s.left EXCEPT ![d] = RemainingPrincipal(@, Rate[d], payment)],
        money    |-> s.money - PaymentApplied(s.left[d], Rate[d], payment),
        interest |-> s.interest + Interest(s.left[d], Rate[d]),
        refused  |-> s.refused \/ ~CoversInterest(s.left[d], Rate[d], payment)]
PayMinimums(strategy, left, money) ==
  FoldLeft(PayMinimum, [left |-> left, money |-> money, interest |-> 0, refused |-> FALSE],
           SortLiabilities(strategy, left))

Surplus(p) == IF p.extra # None THEN p.extra
              ELSE p.income - p.expense - MinimumsOf(p.owed)
MonthlyExtra(p) == AtLeastZero(Surplus(p))
Deployable(p) == AtLeastZero(p.cash - p.reserve)

\* Mutant: the months of two rows overlap on a day.
MaturesAround(p, m) == {d \in Savings : p.matures[d] \in {m - 1, m}}
MaturesIn(p, m) == {d \in Savings : p.matures[d] = m}

OutcomeOf(left, m) == IF Unpaid(left) = {} THEN "free"
                      ELSE IF m = MaxMonths THEN "late" ELSE "running"

-----------------------------------------------------------------------------
(* The lump sum of month 0, with the deposits that have matured already.     *)
BuildPaymentPlan(p) ==
  LET money == Deployable(p) + SavedIn(MaturesIn(p, 0))
      lump  == Spread(p.strategy, p.owed, money)
  IN  /\ plan = None
      /\ plan' = p
      /\ month' = 0
      /\ owed' = lump.left
      /\ pool' = lump.money
      /\ paid' = money - lump.money
      /\ charged' = 0
      /\ unlocked' = MaturesIn(p, 0)
      /\ outcome' = OutcomeOf(lump.left, 0)

(* Minimums are taken as paid out of income; the rest is spread in order. *)
PlanMonth ==
  LET money    == MinimumsOf(owed) + MonthlyExtra(plan) + pool + SavedIn(MaturesIn(plan, month'))
      minimums == PayMinimums(plan.strategy, owed, money)
      rest     == Spread(plan.strategy, minimums.left, minimums.money)
  IN  /\ outcome = "running"
      /\ month' = month + 1
      /\ IF minimums.refused
         THEN outcome' = "refused" /\ UNCHANGED <<owed, pool, paid, charged, unlocked>>
         ELSE /\ owed' = rest.left
              /\ pool' = 0
              /\ paid' = paid + money - rest.money
              /\ charged' = charged + minimums.interest
              /\ unlocked' = unlocked \cup MaturesIn(plan, month')
              /\ outcome' = OutcomeOf(rest.left, month')
      /\ UNCHANGED plan

PlanInit ==
  /\ plan = None
  /\ outcome = "idle"
  /\ month = 0
  /\ owed = [d \in Debts |-> 0]
  /\ pool = 0 /\ paid = 0 /\ charged = 0
  /\ unlocked = {}

PlanNext == PlanMonth \/ \E p \in Inputs : BuildPaymentPlan(p)

-----------------------------------------------------------------------------
PlanTypeOK ==
  /\ plan \in Inputs \cup {None}
  /\ outcome \in {"idle", "running", "free", "late", "refused"}
  /\ month \in 0 .. MaxMonths
  /\ owed \in [Debts -> Nat]
  /\ pool \in Nat /\ paid \in Nat /\ charged \in Nat
  /\ unlocked \subseteq Savings

(***************************************************************************)
(* What the plan says was paid is the principal paid off and the interest, *)
(* and comes from the cash beyond the reserve, the deposits that have      *)
(* matured, each once, the minimums and the surplus of the months so far;  *)
(* no cash is left over while debts are (payment-plan.ts:434-618).         *)
(***************************************************************************)
PaymentsAddUp ==
  plan # None /\ outcome # "refused" =>
    /\ paid = Total(plan.owed) - Total(owed) + charged
    /\ paid + pool <= Deployable(plan) + SavedIn({d \in Savings : plan.matures[d] <= month})
                      + month * (MinimumsOf(plan.owed) + MonthlyExtra(plan))
    /\ Unpaid(owed) # {} => pool = 0
=============================================================================
