------------------------------ MODULE Projection ------------------------------
(***************************************************************************)
(* The projection of a household's balance sheet                           *)
(* (src/src/treasury/project.ts) with one scenario event, and the verdict  *)
(* on a purchase (src/src/treasury/affordability.ts).  A step is one month *)
(* of the horizon; amounts are in the reporting currency.                  *)
(***************************************************************************)
EXTENDS Household

CONSTANTS
  Mortgage,    \* the debt a purchase opens
  Books,       \* balance sheets and scenarios a projection may start from
  Growth,      \* monthly growth of portfolio and property, in parts of RateUnit
  Buffer,      \* cash_buffer of the assumptions
  Horizon      \* months projected

Event == [type : {"none", "one_off", "recurring", "buy_property"},
          at : Nat, amount : Int, value : Nat]
Book == [cash : Nat, portfolio : Nat, property : Nat, income : Nat, expense : Nat,
         owed : [Debts -> Nat], matures : [Savings -> Nat], event : Event]

(* What the checks of a scenario leave: a down payment up to the value.  An  *)
(* installment may be any amount, one that only pays the interest or does    *)
(* not cover it included.                                                    *)
Checked(b) ==
  /\ b.owed[Mortgage] = 0
  /\ b.event.type = "buy_property" => b.event.amount \in 0 .. b.event.value

ASSUME ProjectionAssumption ==
  /\ Mortgage \in Debts
  /\ Books \subseteq Book
  /\ \A b \in Books : Checked(b)
  /\ Growth \in Nat /\ Buffer \in Nat /\ Horizon \in Nat \ {0}

VARIABLES
  books,      \* where the projection started, None before
  free,       \* free cash
  debt,       \* principal of each debt
  held,       \* deposits not yet released
  portfolio,
  property,
  recurring,  \* net monthly flow the scenario has added
  thrown,     \* the projection was given up with an error
  rows        \* the months so far

accounts == <<free, debt, held, portfolio, property, recurring, rows>>
projectVars == <<books, thrown, accounts>>

Row == [cash : Int, worth : Int, net : Int, short : BOOLEAN, debts : [Debts -> Nat],
        earned : Int, interest : Nat, growth : Nat, unused : Nat]

-----------------------------------------------------------------------------
(* Liabilities in the order of the books: paid in full or not at all; one     *)
(* that is paid but does not cover the interest ends the projection.          *)

CanPay(cash, d) == cash >= Payment[d]

Owes(cash, principal, d) ==
  IF CanPay(cash, d) THEN RemainingPrincipal(principal, Rate[d], Payment[d]) ELSE principal

(* The whole installment leaves the cash, the last one too. *)
Service(s, d) ==
  LET principal == s.debt[d] IN
  [cash     |-> IF CanPay(s.cash, d) THEN s.cash - Payment[d] ELSE s.cash,
   debt     |-> [s.debt EXCEPT ![d] = Owes(s.cash, principal, d)],
   short    |-> s.short \/ ~CanPay(s.cash, d),
   refused  |-> s.refused \/ (CanPay(s.cash, d) /\ ~CoversInterest(principal, Rate[d], Payment[d])),
   interest |-> s.interest + (IF CanPay(s.cash, d) THEN Interest(principal, Rate[d]) ELSE 0),
   unused   |-> s.unused + (IF CanPay(s.cash, d)
                            THEN Payment[d] - PaymentApplied(principal, Rate[d], Payment[d]) ELSE 0)]
ServiceAll(cash) ==
  FoldLeft(Service, [cash |-> cash, debt |-> debt, short |-> FALSE, refused |-> FALSE,
                     interest |-> 0, unused |-> 0],
           InOrder(Unpaid(debt), LAMBDA d, e : d < e))

\* Mutant: a deposit is released in its month and stays among the deposits.
NoneReleased(deposits, t) == {}
Released(deposits, t) == {d \in deposits : books.matures[d] = t}

Grows(amount) == (amount * Growth) \div RateUnit

(* What the scenario does in its month: cash in or out, or a purchase. *)
Happens(t) == books.event.at = t
CashOf(event) ==
  CASE event.type \in {"one_off", "recurring"} -> event.amount
    [] event.type = "buy_property" -> -event.amount
    [] OTHER -> 0
Bought(event) == event.type = "buy_property"
EventShort(event, cash) ==
  /\ cash + CashOf(event) < 0
  /\ Bought(event) \/ (event.type = "one_off" /\ event.amount < 0)

-----------------------------------------------------------------------------
Worth(cash, assets, deposits, debts) == cash + assets + SavedIn(deposits) - Total(debts)

ProjectStart(b) ==
  /\ books = None
  /\ books' = b
  /\ free' = b.cash
  /\ debt' = b.owed
  /\ held' = Savings
  /\ portfolio' = b.portfolio
  /\ property' = b.property
  /\ UNCHANGED <<recurring, thrown, rows>>

Flow == books.income - books.expense + recurring
Running == books # None /\ ~thrown /\ Len(rows) < Horizon

(* Flows, liabilities, maturities, growth, then the event of the month. *)
ProjectMonth ==
  LET t       == Len(rows)
      served  == ServiceAll(free + Flow)
      matured == Released(held, t)
      event   == IF Happens(t) THEN books.event ELSE [books.event EXCEPT !.type = "none"]
      cash    == served.cash + SavedIn({d \in held : books.matures[d] = t})
      growth  == Grows(portfolio) + Grows(property)
  IN  /\ Running
      /\ ~served.refused
      /\ free' = cash + CashOf(event)
      /\ held' = held \ matured
      /\ portfolio' = portfolio + Grows(portfolio)
      /\ property' = property + Grows(property) + (IF Bought(event) THEN event.value ELSE 0)
      /\ debt' = IF Bought(event) THEN [served.debt EXCEPT ![Mortgage] = event.value - event.amount]
                 ELSE served.debt
      /\ recurring' = IF event.type = "recurring" THEN recurring + event.amount ELSE recurring
      /\ rows' = Append(rows,
           [cash |-> free', worth |-> Worth(free', portfolio' + property', held', debt'),
            net |-> free' - free, short |-> served.short \/ EventShort(event, cash), debts |-> debt',
            earned |-> Flow + (IF event.type = "buy_property" THEN 0 ELSE CashOf(event)),
            interest |-> served.interest, growth |-> growth, unused |-> served.unused])
      /\ UNCHANGED <<books, thrown>>

(* "Payment is less than monthly interest": no month, and no verdict. *)
ProjectThrows ==
  /\ Running
  /\ ServiceAll(free + Flow).refused
  /\ thrown' = TRUE
  /\ UNCHANGED <<books, accounts>>

ProjectInit ==
  /\ books = None
  /\ thrown = FALSE
  /\ free = 0 /\ debt = [d \in Debts |-> 0] /\ held = {}
  /\ portfolio = 0 /\ property = 0 /\ recurring = 0
  /\ rows = <<>>

ProjectNext == ProjectMonth \/ ProjectThrows \/ \E b \in Books : ProjectStart(b)

-----------------------------------------------------------------------------
(* The verdict on a purchase, from the rows.                                  *)

MinFreeCash == Min({rows[i].cash : i \in DOMAIN rows})
\* Mutant: the months are looked at from the purchase on.
FromPurchase == {i \in DOMAIN rows : i > books.event.at}
Considered == DOMAIN rows

AfterPurchase == rows[Least(books.event.at + 2, Len(rows))].net
EvaluateAffordability ==
  IF \E i \in Considered : rows[i].short \/ rows[i].cash < 0 THEN "NOT_AFFORDABLE"
  ELSE IF AfterPurchase <= 0 \/ MinFreeCash < Buffer THEN "TIGHT"
  ELSE "AFFORDABLE"

-----------------------------------------------------------------------------
ProjectTypeOK ==
  /\ books \in Books \cup {None}
  /\ free \in Int /\ debt \in [Debts -> Nat] /\ held \subseteq Savings
  /\ portfolio \in Nat /\ property \in Nat /\ recurring \in Int
  /\ thrown \in BOOLEAN
  /\ rows \in Seq(Row)

(***************************************************************************)
(* Net worth moves by what is earned and spent, the interest of the        *)
(* installments paid and the growth of a month, and by nothing else: not   *)
(* by an installment skipped, a deposit released or a home bought.  It     *)
(* also loses what the last installment of a debt exceeds the debt by,     *)
(* which leaves the cash and goes nowhere (project.ts:281-304).            *)
(***************************************************************************)
WorthOfBooks(b) == Worth(b.cash, b.portfolio + b.property, Savings, b.owed)
WorthBefore(i) == IF i = 1 THEN WorthOfBooks(books) ELSE rows[i - 1].worth
NetWorthExplained ==
  \A i \in DOMAIN rows :
    rows[i].worth - WorthBefore(i)
      = rows[i].earned - rows[i].interest + rows[i].growth - rows[i].unused

(***************************************************************************)
(* AFFORDABLE is said only if every installment of every month was paid    *)
(* (affordability.ts:36, 63-117): the money of the month covered them      *)
(* together, before any deposit matured, and each debt got its interest    *)
(* whole and the rest of the installment taken off, or is paid.  It may    *)
(* be said of a debt whose installments are its interest.                  *)
(***************************************************************************)
DebtsBefore(i) == IF i = 1 THEN books.owed ELSE rows[i - 1].debts
CashBefore(i) == IF i = 1 THEN books.cash ELSE rows[i - 1].cash
Settled(before, left, d) ==
  /\ Interest(before, Rate[d]) <= Payment[d]
  /\ before - left = Payment[d] - Interest(before, Rate[d]) \/ left = 0
AffordableSolvent ==
  (Len(rows) = Horizon /\ Bought(books.event) /\ books.event.at < Horizon
     /\ EvaluateAffordability = "AFFORDABLE") =>
    \A i \in DOMAIN rows :
      Unpaid(DebtsBefore(i)) # {} =>
        /\ CashBefore(i) + rows[i].earned >= MinimumsOf(DebtsBefore(i))
        /\ \A d \in Unpaid(DebtsBefore(i)) : Settled(DebtsBefore(i)[d], rows[i].debts[d], d)
=============================================================================
