------------------------------- MODULE Ledger -------------------------------
(***************************************************************************)
(* The double-entry accounts of one household (src/src/books): free cash   *)
(* per channel, fixed deposits, lots of positions, and the contra accounts *)
(* taken together as one equity account.  Every amount is a whole number   *)
(* of minor units of one currency.                                         *)
(*                                                                         *)
(* Tools post to the accounts in a transaction of their own and save the   *)
(* document afterwards; a save first brings the lots of the accounts in    *)
(* line with the document it writes.  A job is one such tool call, or one  *)
(* import of a broker statement: load, post, save.  A posting of cash or   *)
(* of a deposit is one step here: the document's cash and the two commits  *)
(* of a save are the subject of InvestorBooks.                             *)
(***************************************************************************)
EXTENDS Integers, FiniteSets, Functions

CONSTANTS
  Channels,       \* channels that have a cash sleeve
  Home,           \* the channel of the deposits and of the lots
  Deposits,       \* external keys of fixed deposits
  Lots,           \* map keys of the portfolio
  ShortLots,      \* those that are written options: a liability, booked as credit
  Requests,       \* request ids given by a caller, which may use one again
  Fresh,          \* stands for the id of newRequestId: a new one each time
  Jobs,           \* tool calls and imports at work on the lots
  Amounts,        \* amounts of cash a caller may name
  Prices,         \* prices of one unit
  BrokerLots,     \* lots a broker statement may report
  BrokerCash,     \* balances of cash a broker statement may report
  None,           \* no lot, no price
  MaxUnits,       \* bound on the units of a lot
  MaxMoney,       \* bound on what is in an account
  MaxRevision     \* bound on the saves of the document

ASSUME LedgerAssumption ==
  /\ IsFiniteSet(Channels) /\ IsFiniteSet(Deposits) /\ IsFiniteSet(Lots)
  /\ Home \in Channels
  /\ ShortLots \subseteq Lots
  /\ Fresh \notin Requests
  /\ Amounts \subseteq Nat \ {0}
  /\ Prices \subseteq Nat \ {0}
  /\ BrokerCash \subseteq Int
  /\ None \notin Int
  /\ BrokerLots \subseteq [units : Int \ {0}, cost : Int]
  /\ None \notin BrokerLots
  /\ MaxUnits \in Nat
  /\ MaxMoney \in Nat
  /\ MaxRevision \in Nat

VARIABLES
  cash,       \* account_balances.balance_minor of the cash accounts
  deposit,    \* ... of the deposit accounts: the principal still locked
  basis,      \* ... of the position accounts: signed cost
  equity,     \* ... of the contra accounts together
  quantity,   \* account_balances.quantity of the position accounts
  average,    \* account_balances.avg_cost_minor of the position accounts
  doc,        \* the portfolio of the stored document
  revision,   \* the revision of the stored document
  journal,    \* journal_entries.request_id: the ids an entry was posted under
  job         \* what each job has loaded, and how far it is

(***************************************************************************)
(* Observations the properties need, not part of the program: what the      *)
(* brokers last said of the cash, and the lots posted to since the last    *)
(* reconciliation.                                                         *)
(***************************************************************************)
VARIABLES reported, ahead

accounts == <<cash, deposit, basis, equity, quantity, average>>
document == <<doc, revision>>
observed == <<reported, ahead>>
vars == <<cash, deposit, basis, equity, quantity, average, doc, revision, journal,
          job, reported, ahead>>

-----------------------------------------------------------------------------
(* Lots.  A lot of the document is its units and its cost, avg_price * units. *)

Lot == [units : Int \ {0}, cost : Int]
Bought(u, p) == [units |-> u, cost |-> u * p]
Total(f) == FoldFunction(+, 0, f)

UnitsOf(lot) == IF lot = None THEN 0 ELSE lot.units
SignedCost(l, lot) ==
  IF lot = None THEN 0 ELSE IF l \in ShortLots THEN -lot.cost ELSE lot.cost

(* Quotients of minor units: BigInt division truncates, toMinor rounds. *)
Truncated(n, d) == IF n >= 0 THEN n \div d ELSE -((-n) \div d)
Nearest(n, d) == IF d > 0 THEN (2 * n + d) \div (2 * d) ELSE (d - 2 * n) \div (-2 * d)
UnitPrice(lot) == IF lot = None THEN 0 ELSE Nearest(lot.cost, lot.units)

(* The average after a line of units at price p; a sale has no price. *)
NextAverage(l, units, p, signed) ==
  LET next == quantity[l] + units
  IN  IF next = 0 THEN 0
      ELSE IF p # None /\ signed THEN p
      ELSE IF p # None /\ units > 0
           THEN Truncated(average[l] * quantity[l] + p * units, next)
           ELSE average[l]

-----------------------------------------------------------------------------
(* What postEntry refuses, and what it does whatever the operation.           *)

InBounds(amount) == amount \in -MaxMoney .. MaxMoney

(* Cash may fall below zero only where the caller is trusted. *)
\* Mutant: any cash will do.
AnyCashCovers(c, delta) == delta < 0 => cash[c] > 0
CashCovers(c, delta) == delta < 0 => cash[c] + delta >= 0

(* An id with an entry in the journal is answered from it, whatever the amounts: *)
(* no line is posted.                                                            *)
Unposted(r) == r \notin journal
Entered(r) == journal' = journal \cup ({r} \cap Requests)

MoveCash(c, delta) ==
  /\ InBounds(cash[c] + delta)
  /\ cash' = [cash EXCEPT ![c] = @ + delta]

MoveLot(l, units, amount, p, signed) ==
  /\ ~signed => quantity[l] + units >= 0
  /\ quantity[l] + units \in -MaxUnits .. MaxUnits
  /\ InBounds(basis[l] + amount)
  /\ quantity' = [quantity EXCEPT ![l] = @ + units]
  /\ basis' = [basis EXCEPT ![l] = @ + amount]
  /\ average' = [average EXCEPT ![l] = NextAverage(l, units, p, signed)]

LotsUntouched == UNCHANGED <<basis, quantity, average, ahead>>
BooksOnly == UNCHANGED <<document, job, reported>>

-----------------------------------------------------------------------------
(* Cash, from tools and from the lines of a reconciliation.                   *)

(* A cash leg against equity, once its operation has let it pass. *)
PostCash(r, c, delta) ==
  /\ Unposted(r)
  /\ CashCovers(c, delta)
  /\ MoveCash(c, delta)
  /\ equity' = equity - delta
  /\ Entered(r)
  /\ UNCHANGED deposit
  /\ LotsUntouched
  /\ BooksOnly

(* An empty sleeve pays nothing, and takes money only where it may be made. *)
ApplyCashDelta(r, c, delta, create) ==
  /\ cash[c] = 0 => delta > 0 /\ create
  /\ cash[c] + delta >= 0
  /\ PostCash(r, c, delta)

OpeningBalance(r, c, amount) ==
  /\ amount > 0
  /\ cash[c] = 0
  /\ PostCash(r, c, amount)

CashAdjustment(r, c, delta) ==
  /\ delta # 0
  /\ PostCash(r, c, delta)

ClearCashSleeve(r, c) ==
  /\ cash[c] # 0
  /\ CashAdjustment(r, c, -cash[c])

Transfer(r, from, to, amount) ==
  /\ from # to
  /\ amount > 0
  /\ Unposted(r)
  /\ CashCovers(from, -amount)
  /\ InBounds(cash[to] + amount)
  /\ cash' = [cash EXCEPT ![from] = @ - amount, ![to] = @ + amount]
  /\ Entered(r)
  /\ UNCHANGED <<deposit, equity>>
  /\ LotsUntouched
  /\ BooksOnly

-----------------------------------------------------------------------------
(* Deposits: principal against the cash of its channel, or against equity     *)
(* when the caller leaves cash alone.                                         *)

\* Mutant: the signs of the two legs are swapped.
MoveDepositSwapped(r, d, amount, adjustCash) ==
  /\ Unposted(r)
  /\ InBounds(deposit[d] - amount)
  /\ deposit' = [deposit EXCEPT ![d] = @ - amount]
  /\ IF adjustCash
     THEN CashCovers(Home, amount) /\ MoveCash(Home, amount) /\ UNCHANGED equity
     ELSE equity' = equity + amount /\ UNCHANGED cash
  /\ Entered(r)
  /\ LotsUntouched
  /\ BooksOnly
MoveDeposit(r, d, amount, adjustCash) ==
  /\ Unposted(r)
  /\ deposit[d] + amount >= 0
  /\ InBounds(deposit[d] + amount)
  /\ deposit' = [deposit EXCEPT ![d] = @ + amount]
  /\ IF adjustCash
     THEN CashCovers(Home, -amount) /\ MoveCash(Home, -amount) /\ UNCHANGED equity
     ELSE equity' = equity - amount /\ UNCHANGED cash
  /\ Entered(r)
  /\ LotsUntouched
  /\ BooksOnly

AddDeposit(r, d, amount, adjustCash) == MoveDeposit(r, d, amount, adjustCash)

MatureDeposit(r, d, amount, adjustCash) ==
  /\ deposit[d] > 0
  /\ amount \in 1 .. deposit[d]
  /\ MoveDeposit(r, d, -amount, adjustCash)

RemoveDeposit(r, d, adjustCash) ==
  /\ deposit[d] > 0
  /\ MoveDeposit(r, d, -deposit[d], adjustCash)

-----------------------------------------------------------------------------
(* Jobs on the lots: load the document, post, save.                           *)

Idle == [step |-> "idle"]
Loaded == [step |-> "loaded", revision |-> revision, lots |-> doc]
Becomes(j, step, lots) == job' = [job EXCEPT ![j].step = step, ![j].lots = lots]

Load(j) ==
  /\ job[j].step = "idle"
  /\ job' = [job EXCEPT ![j] = Loaded]
  /\ UNCHANGED <<accounts, document, journal, observed>>

(* Where a trade is booked: its cash sleeve, or equity. *)
\* Mutant: a trade apart from cash has one leg.
AgainstCashOnly(amount, adjustCash) ==
  IF adjustCash
  THEN CashCovers(Home, -amount) /\ MoveCash(Home, -amount) /\ UNCHANGED equity
  ELSE UNCHANGED <<cash, equity>>
AgainstCashOrEquity(amount, adjustCash) ==
  IF adjustCash
  THEN CashCovers(Home, -amount) /\ MoveCash(Home, -amount) /\ UNCHANGED equity
  ELSE equity' = equity - amount /\ UNCHANGED cash

(* add_holding: the trade is posted, the document's lot takes it up. *)
PostHoldingOpen(j, l, u, p, adjustCash) ==
  LET before == job[j].lots[l]
      after  == IF before = None THEN Bought(u, p)
                ELSE [units |-> before.units + u, cost |-> before.cost + u * p]
      amount == SignedCost(l, Bought(u, p))
  IN  /\ job[j].step = "loaded"
      /\ before # None => before.units > 0 /\ before.cost > 0
      /\ after.units <= MaxUnits
      /\ MoveLot(l, u, amount, p, ~adjustCash)
      /\ AgainstCashOrEquity(amount, adjustCash)
      /\ Becomes(j, "posted", [job[j].lots EXCEPT ![l] = after])
      /\ ahead' = ahead \cup {l}
      /\ UNCHANGED <<deposit, document, journal, reported>>

(* remove_holding: what is live in the accounts is closed, or else what the *)
(* document has.                                                            *)
PostHoldingClose(j, l, adjustCash) ==
  LET lot      == job[j].lots[l]
      closeQty == IF quantity[l] # 0 THEN quantity[l] ELSE lot.units
      closeBal == IF basis[l] # 0 THEN basis[l] ELSE SignedCost(l, lot)
  IN  /\ job[j].step = "loaded"
      /\ lot # None
      /\ MoveLot(l, -closeQty, -closeBal, None, ~adjustCash)
      /\ AgainstCashOrEquity(-closeBal, adjustCash)
      /\ Becomes(j, "posted", [job[j].lots EXCEPT ![l] = None])
      /\ ahead' = ahead \cup {l}
      /\ UNCHANGED <<deposit, document, journal, reported>>

(* update_holding and other edits that leave the lots of the accounts alone. *)
EditHolding(j, l, u, p) ==
  /\ job[j].step = "loaded"
  /\ job[j].lots[l] # None
  /\ Becomes(j, "posted", [job[j].lots EXCEPT ![l] = Bought(u, p)])
  /\ UNCHANGED <<accounts, document, journal, observed>>

-----------------------------------------------------------------------------
(* Lots are brought to a target by closing what differs and opening it anew.  *)

\* Mutant: the cost is not compared.
MatchesUnits(l, lot) == lot # None /\ quantity[l] = lot.units
Matches(l, lot) == lot # None /\ quantity[l] = lot.units /\ basis[l] = SignedCost(l, lot)

(* The check before a close: "inconsistent books quantity or cost". *)
Closable(l) == quantity[l] = 0 => basis[l] = 0

ReplaceLots(lots) ==
  /\ \A l \in Lots : Matches(l, lots[l]) \/ Closable(l)
  /\ basis' = [l \in Lots |-> IF Matches(l, lots[l]) THEN basis[l]
                               ELSE SignedCost(l, lots[l])]
  /\ quantity' = [l \in Lots |-> UnitsOf(lots[l])]
  /\ average' = [l \in Lots |-> IF Matches(l, lots[l]) THEN average[l]
                                 ELSE UnitPrice(lots[l])]

(* A broker statement: the lots and the cash of its channel, where reported. *)
PostSnapshot(j, lots, balance, sections) ==
  /\ job[j].step = "loaded"
  /\ IF "positions" \in sections
     THEN /\ ReplaceLots(lots)
          /\ Becomes(j, "posted", lots)
          /\ ahead' = Lots
     ELSE /\ LotsUntouched
          /\ Becomes(j, "posted", job[j].lots)
  /\ IF "cash" \in sections
     THEN /\ cash' = [cash EXCEPT ![Home] = balance]
          /\ reported' = [reported EXCEPT ![Home] = balance]
     ELSE UNCHANGED <<cash, reported>>
  /\ equity' = equity - (Total(basis') - Total(basis)) - (cash'[Home] - cash[Home])
  /\ UNCHANGED <<deposit, document, journal>>

(* The cash and the deposits of a copy are any they may be: a sleeve is not *)
(* reconciled to a debt unless that makes the debt smaller.                 *)
ReplaceCash(balances, principals) ==
  /\ \A c \in Channels : balances[c] < cash[c] => balances[c] >= 0
  /\ cash' = balances
  /\ deposit' = principals

(* The save: a newer revision refuses it; if any money in the copy differs  *)
(* from what is stored, the accounts follow the copy first.                 *)
SaveRecord(j) ==
  /\ job[j].step = "posted"
  /\ job[j].revision = revision
  /\ revision < MaxRevision
  /\ doc' = job[j].lots
  /\ revision' = revision + 1
  /\ job' = [job EXCEPT ![j] = Idle]
  /\ UNCHANGED <<journal, reported>>

Save(j, balances, principals) ==
  /\ SaveRecord(j)
  /\ ReplaceLots(job[j].lots)
  /\ ReplaceCash(balances, principals)
  /\ equity' = equity - (Total(basis') - Total(basis)) - (Total(cash') - Total(cash))
                - (Total(deposit') - Total(deposit))
  /\ ahead' = {}

SaveSameMoney(j) ==
  /\ SaveRecord(j)
  /\ job[j].lots = doc
  /\ UNCHANGED <<cash, deposit, equity>>
  /\ LotsUntouched

(* A refusal, a conflict of revisions or the end of the process: what was   *)
(* posted stays posted, the document is not written.                        *)
Abandon(j) ==
  /\ job[j].step # "idle"
  /\ job' = [job EXCEPT ![j] = Idle]
  /\ UNCHANGED <<accounts, document, journal, observed>>

-----------------------------------------------------------------------------
(* The start: a document whose lots were imported into the empty accounts,    *)
(* and cash that was opened.                                                  *)
Init ==
  /\ doc \in [Lots -> {Bought(1, p) : p \in Prices} \cup {None}]
  /\ cash \in [Channels -> {0} \cup Amounts \cup BrokerCash]
  /\ deposit = [d \in Deposits |-> 0]
  /\ basis = [l \in Lots |-> SignedCost(l, doc[l])]
  /\ quantity = [l \in Lots |-> UnitsOf(doc[l])]
  /\ average = [l \in Lots |-> UnitPrice(doc[l])]
  /\ equity = -(Total(cash) + Total(basis))
  /\ revision = 0
  /\ job = [j \in Jobs |-> Idle]
  /\ journal = {}
  /\ reported = [c \in Channels |-> IF cash[c] < 0 THEN cash[c] ELSE 0]
  /\ ahead = {}

Signed(amounts) == amounts \cup {-a : a \in amounts}

CashStep ==
  \E r \in Requests \cup {Fresh}, c \in Channels :
    \/ \E delta \in Signed(Amounts), create \in BOOLEAN : ApplyCashDelta(r, c, delta, create)
    \/ \E amount \in Amounts : OpeningBalance(r, c, amount)
    \/ \E delta \in Signed(Amounts) : CashAdjustment(r, c, delta)
    \/ ClearCashSleeve(r, c)
    \/ \E to \in Channels, amount \in Amounts : Transfer(r, c, to, amount)

DepositStep ==
  \E r \in Requests \cup {Fresh}, d \in Deposits, adjustCash \in BOOLEAN :
    \/ \E amount \in Amounts : AddDeposit(r, d, amount, adjustCash)
    \/ \E amount \in Amounts : MatureDeposit(r, d, amount, adjustCash)
    \/ RemoveDeposit(r, d, adjustCash)

LotStep ==
  \E j \in Jobs :
    \/ Load(j)
    \/ \E l \in Lots, u \in 1 .. MaxUnits, p \in Prices, adjustCash \in BOOLEAN :
         PostHoldingOpen(j, l, u, p, adjustCash)
    \/ \E l \in Lots, adjustCash \in BOOLEAN : PostHoldingClose(j, l, adjustCash)
    \/ \E l \in Lots, u \in 1 .. MaxUnits, p \in Prices : EditHolding(j, l, u, p)
    \/ \E lots \in [Lots -> BrokerLots \cup {None}], balance \in BrokerCash,
          sections \in SUBSET {"positions", "cash"} : PostSnapshot(j, lots, balance, sections)
    \/ \E balances \in [Channels -> -MaxMoney .. MaxMoney],
          principals \in [Deposits -> 0 .. MaxMoney] : Save(j, balances, principals)
    \/ SaveSameMoney(j)
    \/ Abandon(j)

Next == CashStep \/ DepositStep \/ LotStep

Spec == Init /\ [][Next]_vars

-----------------------------------------------------------------------------
(***************************************************************************)
(* Types: deposits never hold less than nothing, a job at work has lots    *)
(* that a document may have.  Of equity BooksBalance says more.            *)
(***************************************************************************)
TypeOK ==
  /\ cash \in [Channels -> Int]
  /\ deposit \in [Deposits -> Nat]
  /\ basis \in [Lots -> Int]
  /\ quantity \in [Lots -> Int]
  /\ average \in [Lots -> Int]
  /\ doc \in [Lots -> Lot \cup {None}]
  /\ revision \in Nat
  /\ job \in [Jobs -> {Idle} \cup [step : {"loaded", "posted"}, revision : Nat,
                                   lots : [Lots -> Lot \cup {None}]]]
  /\ journal \in SUBSET Requests
  /\ reported \in [Channels -> Int]
  /\ ahead \in SUBSET Lots

(***************************************************************************)
(* Double entry over all operations (post.ts:79-95): whatever is posted,   *)
(* traded, imported and reconciled, cash, deposits, lots and equity add up *)
(* to nothing, so no operation makes or loses money.                       *)
(***************************************************************************)
BooksBalance == Total(cash) + Total(deposit) + Total(basis) + equity = 0

(***************************************************************************)
(* Debit cash comes from brokers only (post.ts:220): no sequence of        *)
(* postings takes a sleeve below zero, or deeper than the broker's last    *)
(* report of it.                                                           *)
(***************************************************************************)
DebtReported == \A c \in Channels : cash[c] >= 0 \/ cash[c] >= reported[c]

(***************************************************************************)
(* The accounts of lots nobody has posted to since the last reconciliation *)
(* say what the stored document says, units and cost                       *)
(* (state-reconcile.ts:44, "aligned with every persisted mutation").       *)
(***************************************************************************)
LotsAgree ==
  \A l \in Lots \ ahead :
    quantity[l] = UnitsOf(doc[l]) /\ basis[l] = SignedCost(l, doc[l])
=============================================================================
