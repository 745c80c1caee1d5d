------------------------------ MODULE MCTreasury ------------------------------
(* Small instances of Treasury: two debts, one dear and one cheap, a        *)
(* mortgage still to be opened, and two deposits.                           *)
EXTENDS Treasury, TLC

CONSTANTS fd1, fd2

Rates == <<2, 1, 1>>
Payments == <<3, 2, 2>>
Amounts == fd1 :> 2 @@ fd2 :> 3
Owing == {<<a, b, 0>> : a \in 0 .. 5, b \in {0, 2, 5}}
Dates == {fd1 :> m @@ fd2 :> 1 : m \in {0, 2, 9}}

\* Also what the payment only covers the interest of, and more: such a plan, or
\* projection, is refused.
Overdue == Owing \cup {<<a, b, 0>> : a \in {6, 8}, b \in {0, 2}}

PlanInputs ==
  [strategy : Strategies, cash : {0, 1, 4}, reserve : {0, 3}, income : {2, 6}, expense : {1},
   extra : {None, 0, 2}, owed : Overdue, matures : Dates]

Scenarios ==
  {[type |-> "none", at |-> 9, amount |-> 0, value |-> 0]}
  \cup [type : {"one_off"}, at : {1, 2}, amount : {-4}, value : {0}]
  \cup [type : {"recurring"}, at : {1}, amount : {-2, 2}, value : {0}]
  \cup [type : {"buy_property"}, at : {0, 1}, amount : {2}, value : {2, 5, 10, 14}]
ProjectBooks ==
  [cash : {0, 5}, portfolio : {4}, property : {0}, income : {0, 5, 8}, expense : {2},
   owed : Overdue, matures : Dates, event : Scenarios]
=============================================================================
