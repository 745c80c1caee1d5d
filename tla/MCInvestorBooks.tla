--------------------------- MODULE MCInvestorBooks ---------------------------
(* Small instances of InvestorBooks for TLC.                                *)
EXTENDS InvestorBooks, TLC

Symmetry == Permutations(Writers)
Amounts == {-1, 1}
=============================================================================
