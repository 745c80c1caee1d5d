------------------------------ MODULE MCLedger ------------------------------
(* Small instances of Ledger: lots of one or two units, at prices far       *)
(* enough apart to tell an average from a last price.                       *)
EXTENDS Ledger, TLC

LongLots == {[units |-> 1, cost |-> 2]}
Debit == {-1, 1}
Symmetry == Permutations(Jobs)
=============================================================================
