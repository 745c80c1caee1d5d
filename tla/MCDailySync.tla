---------------------------- MODULE MCDailySync ----------------------------
(* Small instances of DailySync for TLC.                                   *)
EXTENDS DailySync, TLC

\* Runners, accounts and keys are only ever compared for equality.
Symmetry == Permutations(Runners) \cup Permutations(Accounts) \cup Permutations(Keys)
=============================================================================
