------------------------------- MODULE Treasury -------------------------------
(***************************************************************************)
(* The two calculations of the treasury over one household's books: a tool *)
(* call builds a payment plan or runs a projection, each month by month.   *)
(***************************************************************************)
EXTENDS PaymentPlan, Projection

treasuryVars == <<planVars, projectVars>>

Init == PlanInit /\ ProjectInit

Next ==
  \/ books = None /\ PlanNext /\ UNCHANGED projectVars
  \/ plan = None /\ ProjectNext /\ UNCHANGED planVars

Spec == Init /\ [][Next]_treasuryVars

(***************************************************************************)
(* Types of both: no debt, no cash of a plan and no deposit goes negative. *)
(***************************************************************************)
TypeOK == PlanTypeOK /\ ProjectTypeOK
=============================================================================
