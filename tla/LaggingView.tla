----------------------------- MODULE LaggingView -----------------------------
(***************************************************************************)
(* What a view of a changing source promises: it never shows what the      *)
(* source was not yet, never goes back, and catches up.  The source has    *)
(* several parts, and the view may lag behind each of them differently.    *)
(***************************************************************************)
EXTENDS Naturals

CONSTANTS
  Parts,    \* the parts of the source
  None      \* no view yet

VARIABLES
  source,   \* how often each part has changed
  view      \* the changes of each part that are shown

vars == <<source, view>>

(* One state of the source covers another: it is nowhere behind it. *)
Covers(new, old) == \A p \in Parts : old[p] <= new[p]

Init ==
  /\ source = [p \in Parts |-> 0]
  /\ view = None

Change ==
  /\ \E p \in Parts : source' = [source EXCEPT ![p] = @ + 1]
  /\ UNCHANGED view

Show ==
  /\ view' \in [Parts -> Nat]
  /\ Covers(source, view')
  /\ view # None => Covers(view', view)
  /\ UNCHANGED source

CatchUp == view # source /\ view' = source /\ UNCHANGED source

Next == Change \/ Show

Spec == Init /\ [][Next]_vars
FairSpec == Spec /\ WF_vars(CatchUp)
=============================================================================
