----------------------------- MODULE MCSignup -----------------------------
(* A small instance of Signup: two customers may ask for one day and        *)
(* session, and a renewal comes under the reference of the second, from the *)
(* address of the first.                                                    *)
EXTENDS Signup, TLC

CONSTANTS f1, f2, renewal, mon

Refs == f1 :> "A" @@ f2 :> "B" @@ renewal :> "B"
Mails == f1 :> "m" @@ f2 :> "n" @@ renewal :> "m"
Dates == f1 :> mon @@ f2 :> mon @@ renewal :> None
Known == {<<>>, <<[email |-> "n", active |-> FALSE]>>}
Interchangeable == Permutations(Calls)
=============================================================================
