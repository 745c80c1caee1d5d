------------------------------ MODULE MCRecon ------------------------------
(* Small instances of Recon: a channel whose statements differ from what is *)
(* held, or leave it out, and one that has cash only.                       *)
EXTENDS Recon, TLC

Channels == <<"ibkr", "ocbc">>
Says(cash, other) == [i \in Items |-> IF i \in Currencies THEN cash ELSE other]
Held == "ibkr" :> {Says(1, 1)} @@ "ocbc" :> {Says(0, 0)}
Usual == "ibkr" :> {Says(2, None), Says(None, 2)} @@ "ocbc" :> {Says(2, None)}
=============================================================================
