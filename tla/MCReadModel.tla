---------------------------- MODULE MCReadModel ----------------------------
(* Instances of ReadModel: the configurations give all constants. *)
EXTENDS ReadModel
=============================================================================
