----------------------------- MODULE MCRetention -----------------------------
(* Values of the constants of Retention for TLC. *)
EXTENDS Retention, TLC

CONSTANTS j1, e1, e2

MCJobOf == (e1 :> j1) @@ (e2 :> j1)
=============================================================================
