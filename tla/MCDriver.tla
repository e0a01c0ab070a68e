------------------------------ MODULE MCDriver ------------------------------
(* Instances of Driver for TLC. *)
EXTENDS Driver

OneHallButton == {<<1, 0>>}
=============================================================================
