------------------------------- MODULE MCKcpLink -------------------------------
(* An instance of KcpLink for TLC: the slave reports, the master only reads. *)
EXTENDS KcpLink

Slave == {"slave"}
Net == [slave |-> 1, master |-> 2]
=============================================================================
