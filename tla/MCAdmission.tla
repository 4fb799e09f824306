---------------------------- MODULE MCAdmission -----------------------------
(* Instances of Admission for TLC: more clients than connections.             *)
EXTENDS Admission
=============================================================================
