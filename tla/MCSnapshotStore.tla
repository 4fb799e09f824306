-------------------------- MODULE MCSnapshotStore ---------------------------
(* Instances of SnapshotStore for TLC: writers and deleters are model values. *)
EXTENDS SnapshotStore
=============================================================================
