----------------------------- MODULE MCReports ------------------------------
(* Instances of Reports for TLC: two properties of two entities, and two       *)
(* valuations of different years, of which the newer one is of a loss.         *)
EXTENDS Reports, TLC

CONSTANTS p1, p2, e1, e2, older, newer

MCEntityOf == p1 :> e1 @@ p2 :> e2
MCDateOf == older :> 2024 @@ newer :> 2025
MCYearOf == MCDateOf
MCValueOf == older :> 2 @@ newer :> 0 - 1

ReportsSymmetry == Permutations(Writers) \cup Permutations(Types)
=============================================================================
