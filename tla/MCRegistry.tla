----------------------------- MODULE MCRegistry -----------------------------
(* Instances of Registry for TLC: clients, properties and values are model    *)
(* values, interchangeable within their kind.                                 *)
EXTENDS Registry, TLC

RegistrySymmetry ==
    Permutations(Clients) \cup Permutations(Properties) \cup Permutations(Values)
=============================================================================
