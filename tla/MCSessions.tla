----------------------------- MODULE MCSessions -----------------------------
(* Small instances of Sessions for TLC. *)
EXTENDS Sessions, TLC

Interchangeable ==
    Permutations(Ids) \cup Permutations(Principals) \cup Permutations(Callers)
=============================================================================
