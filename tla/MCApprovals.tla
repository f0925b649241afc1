---------------------------- MODULE MCApprovals ----------------------------
(* Small instances of Approvals for TLC. *)
EXTENDS Approvals, TLC

Interchangeable ==
    Permutations(Sessions) \cup Permutations(Actions) \cup Permutations(Requests)
        \cup Permutations(Agreements) \cup Permutations(Agents) \cup Permutations(Operators)
=============================================================================
