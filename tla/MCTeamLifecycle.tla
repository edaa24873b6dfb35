---------------------------- MODULE MCTeamLifecycle ----------------------------
(* Instances of TeamLifecycle for TLC. *)
EXTENDS TeamLifecycle, TLC

Symmetry ==
    Permutations(Teams) \cup Permutations(Requests) \cup Permutations(Replicas)
        \cup Permutations(Lookups)

=============================================================================
