---------------------------- MODULE MCEngagement ----------------------------
(* Small instances of Engagement for TLC. *)
EXTENDS Engagement, TLC

Symmetric == Permutations(DisputeIds) \cup Permutations(Calls)
             \cup Permutations(Requests)
=============================================================================
