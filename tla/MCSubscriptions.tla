--------------------------- MODULE MCSubscriptions ---------------------------
(* Small instances of Subscriptions for TLC. *)
EXTENDS Subscriptions, TLC

Symmetric == Permutations(Requests) \cup Permutations(Deliveries)
=============================================================================
