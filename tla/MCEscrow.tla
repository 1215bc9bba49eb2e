------------------------------ MODULE MCEscrow ------------------------------
(* Small instances of Escrow for TLC. *)
EXTENDS EscrowHistory, TLC

Symmetric == Permutations(Requests) \cup Permutations(Deliveries)
             \cup Permutations(Milestones)
=============================================================================
