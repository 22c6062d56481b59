------------------------- MODULE MCApprovalService -------------------------
(* Instances of ApprovalService for TLC. *)
EXTENDS ApprovalService, TLC

CONSTANTS c1, c2

ClientSymmetry == Permutations(Clients)

=============================================================================
