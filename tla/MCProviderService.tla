-------------------------- MODULE MCProviderService --------------------------
(* Instances of ProviderService for TLC. *)
EXTENDS ProviderService, TLC

CONSTANTS p1, p2, c1, c2, k1, k2
=============================================================================
