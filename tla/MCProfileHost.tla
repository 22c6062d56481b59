---------------------------- MODULE MCProfileHost ----------------------------
(* Instances of ProfileHost for TLC. *)
EXTENDS ProfileHost, TLC

CONSTANTS s1, s2

=============================================================================
