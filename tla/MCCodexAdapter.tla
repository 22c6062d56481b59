--------------------------- MODULE MCCodexAdapter ---------------------------
(* Instances of CodexAdapter for TLC. *)
EXTENDS CodexAdapter, TLC

CONSTANTS th1, o1, o2, k1

=============================================================================
