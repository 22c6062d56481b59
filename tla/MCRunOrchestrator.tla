------------------------- MODULE MCRunOrchestrator -------------------------
(* Instances of RunOrchestrator for TLC. *)
EXTENDS RunOrchestrator, TLC

CONSTANTS r1, r2, t1, w1, w2

\* Two requests for one Task, the second forked from the first in a worktree.
MCTaskOf == [r \in Runs |-> t1]
MCParentOf == [r \in Runs |-> IF r = r2 THEN r1 ELSE None]
MCForkOf == MCParentOf

\* A single request for a derived workspace of its own.
MCNoParent == [r \in Runs |-> None]

WorkerSymmetry == Permutations(Workers)

=============================================================================
