-------------------------- MODULE ApprovalContract --------------------------
(***************************************************************************)
(* What the approvals promise to the people who decide and to those who    *)
(* read the audit trail, without versions, handlers, frames or processes:  *)
(* a request gets at most one decision, only that decision is delivered,   *)
(* it ends at most once, as decided or cancelled, and a success is only    *)
(* recorded for a delivered decision that is the request's outcome or was  *)
(* a refusal (a cancelled turn is recorded as a refused request).          *)
(***************************************************************************)
CONSTANT Requests

VARIABLES
    decision,   \* the decision made on a request, or "none"
    outcome,    \* how the request ended, or "none"
    delivered,  \* requests whose decision was sent to the asking process
    recorded    \* requests with a success in the audit trail

contractVars == <<decision, outcome, delivered, recorded>>

Verdicts == {"approved", "rejected", "answered"}

Init ==
    /\ decision = [p \in Requests |-> "none"]
    /\ outcome = [p \in Requests |-> "none"]
    /\ delivered = {}
    /\ recorded = {}

\* Nobody has decided and the request is open: the first decision wins.
Decide(p, d) ==
    /\ decision[p] = "none" /\ outcome[p] = "none"
    /\ decision' = [decision EXCEPT ![p] = d]
    /\ UNCHANGED <<outcome, delivered, recorded>>

Deliver(p) ==
    /\ decision[p] # "none"
    /\ delivered' = delivered \cup {p}
    /\ UNCHANGED <<decision, outcome, recorded>>

\* Open requests end, together when a process is replaced; one that nobody has
\* decided is cancelled.
End(S) ==
    /\ \A p \in S : outcome[p] = "none"
    /\ \E o \in [S -> {"cancelled"} \cup Verdicts] :
          /\ \A p \in S : o[p] \in {"cancelled", decision[p]}
          /\ outcome' = [p \in Requests |-> IF p \in S THEN o[p] ELSE outcome[p]]
    /\ UNCHANGED <<decision, delivered, recorded>>

\* What a recorded success says of the outcome: as decided, or cancelled if the
\* decision was a refusal.
Confirmed(d) == {d} \cup IF d = "rejected" THEN {"cancelled"} ELSE {}

\* The delivery is confirmed and recorded; the request may have ended before.
Record(p) ==
    /\ p \in delivered
    /\ recorded' = recorded \cup {p}
    /\ \E o \in Confirmed(decision[p]) :
          /\ outcome[p] \in {"none", o}
          /\ outcome' = [outcome EXCEPT ![p] = o]
    /\ UNCHANGED <<decision, delivered>>

Next ==
    \/ \E p \in Requests : \/ \E d \in Verdicts : Decide(p, d)
                           \/ Deliver(p) \/ Record(p)
    \/ \E S \in SUBSET Requests : End(S)

Spec == Init /\ [][Next]_contractVars

=============================================================================
