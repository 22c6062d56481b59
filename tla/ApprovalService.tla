--------------------------- MODULE ApprovalService ---------------------------
(***************************************************************************)
(* Durable approvals (apps/web/crates/approval-service), the HTTP handlers *)
(* that decide them (server/src/routes/approvals.rs), and the event bridge *)
(* that captures the Runtime's requests and resolutions (server main.rs).  *)
(* Each action is one transaction or one call; the Runtime process, the    *)
(* bridge, the deciding clients and a listing client interleave freely.    *)
(*                                                                         *)
(* A request is a pair <<instance, id>>: every app-server process has a    *)
(* fresh instance and counts its request ids anew.                         *)
(***************************************************************************)
EXTENDS Integers, Sequences, FiniteSets

CONSTANTS
    ReqIds,        \* request ids an app-server process uses
    InputReqs,     \* the ids that stand for item/tool/requestUserInput
    Clients,       \* concurrent decide / respond_user_input handlers
    MaxInstances,  \* bound: app-server processes over time
    MaxVersion,    \* bound: approvals.version
    MaxQueue,      \* bound: frames waiting in the bridge's channel
    DbMayFail      \* whether the platform's database calls may fail

ASSUME ApprovalConstants ==
    /\ InputReqs \subseteq ReqIds
    /\ MaxInstances \in Nat \ {0}
    /\ MaxVersion \in Nat
    /\ MaxQueue \in Nat \ {0}
    /\ DbMayFail \in BOOLEAN

VARIABLES
    instance,    \* Profile Host's runtime_instance_id
    asked,       \* requests the Runtime has sent
    open,        \* those the Runtime still waits for
    queue,       \* frames between the adapter and the bridge
    reconciled,  \* the bridge's reconciled_runtime_instance_id
    settled,     \* requests whose resolution the bridge has applied
    row,         \* the approvals table
    call,        \* the deciding handlers
    lister,      \* the instance a list_pending handler has read, or 0
    received,    \* responses written to the app-server's stdin
    audit        \* audit records

runtimeVars == <<instance, asked, open>>
bridgeVars == <<queue, reconciled, settled>>
handlerVars == <<call, lister>>
vars == <<runtimeVars, bridgeVars, row, handlerVars, received, audit>>

-----------------------------------------------------------------------------

Instances == 1..MaxInstances
Requests == Instances \X ReqIds
Choices == {"accept", "acceptForSession", "decline", "cancel", "answer"}
Decisions == {"approved", "rejected", "answered"}
Live == {"pending", "dispatching", "delivery_unknown"}
Settled == {"approved", "rejected", "answered", "cancelled"}

\* approval_response and begin_user_input_response: what a choice stores in
\* `decision` (two pairs of choices store the same), and the state it ends in.
StoredDecision(choice) ==
    CASE choice \in {"accept", "acceptForSession"} -> "approved"
      [] choice \in {"decline", "cancel"} -> "rejected"
      [] choice = "answer" -> "answered"
TerminalState(choice) ==
    IF choice = "cancel" THEN "cancelled" ELSE StoredDecision(choice)

\* User input is answered, everything else is decided.
Offered(p) == IF p[2] \in InputReqs THEN {"answer"} ELSE Choices \ {"answer"}

\* Mutant: an undecided approval has no state to end in.
ResolvedStateDecided(decision) == decision

\* resolved_terminal_state of an active approval.
ResolvedState(decision) == IF decision = "none" THEN "cancelled" ELSE decision

NoRow == [state |-> "absent", version |-> 0, decision |-> "none"]
Idle == [pc |-> "idle", req |-> <<0, 0>>, version |-> 0, choice |-> "none"]

\* SET state = ..., version = version + 1 on one approval.
SetState(p, state) ==
    [row EXCEPT ![p] = [state |-> state, version |-> @.version + 1, decision |-> @.decision]]

\* cancel_stale_runtime_requests(i): every live approval of another instance.
CancelStale(i) ==
    [p \in Requests |->
        IF row[p].state \in Live /\ p[1] # i
        THEN SetState(p, "cancelled")[p]
        ELSE row[p]]

Init ==
    /\ instance = 1
    /\ asked = {} /\ open = {}
    /\ queue = <<>> /\ reconciled = 0 /\ settled = {}
    /\ row = [p \in Requests |-> NoRow]
    /\ call = [c \in Clients |-> Idle]
    /\ lister = 0
    /\ received = {} /\ audit = {}

-----------------------------------------------------------------------------
(* The Runtime, external to the platform: a process asks, and later reports  *)
(* a request resolved because it was answered, interrupted or resolved on    *)
(* its own; a replacement process forgets everything.                        *)

Send(kind, p) ==
    /\ Len(queue) < MaxQueue
    /\ queue' = Append(queue, [kind |-> kind, req |-> p])

RuntimeAsks(q) ==
    LET p == <<instance, q>>
    IN  /\ p \notin asked
        /\ asked' = asked \cup {p}
        /\ open' = open \cup {p}
        /\ Send("request", p)
        /\ UNCHANGED <<instance, reconciled, settled, row, handlerVars, received, audit>>

RuntimeResolves(p) ==
    /\ p \in open
    /\ open' = open \ {p}
    /\ Send("resolved", p)
    /\ UNCHANGED <<instance, asked, reconciled, settled, row, handlerVars, received, audit>>

RuntimeReplaced ==
    /\ instance < MaxInstances
    /\ instance' = instance + 1
    /\ open' = {}
    /\ UNCHANGED <<asked, bridgeVars, row, handlerVars, received, audit>>

-----------------------------------------------------------------------------
(* The event bridge: one task, one frame at a time. *)

\* The first frame of another instance cancels what other instances left.
BridgeReconcile ==
    /\ queue # <<>>
    /\ Head(queue).req[1] # reconciled
    /\ row' = CancelStale(Head(queue).req[1])
    /\ reconciled' = Head(queue).req[1]
    /\ UNCHANGED <<runtimeVars, queue, settled, handlerVars, received, audit>>

\* capture_message: insert a pending approval, once per request.
BridgeCapture ==
    /\ queue # <<>>
    /\ Head(queue).kind = "request" /\ Head(queue).req[1] = reconciled
    /\ queue' = Tail(queue)
    /\ LET p == Head(queue).req
       IN  row' = IF row[p].state = "absent"
                  THEN [row EXCEPT ![p] = [NoRow EXCEPT !.state = "pending"]] ELSE row
    /\ UNCHANGED <<runtimeVars, reconciled, settled, handlerVars, received, audit>>

\* Mutant: an uncertain delivery is left to be retried.
MayResolveCertain(state) == state \in {"pending", "dispatching"}

MayResolve(state) == state \in Live

\* resolve_runtime_request: the stored decision determines the terminal state.
BridgeResolve ==
    /\ queue # <<>>
    /\ Head(queue).kind = "resolved" /\ Head(queue).req[1] = reconciled
    /\ queue' = Tail(queue)
    /\ LET p == Head(queue).req
       IN  /\ row' = IF MayResolve(row[p].state)
                     THEN SetState(p, ResolvedState(row[p].decision)) ELSE row
           /\ settled' = settled \cup {p}
    /\ UNCHANGED <<runtimeVars, reconciled, handlerVars, received, audit>>

\* A failed database call skips the frame.
BridgeSkips ==
    /\ DbMayFail /\ queue # <<>>
    /\ queue' = Tail(queue)
    /\ UNCHANGED <<runtimeVars, reconciled, settled, row, handlerVars, received, audit>>

-----------------------------------------------------------------------------
(* Handlers. *)

\* decide and respond_user_input read the current instance; the client sends
\* the version it was shown.
Decide(c, p, choice) ==
    /\ call[c].pc = "idle"
    /\ row[p].state \in Live /\ p[1] = instance
    /\ row[p].version + 2 <= MaxVersion
    /\ choice \in Offered(p)
    /\ call' = [call EXCEPT ![c] = [pc |-> "begin", req |-> p,
                                   version |-> row[p].version, choice |-> choice]]
    /\ UNCHANGED <<runtimeVars, bridgeVars, row, lister, received, audit>>

\* Mutant: an uncertain delivery is retried with any decision.
MayDispatchAny(p, version, decision) ==
    row[p].version = version /\ row[p].state \in {"pending", "delivery_unknown"}

\* begin_decision / begin_user_input_response: compare and swap on the version;
\* an uncertain delivery may be retried with the decision already stored.
MayDispatch(p, version, decision) ==
    /\ row[p].version = version
    /\ \/ row[p].state = "pending"
       \/ row[p].state = "delivery_unknown" /\ row[p].decision = decision

BeginDecision(c) ==
    LET p == call[c].req
        d == StoredDecision(call[c].choice)
    IN  /\ call[c].pc = "begin"
        /\ IF MayDispatch(p, call[c].version, d)
           THEN /\ row' = [row EXCEPT ![p] = [state |-> "dispatching",
                                              version |-> call[c].version + 1,
                                              decision |-> d]]
                /\ call' = [call EXCEPT ![c] = [pc |-> "respond", req |-> p,
                                version |-> @.version + 1, choice |-> @.choice]]
           ELSE /\ call' = [call EXCEPT ![c] = Idle]
                /\ UNCHANGED row
        /\ UNCHANGED <<runtimeVars, bridgeVars, lister, received, audit>>

\* Mutant: the request id alone identifies the request.
AcceptsAnyInstance(p) == TRUE

\* Profile Host compares the instance the answer is for with its own.
AcceptsAnswer(p) == p[1] = instance

\* respond_to_server_request: Profile Host refuses another instance's answer; a
\* write to stdin that reports an error may or may not have been read.
Respond(c) ==
    LET p == call[c].req
        answer == [to |-> <<instance, p[2]>>, for |-> p, choice |-> call[c].choice]
    IN  /\ call[c].pc = "respond"
        /\ \/ /\ AcceptsAnswer(p)
              /\ received' = received \cup {answer}
              /\ \E next \in {"complete", "unknown"} :
                    call' = [call EXCEPT ![c].pc = next]
           \/ /\ call' = [call EXCEPT ![c].pc = "unknown"]
              /\ UNCHANGED received
        /\ UNCHANGED <<runtimeVars, bridgeVars, row, lister, audit>>

Audit(c, result) ==
    audit' = audit \cup {[req |-> call[c].req, choice |-> call[c].choice, result |-> result]}

\* Mutants: the update is by id alone; the terminal state is not compared.
StillDispatchingUnchecked(p, version) == TRUE
AlreadyDecided(p, choice) == row[p].decision = StoredDecision(choice)

\* WHERE state = 'dispatching' AND version = ...
StillDispatching(p, version) == row[p].state = "dispatching" /\ row[p].version = version

\* Mutant: completing what the resolution has ended is a conflict.
EndedIsConflict(p, choice) == FALSE

\* The approval ended as this decision would have ended it.
AlreadyEnded(p, choice) ==
    row[p].state = TerminalState(choice) /\ row[p].decision = StoredDecision(choice)

\* complete_decision: a dispatch that was overtaken still succeeds, with its
\* audit record, if the approval ended as this decision would have ended it.
CompleteDecision(c) ==
    LET p == call[c].req
        dispatching == StillDispatching(p, call[c].version)
    IN  /\ call[c].pc = "complete"
        /\ row' = IF dispatching THEN SetState(p, TerminalState(call[c].choice)) ELSE row
        /\ IF dispatching \/ AlreadyEnded(p, call[c].choice)
           THEN Audit(c, "success") ELSE UNCHANGED audit
        /\ call' = [call EXCEPT ![c] = Idle]
        /\ UNCHANGED <<runtimeVars, bridgeVars, lister, received>>

MarkDeliveryUnknown(c) ==
    LET p == call[c].req
    IN  /\ call[c].pc = "unknown"
        /\ row' = IF StillDispatching(p, call[c].version)
                  THEN SetState(p, "delivery_unknown") ELSE row
        /\ Audit(c, "delivery_unknown")
        /\ call' = [call EXCEPT ![c] = Idle]
        /\ UNCHANGED <<runtimeVars, bridgeVars, lister, received>>

\* A handler's database call fails and the request ends with an error.
HandlerDbError(c) ==
    /\ DbMayFail /\ call[c].pc \in {"begin", "complete", "unknown"}
    /\ call' = [call EXCEPT ![c] = Idle]
    /\ UNCHANGED <<runtimeVars, bridgeVars, row, lister, received, audit>>

\* list_pending: the route reads the instance, the service then cancels every
\* live approval of any other one before it lists.
ListBegin ==
    /\ lister = 0
    /\ lister' = instance
    /\ UNCHANGED <<runtimeVars, bridgeVars, row, call, received, audit>>

ListPending ==
    /\ lister # 0
    /\ row' = CancelStale(lister)
    /\ lister' = 0
    /\ UNCHANGED <<runtimeVars, bridgeVars, call, received, audit>>

-----------------------------------------------------------------------------

Runtime ==
    \/ \E q \in ReqIds : RuntimeAsks(q)
    \/ \E p \in Requests : RuntimeResolves(p)
    \/ RuntimeReplaced

Bridge == BridgeReconcile \/ BridgeCapture \/ BridgeResolve

Continue(c) ==
    BeginDecision(c) \/ Respond(c) \/ CompleteDecision(c) \/ MarkDeliveryUnknown(c)

Next ==
    \/ Runtime
    \/ Bridge \/ BridgeSkips
    \/ \E c \in Clients : \/ \E p \in Requests, choice \in Choices : Decide(c, p, choice)
                          \/ Continue(c) \/ HandlerDbError(c)
    \/ ListBegin \/ ListPending

Spec == Init /\ [][Next]_vars

\* The bridge and every handler that has started go on; nobody is forced to ask,
\* decide, list or fail.
FairSpec ==
    /\ Spec
    /\ WF_vars(Bridge)
    /\ \A c \in Clients : WF_vars(Continue(c))

-----------------------------------------------------------------------------
(* Properties. *)

RowType == [state : {"absent"} \cup Live \cup Settled, version : Nat,
            decision : Decisions \cup {"none"}]
FrameType == [kind : {"request", "resolved"}, req : Requests]
CallType == [pc : {"begin", "respond", "complete", "unknown"}, req : Requests,
             version : Nat, choice : Choices]

\* Rows, frames and handlers are well formed.
TypeOK ==
    /\ instance \in Instances
    /\ asked \subseteq Requests /\ open \subseteq Requests /\ settled \subseteq Requests
    /\ queue \in Seq(FrameType)
    /\ reconciled \in 0..MaxInstances /\ lister \in 0..MaxInstances
    /\ row \in [Requests -> RowType]
    /\ call \in [Clients -> CallType \cup {Idle}]
    /\ received \subseteq [to : Requests, for : Requests, choice : Choices]
    /\ audit \subseteq [req : Requests, choice : Choices, result : {"success", "delivery_unknown"}]

\* architecture.md: "The first valid decision wins through compare-and-swap":
\* whatever is retried, delayed or repeated, every answer sent for one request has the
\* decision its row stores.  accept and acceptForSession store the same one, and so do
\* decline and cancel: a retry may send the other answer of the pair.
OneDecisionReceived ==
    \A a, b \in received : a.for = b.for => StoredDecision(a.choice) = StoredDecision(b.choice)

\* architecture.md: "a reused numeric request id cannot receive the stale
\* response": an answer reaches the very process that asked.
AnswersReachTheirProcess == \A a \in received : a.to = a.for

\* A successful audit record means that the app-server was sent this choice and
\* that the approval has ended, for good, in the state the choice stands for.
AuditTellsTheTruth ==
    \A e \in audit : e.result = "success" =>
        /\ [to |-> e.req, for |-> e.req, choice |-> e.choice] \in received
        /\ row[e.req].state = TerminalState(e.choice)
        /\ row[e.req].decision = StoredDecision(e.choice)

\* resolve_runtime_request: "no active approval may remain visible after the
\* Runtime says the request is resolved", however late a handler continues.
ResolvedIsClosed == \A p \in settled : row[p].state \notin Live

Contract == INSTANCE ApprovalContract WITH
    decision <- [p \in Requests |-> row[p].decision],
    outcome <- [p \in Requests |-> IF row[p].state \in Settled THEN row[p].state ELSE "none"],
    delivered <- {a.for : a \in received},
    recorded <- {e.req : e \in {x \in audit : x.result = "success"}}

\* product-design.md 8.4: every final state is irreversible.  The service, with its
\* versions, retries, restarts and failures, implements the contract: one
\* decision, one outcome that agrees with it, no success that was not delivered.
ImplementsContract == Contract!Spec

\* The bridge applies every resolution it was sent.
ResolutionApplied ==
    \A p \in Requests :
        (\E i \in DOMAIN queue : queue[i] = [kind |-> "resolved", req |-> p])
            ~> row[p].state \notin Live

\* product-design.md WF-08: a decided approval produces an immutable audit record: a
\* handler that delivered its answer does not return without one, also when the
\* resolution arrives before it, unless the process was replaced meanwhile or the
\* answer was Cancel, which a resolution that arrives first records as rejected.
DeliveredIsAudited ==
    [][\A c \in Clients :
         /\ call[c].pc = "complete" /\ call'[c].pc = "idle"
         /\ call[c].choice # "cancel" /\ row[call[c].req].state # "cancelled"
         => \E e \in audit' : e.req = call[c].req /\ e.choice = call[c].choice]_vars

=============================================================================
