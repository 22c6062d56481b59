------------------------ MODULE ApprovalServiceProofs ------------------------
(***************************************************************************)
(* Proofs about ApprovalService, for every set of requests and clients and *)
(* every bound: type correctness, one decision per request, a truthful and *)
(* complete audit trail, no approval that outlives its resolution, and the *)
(* refinement of ApprovalContract.                                         *)
(***************************************************************************)
EXTENDS ApprovalService, SequenceTheorems, TLAPS

\* A request nobody has begun to decide carries no decision.
Undecided == \A p \in Requests : row[p].state \in {"absent", "pending"} => row[p].decision = "none"

\* A handler past begin_decision carries the decision that its row stores.
Carried ==
    \A c \in Clients : call[c].pc \in {"respond", "complete", "unknown"}
        => row[call[c].req].decision = StoredDecision(call[c].choice)

\* A handler in complete_decision has delivered its answer to the asking process.
Confirmable ==
    \A c \in Clients : call[c].pc = "complete" =>
        [to |-> call[c].req, for |-> call[c].req, choice |-> call[c].choice] \in received

\* Every answer sent is the decision its row stores.
Sent == \A a \in received : row[a.for].decision = StoredDecision(a.choice)

\* The inductive invariant.
DecisionInv == Undecided /\ Carried /\ Confirmable /\ Sent /\ AuditTellsTheTruth

-----------------------------------------------------------------------------
(* Types. *)

\* SET state = ..., version = version + 1 leaves a well-formed table.
LEMMA SetStateTyped ==
    ASSUME TypeOK, NEW p \in Requests, NEW s \in {"absent"} \cup Live \cup Settled
    PROVE  SetState(p, s) \in [Requests -> RowType]
BY DEF TypeOK, SetState, RowType

\* cancel_stale_runtime_requests leaves a well-formed table.
LEMMA CancelStaleTyped ==
    ASSUME TypeOK, NEW i
    PROVE  CancelStale(i) \in [Requests -> RowType]
BY DEF TypeOK, CancelStale, SetState, RowType, Settled

\* The first frame of the bridge's channel and what is left after it.
LEMMA FrameTyped ==
    ASSUME TypeOK, queue # <<>>
    PROVE  Head(queue) \in FrameType /\ Tail(queue) \in Seq(FrameType)
BY HeadTailProperties DEF TypeOK

\* Choices store decisions and end in settled states.
LEMMA ChoiceTyped ==
    ASSUME NEW choice \in Choices
    PROVE  StoredDecision(choice) \in Decisions /\ TerminalState(choice) \in Settled
BY DEF Choices, Decisions, Settled, StoredDecision, TerminalState

\* A handler between its steps holds a request, a version and a choice.
LEMMA CallTyped ==
    ASSUME TypeOK, NEW c \in Clients,
           call[c].pc \in {"begin", "respond", "complete", "unknown"}
    PROVE  call[c] \in CallType
BY DEF TypeOK, Idle

\* The Runtime sends well-formed frames.
LEMMA RuntimeTyped ==
    ASSUME TypeOK, Runtime
    PROVE  TypeOK'
<1>1. ASSUME NEW q \in ReqIds, RuntimeAsks(q) PROVE TypeOK'
  <2>1. <<instance, q>> \in Requests
    BY DEF TypeOK, Requests
  <2>2. [kind |-> "request", req |-> <<instance, q>>] \in FrameType
    BY <2>1 DEF FrameType
  <2>3. queue' \in Seq(FrameType)
    BY <1>1, <2>2, AppendProperties DEF RuntimeAsks, Send, TypeOK
  <2> QED
    BY <1>1, <2>1, <2>3 DEF RuntimeAsks, TypeOK, handlerVars
<1>2. ASSUME NEW p \in Requests, RuntimeResolves(p) PROVE TypeOK'
  <2>1. [kind |-> "resolved", req |-> p] \in FrameType
    BY DEF FrameType
  <2>2. queue' \in Seq(FrameType)
    BY <1>2, <2>1, AppendProperties DEF RuntimeResolves, Send, TypeOK
  <2> QED
    BY <1>2, <2>2 DEF RuntimeResolves, TypeOK, handlerVars
<1>3. ASSUME RuntimeReplaced PROVE TypeOK'
  BY <1>3, ApprovalConstants DEF RuntimeReplaced, TypeOK, Instances, bridgeVars, handlerVars
<1> QED
  BY <1>1, <1>2, <1>3 DEF Runtime

\* The bridge writes well-formed rows and consumes its channel.
LEMMA BridgeTyped ==
    ASSUME TypeOK, Bridge \/ BridgeSkips
    PROVE  TypeOK'
<1> DEFINE p == Head(queue).req
<1>0. Head(queue) \in FrameType /\ Tail(queue) \in Seq(FrameType) /\ p \in Requests
  BY FrameTyped DEF Bridge, BridgeReconcile, BridgeCapture, BridgeResolve, BridgeSkips, FrameType
<1>1. CASE BridgeReconcile
  <2>1. row' \in [Requests -> RowType]
    BY <1>1, CancelStaleTyped DEF BridgeReconcile
  <2>2. reconciled' \in 0..MaxInstances
    BY <1>1, <1>0, ApprovalConstants DEF BridgeReconcile, Requests, Instances
  <2> QED
    BY <1>1, <2>1, <2>2 DEF BridgeReconcile, TypeOK, runtimeVars, handlerVars
<1>2. CASE BridgeCapture
  <2>1. row' \in [Requests -> RowType]
    BY <1>2, <1>0 DEF BridgeCapture, TypeOK, NoRow, RowType, Live
  <2> QED
    BY <1>2, <1>0, <2>1 DEF BridgeCapture, TypeOK, runtimeVars, handlerVars
<1>3. CASE BridgeResolve
  <2>1. ResolvedState(row[p].decision) \in Settled
    BY <1>0 DEF ResolvedState, TypeOK, RowType, Decisions, Settled
  <2>2. row' \in [Requests -> RowType]
    BY <1>3, <1>0, <2>1, SetStateTyped DEF BridgeResolve, TypeOK
  <2> QED
    BY <1>3, <1>0, <2>2 DEF BridgeResolve, TypeOK, runtimeVars, handlerVars
<1>4. CASE BridgeSkips
  BY <1>4, <1>0 DEF BridgeSkips, TypeOK, runtimeVars, handlerVars
<1> QED
  BY <1>1, <1>2, <1>3, <1>4 DEF Bridge

\* decide, respond_user_input and their steps keep the types.
LEMMA HandlerTyped ==
    ASSUME TypeOK, NEW c \in Clients,
           \/ \E p \in Requests, choice \in Choices : Decide(c, p, choice)
           \/ Continue(c) \/ HandlerDbError(c)
    PROVE  TypeOK'
<1> DEFINE p == call[c].req
<1>1. ASSUME NEW q \in Requests, NEW choice \in Choices, Decide(c, q, choice) PROVE TypeOK'
  <2>1. call'[c] \in CallType
    BY <1>1 DEF Decide, TypeOK, CallType, RowType
  <2> QED
    BY <1>1, <2>1 DEF Decide, TypeOK, runtimeVars, bridgeVars
<1>2. CASE BeginDecision(c)
  <2>0. call[c] \in CallType /\ p \in Requests
    BY <1>2, CallTyped DEF BeginDecision, CallType
  <2>1. StoredDecision(call[c].choice) \in Decisions
    BY <2>0, ChoiceTyped DEF CallType
  <2>2. row' \in [Requests -> RowType]
    <3> DEFINE dispatched == [state |-> "dispatching", version |-> call[c].version + 1,
                              decision |-> StoredDecision(call[c].choice)]
    <3>1. dispatched \in RowType
      BY <2>0, <2>1 DEF CallType, RowType, Live
    <3>2. row' = [row EXCEPT ![p] = dispatched] \/ row' = row
      BY <1>2 DEF BeginDecision
    <3> QED
      BY <2>0, <3>1, <3>2 DEF TypeOK
  <2>3. call' \in [Clients -> CallType \cup {Idle}]
    BY <1>2, <2>0 DEF BeginDecision, TypeOK, CallType
  <2> QED
    BY <1>2, <2>2, <2>3 DEF BeginDecision, TypeOK, runtimeVars, bridgeVars
<1>3. CASE Respond(c)
  <2>0. call[c] \in CallType /\ p \in Requests
    BY <1>3, CallTyped DEF Respond, CallType
  <2>1. call' \in [Clients -> CallType \cup {Idle}]
    BY <1>3, <2>0 DEF Respond, TypeOK, CallType
  <2>2. [to |-> <<instance, p[2]>>, for |-> p, choice |-> call[c].choice]
            \in [to : Requests, for : Requests, choice : Choices]
    BY <2>0 DEF TypeOK, Requests, CallType
  <2> QED
    BY <1>3, <2>1, <2>2 DEF Respond, TypeOK, runtimeVars, bridgeVars
<1>4. CASE CompleteDecision(c)
  <2>0. call[c] \in CallType /\ p \in Requests
    BY <1>4, CallTyped DEF CompleteDecision, CallType
  <2>1. TerminalState(call[c].choice) \in Settled
    BY <2>0, ChoiceTyped DEF CallType
  <2>2. row' \in [Requests -> RowType]
    BY <1>4, <2>0, <2>1, SetStateTyped DEF CompleteDecision, TypeOK
  <2>3. audit' \subseteq [req : Requests, choice : Choices, result : {"success", "delivery_unknown"}]
    BY <1>4, <2>0 DEF CompleteDecision, Audit, TypeOK, CallType
  <2> QED
    BY <1>4, <2>2, <2>3 DEF CompleteDecision, TypeOK, runtimeVars, bridgeVars
<1>5. CASE MarkDeliveryUnknown(c)
  <2>0. call[c] \in CallType /\ p \in Requests
    BY <1>5, CallTyped DEF MarkDeliveryUnknown, CallType
  <2>2. row' \in [Requests -> RowType]
    BY <1>5, <2>0, SetStateTyped DEF MarkDeliveryUnknown, TypeOK, Live
  <2>3. audit' \subseteq [req : Requests, choice : Choices, result : {"success", "delivery_unknown"}]
    BY <1>5, <2>0 DEF MarkDeliveryUnknown, Audit, TypeOK, CallType
  <2> QED
    BY <1>5, <2>2, <2>3 DEF MarkDeliveryUnknown, TypeOK, runtimeVars, bridgeVars
<1>6. CASE HandlerDbError(c)
  BY <1>6 DEF HandlerDbError, TypeOK, runtimeVars, bridgeVars
<1> QED
  BY <1>1, <1>2, <1>3, <1>4, <1>5, <1>6 DEF Continue

\* Every step keeps the types.
LEMMA TypeStep ==
    ASSUME TypeOK, [Next]_vars
    PROVE  TypeOK'
<1>1. CASE ListBegin
  BY <1>1, ApprovalConstants
  DEF ListBegin, TypeOK, Instances, runtimeVars, bridgeVars
<1>2. CASE ListPending
  BY <1>2, CancelStaleTyped, ApprovalConstants
  DEF ListPending, TypeOK, runtimeVars, bridgeVars
<1>3. CASE UNCHANGED vars
  BY <1>3 DEF TypeOK, vars, runtimeVars, bridgeVars, handlerVars
<1> QED
  BY <1>1, <1>2, <1>3, RuntimeTyped, BridgeTyped, HandlerTyped DEF Next

\* The initial tables and handlers are well formed.
LEMMA InitTyped ==
    ASSUME Init
    PROVE  TypeOK
BY ApprovalConstants
DEF Init, TypeOK, Instances, NoRow, RowType, Decisions

\* Rows, frames and handlers stay well formed, whatever fails or is replaced.
THEOREM TypeCorrect == Spec => []TypeOK
BY InitTyped, TypeStep, PTL DEF Spec

-----------------------------------------------------------------------------
(* Decisions. *)

\* What a step may do to a row: a settled one stays, a decision once stored stays,
\* and a row that nobody has begun to decide has none.
RowEvolves(p) ==
    /\ row[p].state \in Settled => row'[p].state = row[p].state
    /\ row[p].decision # "none" => row'[p].decision = row[p].decision
    /\ row'[p].state \in {"absent", "pending"} => row'[p].decision = "none"

\* A step that sends and audits nothing and moves no handler past begin_decision.
Silent ==
    /\ UNCHANGED <<received, audit>>
    /\ \A c \in Clients : call'[c].pc \in {"respond", "complete", "unknown"} => call'[c] = call[c]

\* A stored decision is not "none".
LEMMA DecisionMade ==
    ASSUME NEW choice \in Choices
    PROVE  StoredDecision(choice) # "none"
BY ChoiceTyped DEF Decisions

\* SET state on a live approval, to any state past 'pending'.
LEMMA SetStateEvolves ==
    ASSUME TypeOK, NEW p \in Requests, row[p].state \in Live,
           NEW s \in {"dispatching", "delivery_unknown"} \cup Settled,
           Undecided, row' = SetState(p, s)
    PROVE  \A q \in Requests : RowEvolves(q)
BY DEF TypeOK, Undecided, SetState, RowEvolves, RowType, Live, Settled

\* cancel_stale_runtime_requests cancels live approvals only.
LEMMA CancelStaleEvolves ==
    ASSUME TypeOK, NEW i, Undecided, row' = CancelStale(i)
    PROVE  \A q \in Requests : RowEvolves(q)
BY DEF TypeOK, Undecided, CancelStale, SetState, RowEvolves, RowType, Live, Settled

\* A row that does not change evolves.
LEMMA SameRowEvolves ==
    ASSUME Undecided, row' = row
    PROVE  \A q \in Requests : RowEvolves(q)
BY DEF Undecided, RowEvolves

\* Every stored decision is kept by what rows may do.
LEMMA DecisionsKept ==
    ASSUME TypeOK, DecisionInv, \A p \in Requests : RowEvolves(p)
    PROVE  /\ Undecided'
           /\ \A c \in Clients : call[c].pc \in {"respond", "complete", "unknown"}
                 => row'[call[c].req].decision = StoredDecision(call[c].choice)
           /\ \A a \in received : row'[a.for].decision = StoredDecision(a.choice)
           /\ \A e \in audit : e.result = "success" =>
                 /\ row'[e.req].state = TerminalState(e.choice)
                 /\ row'[e.req].decision = StoredDecision(e.choice)
<1>1. Undecided'
  BY DEF RowEvolves, Undecided
<1>2. ASSUME NEW c \in Clients, call[c].pc \in {"respond", "complete", "unknown"}
      PROVE  row'[call[c].req].decision = StoredDecision(call[c].choice)
  <2>1. call[c].req \in Requests /\ call[c].choice \in Choices
    BY <1>2, CallTyped DEF CallType
  <2> QED
    BY <1>2, <2>1, DecisionMade DEF DecisionInv, Carried, RowEvolves
<1>3. ASSUME NEW a \in received
      PROVE  row'[a.for].decision = StoredDecision(a.choice)
  <2>1. a.for \in Requests /\ a.choice \in Choices
    BY DEF TypeOK
  <2> QED
    BY <2>1, DecisionMade DEF DecisionInv, Sent, RowEvolves
<1>4. ASSUME NEW e \in audit, e.result = "success"
      PROVE  /\ row'[e.req].state = TerminalState(e.choice)
             /\ row'[e.req].decision = StoredDecision(e.choice)
  <2>1. e.req \in Requests /\ e.choice \in Choices
    BY DEF TypeOK
  <2>2. /\ row[e.req].state = TerminalState(e.choice)
        /\ row[e.req].decision = StoredDecision(e.choice)
    BY <1>4 DEF DecisionInv, AuditTellsTheTruth
  <2> QED
    BY <2>1, <2>2, DecisionMade, ChoiceTyped DEF RowEvolves
<1> QED
  BY <1>1, <1>2, <1>3, <1>4

\* A silent step under which every row evolves keeps the invariant.
LEMMA SilentStep ==
    ASSUME TypeOK, DecisionInv, Silent, \A p \in Requests : RowEvolves(p)
    PROVE  DecisionInv'
<1>1. Undecided'
  BY DecisionsKept
<1>2. Carried'
  BY DecisionsKept DEF Silent, Carried
<1>3. Confirmable'
  BY DEF Silent, DecisionInv, Confirmable
<1>4. Sent'
  BY DecisionsKept DEF Silent, Sent
<1>5. AuditTellsTheTruth'
  <2> SUFFICES ASSUME NEW e \in audit, e.result = "success"
               PROVE  /\ [to |-> e.req, for |-> e.req, choice |-> e.choice] \in received
                      /\ row'[e.req].state = TerminalState(e.choice)
                      /\ row'[e.req].decision = StoredDecision(e.choice)
    BY DEF Silent, AuditTellsTheTruth
  <2> QED
    BY DecisionsKept DEF DecisionInv, AuditTellsTheTruth
<1> QED
  BY <1>1, <1>2, <1>3, <1>4, <1>5 DEF DecisionInv

\* The Runtime, the bridge and the listing decide nothing.
LEMMA OthersAreSilent ==
    ASSUME TypeOK, DecisionInv,
           Runtime \/ Bridge \/ BridgeSkips \/ ListBegin \/ ListPending
    PROVE  Silent /\ \A q \in Requests : RowEvolves(q)
<1> USE DEF DecisionInv
<1>1. CASE Runtime
  BY <1>1, SameRowEvolves
  DEF Runtime, RuntimeAsks, RuntimeResolves, RuntimeReplaced, Silent, handlerVars
<1>2. CASE BridgeReconcile
  BY <1>2, CancelStaleEvolves DEF BridgeReconcile, Silent, handlerVars
<1>3. CASE BridgeCapture
  <2>1. Silent
    BY <1>3 DEF BridgeCapture, Silent, handlerVars
  <2>2. Head(queue).req \in Requests
    BY <1>3, FrameTyped DEF BridgeCapture, FrameType
  <2>3. CASE row' = row
    BY <2>1, <2>3, SameRowEvolves
  <2>4. CASE row' # row
    <3> DEFINE p == Head(queue).req
               new == [NoRow EXCEPT !.state = "pending"]
    <3>1. row[p].state = "absent" /\ row' = [row EXCEPT ![p] = new]
      BY <1>3, <2>4 DEF BridgeCapture
    <3>2. new.state = "pending" /\ new.decision = "none"
      BY DEF NoRow
    <3>3. row[p].decision = "none" /\ row[p].state \notin Settled
      BY <2>2, <3>1 DEF Undecided, Settled
    <3> HIDE DEF new
    <3>4. \A q \in Requests : RowEvolves(q)
      BY <2>2, <3>1, <3>2, <3>3 DEF TypeOK, RowEvolves, Undecided
    <3> QED
      BY <2>1, <3>4
  <2> QED
    BY <2>3, <2>4
<1>4. CASE BridgeResolve
  <2> DEFINE p == Head(queue).req
  <2>1. Silent
    BY <1>4 DEF BridgeResolve, Silent, handlerVars
  <2>2. p \in Requests
    BY <1>4, FrameTyped DEF BridgeResolve, FrameType
  <2>3. ResolvedState(row[p].decision) \in Settled
    BY <2>2 DEF ResolvedState, TypeOK, RowType, Decisions, Settled
  <2>4. CASE row[p].state \in Live
    <3>1. row' = SetState(p, ResolvedState(row[p].decision))
      BY <1>4, <2>4 DEF BridgeResolve, MayResolve
    <3> QED
      BY <2>1, <2>2, <2>3, <2>4, <3>1, SetStateEvolves
  <2>5. CASE row[p].state \notin Live
    BY <1>4, <2>1, <2>5, SameRowEvolves DEF BridgeResolve, MayResolve
  <2> QED
    BY <2>4, <2>5
<1>5. CASE BridgeSkips
  BY <1>5, SameRowEvolves DEF BridgeSkips, Silent, handlerVars
<1>6. CASE ListBegin
  BY <1>6, SameRowEvolves DEF ListBegin, Silent
<1>7. CASE ListPending
  BY <1>7, CancelStaleEvolves DEF ListPending, Silent
<1> QED
  BY <1>1, <1>2, <1>3, <1>4, <1>5, <1>6, <1>7 DEF Bridge

\* begin_decision stores a decision where there was none, or the same again.
LEMMA BeginEvolves ==
    ASSUME TypeOK, DecisionInv, NEW c \in Clients, BeginDecision(c)
    PROVE  \A q \in Requests : RowEvolves(q)
<1> DEFINE p == call[c].req
           d == StoredDecision(call[c].choice)
           new == [state |-> "dispatching", version |-> call[c].version + 1, decision |-> d]
<1>1. p \in Requests
  BY CallTyped DEF BeginDecision, CallType
<1>2. CASE MayDispatch(p, call[c].version, d)
  <2>1. row' = [row EXCEPT ![p] = new]
    BY <1>2 DEF BeginDecision
  <2>2. row[p].state \notin Settled /\ row[p].decision \in {"none", d}
    BY <1>1, <1>2 DEF MayDispatch, DecisionInv, Undecided, Settled
  <2>3. new.state = "dispatching" /\ new.decision = d
    OBVIOUS
  <2> HIDE DEF new, d
  <2> QED
    BY <1>1, <2>1, <2>2, <2>3 DEF TypeOK, RowEvolves, DecisionInv, Undecided
<1>3. CASE ~MayDispatch(p, call[c].version, d)
  BY <1>3, SameRowEvolves DEF BeginDecision, DecisionInv
<1> QED
  BY <1>2, <1>3

\* complete_decision and mark_delivery_unknown change a dispatching approval only.
LEMMA EndEvolves ==
    ASSUME TypeOK, DecisionInv, NEW c \in Clients,
           CompleteDecision(c) \/ MarkDeliveryUnknown(c)
    PROVE  \A q \in Requests : RowEvolves(q)
<1> DEFINE p == call[c].req
<1>1. p \in Requests /\ call[c].choice \in Choices
  BY CallTyped DEF CompleteDecision, MarkDeliveryUnknown, CallType
<1>2. CASE ~StillDispatching(p, call[c].version)
  BY <1>2, SameRowEvolves DEF CompleteDecision, MarkDeliveryUnknown, DecisionInv
<1>3. CASE StillDispatching(p, call[c].version)
  <2>1. row[p].state \in Live
    BY <1>3 DEF StillDispatching, Live
  <2>2. PICK s \in {"dispatching", "delivery_unknown"} \cup Settled : row' = SetState(p, s)
    BY <1>1, <1>3, ChoiceTyped DEF CompleteDecision, MarkDeliveryUnknown
  <2> QED
    BY <1>1, <2>1, <2>2, SetStateEvolves DEF DecisionInv
<1> QED
  BY <1>2, <1>3

\* A deciding handler keeps the invariant at each of its steps.
LEMMA HandlerKeepsDecisions ==
    ASSUME TypeOK, DecisionInv, NEW c \in Clients,
           \/ \E p \in Requests, choice \in Choices : Decide(c, p, choice)
           \/ Continue(c) \/ HandlerDbError(c)
    PROVE  DecisionInv'
<1> DEFINE p == call[c].req
           choice == call[c].choice
<1>1. CASE \E q \in Requests, ch \in Choices : Decide(c, q, ch)
  <2>1. Silent /\ row' = row
    BY <1>1 DEF Decide, Silent, TypeOK
  <2> QED
    BY <2>1, SameRowEvolves, SilentStep DEF DecisionInv
<1>2. CASE HandlerDbError(c)
  <2>1. Silent /\ row' = row
    BY <1>2 DEF HandlerDbError, Silent, TypeOK, Idle
  <2> QED
    BY <2>1, SameRowEvolves, SilentStep DEF DecisionInv
<1>3. CASE BeginDecision(c)
  <2>0. /\ p \in Requests /\ choice \in Choices
        /\ \A q \in Requests : RowEvolves(q)
    BY <1>3, BeginEvolves, CallTyped DEF BeginDecision, CallType
  <2>1. UNCHANGED <<received, audit>>
    BY <1>3 DEF BeginDecision
  <2>2. CASE ~MayDispatch(p, call[c].version, StoredDecision(choice))
    <3>1. Silent
      BY <1>3, <2>2 DEF BeginDecision, Silent, TypeOK, Idle
    <3> QED
      BY <2>0, <3>1, SilentStep
  <2>3. CASE MayDispatch(p, call[c].version, StoredDecision(choice))
    <3>1. /\ call'[c].pc = "respond" /\ call'[c].req = p /\ call'[c].choice = choice
          /\ \A o \in Clients : o # c => call'[o] = call[o]
      BY <1>3, <2>3 DEF BeginDecision, TypeOK
    <3>2. row'[p].decision = StoredDecision(choice)
      BY <1>3, <2>0, <2>3 DEF BeginDecision, TypeOK
    <3>3. Carried'
      BY <2>0, <3>1, <3>2, DecisionsKept DEF Carried
    <3>4. Confirmable'
      BY <2>1, <3>1 DEF DecisionInv, Confirmable
    <3>5. Undecided' /\ Sent'
      BY <2>0, <2>1, DecisionsKept DEF Sent
    <3>6. AuditTellsTheTruth'
      BY <2>0, <2>1, DecisionsKept DEF DecisionInv, AuditTellsTheTruth
    <3> QED
      BY <3>3, <3>4, <3>5, <3>6 DEF DecisionInv
  <2> QED
    BY <2>2, <2>3
<1>4. CASE Respond(c)
  <2> DEFINE answer == [to |-> <<instance, p[2]>>, for |-> p, choice |-> choice]
  <2>0. p \in Requests /\ choice \in Choices
    BY <1>4, CallTyped DEF Respond, CallType
  <2>1. /\ row' = row /\ audit' = audit
        /\ call'[c].pc \in {"complete", "unknown"}
        /\ call'[c].req = p /\ call'[c].choice = choice
        /\ \A o \in Clients : o # c => call'[o] = call[o]
        /\ received \subseteq received' /\ received' \subseteq received \cup {answer}
        /\ call'[c].pc = "complete" => p[1] = instance /\ answer \in received'
    <3> HIDE DEF answer
    <3>1. PICK l \in {"complete", "unknown"} : call' = [call EXCEPT ![c].pc = l]
      BY <1>4 DEF Respond
    <3>2. /\ call'[c].pc = l /\ call'[c].req = p /\ call'[c].choice = choice
          /\ \A o \in Clients : o # c => call'[o] = call[o]
      BY <3>1 DEF TypeOK
    <3>3. \/ received' = received \cup {answer} /\ p[1] = instance
          \/ received' = received /\ call' = [call EXCEPT ![c].pc = "unknown"]
      BY <1>4 DEF Respond, AcceptsAnswer, answer
    <3>4. call' = [call EXCEPT ![c].pc = "unknown"] => call'[c].pc = "unknown"
      BY DEF TypeOK
    <3> QED
      BY <1>4, <3>2, <3>3, <3>4 DEF Respond
  <2>2. row[p].decision = StoredDecision(choice)
    BY <1>4 DEF Respond, DecisionInv, Carried
  <2>3. answer.for = p /\ answer.choice = choice
    OBVIOUS
  <2>4. p[1] = instance => answer = [to |-> p, for |-> p, choice |-> choice]
    BY <2>0 DEF Requests
  <2> HIDE DEF answer
  <2>5. Undecided' /\ Carried'
    BY <2>1, <2>2 DEF DecisionInv, Undecided, Carried
  <2>6. Confirmable'
    BY <2>1, <2>4 DEF DecisionInv, Confirmable
  <2>7. Sent'
    BY <2>1, <2>2, <2>3 DEF DecisionInv, Sent
  <2>8. AuditTellsTheTruth'
    BY <2>1 DEF DecisionInv, AuditTellsTheTruth
  <2> QED
    BY <2>5, <2>6, <2>7, <2>8 DEF DecisionInv
<1>5. CASE CompleteDecision(c) \/ MarkDeliveryUnknown(c)
  <2>0. /\ p \in Requests /\ choice \in Choices
        /\ \A q \in Requests : RowEvolves(q)
    BY <1>5, EndEvolves, CallTyped DEF CompleteDecision, MarkDeliveryUnknown, CallType
  <2>1. /\ received' = received
        /\ \A o \in Clients : call'[o] = call[o] \/ call'[o].pc = "idle"
    BY <1>5 DEF CompleteDecision, MarkDeliveryUnknown, TypeOK, Idle
  <2>2. Undecided' /\ Sent'
    BY <2>0, <2>1, DecisionsKept DEF Sent
  <2>3. Carried'
    BY <2>0, <2>1, DecisionsKept DEF Carried
  <2>4. Confirmable'
    BY <2>1 DEF DecisionInv, Confirmable
  <2>5. ASSUME NEW e \in audit', e.result = "success"
        PROVE  /\ [to |-> e.req, for |-> e.req, choice |-> e.choice] \in received
               /\ row'[e.req].state = TerminalState(e.choice)
               /\ row'[e.req].decision = StoredDecision(e.choice)
    <3>1. CASE e \in audit
      BY <2>0, <2>5, <3>1, DecisionsKept DEF DecisionInv, AuditTellsTheTruth
    <3>2. CASE e \notin audit
      <4>1. CompleteDecision(c) /\ e.req = p /\ e.choice = choice
        BY <1>5, <2>5, <3>2 DEF CompleteDecision, MarkDeliveryUnknown, Audit
      <4>2. row[p].decision = StoredDecision(choice)
        BY <4>1 DEF CompleteDecision, DecisionInv, Carried
      <4>3. [to |-> p, for |-> p, choice |-> choice] \in received
        BY <4>1 DEF CompleteDecision, DecisionInv, Confirmable
      <4>4. CASE StillDispatching(p, call[c].version)
        <5>1. row' = SetState(p, TerminalState(choice))
          BY <4>1, <4>4 DEF CompleteDecision
        <5>2. row'[p].state = TerminalState(choice) /\ row'[p].decision = row[p].decision
          BY <2>0, <5>1 DEF SetState, TypeOK
        <5> QED
          BY <4>1, <4>2, <4>3, <5>2
      <4>5. CASE ~StillDispatching(p, call[c].version)
        <5>1. row' = row /\ AlreadyEnded(p, choice)
          BY <4>1, <4>5, <3>2 DEF CompleteDecision
        <5> QED
          BY <4>1, <4>3, <5>1 DEF AlreadyEnded
      <4> QED
        BY <4>4, <4>5
    <3> QED
      BY <3>1, <3>2
  <2>6. AuditTellsTheTruth'
    BY <2>1, <2>5 DEF AuditTellsTheTruth
  <2> QED
    BY <2>2, <2>3, <2>4, <2>6 DEF DecisionInv
<1> QED
  BY <1>1, <1>2, <1>3, <1>4, <1>5 DEF Continue

\* Every step keeps the invariant.
LEMMA DecisionStep ==
    ASSUME TypeOK, DecisionInv, [Next]_vars
    PROVE  DecisionInv'
<1>1. CASE Runtime \/ Bridge \/ BridgeSkips \/ ListBegin \/ ListPending
  BY <1>1, OthersAreSilent, SilentStep
<1>2. CASE UNCHANGED vars
  <2>1. Silent /\ row' = row
    BY <1>2 DEF vars, Silent, handlerVars
  <2> QED
    BY <2>1, SameRowEvolves, SilentStep DEF DecisionInv
<1> QED
  BY <1>1, <1>2, HandlerKeepsDecisions DEF Next

\* It holds initially.
LEMMA DecisionInit ==
    ASSUME Init
    PROVE  DecisionInv
BY DEF Init, DecisionInv, Undecided, Carried, Confirmable, Sent, AuditTellsTheTruth, NoRow, Idle

\* The inductive invariant holds throughout.
LEMMA DecisionsHold == Spec => [](TypeOK /\ DecisionInv)
<1>1. Init => TypeOK /\ DecisionInv
  BY InitTyped, DecisionInit
<1>2. TypeOK /\ DecisionInv /\ [Next]_vars => (TypeOK /\ DecisionInv)'
  BY TypeStep, DecisionStep
<1> QED
  BY <1>1, <1>2, PTL DEF Spec

\* begin_decision's compare and swap: whatever is retried, delayed or repeated, all
\* answers sent for one request have the same stored decision.
THEOREM OneDecision == Spec => []OneDecisionReceived
<1>1. TypeOK /\ DecisionInv => OneDecisionReceived
  BY DEF DecisionInv, Sent, OneDecisionReceived
<1> QED
  BY <1>1, DecisionsHold, PTL

\* complete_decision: a success in the audit trail was delivered and is the final
\* state of the approval.
THEOREM AuditIsTrue == Spec => []AuditTellsTheTruth
<1>1. TypeOK /\ DecisionInv => AuditTellsTheTruth
  BY DEF DecisionInv
<1> QED
  BY <1>1, DecisionsHold, PTL

-----------------------------------------------------------------------------
(* The refinement of ApprovalContract. *)

\* The four variables of the contract, as the service implements them.
Outcome(p) == IF row[p].state \in Settled THEN row[p].state ELSE "none"
DecisionMap == [p \in Requests |-> row[p].decision]
OutcomeMap == [p \in Requests |-> Outcome(p)]
Delivered == {a.for : a \in received}
Recorded == {e.req : e \in {x \in audit : x.result = "success"}}

\* Rows whose decision and outcome are the same map to the same values.
LEMMA SameMaps ==
    ASSUME \A p \in Requests : row'[p].decision = row[p].decision /\ Outcome(p)' = Outcome(p)
    PROVE  DecisionMap' = DecisionMap /\ OutcomeMap' = OutcomeMap
BY DEF DecisionMap, OutcomeMap

\* The contract sees nothing of a step that changes none of the four.
LEMMA Unseen ==
    ASSUME UNCHANGED <<DecisionMap, OutcomeMap, Delivered, Recorded>>
    PROVE  UNCHANGED Contract!contractVars
BY DEF Contract!contractVars, DecisionMap, OutcomeMap, Outcome, Delivered, Recorded

\* Live approvals end in the states they are given.
LEMMA Ends ==
    ASSUME TypeOK, NEW S \in SUBSET Requests,
           \A p \in S : /\ row[p].state \notin Settled
                        /\ row'[p].state \in Settled
                        /\ row'[p].state \in {"cancelled", row[p].decision},
           \A p \in Requests \ S : Outcome(p)' = Outcome(p),
           \A p \in Requests : row'[p].decision = row[p].decision,
           UNCHANGED <<received, audit>>
    PROVE  Contract!Next
<1> DEFINE o == [p \in S |-> row'[p].state]
<1>1. o \in [S -> {"cancelled"} \cup Contract!Verdicts]
  BY DEF Settled, Contract!Verdicts
<1>2. \A p \in S : OutcomeMap[p] = "none"
  BY DEF OutcomeMap, Outcome
<1>3. \A p \in S : o[p] \in {"cancelled", DecisionMap[p]}
  BY DEF DecisionMap
<1>4. OutcomeMap' = [p \in Requests |-> IF p \in S THEN o[p] ELSE OutcomeMap[p]]
  BY DEF OutcomeMap, Outcome
<1>5. DecisionMap' = DecisionMap
  BY DEF DecisionMap
<1>6. Delivered' = Delivered /\ Recorded' = Recorded
  BY DEF Delivered, Recorded
<1> HIDE DEF o
<1> QED
  BY <1>1, <1>2, <1>3, <1>4, <1>5, <1>6
  DEF Contract!Next, Contract!End, DecisionMap, OutcomeMap, Outcome, Delivered, Recorded

\* Cancelling what other instances left ends those requests together.
LEMMA CancelStaleEnds ==
    ASSUME TypeOK, NEW i, row' = CancelStale(i), UNCHANGED <<received, audit>>
    PROVE  Contract!Next
<1> DEFINE S == {p \in Requests : row[p].state \in Live /\ p[1] # i}
<1>1. \A p \in S : /\ row[p].state \notin Settled
                   /\ row'[p].state = "cancelled"
                   /\ row'[p].decision = row[p].decision
  BY DEF CancelStale, SetState, TypeOK, Live, Settled
<1>2. \A p \in Requests \ S : row'[p] = row[p]
  BY DEF CancelStale
<1>3. S \in SUBSET Requests
  OBVIOUS
<1>4. "cancelled" \in Settled
  BY DEF Settled
<1> HIDE DEF S
<1>5. \A p \in Requests \ S : Outcome(p)' = Outcome(p)
  BY <1>2 DEF Outcome
<1>6. \A p \in Requests : row'[p].decision = row[p].decision
  BY <1>1, <1>2
<1> QED
  BY <1>1, <1>3, <1>4, <1>5, <1>6, Ends

\* resolve_runtime_request ends the request as decided, or cancels it.
LEMMA ResolveEnds ==
    ASSUME TypeOK, BridgeResolve
    PROVE  Contract!Next \/ UNCHANGED Contract!contractVars
<1> DEFINE p == Head(queue).req
           s == ResolvedState(row[p].decision)
<1>1. p \in Requests
  BY FrameTyped DEF BridgeResolve, FrameType
<1>2. UNCHANGED <<received, audit>>
  BY DEF BridgeResolve
<1>3. CASE row[p].state \in Live
  <2>1. row' = SetState(p, s)
    BY <1>3 DEF BridgeResolve, MayResolve
  <2>2. s \in Settled /\ s \in {"cancelled", row[p].decision} /\ row[p].state \notin Settled
    BY <1>1, <1>3 DEF ResolvedState, TypeOK, RowType, Decisions, Settled, Live
  <2> HIDE DEF s
  <2>3. /\ row'[p].state = s
        /\ \A q \in Requests : row'[q].decision = row[q].decision
        /\ \A q \in Requests \ {p} : row'[q] = row[q]
    BY <1>1, <2>1 DEF SetState, TypeOK
  <2> DEFINE S == {p}
  <2>4. S \in SUBSET Requests
    BY <1>1
  <2>5. \A q \in Requests \ S : Outcome(q)' = Outcome(q)
    BY <2>3 DEF Outcome
  <2>6. \A q \in S : /\ row[q].state \notin Settled
                     /\ row'[q].state \in Settled
                     /\ row'[q].state \in {"cancelled", row[q].decision}
    BY <2>2, <2>3
  <2> HIDE DEF S
  <2> QED
    BY <1>2, <2>3, <2>4, <2>5, <2>6, Ends
<1>4. CASE row[p].state \notin Live
  BY <1>2, <1>4, Unseen
  DEF BridgeResolve, MayResolve, DecisionMap, OutcomeMap, Outcome, Delivered, Recorded
<1> QED
  BY <1>3, <1>4

\* capture_message adds an undecided request, which the contract has from the start.
LEMMA CaptureUnseen ==
    ASSUME TypeOK, DecisionInv, BridgeCapture
    PROVE  UNCHANGED Contract!contractVars
<1> DEFINE p == Head(queue).req
           new == [NoRow EXCEPT !.state = "pending"]
<1>1. p \in Requests
  BY FrameTyped DEF BridgeCapture, FrameType
<1>2. new.state = "pending" /\ new.decision = "none"
  BY DEF NoRow
<1>3. row' = row \/ (row[p].state = "absent" /\ row' = [row EXCEPT ![p] = new])
  BY DEF BridgeCapture
<1> HIDE DEF new
<1>4. \A q \in Requests : row'[q].decision = row[q].decision /\ Outcome(q)' = Outcome(q)
  BY <1>1, <1>2, <1>3 DEF TypeOK, DecisionInv, Undecided, Outcome, Settled
<1>5. UNCHANGED <<received, audit>>
  BY DEF BridgeCapture
<1> QED
  BY <1>4, <1>5, SameMaps, Unseen DEF Delivered, Recorded

\* begin_decision decides an open request, or stores the same decision again.
LEMMA BeginDecides ==
    ASSUME TypeOK, DecisionInv, NEW c \in Clients, BeginDecision(c)
    PROVE  Contract!Next \/ UNCHANGED Contract!contractVars
<1> DEFINE p == call[c].req
           d == StoredDecision(call[c].choice)
           new == [state |-> "dispatching", version |-> call[c].version + 1, decision |-> d]
<1>1. p \in Requests /\ call[c].choice \in Choices
  BY CallTyped DEF BeginDecision, CallType
<1>2. UNCHANGED <<received, audit>>
  BY DEF BeginDecision
<1>3. CASE ~MayDispatch(p, call[c].version, d)
  BY <1>2, <1>3, Unseen
  DEF BeginDecision, DecisionMap, OutcomeMap, Outcome, Delivered, Recorded
<1>4. CASE MayDispatch(p, call[c].version, d)
  <2>1. row' = [row EXCEPT ![p] = new]
    BY <1>4 DEF BeginDecision
  <2>2. new.state = "dispatching" /\ new.decision = d
    OBVIOUS
  <2>3. row[p].state \in Live /\ row[p].decision \in {"none", d}
    BY <1>1, <1>4 DEF MayDispatch, DecisionInv, Undecided, Live
  <2>4. d \in Contract!Verdicts
    BY <1>1, ChoiceTyped DEF Decisions, Contract!Verdicts
  <2> HIDE DEF new, d
  <2>5. \A q \in Requests : Outcome(q)' = Outcome(q)
    BY <1>1, <2>1, <2>2, <2>3 DEF TypeOK, Outcome, Settled, Live
  <2>6. CASE row[p].decision = d
    <3>1. \A q \in Requests : row'[q].decision = row[q].decision
      BY <1>1, <2>1, <2>2, <2>6 DEF TypeOK
    <3> QED
      BY <1>2, <2>5, <3>1, SameMaps, Unseen DEF Delivered, Recorded
  <2>7. CASE row[p].decision = "none"
    <3>1. DecisionMap' = [DecisionMap EXCEPT ![p] = d]
      BY <1>1, <2>1, <2>2 DEF DecisionMap, TypeOK
    <3>2. OutcomeMap' = OutcomeMap
      BY <2>5 DEF OutcomeMap
    <3>3. DecisionMap[p] = "none" /\ OutcomeMap[p] = "none"
      BY <1>1, <2>3, <2>7 DEF DecisionMap, OutcomeMap, Outcome, Live, Settled
    <3> QED
      BY <1>1, <1>2, <2>4, <3>1, <3>2, <3>3
      DEF Contract!Next, Contract!Decide, DecisionMap, OutcomeMap, Outcome, Delivered, Recorded
  <2> QED
    BY <2>3, <2>6, <2>7
<1> QED
  BY <1>3, <1>4

\* respond_to_server_request delivers the decision its row stores, or nothing.
LEMMA RespondDelivers ==
    ASSUME TypeOK, DecisionInv, NEW c \in Clients, Respond(c)
    PROVE  Contract!Next \/ UNCHANGED Contract!contractVars
<1> DEFINE p == call[c].req
           answer == [to |-> <<instance, p[2]>>, for |-> p, choice |-> call[c].choice]
<1>1. p \in Requests /\ call[c].choice \in Choices
  BY CallTyped DEF Respond, CallType
<1>2. row[p].decision # "none"
  BY <1>1, DecisionMade DEF Respond, DecisionInv, Carried
<1>3. answer.for = p
  OBVIOUS
<1>4. received' \in {received, received \cup {answer}} /\ row' = row /\ audit' = audit
  BY DEF Respond
<1> HIDE DEF answer
<1>5. DecisionMap' = DecisionMap /\ OutcomeMap' = OutcomeMap /\ Recorded' = Recorded
  BY <1>4 DEF DecisionMap, OutcomeMap, Outcome, Recorded
<1>6. DecisionMap[p] # "none"
  BY <1>1, <1>2 DEF DecisionMap
<1>7. CASE received' = received
  BY <1>5, <1>7, Unseen DEF Delivered
<1>8. CASE received' = received \cup {answer}
  <2>1. Delivered' = Delivered \cup {p}
    BY <1>3, <1>8 DEF Delivered
  <2> QED
    BY <1>1, <1>5, <1>6, <2>1
    DEF Contract!Next, Contract!Deliver, DecisionMap, OutcomeMap, Outcome, Delivered, Recorded
<1> QED
  BY <1>4, <1>7, <1>8

\* complete_decision records a delivered decision that is or becomes the outcome.
LEMMA CompleteRecords ==
    ASSUME TypeOK, DecisionInv, NEW c \in Clients, CompleteDecision(c)
    PROVE  Contract!Next \/ UNCHANGED Contract!contractVars
<1> DEFINE p == call[c].req
           choice == call[c].choice
           o == TerminalState(choice)
           entry == [req |-> p, choice |-> choice, result |-> "success"]
<1>1. p \in Requests /\ choice \in Choices /\ received' = received
  BY CallTyped DEF CompleteDecision, CallType
<1>2. row[p].decision = StoredDecision(choice)
  BY DEF CompleteDecision, DecisionInv, Carried
<1>3. p \in Delivered
  <2>1. [to |-> p, for |-> p, choice |-> choice] \in received
    BY DEF CompleteDecision, DecisionInv, Confirmable
  <2> QED
    BY <2>1 DEF Delivered
<1>4. o \in Contract!Confirmed(row[p].decision)
  BY <1>1, <1>2 DEF Contract!Confirmed, StoredDecision, TerminalState, Choices
<1>5. o \in Settled
  BY <1>1, ChoiceTyped
<1>6. Delivered' = Delivered
  BY <1>1 DEF Delivered
<1>7. CASE row' = row /\ audit' = audit
  BY <1>6, <1>7, Unseen DEF DecisionMap, OutcomeMap, Outcome, Recorded
<1>8. CASE ~(row' = row /\ audit' = audit)
  <2>1. /\ audit' = audit \cup {entry}
        /\ \/ StillDispatching(p, call[c].version) /\ row' = SetState(p, o)
           \/ AlreadyEnded(p, choice) /\ row' = row
    BY <1>8 DEF CompleteDecision, Audit
  <2>2. entry.req = p /\ entry.result = "success"
    OBVIOUS
  <2> HIDE DEF entry
  <2>3. Recorded' = Recorded \cup {p}
    BY <2>1, <2>2 DEF Recorded
  <2>4. /\ \A q \in Requests : row'[q].decision = row[q].decision
        /\ row'[p].state = o
        /\ \A q \in Requests \ {p} : row'[q] = row[q]
    BY <1>1, <2>1 DEF SetState, AlreadyEnded, TypeOK
  <2>5. row[p].state \notin Settled \/ row[p].state = o
    BY <2>1 DEF StillDispatching, AlreadyEnded, Settled
  <2> HIDE DEF o
  <2>6. DecisionMap' = DecisionMap
    BY <2>4 DEF DecisionMap
  <2>7. OutcomeMap' = [OutcomeMap EXCEPT ![p] = o]
    BY <1>1, <1>5, <2>4 DEF OutcomeMap, Outcome
  <2>8. OutcomeMap[p] \in {"none", o} /\ DecisionMap[p] = row[p].decision
    BY <1>1, <2>5 DEF OutcomeMap, Outcome, DecisionMap
  <2> QED
    BY <1>1, <1>3, <1>4, <1>6, <2>3, <2>6, <2>7, <2>8
    DEF Contract!Next, Contract!Record, DecisionMap, OutcomeMap, Outcome, Delivered, Recorded
<1> QED
  BY <1>7, <1>8

\* mark_delivery_unknown neither ends a request nor records a success.
LEMMA UnknownUnseen ==
    ASSUME TypeOK, NEW c \in Clients, MarkDeliveryUnknown(c)
    PROVE  UNCHANGED Contract!contractVars
<1> DEFINE p == call[c].req
           entry == [req |-> p, choice |-> call[c].choice, result |-> "delivery_unknown"]
<1>1. p \in Requests
  BY CallTyped DEF MarkDeliveryUnknown, CallType
<1>2. received' = received /\ audit' = audit \cup {entry}
  BY DEF MarkDeliveryUnknown, Audit
<1>3. entry.result # "success"
  OBVIOUS
<1> HIDE DEF entry
<1>4. Recorded' = Recorded /\ Delivered' = Delivered
  BY <1>2, <1>3 DEF Recorded, Delivered
<1>5. \/ row' = row
      \/ row[p].state = "dispatching" /\ row' = SetState(p, "delivery_unknown")
  BY DEF MarkDeliveryUnknown, StillDispatching
<1>6. \A q \in Requests : row'[q].decision = row[q].decision /\ Outcome(q)' = Outcome(q)
  BY <1>1, <1>5 DEF SetState, TypeOK, Outcome, Settled
<1> QED
  BY <1>4, <1>6, SameMaps, Unseen

\* Every step of the service is a step of the contract or is not seen by it.
LEMMA ContractStep ==
    ASSUME TypeOK, DecisionInv, [Next]_vars
    PROVE  [Contract!Next]_Contract!contractVars
<1> DEFINE Seen == Contract!Next \/ UNCHANGED Contract!contractVars
<1> SUFFICES Seen
  OBVIOUS
<1>1. CASE row' = row /\ received' = received /\ audit' = audit
  BY <1>1, Unseen DEF DecisionMap, OutcomeMap, Outcome, Delivered, Recorded
<1>2. CASE Runtime \/ BridgeSkips \/ ListBegin \/ UNCHANGED vars
  BY <1>1, <1>2
  DEF Runtime, RuntimeAsks, RuntimeResolves, RuntimeReplaced, BridgeSkips, ListBegin, vars
<1>3. CASE BridgeReconcile
  BY <1>3, CancelStaleEnds DEF BridgeReconcile
<1>4. CASE ListPending
  BY <1>4, CancelStaleEnds DEF ListPending
<1>5. CASE BridgeCapture \/ BridgeResolve
  BY <1>5, CaptureUnseen, ResolveEnds
<1>6. ASSUME NEW c \in Clients,
             HandlerDbError(c) \/ \E p \in Requests, choice \in Choices : Decide(c, p, choice)
      PROVE  Seen
  BY <1>1, <1>6 DEF HandlerDbError, Decide
<1>7. ASSUME NEW c \in Clients, Continue(c) PROVE Seen
  BY <1>7, BeginDecides, RespondDelivers, CompleteRecords, UnknownUnseen DEF Continue
<1> HIDE DEF Seen
<1> QED
  BY <1>2, <1>3, <1>4, <1>5, <1>6, <1>7 DEF Next, Bridge

\* Nothing has been decided, delivered or recorded at the start.
LEMMA ContractInit ==
    ASSUME Init
    PROVE  Contract!Init
BY DEF Init, Contract!Init, NoRow, Settled

\* product-design.md 8.4: the approval service implements ApprovalContract: first
\* decision wins, outcomes are final and agree with it, successes were delivered.
THEOREM Refinement == Spec => ImplementsContract
BY ContractInit, ContractStep, DecisionsHold, PTL DEF Spec, ImplementsContract, Contract!Spec

-----------------------------------------------------------------------------
(* One handler at a time dispatches an approval, and what it delivered is      *)
(* audited.                                                                    *)

PastBegin == {"respond", "complete", "unknown"}

\* A handler past begin_decision still holds the dispatch, or the approval has ended.
Dispatches(c) ==
    \/ row[call[c].req].state = "dispatching" /\ row[call[c].req].version = call[c].version
    \/ row[call[c].req].state \in Settled

Holding == \A c \in Clients : call[c].pc \in PastBegin => Dispatches(c)

\* Two handlers past begin_decision for one approval: it has ended.
Alone ==
    \A c, d \in Clients :
        c # d /\ call[c].pc \in PastBegin /\ call[d].pc \in PastBegin /\ call[c].req = call[d].req
            => row[call[c].req].state \in Settled

\* An approval that ended as a decision stores that decision.
Agrees(p) == row[p].state \in Decisions => row[p].decision = row[p].state

\* The inductive invariant, on top of DecisionInv.
DispatchInv == Holding /\ Alone /\ \A p \in Requests : Agrees(p)

\* What anybody but a deciding handler does to an approval.
Settles(p) ==
    \/ row'[p] = row[p]
    \/ row[p].state = "absent" /\ row'[p].state = "pending"
    \/ row[p].state \in Live /\ row'[p].state \in Settled /\ Agrees(p)'

\* SET state on one approval.
LEMMA SetStateOne ==
    ASSUME TypeOK, NEW p \in Requests, NEW s, row' = SetState(p, s)
    PROVE  /\ row'[p].state = s /\ row'[p].decision = row[p].decision
           /\ \A q \in Requests \ {p} : row'[q] = row[q]
BY DEF TypeOK, SetState

\* cancel_stale_runtime_requests: live approvals are cancelled, the others kept.
LEMMA CancelStaleSettles ==
    ASSUME TypeOK, NEW i, row' = CancelStale(i)
    PROVE  \A p \in Requests : Settles(p)
<1> SUFFICES ASSUME NEW p \in Requests PROVE Settles(p)
  OBVIOUS
<1>1. CASE row[p].state \in Live /\ p[1] # i
  <2>1. row'[p].state = "cancelled"
    BY <1>1 DEF CancelStale, SetState, TypeOK
  <2> QED
    BY <1>1, <2>1 DEF Settles, Agrees, Settled, Decisions
<1>2. CASE ~(row[p].state \in Live /\ p[1] # i)
  BY <1>2 DEF CancelStale, Settles
<1> QED
  BY <1>1, <1>2

\* The Runtime, the bridge and the listing.
LEMMA OthersSettle ==
    ASSUME TypeOK, DecisionInv,
           Runtime \/ Bridge \/ BridgeSkips \/ ListBegin \/ ListPending
    PROVE  call' = call /\ \A p \in Requests : Settles(p)
<1>1. CASE Runtime \/ BridgeSkips \/ ListBegin
  BY <1>1 DEF Runtime, RuntimeAsks, RuntimeResolves, RuntimeReplaced, BridgeSkips, ListBegin,
     Settles, handlerVars
<1>2. CASE BridgeReconcile
  BY <1>2, CancelStaleSettles DEF BridgeReconcile, handlerVars
<1>3. CASE ListPending
  BY <1>3, CancelStaleSettles DEF ListPending
<1>4. CASE BridgeCapture
  <2> DEFINE p == Head(queue).req
             new == [NoRow EXCEPT !.state = "pending"]
  <2>1. p \in Requests
    BY <1>4, FrameTyped DEF BridgeCapture, FrameType
  <2>2. call' = call
    BY <1>4 DEF BridgeCapture, handlerVars
  <2>3. row' = row \/ (row[p].state = "absent" /\ row' = [row EXCEPT ![p] = new])
    BY <1>4 DEF BridgeCapture
  <2>4. new.state = "pending"
    BY DEF NoRow
  <2> HIDE DEF new
  <2> QED
    BY <2>1, <2>2, <2>3, <2>4 DEF Settles, TypeOK
<1>5. CASE BridgeResolve
  <2> DEFINE p == Head(queue).req
             s == ResolvedState(row[p].decision)
  <2>1. p \in Requests
    BY <1>5, FrameTyped DEF BridgeResolve, FrameType
  <2>2. call' = call
    BY <1>5 DEF BridgeResolve, handlerVars
  <2>3. CASE row[p].state \in Live
    <3>1. row' = SetState(p, s)
      BY <1>5, <2>3 DEF BridgeResolve, MayResolve
    <3>2. s \in Settled /\ (s \in Decisions => s = row[p].decision)
      BY <2>1 DEF ResolvedState, TypeOK, RowType, Decisions, Settled
    <3> HIDE DEF s
    <3>3. /\ row'[p].state = s /\ row'[p].decision = row[p].decision
          /\ \A q \in Requests \ {p} : row'[q] = row[q]
      BY <2>1, <3>1, SetStateOne
    <3> QED
      BY <2>1, <2>2, <2>3, <3>2, <3>3 DEF Settles, Agrees
  <2>4. CASE row[p].state \notin Live
    BY <1>5, <2>2, <2>4 DEF BridgeResolve, MayResolve, Settles
  <2> QED
    BY <2>3, <2>4
<1> QED
  BY <1>1, <1>2, <1>3, <1>4, <1>5 DEF Bridge

\* They take no dispatch from a handler but by ending the approval.
LEMMA SettlingKeepsDispatch ==
    ASSUME TypeOK, DispatchInv, call' = call, \A p \in Requests : Settles(p)
    PROVE  DispatchInv'
<1>0. \A c \in Clients : call[c].pc \in PastBegin => call[c].req \in Requests
  BY CallTyped DEF PastBegin, CallType
<1>1. \A p \in Requests : row[p].state \in Settled => row'[p].state \in Settled
  BY DEF Settles, Settled, Live
<1>2. Holding'
  BY <1>0, <1>1 DEF DispatchInv, Holding, Dispatches, Settles
<1>3. Alone'
  BY <1>0, <1>1 DEF DispatchInv, Alone
<1>4. ASSUME NEW p \in Requests PROVE Agrees(p)'
  BY DEF DispatchInv, Settles, Agrees, Decisions
<1> QED
  BY <1>2, <1>3, <1>4 DEF DispatchInv

\* begin_decision takes the dispatch of an approval nobody holds; complete_decision and
\* mark_delivery_unknown give it back.
LEMMA HandlersKeepDispatch ==
    ASSUME TypeOK, DecisionInv, DispatchInv, NEW c \in Clients,
           \/ \E p \in Requests, choice \in Choices : Decide(c, p, choice)
           \/ Continue(c) \/ HandlerDbError(c)
    PROVE  DispatchInv'
<1> DEFINE p == call[c].req
           choice == call[c].choice
<1>0. \A d \in Clients : call[d].pc \in PastBegin => call[d].req \in Requests
  BY CallTyped DEF PastBegin, CallType
<1>a. ASSUME row' = row,
             \A d \in Clients : call'[d].pc \in PastBegin =>
                 /\ call[d].pc \in PastBegin /\ call'[d].req = call[d].req
                 /\ call'[d].version = call[d].version
      PROVE  DispatchInv'
  <2>1. Holding'
    BY <1>a DEF DispatchInv, Holding, Dispatches
  <2>2. Alone'
    BY <1>a DEF DispatchInv, Alone
  <2>3. \A q \in Requests : Agrees(q)'
    BY <1>a DEF DispatchInv, Agrees
  <2> QED
    BY <2>1, <2>2, <2>3 DEF DispatchInv
<1>1. CASE \E q \in Requests, ch \in Choices : Decide(c, q, ch)
  BY <1>1, <1>a DEF Decide, TypeOK, PastBegin
<1>2. CASE HandlerDbError(c)
  BY <1>2, <1>a DEF HandlerDbError, TypeOK, PastBegin, Idle
<1>3. CASE BeginDecision(c)
  <2> DEFINE d == StoredDecision(choice)
             new == [state |-> "dispatching", version |-> call[c].version + 1, decision |-> d]
  <2>1. CASE ~MayDispatch(p, call[c].version, d)
    BY <1>3, <1>a, <2>1 DEF BeginDecision, TypeOK, PastBegin, Idle
  <2>2. CASE MayDispatch(p, call[c].version, d)
    <3>1. p \in Requests
      BY <1>3, CallTyped DEF BeginDecision, CallType
    <3>2. row' = [row EXCEPT ![p] = new] /\ row[p].state \in {"pending", "delivery_unknown"}
      BY <1>3, <2>2 DEF BeginDecision, MayDispatch
    <3>3. new.state = "dispatching" /\ new.version = call[c].version + 1
      OBVIOUS
    <3>4. /\ call'[c].pc = "respond" /\ call'[c].req = p /\ call'[c].version = call[c].version + 1
          /\ \A o \in Clients \ {c} : call'[o] = call[o]
      BY <1>3, <2>2 DEF BeginDecision, TypeOK
    <3> HIDE DEF new
    <3>5. /\ row'[p].state = "dispatching" /\ row'[p].version = call[c].version + 1
          /\ \A q \in Requests \ {p} : row'[q] = row[q]
      BY <3>1, <3>2, <3>3 DEF TypeOK
    <3>6. ASSUME NEW o \in Clients \ {c}, call[o].pc \in PastBegin
          PROVE  call[o].req \in Requests \ {p}
      <4>1. row[call[o].req].state \in {"dispatching"} \cup Settled
        BY <3>6 DEF DispatchInv, Holding, Dispatches
      <4> QED
        BY <1>0, <3>2, <3>6, <4>1 DEF Settled
    <3>7. Holding'
      BY <3>4, <3>5, <3>6 DEF DispatchInv, Holding, Dispatches
    <3>8. Alone'
      <4> SUFFICES ASSUME NEW a \in Clients, NEW b \in Clients, a # b,
                          call'[a].pc \in PastBegin, call'[b].pc \in PastBegin,
                          call'[a].req = call'[b].req
                   PROVE  row'[call'[a].req].state \in Settled
        BY DEF Alone
      <4>1. a # c /\ b # c
        BY <3>4, <3>6
      <4> QED
        BY <3>4, <3>5, <3>6, <4>1 DEF DispatchInv, Alone
    <3>9. \A q \in Requests : Agrees(q)'
      BY <3>5 DEF DispatchInv, Agrees, Decisions
    <3> QED
      BY <3>7, <3>8, <3>9 DEF DispatchInv
  <2> QED
    BY <2>1, <2>2
<1>4. CASE Respond(c)
  <2>1. PICK l \in {"complete", "unknown"} : call' = [call EXCEPT ![c].pc = l]
    BY <1>4 DEF Respond
  <2>2. /\ call'[c].pc = l /\ call'[c].req = p /\ call'[c].version = call[c].version
        /\ \A o \in Clients \ {c} : call'[o] = call[o]
    BY <2>1 DEF TypeOK
  <2>3. row' = row /\ call[c].pc \in PastBegin
    BY <1>4 DEF Respond, PastBegin
  <2> QED
    BY <1>a, <2>2, <2>3
<1>5. CASE CompleteDecision(c) \/ MarkDeliveryUnknown(c)
  <2>0. /\ call[c].pc \in PastBegin /\ p \in Requests /\ choice \in Choices
        /\ row[p].decision = StoredDecision(choice)
    BY <1>5, CallTyped DEF CompleteDecision, MarkDeliveryUnknown, CallType, PastBegin,
       DecisionInv, Carried
  <2>1. call'[c].pc = "idle" /\ \A o \in Clients \ {c} : call'[o] = call[o]
    BY <1>5 DEF CompleteDecision, MarkDeliveryUnknown, TypeOK, Idle
  <2>2. CASE ~StillDispatching(p, call[c].version)
    BY <1>5, <1>a, <2>1, <2>2 DEF CompleteDecision, MarkDeliveryUnknown, PastBegin
  <2>3. CASE StillDispatching(p, call[c].version)
    <3>1. PICK s \in {"delivery_unknown", TerminalState(choice)} : row' = SetState(p, s)
      BY <1>5, <2>3 DEF CompleteDecision, MarkDeliveryUnknown
    <3>2. /\ row'[p].state = s /\ row'[p].decision = row[p].decision
          /\ \A q \in Requests \ {p} : row'[q] = row[q]
      BY <2>0, <3>1, SetStateOne
    <3>3. s \in Decisions => s = StoredDecision(choice)
      BY <2>0 DEF TerminalState, Decisions
    <3>4. \A o \in Clients : call'[o].pc \in PastBegin => o # c /\ call[o].req \in Requests \ {p}
      <4>1. row[p].state \notin Settled
        BY <2>3 DEF StillDispatching, Settled
      <4> QED
        BY <1>0, <2>0, <2>1, <4>1 DEF DispatchInv, Alone, PastBegin
    <3>5. Holding'
      BY <2>1, <3>2, <3>4 DEF DispatchInv, Holding, Dispatches
    <3>6. Alone'
      BY <2>1, <3>2, <3>4 DEF DispatchInv, Alone
    <3>7. \A q \in Requests : Agrees(q)'
      BY <2>0, <3>2, <3>3 DEF DispatchInv, Agrees
    <3> QED
      BY <3>5, <3>6, <3>7 DEF DispatchInv
  <2> QED
    BY <2>2, <2>3
<1> QED
  BY <1>1, <1>2, <1>3, <1>4, <1>5 DEF Continue

\* DispatchInv is inductive, given DecisionInv.
LEMMA DispatchStep ==
    ASSUME TypeOK, DecisionInv, DispatchInv, [Next]_vars
    PROVE  DispatchInv'
<1>1. CASE UNCHANGED vars
  BY <1>1, SettlingKeepsDispatch DEF vars, handlerVars, Settles
<1>2. CASE Runtime \/ Bridge \/ BridgeSkips \/ ListBegin \/ ListPending
  BY <1>2, OthersSettle, SettlingKeepsDispatch
<1> QED
  BY <1>1, <1>2, HandlersKeepDispatch DEF Next

\* It holds in every reachable state.
LEMMA DispatchHolds == Spec => []DispatchInv
<1>1. Init => DispatchInv
  BY DEF Init, DispatchInv, Holding, Alone, Agrees, NoRow, Idle, PastBegin, Decisions
<1> QED
  BY <1>1, DecisionsHold, DispatchStep, PTL DEF Spec

\* complete_decision, while the database works: a handler that delivered its answer
\* does not return without an audit record, however the resolution, a listing or
\* another handler overtakes it (the exceptions are the ones DeliveredIsAudited names).
THEOREM DeliveredAudited ==
    ASSUME ~DbMayFail
    PROVE  Spec => DeliveredIsAudited
<1> DEFINE Audited(c) ==
      /\ call[c].pc = "complete" /\ call'[c].pc = "idle"
      /\ call[c].choice # "cancel" /\ row[call[c].req].state # "cancelled"
      => \E e \in audit' : e.req = call[c].req /\ e.choice = call[c].choice
<1>1. ASSUME TypeOK, DecisionInv, DispatchInv, [Next]_vars
      PROVE  \A c \in Clients : Audited(c)
  <2> SUFFICES ASSUME NEW c \in Clients, call[c].pc = "complete", call'[c].pc = "idle",
                      call[c].choice # "cancel", row[call[c].req].state # "cancelled"
               PROVE  \E e \in audit' : e.req = call[c].req /\ e.choice = call[c].choice
    OBVIOUS
  <2>1. CompleteDecision(c)
    <3>1. call' # call
      OBVIOUS
    <3>2. ~UNCHANGED vars
      BY <3>1 DEF vars, handlerVars
    <3>3. ~(Runtime \/ Bridge \/ BridgeSkips \/ ListBegin \/ ListPending)
      BY <1>1, <3>1, OthersSettle
    <3>4. PICK d \in Clients : \/ \E q \in Requests, ch \in Choices : Decide(d, q, ch)
                               \/ Continue(d) \/ HandlerDbError(d)
      BY <1>1, <3>2, <3>3 DEF Next
    <3>5. \A o \in Clients \ {d} : call'[o] = call[o]
      <4>1. CASE Respond(d)
        BY <1>1, <4>1 DEF Respond, TypeOK
      <4> QED
        BY <1>1, <3>4, <4>1 DEF Decide, Continue, BeginDecision, CompleteDecision,
           MarkDeliveryUnknown, HandlerDbError, TypeOK
    <3>6. d = c
      BY <3>5
    <3> QED
      BY <3>4, <3>6 DEF Decide, Continue, BeginDecision, Respond, MarkDeliveryUnknown,
         HandlerDbError
  <2>2. /\ call[c].req \in Requests /\ call[c].choice \in Choices
        /\ row[call[c].req].decision = StoredDecision(call[c].choice)
        /\ Dispatches(c)
    BY <1>1, CallTyped DEF CallType, DecisionInv, Carried, DispatchInv, Holding, PastBegin
  <2>3. StillDispatching(call[c].req, call[c].version) \/ AlreadyEnded(call[c].req, call[c].choice)
    <3>1. CASE row[call[c].req].state \in Settled
      <4>1. row[call[c].req].state \in Decisions
        BY <3>1 DEF Settled, Decisions
      <4>2. row[call[c].req].state = StoredDecision(call[c].choice)
        BY <1>1, <2>2, <4>1 DEF DispatchInv, Agrees
      <4> QED
        BY <2>2, <4>2 DEF AlreadyEnded, TerminalState
    <3> QED
      BY <2>2, <3>1 DEF Dispatches, StillDispatching
  <2>4. Audit(c, "success")
    BY <2>1, <2>3 DEF CompleteDecision
  <2> DEFINE e == [req |-> call[c].req, choice |-> call[c].choice, result |-> "success"]
  <2>5. e \in audit' /\ e.req = call[c].req /\ e.choice = call[c].choice
    BY <2>4 DEF Audit
  <2> QED
    BY <2>5
<1>2. Spec => [][\A c \in Clients : Audited(c)]_vars
  BY <1>1, DecisionsHold, DispatchHolds, PTL DEF Spec
<1> QED
  BY <1>2 DEF DeliveredIsAudited

-----------------------------------------------------------------------------
(* A resolved request stays closed. *)

\* The Runtime asks before it reports the request resolved, and does each once; the
\* channel keeps that order.
Ordered ==
    /\ open \subseteq asked
    /\ \A i \in 1..Len(queue) :
          /\ queue[i].req \in asked
          /\ queue[i].kind = "resolved" => queue[i].req \notin open
    /\ \A i, j \in 1..Len(queue) :
          queue[i].kind = "request" /\ queue[j].kind = "resolved" /\ queue[i].req = queue[j].req
              => i < j
    /\ \A p \in settled :
          /\ p \in asked /\ p \notin open
          /\ \A i \in 1..Len(queue) : queue[i].req = p => queue[i].kind = "resolved"

\* The inductive invariant.
ClosedInv == Ordered /\ ResolvedIsClosed

\* A step that takes nothing from the channel and puts nothing in, with its requests.
Same == UNCHANGED <<asked, queue, settled>> /\ open' \subseteq open

\* The first frame is taken from the channel.
LEMMA TakeOne ==
    ASSUME TypeOK, queue # <<>>, queue' = Tail(queue)
    PROVE  /\ Len(queue) \in Nat \ {0} /\ Len(queue') = Len(queue) - 1
           /\ \A i \in 1..Len(queue') : i + 1 \in 1..Len(queue) /\ queue'[i] = queue[i + 1]
           /\ Head(queue) = queue[1]
<1>1. queue \in Seq(FrameType)
  BY DEF TypeOK
<1> QED
  BY <1>1, HeadTailProperties

\* A frame is put at the end of the channel.
LEMMA PutOne ==
    ASSUME TypeOK, NEW k \in {"request", "resolved"}, NEW p \in Requests, Send(k, p)
    PROVE  /\ Len(queue) \in Nat /\ Len(queue') = Len(queue) + 1
           /\ \A i \in 1..Len(queue) : queue'[i] = queue[i]
           /\ queue'[Len(queue) + 1].kind = k /\ queue'[Len(queue) + 1].req = p
<1> DEFINE f == [kind |-> k, req |-> p]
<1>1. queue \in Seq(FrameType) /\ f \in FrameType /\ queue' = Append(queue, f)
  BY DEF TypeOK, FrameType, Send
<1>2. f.kind = k /\ f.req = p
  OBVIOUS
<1> HIDE DEF f
<1>3. /\ Len(queue) \in Nat /\ Len(queue') = Len(queue) + 1
      /\ \A i \in 1..Len(queue) : queue'[i] = queue[i]
      /\ queue'[Len(queue) + 1] = f
  BY <1>1, AppendProperties
<1> QED
  BY <1>2, <1>3

\* Channel and requests keep their order.
LEMMA OrderedStep ==
    ASSUME TypeOK, Ordered, [Next]_vars
    PROVE  Ordered'
<1> USE DEF Ordered
<1>1. CASE Same
  <2>1. queue \in Seq(FrameType)
    BY DEF TypeOK
  <2> QED
    BY <1>1, <2>1 DEF Same
<1>2. ASSUME NEW q \in ReqIds, RuntimeAsks(q)
      PROVE  Ordered'
  <2> DEFINE p == <<instance, q>>
             n == Len(queue)
  <2>1. /\ p \in Requests /\ p \notin asked /\ asked' = asked \cup {p} /\ open' = open \cup {p}
        /\ settled' = settled /\ Send("request", p)
    BY <1>2 DEF RuntimeAsks, TypeOK, Requests
  <2> HIDE DEF p
  <2>2. /\ n \in Nat /\ Len(queue') = n + 1
        /\ \A i \in 1..n : queue'[i] = queue[i]
        /\ queue'[n + 1].kind = "request" /\ queue'[n + 1].req = p
    BY <2>1, PutOne
  <2>3. \A i \in 1..Len(queue') : i \in 1..n \/ i = n + 1
    BY <2>2
  <2>4. /\ open' \subseteq asked'
        /\ \A i \in 1..Len(queue') : /\ queue'[i].req \in asked'
                                     /\ queue'[i].kind = "resolved" => queue'[i].req \notin open'
    BY <2>1, <2>2, <2>3
  <2>5. ASSUME NEW i \in 1..Len(queue'), NEW j \in 1..Len(queue'),
               queue'[i].kind = "request", queue'[j].kind = "resolved",
               queue'[i].req = queue'[j].req
        PROVE  i < j
    <3>1. j \in 1..n /\ queue[j].req # p
      BY <2>1, <2>2, <2>3, <2>5
    <3>2. i \in 1..n
      BY <2>2, <2>3, <2>5, <3>1
    <3> QED
      BY <2>2, <2>5, <3>1, <3>2
  <2>6. \A s \in settled' : /\ s \in asked' /\ s \notin open'
                            /\ \A i \in 1..Len(queue') : queue'[i].req = s => queue'[i].kind = "resolved"
    BY <2>1, <2>2, <2>3
  <2> QED
    BY <2>4, <2>5, <2>6
<1>3. ASSUME NEW p \in Requests, RuntimeResolves(p)
      PROVE  Ordered'
  <2> DEFINE n == Len(queue)
  <2>1. /\ p \in open /\ asked' = asked /\ open' = open \ {p}
        /\ settled' = settled /\ Send("resolved", p)
    BY <1>3 DEF RuntimeResolves
  <2>2. /\ n \in Nat /\ Len(queue') = n + 1
        /\ \A i \in 1..n : queue'[i] = queue[i]
        /\ queue'[n + 1].kind = "resolved" /\ queue'[n + 1].req = p
    BY <2>1, PutOne
  <2>3. \A i \in 1..Len(queue') : i \in 1..n \/ i = n + 1
    BY <2>2
  <2>4. /\ open' \subseteq asked'
        /\ \A i \in 1..Len(queue') : /\ queue'[i].req \in asked'
                                     /\ queue'[i].kind = "resolved" => queue'[i].req \notin open'
    BY <2>1, <2>2, <2>3
  <2>5. ASSUME NEW i \in 1..Len(queue'), NEW j \in 1..Len(queue'),
               queue'[i].kind = "request", queue'[j].kind = "resolved",
               queue'[i].req = queue'[j].req
        PROVE  i < j
    <3>1. i \in 1..n
      BY <2>2, <2>3, <2>5
    <3> QED
      BY <2>2, <2>3, <2>5, <3>1
  <2>6. \A s \in settled' : /\ s \in asked' /\ s \notin open'
                            /\ \A i \in 1..Len(queue') : queue'[i].req = s => queue'[i].kind = "resolved"
    BY <2>1, <2>2, <2>3
  <2> QED
    BY <2>4, <2>5, <2>6
<1>4. CASE BridgeCapture \/ BridgeResolve \/ BridgeSkips
  <2>1. /\ queue # <<>> /\ queue' = Tail(queue) /\ asked' = asked /\ open' = open
        /\ settled' = settled \/ (/\ Head(queue).kind = "resolved"
                                  /\ settled' = settled \cup {Head(queue).req})
    BY <1>4 DEF BridgeCapture, BridgeResolve, BridgeSkips, runtimeVars
  <2>2. /\ Len(queue) \in Nat \ {0} /\ Len(queue') = Len(queue) - 1
        /\ \A i \in 1..Len(queue') : i + 1 \in 1..Len(queue) /\ queue'[i] = queue[i + 1]
        /\ Head(queue) = queue[1]
    BY <2>1, TakeOne
  <2>3. open' \subseteq asked' /\ 1 \in 1..Len(queue)
    BY <2>1, <2>2
  <2>4. \A i \in 1..Len(queue') : /\ queue'[i].req \in asked'
                                  /\ queue'[i].kind = "resolved" => queue'[i].req \notin open'
    BY <2>1, <2>2
  <2>5. ASSUME NEW i \in 1..Len(queue'), NEW j \in 1..Len(queue'),
               queue'[i].kind = "request", queue'[j].kind = "resolved",
               queue'[i].req = queue'[j].req
        PROVE  i < j
    BY <2>2, <2>5
  <2>6. ASSUME NEW s \in settled'
        PROVE  /\ s \in asked' /\ s \notin open'
               /\ \A i \in 1..Len(queue') : queue'[i].req = s => queue'[i].kind = "resolved"
    <3>1. CASE s \in settled
      BY <2>1, <2>2, <3>1
    <3>2. CASE s \notin settled
      <4>1. s = queue[1].req /\ queue[1].kind = "resolved"
        BY <2>1, <2>2, <2>6, <3>2
      <4>2. ASSUME NEW i \in 1..Len(queue'), queue'[i].req = s
            PROVE  queue'[i].kind = "resolved"
        <5>1. queue[i + 1] \in FrameType /\ i + 1 \in 1..Len(queue) /\ queue'[i] = queue[i + 1]
          BY <2>2, <4>2 DEF TypeOK
        <5>2. queue[i + 1].kind # "request"
          BY <2>3, <4>1, <4>2, <5>1
        <5> QED
          BY <5>1, <5>2 DEF FrameType
      <4> QED
        BY <2>1, <2>3, <4>1, <4>2
    <3> QED
      BY <3>1, <3>2
  <2> QED
    BY <2>3, <2>4, <2>5, <2>6
<1>5. CASE RuntimeReplaced \/ BridgeReconcile \/ ListBegin \/ ListPending \/ UNCHANGED vars
  BY <1>1, <1>5 DEF Same, RuntimeReplaced, BridgeReconcile, ListBegin, ListPending, vars,
     runtimeVars, bridgeVars
<1>6. ASSUME NEW c \in Clients,
             \/ \E p \in Requests, choice \in Choices : Decide(c, p, choice)
             \/ Continue(c) \/ HandlerDbError(c)
      PROVE  Same
  BY <1>6 DEF Same, Decide, Continue, BeginDecision, Respond, CompleteDecision,
     MarkDeliveryUnknown, HandlerDbError, runtimeVars, bridgeVars
<1> QED
  BY <1>1, <1>2, <1>3, <1>4, <1>5, <1>6 DEF Next, Runtime, Bridge

\* A handler makes live only what was live.
LEMMA HandlersReviveNothing ==
    ASSUME TypeOK, NEW c \in Clients,
           \/ \E p \in Requests, choice \in Choices : Decide(c, p, choice)
           \/ Continue(c) \/ HandlerDbError(c)
    PROVE  /\ settled' = settled
           /\ \A q \in Requests : row'[q].state \in Live => row[q].state \in Live
<1> DEFINE p == call[c].req
<1>1. settled' = settled
  BY DEF Decide, Continue, BeginDecision, Respond, CompleteDecision, MarkDeliveryUnknown,
     HandlerDbError, bridgeVars
<1>2. CASE row' = row
  BY <1>1, <1>2
<1>3. CASE BeginDecision(c)
  <2> DEFINE new == [state |-> "dispatching", version |-> call[c].version + 1,
                     decision |-> StoredDecision(call[c].choice)]
  <2>1. p \in Requests
    BY <1>3, CallTyped DEF BeginDecision, CallType
  <2>2. row' = row \/ (row' = [row EXCEPT ![p] = new] /\ row[p].state \in Live)
    BY <1>3 DEF BeginDecision, MayDispatch, Live
  <2> HIDE DEF new
  <2> QED
    BY <1>1, <2>1, <2>2 DEF TypeOK
<1>4. CASE CompleteDecision(c) \/ MarkDeliveryUnknown(c)
  <2>1. p \in Requests
    BY <1>4, CallTyped DEF CompleteDecision, MarkDeliveryUnknown, CallType
  <2>2. row' = row \/ (row[p].state \in Live /\ \E s : row' = SetState(p, s))
    BY <1>4 DEF CompleteDecision, MarkDeliveryUnknown, StillDispatching, Live
  <2> QED
    BY <1>1, <2>1, <2>2, SetStateOne
<1> QED
  BY <1>2, <1>3, <1>4 DEF Decide, Continue, Respond, HandlerDbError

\* ClosedInv is inductive.
LEMMA ClosedStep ==
    ASSUME TypeOK, TypeOK', DecisionInv, ClosedInv, [Next]_vars
    PROVE  ClosedInv'
<1>0. Ordered'
  BY OrderedStep DEF ClosedInv
<1>1. CASE BridgeResolve
  <2> DEFINE p == Head(queue).req
  <2>1. p \in Requests /\ settled' = settled \cup {p}
    BY <1>1, FrameTyped DEF BridgeResolve, FrameType
  <2>2. \A q \in Requests : Settles(q)
    BY <1>1, OthersSettle DEF Bridge
  <2>3. row'[p].state \notin Live
    <3>1. CASE row[p].state \in Live
      <4>1. row' = SetState(p, ResolvedState(row[p].decision))
        BY <1>1, <3>1 DEF BridgeResolve, MayResolve
      <4>2. ResolvedState(row[p].decision) \notin Live
        BY <2>1 DEF ResolvedState, TypeOK, RowType, Decisions, Live
      <4> QED
        BY <2>1, <4>1, <4>2, SetStateOne
    <3>2. CASE row[p].state \notin Live
      BY <1>1, <3>2 DEF BridgeResolve, MayResolve
    <3> QED
      BY <3>1, <3>2
  <2>4. \A q \in settled : row'[q].state \notin Live
    <3> SUFFICES ASSUME NEW q \in settled, q # p PROVE row'[q].state \notin Live
      BY <2>3
    <3>1. q \in Requests /\ row[q].state \notin Live
      BY DEF TypeOK, ClosedInv, ResolvedIsClosed
    <3>2. row' = row \/ row' = SetState(p, ResolvedState(row[p].decision))
      BY <1>1 DEF BridgeResolve
    <3>3. row'[q] = row[q]
      BY <2>1, <3>1, <3>2, SetStateOne
    <3> QED
      BY <3>1, <3>3
  <2> QED
    BY <1>0, <2>1, <2>3, <2>4 DEF ClosedInv, ResolvedIsClosed
<1>2. CASE BridgeCapture
  <2> DEFINE p == Head(queue).req
             new == [NoRow EXCEPT !.state = "pending"]
  <2>1. queue # <<>> /\ Head(queue).kind = "request" /\ settled' = settled
    BY <1>2 DEF BridgeCapture
  <2>2. Head(queue) = queue[1] /\ 1 \in 1..Len(queue)
    <3>1. queue \in Seq(FrameType)
      BY DEF TypeOK
    <3> QED
      BY <2>1, <3>1, HeadTailProperties
  <2>3. p \notin settled
    BY <2>1, <2>2 DEF ClosedInv, Ordered
  <2>4. row' = row \/ row' = [row EXCEPT ![p] = new]
    BY <1>2 DEF BridgeCapture
  <2> HIDE DEF new
  <2>5. \A q \in settled : row'[q] = row[q]
    BY <2>3, <2>4 DEF TypeOK
  <2> QED
    BY <1>0, <2>1, <2>5 DEF ClosedInv, ResolvedIsClosed
<1>3. CASE Runtime \/ BridgeReconcile \/ BridgeSkips \/ ListBegin \/ ListPending
  <2>1. \A q \in Requests : RowEvolves(q) /\ Settles(q)
    BY <1>3, OthersSettle, OthersAreSilent DEF Bridge
  <2>2. settled' = settled
    BY <1>3 DEF Runtime, RuntimeAsks, RuntimeResolves, RuntimeReplaced, BridgeReconcile,
       BridgeSkips, ListBegin, ListPending, bridgeVars
  <2>3. \A q \in Requests : row[q].state = "absent" => row'[q] = row[q]
    BY <1>3 DEF Runtime, RuntimeAsks, RuntimeResolves, RuntimeReplaced, BridgeReconcile,
       BridgeSkips, ListBegin, ListPending, bridgeVars, CancelStale, Live
  <2>4. \A q \in Requests : row[q].state \notin Live => row'[q] = row[q]
    BY <2>1, <2>3 DEF Settles
  <2> QED
    BY <1>0, <2>2, <2>4 DEF ClosedInv, ResolvedIsClosed, TypeOK
<1>4. ASSUME NEW c \in Clients,
             \/ \E p \in Requests, choice \in Choices : Decide(c, p, choice)
             \/ Continue(c) \/ HandlerDbError(c)
      PROVE  ClosedInv'
  BY <1>0, <1>4, HandlersReviveNothing DEF ClosedInv, ResolvedIsClosed, TypeOK
<1>5. CASE UNCHANGED vars
  BY <1>0, <1>5 DEF vars, bridgeVars, ClosedInv, ResolvedIsClosed
<1> QED
  BY <1>1, <1>2, <1>3, <1>4, <1>5 DEF Next, Bridge

\* resolve_runtime_request: "no active approval may remain visible after the Runtime
\* says the request is resolved", however late a handler, a retry or the captured
\* request itself arrives.
THEOREM ResolvedStaysClosed == Spec => []ResolvedIsClosed
<1>1. Init => ClosedInv
  BY DEF Init, ClosedInv, Ordered, ResolvedIsClosed
<1>2. ClosedInv => ResolvedIsClosed
  BY DEF ClosedInv
<1> QED
  BY <1>1, <1>2, TypeCorrect, DecisionsHold, ClosedStep, PTL DEF Spec

\* respond_to_server_request: the instance Profile Host compares keeps the answer to a
\* request of a replaced process from a request of the new one with the same id.
THEOREM AnswersArrive == Spec => []AnswersReachTheirProcess
<1>1. Init => AnswersReachTheirProcess
  BY DEF Init, AnswersReachTheirProcess
<1>2. ASSUME TypeOK, DecisionInv, AnswersReachTheirProcess, [Next]_vars
      PROVE  AnswersReachTheirProcess'
  <2>1. ASSUME NEW c \in Clients, Respond(c)
        PROVE  AnswersReachTheirProcess'
    <3> DEFINE p == call[c].req
               answer == [to |-> <<instance, p[2]>>, for |-> p, choice |-> call[c].choice]
    <3>1. p \in Requests
      BY <1>2, <2>1, CallTyped DEF Respond, CallType
    <3>2. received' = received \/ (received' = received \cup {answer} /\ p[1] = instance)
      BY <2>1 DEF Respond, AcceptsAnswer
    <3>3. p[1] = instance => answer.to = answer.for
      BY <3>1 DEF Requests
    <3> HIDE DEF answer
    <3> QED
      BY <1>2, <3>2, <3>3 DEF AnswersReachTheirProcess
  <2>2. CASE received' = received
    BY <1>2, <2>2 DEF AnswersReachTheirProcess
  <2>3. CASE Runtime \/ Bridge \/ BridgeSkips \/ ListBegin \/ ListPending
    BY <1>2, <2>2, <2>3, OthersAreSilent DEF Silent
  <2> QED
    BY <1>2, <2>1, <2>2, <2>3 DEF Next, Continue, Decide, BeginDecision, CompleteDecision,
       MarkDeliveryUnknown, HandlerDbError, vars
<1> QED
  BY <1>1, <1>2, DecisionsHold, PTL DEF Spec

=============================================================================
