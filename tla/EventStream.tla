----------------------------- MODULE EventStream -----------------------------
(***************************************************************************)
(* How a Codex event reaches a browser: the event bridge persists it and   *)
(* sends it on the bounded event bus (server/src/main.rs), one connection  *)
(* forwards the bus (routes/events.rs), and the browser's client delivers  *)
(* it to the page, keeps one cursor per Task, and recovers what it missed  *)
(* from the REST replay (src/services/webClient.ts, browser/client.ts).    *)
(*                                                                         *)
(* A frame is numbered when the bridge takes it and the number stands for  *)
(* run_events.sequence: the bridge is the only writer of run_events, so    *)
(* the order is the same, and a number whose insert failed stays unused.   *)
(* A Task has one Thread here, and the browser sees one project.           *)
(***************************************************************************)
EXTENDS Integers, Sequences, FiniteSets, FiniteSetsExt

CONSTANTS
    Tasks,
    Capacity,     \* EVENT_BUS_CAPACITY
    PageSize,     \* events in a full page of the REST replay
    MaxFrames,    \* bound: frames the bridge takes
    MaxDrops,     \* bound: connections lost and server restarts
    MaxFailures   \* bound: requests of the browser that fail

ASSUME StreamConstants ==
    /\ Capacity \in Nat \ {0} /\ PageSize \in Nat \ {0}
    /\ MaxFrames \in Nat /\ MaxDrops \in Nat /\ MaxFailures \in Nat

VARIABLES
    threads,     \* Tasks whose Run is bound to a Thread
    frame,       \* what each frame was: its Task and kind
    bridge,      \* the frame in the bridge's hands and how far it is
    log,         \* run_events: the sequences that are durable
    pending,     \* approvals in state pending or delivery_unknown, by sequence
    conn,        \* the connection: down, subscribed, or ready
    bus,         \* sent on the event bus and not yet read by its receiver
    online,      \* hasBeenOnline
    ops,         \* delivery: the chain of queued operations
    work,        \* the operation that is running
    known,       \* Tasks in threadContexts
    cursor,      \* taskEventSequences
    shown,       \* how often each event was given to onEvent, up to 2
    base,        \* the cursor the initial baseline set
    expected,    \* events persisted while the browser knew their Task
    overtaken,   \* events the replay of approvals moved the cursor past, and those
                 \* of Tasks unknown to the browser that a lagging receiver lost
    drops, failures

serverVars == <<threads, frame, bridge, log, pending>>
connVars == <<conn, bus>>
pageVars == <<online, known, cursor, shown, base, overtaken>>
vars == <<serverVars, connVars, ops, work, pageVars, expected, drops, failures>>

-----------------------------------------------------------------------------

Seqs == 1..MaxFrames
\* An event without a message for the page, one with, and one that asks.
Kinds == {"hidden", "shown", "approval"}

NoFrame == [seq |-> 0, at |-> "idle"]
NoWork == [pc |-> "idle", todo |-> {}, task |-> {}, at |-> 0, batch |-> {}, read |-> <<>>,
           ask |-> {}]

TaskOf(e) == frame[e].task
\* runtimeMessage(event) is not null.
Visible(e) == frame[e].kind # "hidden"
EventsOf(t) == {e \in log : TaskOf(e) = t}

\* What one GET /tasks/:id/events?after_sequence returns.
Page(t, after) ==
    {e \in EventsOf(t) : e > after
                         /\ Cardinality({d \in EventsOf(t) : after < d /\ d <= e}) <= PageSize}
LatestEventSequence(t) == Max(EventsOf(t) \cup {0})

Bumped(S) == [e \in Seqs |-> IF e \in S /\ shown[e] < 2 THEN shown[e] + 1 ELSE shown[e]]

Init ==
    /\ threads = {} /\ frame = <<>> /\ bridge = NoFrame
    /\ log = {} /\ pending = {}
    /\ conn = "down" /\ bus = <<>>
    /\ online = FALSE /\ ops = <<>> /\ work = NoWork /\ known = {}
    /\ cursor = [t \in Tasks |-> 0] /\ shown = [e \in Seqs |-> 0]
    /\ base = [t \in Tasks |-> 0] /\ expected = {} /\ overtaken = {}
    /\ drops = 0 /\ failures = 0

-----------------------------------------------------------------------------
(* The server: the event bridge and the event bus. *)

\* The bus keeps nothing for a receiver that has not subscribed.
Sent(e) == bus' = IF conn = "down" THEN bus ELSE Append(bus, e)

ThreadBound(t) ==
    /\ t \notin threads
    /\ threads' = threads \cup {t}
    /\ UNCHANGED <<frame, bridge, log, pending, connVars, ops, work, pageVars, expected,
                   drops, failures>>

\* The bridge receives a frame; capture_event_frame records an approval first.
TakeFrame(t, k) ==
    /\ bridge = NoFrame /\ Len(frame) < MaxFrames /\ t \in threads
    /\ frame' = Append(frame, [task |-> t, kind |-> k])
    /\ bridge' = [seq |-> Len(frame'), at |-> "taken"]
    /\ pending' = IF k = "approval" THEN pending \cup {Len(frame')} ELSE pending
    /\ UNCHANGED <<threads, log, connVars, ops, work, pageVars, expected, drops, failures>>

\* Mutant: the event goes out before its transaction commits.
BroadcastFirst ==
    /\ bridge.at = "taken"
    /\ bridge' = [bridge EXCEPT !.at = "persisted"]
    /\ Sent(bridge.seq)
    /\ UNCHANGED <<threads, frame, log, pending, conn, ops, work, pageVars, expected,
                   drops, failures>>

\* persist_frame commits the event.
PersistFrame ==
    /\ bridge.at = "taken"
    /\ log' = log \cup {bridge.seq}
    /\ expected' = IF TaskOf(bridge.seq) \in known THEN expected \cup {bridge.seq} ELSE expected
    /\ bridge' = [bridge EXCEPT !.at = "persisted"]
    /\ UNCHANGED <<threads, frame, pending, connVars, ops, work, pageVars, drops, failures>>

\* The capture, the projection or its transaction fails: the event is dropped.
PersistFails ==
    /\ bridge.at = "taken"
    /\ bridge' = NoFrame
    /\ UNCHANGED <<threads, frame, log, pending, connVars, ops, work, pageVars, expected,
                   drops, failures>>

\* event_bus.send
Broadcast ==
    /\ bridge.at = "persisted"
    /\ Sent(bridge.seq)
    /\ bridge' = NoFrame
    /\ UNCHANGED <<threads, frame, log, pending, conn, ops, work, pageVars, expected,
                   drops, failures>>

\* A decision is delivered, or the Runtime resolves or cancels the request.
ResolveApproval(e) ==
    /\ e \in pending
    /\ pending' = pending \ {e}
    /\ UNCHANGED <<threads, frame, bridge, log, connVars, ops, work, pageVars, expected,
                   drops, failures>>

-----------------------------------------------------------------------------
(* One connection: routes/events.rs and PlatformClient.subscribe. *)

\* The socket opens and authenticates; the server subscribes to the bus.
Connect ==
    /\ conn = "down"
    /\ conn' = "subscribed"
    /\ UNCHANGED <<serverVars, bus, ops, work, pageVars, expected, drops, failures>>

\* ready: onState("online") queues the recovery.
Ready ==
    /\ conn = "subscribed"
    /\ conn' = "ready"
    /\ ops' = Append(ops, [op |-> "online", seq |-> 0])
    /\ UNCHANGED <<serverVars, bus, work, pageVars, expected, drops, failures>>

\* A received event goes to the browser, which queues its delivery.
Forward ==
    /\ conn = "ready" /\ Len(bus) \in 1..Capacity
    /\ ops' = Append(ops, [op |-> "deliver", seq |-> Head(bus)])
    /\ bus' = Tail(bus)
    /\ UNCHANGED <<serverVars, conn, work, pageVars, expected, drops, failures>>

Elements(s) == {s[i] : i \in DOMAIN s}
Retained == SubSeq(bus, Len(bus) - Capacity + 1, Len(bus))

\* Mutant: a lagging receiver continues without telling the browser.
LaggedSilently ==
    /\ conn = "ready" /\ Len(bus) > Capacity
    /\ bus' = Retained
    /\ UNCHANGED <<serverVars, conn, ops, work, pageVars, expected, drops, failures>>

\* RecvError::Lagged: the receiver continues at the oldest event the bus keeps.
Lagged ==
    /\ conn = "ready" /\ Len(bus) > Capacity
    /\ ops' = Append(ops, [op |-> "resync", seq |-> 0])
    /\ bus' = Retained
    /\ overtaken' = overtaken \cup {e \in Elements(bus) \ Elements(bus') : TaskOf(e) \notin known}
    /\ UNCHANGED <<serverVars, conn, work, online, known, cursor, shown, base, expected,
                   drops, failures>>

\* The socket closes; connect() runs again after a delay.  What was sent and
\* not received yet is lost with it, as if it had not been forwarded.
Disconnect ==
    /\ conn # "down" /\ drops < MaxDrops
    /\ conn' = "down" /\ bus' = <<>>
    /\ drops' = drops + 1
    /\ UNCHANGED <<serverVars, ops, work, pageVars, expected, failures>>

\* The server stops and starts: connection, bus and the frame at hand are lost.
\* Without a frame at hand a Disconnect shows the same.
ServerRestart ==
    /\ bridge # NoFrame /\ drops < MaxDrops
    /\ bridge' = NoFrame
    /\ conn' = "down" /\ bus' = <<>>
    /\ drops' = drops + 1
    /\ UNCHANGED <<threads, frame, log, pending, ops, work, pageVars, expected, failures>>

-----------------------------------------------------------------------------
(* The browser: subscribeAppServerEvents. *)

Running(l) == work.pc = l
Current(o) == ops # <<>> /\ Head(ops).op = o
Finish == ops' = Tail(ops) /\ work' = NoWork

\* Mutant: the context of a Thread is recorded before its Run is bound to one.
WaitForRun(t) ==
    /\ t \in Tasks \ known
    /\ known' = known \cup {t}
    /\ UNCHANGED <<serverVars, connVars, ops, work, online, cursor, shown, base,
                   expected, overtaken, drops, failures>>

\* waitForThread: a Thread this browser started.
WaitForThread(t) ==
    /\ t \in threads \ known
    /\ known' = known \cup {t}
    /\ UNCHANGED <<serverVars, connVars, ops, work, online, cursor, shown, base,
                   expected, overtaken, drops, failures>>

\* Mutant: an event is delivered whatever the cursor says.
ApplyAlways(t, S) ==
    LET new == {e \in S : Visible(e)} IN
    /\ shown' = Bumped(new)
    /\ cursor' = [cursor EXCEPT ![t] = Max(new \cup {@})]

\* deliver: events at or below the cursor are dropped, the others shown in order.
Apply(t, S) ==
    LET new == {e \in S : Visible(e) /\ e > cursor[t]} IN
    /\ shown' = Bumped(new)
    /\ cursor' = [cursor EXCEPT ![t] = Max(new \cup {@})]

\* A live event; findThreadContext indexes the project if the Thread is new.
Deliver ==
    /\ Running("idle") /\ Current("deliver")
    /\ LET e == Head(ops).seq IN
       /\ known' = IF Visible(e) /\ TaskOf(e) \notin known THEN threads ELSE known
       /\ Apply(TaskOf(e), {e})
    /\ Finish
    /\ UNCHANGED <<serverVars, connVars, online, base, expected, overtaken, drops, failures>>

\* The first online: the project is indexed, then every Task's latest sequence
\* read.
IndexProject ==
    /\ Running("idle") /\ Current("online") /\ ~online
    /\ online' = TRUE
    /\ known' = known \cup threads
    /\ work' = [NoWork EXCEPT !.pc = "baseline", !.todo = known',
                              !.read = [t \in known' |-> 0]]
    /\ UNCHANGED <<serverVars, connVars, ops, cursor, shown, base, expected, overtaken,
                   drops, failures>>

\* establishInitialEventBaseline reads the Tasks in parallel
ReadLatest(t) ==
    /\ Running("baseline") /\ t \in work.todo
    /\ work' = [work EXCEPT !.todo = @ \ {t}, !.read[t] = LatestEventSequence(t)]
    /\ UNCHANGED <<serverVars, connVars, ops, pageVars, expected, drops, failures>>

\* and sets the cursors when all have been read.
EstablishBaseline ==
    /\ Running("baseline") /\ work.todo = {}
    /\ cursor' = [t \in Tasks |-> IF t \in DOMAIN work.read THEN Max({cursor[t], work.read[t]})
                                  ELSE cursor[t]]
    /\ base' = cursor'
    /\ work' = [NoWork EXCEPT !.pc = "approvals"]
    /\ UNCHANGED <<serverVars, connVars, ops, online, known, shown, expected, overtaken,
                   drops, failures>>

\* The loops over Tasks: listAllEvents of the next one begins behind its cursor,
\* or at 0 when approvals are looked for.
NextTask(loop, tasks, ask) ==
    \E t \in tasks :
        /\ work' = [NoWork EXCEPT !.pc = loop, !.todo = tasks \ {t}, !.task = {t},
                                  !.at = IF loop = "replay" THEN cursor'[t] ELSE 0, !.ask = ask]
        /\ UNCHANGED ops

\* After replayDurableEvents an online goes on with the approvals.
ReplayOver ==
    IF Current("resync") THEN Finish
    ELSE work' = [NoWork EXCEPT !.pc = "approvals"] /\ UNCHANGED ops

\* resync, or a later online: replayDurableEvents over the Tasks known now.
StartReplay ==
    /\ Running("idle") /\ (Current("resync") \/ (Current("online") /\ online))
    /\ UNCHANGED <<serverVars, connVars, pageVars, expected, drops, failures>>
    /\ IF known = {} THEN ReplayOver ELSE NextTask("replay", known, {})

ThePage == UNION {Page(t, work.at) : t \in work.task}
FullPage == Cardinality(ThePage) = PageSize

\* listAllEvents reads on while the page is full.
ReadOn ==
    /\ work.pc \in {"replay", "replayApprovals"} /\ FullPage
    /\ work' = [work EXCEPT !.batch = @ \cup ThePage, !.at = Max(ThePage)]
    /\ UNCHANGED <<serverVars, connVars, ops, pageVars, expected, drops, failures>>

\* Mutant: only the last page is delivered.
ReplayLastPage(t) ==
    /\ Running("replay") /\ t \in work.task /\ ~FullPage
    /\ Apply(t, ThePage)
    /\ UNCHANGED <<serverVars, connVars, online, known, base, expected, overtaken, drops,
                   failures>>
    /\ IF work.todo = {} THEN ReplayOver ELSE NextTask("replay", work.todo, {})

\* The last page of a Task: all of its events are delivered.
ReplayEvents(t) ==
    /\ Running("replay") /\ t \in work.task /\ ~FullPage
    /\ Apply(t, work.batch \cup ThePage)
    /\ UNCHANGED <<serverVars, connVars, online, known, base, expected, overtaken, drops,
                   failures>>
    /\ IF work.todo = {} THEN ReplayOver ELSE NextTask("replay", work.todo, {})

\* Mutant: unresolved approvals are left to the live events.
SkipApprovals ==
    /\ Running("approvals")
    /\ Finish
    /\ UNCHANGED <<serverVars, connVars, pageVars, expected, drops, failures>>

\* replayPendingApprovals returns at once when none is pending.
ListApprovals ==
    /\ Running("approvals")
    /\ IF pending = {} THEN Finish
       ELSE work' = [NoWork EXCEPT !.pc = "reindex", !.ask = pending] /\ UNCHANGED ops
    /\ UNCHANGED <<serverVars, connVars, pageVars, expected, drops, failures>>

\* It indexes the project again, and reads every event of every Task in it.
Reindex ==
    /\ Running("reindex")
    /\ known' = known \cup threads
    /\ UNCHANGED <<serverVars, connVars, online, cursor, shown, base, expected, overtaken,
                   drops, failures>>
    /\ IF threads = {} THEN Finish ELSE NextTask("replayApprovals", threads, work.ask)

\* The pending ones among them are shown and the cursor is moved up to them.
ReplayApprovals(t) ==
    LET found == {e \in work.batch \cup ThePage : frame[e].kind = "approval" /\ e \in work.ask} IN
    /\ Running("replayApprovals") /\ t \in work.task /\ ~FullPage
    /\ shown' = Bumped(found)
    /\ cursor' = [cursor EXCEPT ![t] = Max(found \cup {@})]
    /\ overtaken' = overtaken \cup {e \in EventsOf(t) \ found : cursor[t] < e /\ e < cursor'[t]}
    /\ UNCHANGED <<serverVars, connVars, online, known, base, expected, drops, failures>>
    /\ IF work.todo = {} THEN Finish ELSE NextTask("replayApprovals", work.todo, work.ask)

\* A request of the running operation fails: catch reports it and the chain
\* goes on.  A live event is dropped if its Thread cannot be looked up.
RequestFails ==
    /\ failures < MaxFailures
    /\ \/ work.pc \in {"baseline", "replay", "approvals", "reindex", "replayApprovals"}
          /\ UNCHANGED online
       \/ Running("idle") /\ Current("online") /\ ~online /\ online' = TRUE
       \/ Running("idle") /\ Current("deliver") /\ UNCHANGED online
          /\ Visible(Head(ops).seq) /\ TaskOf(Head(ops).seq) \notin known
    /\ Finish
    /\ failures' = failures + 1
    /\ UNCHANGED <<serverVars, connVars, known, cursor, shown, base, overtaken, expected, drops>>

-----------------------------------------------------------------------------

Bridge == PersistFrame \/ PersistFails \/ Broadcast
Connection == Connect \/ Ready \/ Forward \/ Lagged
Browser ==
    \/ Deliver \/ IndexProject \/ EstablishBaseline
    \/ StartReplay \/ ReadOn \/ ListApprovals \/ Reindex
    \/ \E t \in Tasks : ReadLatest(t) \/ ReplayEvents(t) \/ ReplayApprovals(t)

Next ==
    \/ \E t \in Tasks : ThreadBound(t) \/ WaitForThread(t) \/ \E k \in Kinds : TakeFrame(t, k)
    \/ Bridge
    \/ \E e \in Seqs : ResolveApproval(e)
    \/ Connection \/ Disconnect \/ ServerRestart
    \/ Browser \/ RequestFails

Spec == Init /\ [][Next]_vars

\* The bridge, the connection's task, the reconnect timer and the page's
\* promise chain each go on while they can.
Fairness == WF_vars(Bridge) /\ WF_vars(Connection) /\ WF_vars(Browser)
FairSpec == Spec /\ Fairness

-----------------------------------------------------------------------------

TypeOK ==
    /\ threads \subseteq Tasks /\ known \subseteq threads
    /\ Len(frame) <= MaxFrames
    /\ \A e \in DOMAIN frame : frame[e] \in [task : Tasks, kind : Kinds]
    /\ bridge \in [seq : 0..Len(frame), at : {"idle", "taken", "persisted"}]
    /\ log \subseteq DOMAIN frame /\ pending \subseteq DOMAIN frame
    /\ \A i \in DOMAIN bus : bus[i] \in DOMAIN frame
    /\ conn \in {"down", "subscribed", "ready"}
    /\ conn = "down" => bus = <<>>
    /\ online \in BOOLEAN
    /\ \A i \in DOMAIN ops : /\ ops[i].op \in {"deliver", "online", "resync"}
                             /\ ops[i].op = "deliver" => ops[i].seq \in DOMAIN frame
    /\ work.pc # "idle" => ops # <<>>
    /\ cursor \in [Tasks -> 0..Len(frame)] /\ base \in [Tasks -> 0..Len(frame)]
    /\ shown \in [Seqs -> 0..2]
    /\ expected \subseteq log /\ overtaken \subseteq log
    /\ drops \in 0..MaxDrops /\ failures \in 0..MaxFailures

\* Whatever the page was shown, and every cursor it would resume from, is in
\* run_events: the bridge persists an event before it exposes it.
SeenIsDurable ==
    /\ \A e \in Seqs : shown[e] > 0 => e \in log
    /\ \A t \in Tasks : cursor[t] > 0 => cursor[t] \in EventsOf(t)

\* An event that is not an approval is shown at most once and never after a
\* later event of its Task: live delivery, replay and resync do not repeat or
\* reorder what the page applies.
ShownInOrder ==
    [][\A e \in DOMAIN frame : shown'[e] > shown[e] /\ frame[e].kind = "shown" =>
           \A d \in DOMAIN frame : d >= e /\ TaskOf(d) = TaskOf(e) => shown[d] = 0]_vars

Skipped(e) ==
    /\ e \in expected /\ Visible(e) /\ shown[e] = 0
    /\ base[TaskOf(e)] < e /\ e <= cursor[TaskOf(e)]

\* An event newer than the baseline that the cursor has passed was shown, unless
\* a request failed or the replay of pending approvals went past it: lost
\* connections, restarts, a lagging receiver and full pages lose nothing.
GapsExplained == \A e \in Seqs : Skipped(e) => e \in overtaken \/ failures > 0

Reached(e) == e \in DOMAIN frame /\ e <= cursor[TaskOf(e)]

\* An event persisted while the browser knows its Task is reached by the cursor,
\* however often connection and server come and go, unless a request failed.
CatchesUp ==
    \A e \in Seqs : (e \in expected /\ Visible(e)) ~> (Reached(e) \/ failures > 0)

\* A durable approval that stays pending is shown, even when the page did not know
\* its Task or set its baseline behind it, unless a request failed or a lagging
\* receiver lost it before the page knew its Task: resync replays known Tasks only.
ApprovalsSurface ==
    \A e \in Seqs : (e \in log \cap pending)
                    ~> (shown[e] > 0 \/ e \notin pending \/ e \in overtaken \/ failures > 0)
=============================================================================
