------------------------- MODULE CodexAdapterProofs -------------------------
(***************************************************************************)
(* Proofs about CodexAdapter, for any number of Threads, operations,       *)
(* terminals and app-server processes: type correctness with the FIFO lock *)
(* and the runtime mutex, the bindings the adapter keeps of the process it *)
(* talks to, and the final states of terminal sessions.                    *)
(***************************************************************************)
EXTENDS CodexAdapter, SequenceTheorems, TLAPS

USE DEF hostVars, lockVars, bindVars, callVars, termVars, seenVars

\* Where an actor may stand, and where it waits for the lifecycle lock.
WaitLabels == {"restart", "recover", "respond", "prepare", "request", "resume", "terminate"}
Labels == WaitLabels \cup {"idle", "note", "resuming", "bind", "requesting", "open", "mark",
                           "terminating", "close"}

RowStates == Open \cup {"absent", "closing", "closed", "failed"}
TaskStates == {"none", "queued", "live", "ended", "gone"}

JobType == [thread : Threads \cup {None}, kind : Kinds \cup {None}]

\* The process, the bindings and the sets kept of them.
HostOK ==
    /\ instance \in Instances /\ recorded \in 0..instance
    /\ up \in BOOLEAN /\ turn \in BOOLEAN /\ scheduled \in BOOLEAN
    /\ loaded \subseteq Threads /\ bound \subseteq Threads /\ unsure \subseteq Threads
    /\ asked \in Ops \cup {None}
    /\ termBound \subseteq Terminals /\ orphaned \subseteq Terminals /\ lost \subseteq Terminals
    /\ readers \subseteq Actors

\* One operation at a time is past the runtime mutex, and it has a Thread.
CallsOK ==
    /\ pc \in [Actors -> Labels]
    /\ mutex \in Ops \cup {None} /\ job \in [Ops -> JobType]
    /\ \A o \in Ops : /\ At(Operation(o), "idle") = (mutex # o)
                      /\ mutex = o => job[o].thread \in Threads
    /\ \A k \in Terminals : pc[Running(k)] = "idle"

\* The line for the lifecycle lock: nobody stands in it twice, and only who waits.
MayWait(a) == pc[a] \in WaitLabels \/ \E k \in Terminals : a = Running(k) /\ task[k] = "queued"

LineOK ==
    /\ queue \in Seq(Actors)
    /\ \A i, j \in 1..Len(queue) : queue[i] = queue[j] => i = j
    /\ \A i \in 1..Len(queue) : MayWait(queue[i])

\* Exits on their way to the projection: of commands that are over, each once, and
\* recorded as nothing final yet.
TerminalsOK ==
    /\ row \in [Terminals -> RowStates]
    /\ task \in [Terminals -> TaskStates]
    /\ exits \in Seq(Terminals)
    /\ \A i, j \in 1..Len(exits) : exits[i] = exits[j] => i = j
    /\ \A i \in 1..Len(exits) :
          task[exits[i]] = "gone" /\ row[exits[i]] \notin {"absent", "closed", "failed"}
    /\ \A k \in Terminals :
          /\ row[k] = "absent" => task[k] = "none" /\ pc[Opening(k)] = "idle"
          /\ pc[Opening(k)] = "open" => row[k] = "starting" /\ task[k] = "none"
          /\ row[k] \in {"closed", "failed"} => task[k] \in {"none", "gone"}

\* What is bound, and what a handler closes, was spawned.
ClosersOK ==
    \A k \in Terminals : k \in termBound \/ pc[Closing(k)] # "idle" => task[k] # "none"

Typed == HostOK /\ CallsOK /\ LineOK /\ TerminalsOK /\ ClosersOK

\* The operation about to bind its Thread has just resumed it in this process.
BindReady ==
    \A o \in Ops : At(Operation(o), "bind") /\ up /\ recorded = instance
        => job[o].thread \in loaded

\* The inductive invariant behind BindingsMatch.
BindInv == BindReady /\ BindingsMatch

-----------------------------------------------------------------------------
(* Actors. *)

\* Every role is an actor.
LEMMA ActorsAre ==
    /\ Registry \in Actors /\ Responder \in Actors
    /\ \A o \in Ops : Operation(o) \in Actors
    /\ \A k \in Terminals : Opening(k) \in Actors /\ Running(k) \in Actors /\ Closing(k) \in Actors
BY DEF Actors, Registry, Responder, Operation, Opening, Running, Closing

\* No two roles are the same actor.
LEMMA ActorsDiffer ==
    /\ \A o, p \in Ops : Operation(o) = Operation(p) => o = p
    /\ \A j, k \in Terminals : /\ Opening(j) = Opening(k) => j = k
                               /\ Running(j) = Running(k) => j = k
                               /\ Closing(j) = Closing(k) => j = k
    /\ \A j, k \in Terminals : /\ Opening(j) # Running(k) /\ Opening(j) # Closing(k)
                               /\ Running(j) # Closing(k)
    /\ \A o \in Ops, k \in Terminals : /\ Operation(o) # Opening(k) /\ Operation(o) # Running(k)
                                       /\ Operation(o) # Closing(k)
    /\ \A o \in Ops : Operation(o) # Registry /\ Operation(o) # Responder
    /\ \A k \in Terminals : /\ Registry # Opening(k) /\ Registry # Running(k) /\ Registry # Closing(k)
                            /\ Responder # Opening(k) /\ Responder # Running(k)
                            /\ Responder # Closing(k)
    /\ Registry # Responder
BY DEF Registry, Responder, Operation, Opening, Running, Closing

-----------------------------------------------------------------------------
(* The runtime mutex. *)

\* Somebody who is no Thread operation moves on.
LEMMA OtherMoves ==
    ASSUME CallsOK, NEW a \in Actors, NEW l \in Labels, Goto(a, l), UNCHANGED <<mutex, job>>,
           \A o \in Ops : a # Operation(o), \A k \in Terminals : a # Running(k)
    PROVE  CallsOK'
BY ActorsAre DEF CallsOK, Goto, At

\* A Thread operation moves on with the mutex.
LEMMA OperationMoves ==
    ASSUME CallsOK, NEW o \in Ops, NEW l \in Labels \ {"idle"}, Goto(Operation(o), l),
           ~At(Operation(o), "idle"), UNCHANGED <<mutex, job>>
    PROVE  CallsOK'
BY ActorsAre, ActorsDiffer DEF CallsOK, Goto, At

\* A Thread operation ends and unlocks it.
LEMMA OperationEnds ==
    ASSUME CallsOK, NEW o \in Ops, ~At(Operation(o), "idle"), Finish(o)
    PROVE  CallsOK'
<1>1. /\ pc' = [pc EXCEPT ![Operation(o)] = "idle"] /\ mutex' = None
      /\ mutex = o
  BY DEF Finish, Goto, CallsOK
<1>2. "idle" \in Labels
  BY DEF Labels
<1>3. job' \in [Ops -> JobType]
  BY DEF Finish, CallsOK, JobType
<1> QED
  BY <1>1, <1>2, <1>3, ActorsAre, ActorsDiffer, AdapterConstants DEF CallsOK, At

\* An operation begins when nobody has it.
LEMMA OperationBegins ==
    ASSUME CallsOK, NEW o \in Ops, NEW t \in Threads, NEW kind \in Kinds, Begin(o, t, kind)
    PROVE  CallsOK'
<1>1. /\ pc' = [pc EXCEPT ![Operation(o)] = "prepare"] /\ mutex = None /\ mutex' = o
      /\ At(Operation(o), "idle")
  BY DEF Begin, Goto
<1>2. "prepare" \in Labels
  BY DEF Labels, WaitLabels
<1>3. job' \in [Ops -> JobType] /\ job'[o].thread = t
  BY <1>1 DEF Begin, CallsOK, JobType
<1> QED
  BY <1>1, <1>2, <1>3, ActorsAre, ActorsDiffer, AdapterConstants DEF CallsOK, At

\* The mutex admits one operation at a time, and the server's restart frees it.
LEMMA CallsStep ==
    ASSUME Typed, [Next]_vars
    PROVE  CallsOK'
<1> USE ActorsAre, ActorsDiffer DEF Typed
<1>0. CASE UNCHANGED <<pc, mutex, job>>
  BY <1>0 DEF CallsOK, At
<1>1. CASE Exit \/ TurnEnds \/ ScheduleRestart \/ Project \/ UNCHANGED vars
  BY <1>0, <1>1 DEF Exit, TurnEnds, ScheduleRestart, Project, ProjectExit, ProjectExitFails, vars
<1>2. CASE SetSecretEnvironment \/ Restart
  <2>1. \E l \in {"restart", "recover", "idle"} : Goto(Registry, l)
    BY <1>2 DEF SetSecretEnvironment, Restart
  <2>2. UNCHANGED <<mutex, job>>
    BY <1>2 DEF SetSecretEnvironment, Restart
  <2> QED
    BY <2>1, <2>2, OtherMoves DEF Labels, WaitLabels
<1>3. CASE Answer \/ Respond
  <2>1. \E l \in {"respond", "idle"} : Goto(Responder, l)
    BY <1>3 DEF Answer, Respond
  <2>2. UNCHANGED <<mutex, job>>
    BY <1>3 DEF Answer, Respond
  <2> QED
    BY <2>1, <2>2, OtherMoves DEF Labels, WaitLabels
<1>4. ASSUME NEW o \in Ops, OpStep(o) \/ RequestAsks(o)
      PROVE  CallsOK'
  <2>1. CASE RequestAsks(o)
    BY <1>0, <2>1 DEF RequestAsks
  <2>2. CASE OpStep(o)
    <3>1. ~At(Operation(o), "idle")
      BY <2>2 DEF OpStep, ApplyScheduledRestart, ApplyFails, NoteInstance, Send, Resumed, Bind,
         Answered, RequestFails, At
    <3>2. Finish(o) \/ (UNCHANGED <<mutex, job>>
                        /\ \E l \in {"note", "request", "resume", "resuming", "requesting", "bind"} :
                              Goto(Operation(o), l))
      BY <2>2 DEF OpStep, ApplyScheduledRestart, ApplyFails, NoteInstance, Send, Resumed, Bind,
         Answered, RequestFails
    <3> QED
      BY <3>1, <3>2, OperationMoves, OperationEnds DEF Labels, WaitLabels
  <2> QED
    BY <1>4, <2>1, <2>2
<1>5. ASSUME NEW o \in Ops, NEW t \in Threads, NEW kind \in Kinds, Begin(o, t, kind)
      PROVE  CallsOK'
  BY <1>5, OperationBegins
<1>6. ASSUME NEW k \in Terminals,
             InsertSession(k) \/ OpenStep(k) \/ TaskStep(k) \/ ShellExits(k)
             \/ CloseTerminal(k) \/ CloseStep(k)
      PROVE  CallsOK'
  <2>1. CASE TaskStep(k) \/ ShellExits(k)
    BY <1>0, <2>1 DEF TaskStep, Publish, TaskEnds, ShellExits
  <2>2. CASE InsertSession(k) \/ OpenStep(k)
    <3>1. UNCHANGED <<mutex, job>> /\ \E l \in {"open", "mark", "idle"} : Goto(Opening(k), l)
      BY <2>2 DEF InsertSession, OpenStep, OpenTerminal, OpenFails, MarkRunning
    <3> QED
      BY <3>1, OtherMoves DEF Labels
  <2>3. CASE CloseTerminal(k) \/ CloseStep(k)
    <3>1. /\ UNCHANGED <<mutex, job>>
          /\ \E l \in {"terminate", "terminating", "close", "idle"} : Goto(Closing(k), l)
      BY <2>3 DEF CloseTerminal, CloseStep, SendTerminate, Terminated, TerminateFails, MarkClosing
    <3> QED
      BY <3>1, OtherMoves DEF Labels, WaitLabels
  <2> QED
    BY <1>6, <2>1, <2>2, <2>3
<1>7. CASE ServerRestart
  BY <1>7, AdapterConstants DEF ServerRestart, CallsOK, At, Labels, JobType
<1> QED
  BY <1>1, <1>2, <1>3, <1>4, <1>5, <1>6, <1>7 DEF Next

-----------------------------------------------------------------------------
(* The line for the lifecycle lock. *)

\* Whoever waits keeps waiting, but a.
KeepWaiting(a) ==
    /\ \A b \in Actors \ {a} : pc[b] \in WaitLabels => pc'[b] \in WaitLabels
    /\ \A k \in Terminals : Running(k) # a /\ task[k] = "queued" => task'[k] = "queued"

\* In terms of MayWait.
LEMMA WaitersKept ==
    ASSUME NEW a, KeepWaiting(a), NEW b \in Actors, b # a, MayWait(b)
    PROVE  MayWait(b)'
BY DEF KeepWaiting, MayWait

\* Nobody joins or leaves.
LEMMA LineKept ==
    ASSUME LineOK, queue' = queue, NEW a, KeepWaiting(a), MayWait(a) => MayWait(a)'
    PROVE  LineOK'
<1>1. \A i \in 1..Len(queue) : queue[i] \in Actors
  BY DEF LineOK
<1>2. \A i \in 1..Len(queue) : MayWait(queue[i])'
  BY <1>1, WaitersKept DEF LineOK
<1> QED
  BY <1>2 DEF LineOK

\* a joins at the end.
LEMMA LineJoined ==
    ASSUME LineOK, NEW a \in Actors, queue' = Append(queue, a), ~MayWait(a), MayWait(a)',
           KeepWaiting(a)
    PROVE  LineOK'
<1>1. queue \in Seq(Actors) /\ Len(queue) \in Nat
  BY DEF LineOK
<1>2. /\ queue' \in Seq(Actors) /\ Len(queue') = Len(queue) + 1
      /\ \A i \in 1..Len(queue) : queue'[i] = queue[i]
      /\ queue'[Len(queue) + 1] = a
  BY <1>1, AppendProperties
<1>3. \A i \in 1..Len(queue') : i \in 1..Len(queue) \/ i = Len(queue) + 1
  BY <1>1, <1>2
<1>4. \A i \in 1..Len(queue) : queue[i] \in Actors /\ queue[i] # a /\ MayWait(queue[i])
  BY <1>1 DEF LineOK
<1>5. \A i, j \in 1..Len(queue') : queue'[i] = queue'[j] => i = j
  BY <1>2, <1>3, <1>4 DEF LineOK
<1>6. \A i \in 1..Len(queue) : MayWait(queue[i])'
  BY <1>4, WaitersKept
<1>7. ASSUME NEW i \in 1..Len(queue')
      PROVE  MayWait(queue[i])' \/ queue'[i] = a
  BY <1>2, <1>3, <1>6
<1>8. ASSUME NEW i \in 1..Len(queue')
      PROVE  MayWait(queue[i])'
  BY <1>7
<1> QED
  BY <1>2, <1>5, <1>8 DEF LineOK

\* The first in line leaves.
LEMMA LineLeft ==
    ASSUME LineOK, NEW a \in Actors, Turnstile(a), queue' = Tail(queue), KeepWaiting(a)
    PROVE  /\ LineOK'
           /\ \A i \in 1..Len(queue') : queue'[i] # a
<1>1. queue \in Seq(Actors) /\ queue # <<>> /\ Head(queue) = a
  BY DEF LineOK, Turnstile
<1>2. /\ queue' \in Seq(Actors) /\ Len(queue) \in Nat \ {0} /\ Len(queue') = Len(queue) - 1
      /\ \A i \in 1..Len(queue') : i + 1 \in 1..Len(queue) /\ queue'[i] = queue[i + 1]
      /\ queue[1] = a
  BY <1>1, HeadTailProperties
<1>3. \A i, j \in 1..Len(queue') : queue'[i] = queue'[j] => i = j
  BY <1>2 DEF LineOK
<1>4. ASSUME NEW i \in 1..Len(queue')
      PROVE  queue'[i] \in Actors /\ queue'[i] # a /\ MayWait(queue[i])'
  <2>1. i + 1 \in 1..Len(queue) /\ queue'[i] = queue[i + 1] /\ 1 \in 1..Len(queue)
    BY <1>2
  <2>2. queue[i + 1] \in Actors /\ queue[i + 1] # a /\ MayWait(queue[i + 1])
    BY <1>1, <1>2, <2>1 DEF LineOK
  <2>3. ASSUME NEW c \in Actors, c # a, MayWait(c)
        PROVE  MayWait(c)'
    BY <2>3, WaitersKept
  <2>4. ASSUME NEW c \in Actors, c # a, MayWait(c), queue'[i] = c
        PROVE  MayWait(queue[i])'
    BY <2>3, <2>4
  <2> QED
    BY <2>1, <2>2, <2>4
<1> QED
  BY <1>2, <1>3, <1>4 DEF LineOK

\* The first in line leaves and joins again at the end.
LEMMA LineRejoined ==
    ASSUME LineOK, NEW a \in Actors, Turnstile(a), queue' = Append(Tail(queue), a), MayWait(a)',
           KeepWaiting(a)
    PROVE  LineOK'
<1> DEFINE q == Tail(queue)
<1>1. queue \in Seq(Actors) /\ queue # <<>> /\ Head(queue) = a
  BY DEF LineOK, Turnstile
<1>2. /\ q \in Seq(Actors) /\ Len(queue) \in Nat \ {0} /\ Len(q) = Len(queue) - 1
      /\ \A i \in 1..Len(q) : i + 1 \in 1..Len(queue) /\ q[i] = queue[i + 1]
      /\ queue[1] = a
  BY <1>1, HeadTailProperties
<1>3. \A i \in 1..Len(q) : q[i] \in Actors /\ q[i] # a /\ MayWait(q[i])
  BY <1>1, <1>2 DEF LineOK
<1>4. \A i, j \in 1..Len(q) : q[i] = q[j] => i = j
  BY <1>2 DEF LineOK
<1> HIDE DEF q
<1>5. /\ queue' \in Seq(Actors) /\ Len(queue') = Len(q) + 1 /\ Len(q) \in Nat
      /\ \A i \in 1..Len(q) : queue'[i] = q[i]
      /\ queue'[Len(q) + 1] = a
  BY <1>2, AppendProperties DEF q
<1>6. \A i \in 1..Len(queue') : i \in 1..Len(q) \/ i = Len(q) + 1
  BY <1>5
<1>7. \A i, j \in 1..Len(queue') : queue'[i] = queue'[j] => i = j
  BY <1>3, <1>4, <1>5, <1>6
<1>8. ASSUME NEW i \in 1..Len(queue')
      PROVE  MayWait(queue[i])'
  <2>1. ASSUME NEW c \in Actors, c # a, MayWait(c), queue'[i] = c
        PROVE  MayWait(queue[i])'
    <3>1. MayWait(c)'
      BY <2>1, WaitersKept
    <3> QED
      BY <2>1, <3>1
  <2>2. CASE queue'[i] = a
    BY <2>2
  <2> QED
    BY <1>3, <1>5, <1>6, <2>1, <2>2
<1> QED
  BY <1>5, <1>7, <1>8 DEF LineOK

\* The end of a process ends live commands and leaves queued ones queued.
LEMMA EndedKeepsQueued ==
    ASSUME TerminalsOK
    PROVE  /\ Ended \in [Terminals -> TaskStates]
           /\ \A k \in Terminals : /\ Ended[k] = "queued" <=> task[k] = "queued"
                                   /\ Ended[k] # "live"
                                   /\ task[k] # "live" => Ended[k] = task[k]
BY DEF Ended, TerminalsOK, TaskStates

\* What the process and the lock do to the tasks of terminals.
LEMMA HostTasks ==
    ASSUME TerminalsOK, task' \in {task, Ended}
    PROVE  \A k \in Terminals : task[k] = "queued" => task'[k] = "queued"
BY EndedKeepsQueued

\* Nobody is in line twice or for nothing.
LEMMA LineStep ==
    ASSUME Typed, [Next]_vars
    PROVE  LineOK'
<1> USE ActorsAre, ActorsDiffer DEF Typed
<1>a. pc \in [Actors -> Labels]
  BY DEF CallsOK
<1>c. \A l \in {"idle", "note", "resuming", "bind", "requesting", "open", "mark", "terminating",
                "close"} : l \notin WaitLabels
  BY DEF WaitLabels
<1>d. \A l \in {"restart", "recover", "respond", "prepare", "request", "resume", "terminate"} :
         l \in WaitLabels
  BY DEF WaitLabels
<1>1. CASE Exit \/ TurnEnds \/ ScheduleRestart \/ Project \/ UNCHANGED vars
  <2>1. queue' = queue /\ pc' = pc /\ task' \in {task, Ended}
    BY <1>1 DEF Exit, TurnEnds, ScheduleRestart, Project, ProjectExit, ProjectExitFails, vars
  <2>2. KeepWaiting(Registry) /\ (MayWait(Registry) => MayWait(Registry)')
    BY <2>1, HostTasks DEF KeepWaiting, MayWait
  <2> QED
    BY <2>1, <2>2, LineKept
<1>2. CASE SetSecretEnvironment
  <2>1. /\ pc' = [pc EXCEPT ![Registry] = "restart"] /\ pc[Registry] = "idle" /\ task' = task
        /\ queue' = Append(queue, Registry)
    BY <1>2 DEF SetSecretEnvironment, Goto, At, Enqueue
  <2>2. KeepWaiting(Registry) /\ ~MayWait(Registry) /\ MayWait(Registry)'
    BY <1>a, <1>c, <1>d, <2>1 DEF KeepWaiting, MayWait
  <2> QED
    BY <2>1, <2>2, LineJoined
<1>3. CASE Restart
  <2>1. /\ Turnstile(Registry) /\ task' \in {task, Ended}
        /\ \/ queue' = Tail(queue) /\ pc' = [pc EXCEPT ![Registry] = "idle"]
           \/ /\ queue' = Append(Tail(queue), Registry)
              /\ pc' = [pc EXCEPT ![Registry] = "recover"]
    BY <1>3 DEF Restart, CanWrite, Goto, NewProcess, NoProcess
  <2>2. KeepWaiting(Registry)
    BY <1>a, <2>1, HostTasks DEF KeepWaiting
  <2>3. CASE queue' = Tail(queue)
    BY <2>1, <2>2, <2>3, LineLeft
  <2>4. CASE queue' = Append(Tail(queue), Registry) /\ pc' = [pc EXCEPT ![Registry] = "recover"]
    <3>1. MayWait(Registry)'
      BY <1>a, <1>d, <2>4 DEF MayWait
    <3> QED
      BY <2>1, <2>2, <2>4, <3>1, LineRejoined
  <2> QED
    BY <2>1, <2>3, <2>4
<1>4. CASE Answer
  <2>1. /\ pc' = [pc EXCEPT ![Responder] = "respond"] /\ pc[Responder] = "idle" /\ task' = task
        /\ queue' = Append(queue, Responder)
    BY <1>4 DEF Answer, Goto, At, Enqueue
  <2>2. KeepWaiting(Responder) /\ ~MayWait(Responder) /\ MayWait(Responder)'
    BY <1>a, <1>c, <1>d, <2>1 DEF KeepWaiting, MayWait
  <2> QED
    BY <2>1, <2>2, LineJoined
<1>5. CASE Respond
  <2>1. /\ pc' = [pc EXCEPT ![Responder] = "idle"] /\ task' = task /\ Turnstile(Responder)
        /\ queue' = Tail(queue)
    BY <1>5 DEF Respond, Goto
  <2>2. KeepWaiting(Responder)
    BY <1>a, <2>1 DEF KeepWaiting
  <2> QED
    BY <2>1, <2>2, LineLeft
<1>6. ASSUME NEW o \in Ops, OpStep(o) \/ RequestAsks(o)
             \/ \E t \in Threads, kind \in Kinds : Begin(o, t, kind)
      PROVE  LineOK'
  <2> DEFINE a == Operation(o)
  <2>0. /\ \A b \in Actors \ {a} : pc'[b] = pc[b]
        /\ task' \in {task, Ended}
    <3>1. CASE OpStep(o)
      BY <3>1, <1>a DEF OpStep, ApplyScheduledRestart, ApplyFails, NoteInstance, Send, Resumed,
         Bind, Answered, RequestFails, Finish, Goto, NewProcess, NoProcess
    <3> QED
      BY <1>6, <1>a, <3>1 DEF RequestAsks, Begin, Goto
  <2>1. KeepWaiting(a)
    BY <2>0, HostTasks DEF KeepWaiting
  <2>2. CASE \E t \in Threads, kind \in Kinds : Begin(o, t, kind)
    <3>1. /\ pc[a] = "idle" /\ pc' = [pc EXCEPT ![a] = "prepare"] /\ queue' = Append(queue, a)
      BY <2>2 DEF Begin, Goto, At, Enqueue
    <3>2. ~MayWait(a) /\ MayWait(a)'
      BY <1>a, <1>c, <1>d, <3>1 DEF MayWait
    <3> QED
      BY <2>1, <3>1, <3>2, LineJoined
  <2>3. CASE ApplyScheduledRestart(o) \/ ApplyFails(o) \/ Send(o)
    <3>1. Turnstile(a) /\ queue' = Tail(queue)
      BY <2>3 DEF ApplyScheduledRestart, ApplyFails, Send, CanWrite
    <3> QED
      BY <2>1, <3>1, LineLeft
  <2>4. CASE NoteInstance(o)
    <3>1. /\ pc[a] = "note" /\ queue' = Append(queue, a)
          /\ pc'[a] \in {"request", "resume"}
      BY <2>4, <1>a DEF NoteInstance, Goto, At, Enqueue
    <3>2. ~MayWait(a) /\ MayWait(a)'
      BY <1>a, <1>c, <1>d, <3>1 DEF MayWait
    <3> QED
      BY <2>1, <3>1, <3>2, LineJoined
  <2>5. CASE Bind(o)
    <3>1. /\ pc[a] = "bind"
          /\ \/ queue' = Append(queue, a) /\ pc'[a] = "request"
             \/ queue' = queue
      BY <2>5, <1>a DEF Bind, Finish, Goto, At, Enqueue
    <3>2. ~MayWait(a) /\ (pc'[a] = "request" => MayWait(a)')
      BY <1>a, <1>c, <1>d, <3>1 DEF MayWait
    <3> QED
      BY <2>1, <3>1, <3>2, LineJoined, LineKept
  <2>6. CASE Resumed(o) \/ Answered(o) \/ RequestFails(o) \/ RequestAsks(o)
    <3>1. pc[a] \in {"resuming", "requesting"} /\ queue' = queue
      BY <2>6 DEF Resumed, Answered, RequestFails, RequestAsks, At
    <3>2. ~MayWait(a)
      BY <1>c, <3>1 DEF MayWait
    <3> QED
      BY <2>1, <3>1, <3>2, LineKept
  <2> QED
    BY <1>6, <2>2, <2>3, <2>4, <2>5, <2>6 DEF OpStep
<1>7. ASSUME NEW k \in Terminals,
             InsertSession(k) \/ OpenStep(k) \/ TaskStep(k) \/ ShellExits(k)
             \/ CloseTerminal(k) \/ CloseStep(k)
      PROVE  LineOK'
  <2>1. CASE InsertSession(k) \/ OpenFails(k) \/ MarkRunning(k)
    <3>1. /\ pc[Opening(k)] \in {"idle", "open", "mark"} /\ queue' = queue /\ task' = task
          /\ \A b \in Actors \ {Opening(k)} : pc'[b] = pc[b]
      BY <2>1, <1>a DEF InsertSession, OpenFails, MarkRunning, Goto, At
    <3>2. ~MayWait(Opening(k)) /\ KeepWaiting(Opening(k))
      BY <1>c, <3>1 DEF MayWait, KeepWaiting
    <3> QED
      BY <3>1, <3>2, LineKept
  <2>2. CASE OpenTerminal(k)
    <3>1. /\ pc[Opening(k)] = "open" /\ queue' = Append(queue, Running(k)) /\ task[k] = "none"
          /\ \A b \in Actors \ {Opening(k)} : pc'[b] = pc[b]
          /\ task' = [task EXCEPT ![k] = "queued"]
      BY <2>2, <1>a DEF OpenTerminal, Goto, At, Enqueue, TerminalsOK
    <3>2. pc[Running(k)] = "idle" /\ task' \in [Terminals -> TaskStates] /\ task'[k] = "queued"
      BY <3>1 DEF CallsOK, TerminalsOK, TaskStates
    <3>3. ~MayWait(Running(k)) /\ MayWait(Running(k))'
      BY <1>c, <3>1, <3>2 DEF MayWait
    <3>4. KeepWaiting(Running(k))
      BY <1>c, <3>1 DEF KeepWaiting, TerminalsOK
    <3> QED
      BY <3>1, <3>3, <3>4, LineJoined
  <2>3. CASE Publish(k)
    <3>1. /\ Turnstile(Running(k)) /\ queue' = Tail(queue) /\ pc' = pc
          /\ \A j \in Terminals \ {k} : task'[j] = task[j]
      BY <2>3 DEF Publish, TerminalsOK
    <3>2. KeepWaiting(Running(k))
      BY <3>1 DEF KeepWaiting
    <3> QED
      BY <3>1, <3>2, LineLeft
  <2>4. CASE TaskEnds(k) \/ ShellExits(k)
    <3>1. /\ queue' = queue /\ pc' = pc /\ task[k] # "queued"
          /\ \A j \in Terminals \ {k} : task'[j] = task[j]
      BY <2>4 DEF TaskEnds, ShellExits, TerminalsOK
    <3>2. KeepWaiting(Registry) /\ (MayWait(Registry) => MayWait(Registry)')
      BY <3>1 DEF KeepWaiting, MayWait
    <3> QED
      BY <3>1, <3>2, LineKept
  <2>5. CASE CloseTerminal(k)
    <3>1. /\ pc[Closing(k)] = "idle" /\ queue' = Append(queue, Closing(k)) /\ task' = task
          /\ pc' = [pc EXCEPT ![Closing(k)] = "terminate"]
      BY <2>5 DEF CloseTerminal, Goto, At, Enqueue
    <3>2. KeepWaiting(Closing(k)) /\ ~MayWait(Closing(k)) /\ MayWait(Closing(k))'
      BY <1>a, <1>c, <1>d, <3>1 DEF MayWait, KeepWaiting
    <3> QED
      BY <3>1, <3>2, LineJoined
  <2>6. CASE SendTerminate(k)
    <3>1. /\ Turnstile(Closing(k)) /\ queue' = Tail(queue) /\ task' = task
          /\ pc' = [pc EXCEPT ![Closing(k)] = "terminating"]
      BY <2>6 DEF SendTerminate, Goto
    <3>2. KeepWaiting(Closing(k))
      BY <1>a, <3>1 DEF KeepWaiting
    <3> QED
      BY <3>1, <3>2, LineLeft
  <2>7. CASE Terminated(k) \/ TerminateFails(k) \/ MarkClosing(k)
    <3>1. /\ pc[Closing(k)] \in {"terminating", "close"} /\ queue' = queue
          /\ \A b \in Actors \ {Closing(k)} : pc'[b] = pc[b]
          /\ \A j \in Terminals : task[j] = "queued" => task'[j] = "queued"
      BY <2>7, <1>a DEF Terminated, TerminateFails, MarkClosing, Goto, At, TerminalsOK
    <3>2. ~MayWait(Closing(k)) /\ KeepWaiting(Closing(k))
      BY <1>c, <3>1 DEF MayWait, KeepWaiting
    <3> QED
      BY <3>1, <3>2, LineKept
  <2> QED
    BY <1>7, <2>1, <2>2, <2>3, <2>4, <2>5, <2>6, <2>7 DEF OpenStep, TaskStep, CloseStep
<1>8. CASE ServerRestart
  <2>1. queue' = <<>>
    BY <1>8 DEF ServerRestart
  <2>2. queue' \in Seq(Actors) /\ Len(queue') = 0
    BY <2>1
  <2> QED
    BY <2>2 DEF LineOK
<1> QED
  BY <1>1, <1>2, <1>3, <1>4, <1>5, <1>6, <1>7, <1>8 DEF Next

-----------------------------------------------------------------------------
(* The process and the bindings. *)

\* A new process has a new instance, and whatever ends one keeps the types.
LEMMA ProcessTyped ==
    ASSUME HostOK, NewProcess \/ (NoProcess /\ scheduled' \in BOOLEAN)
    PROVE  /\ instance' \in Instances /\ instance <= instance' /\ up' \in BOOLEAN
           /\ loaded' = {} /\ turn' \in BOOLEAN /\ scheduled' \in BOOLEAN
           /\ asked' \in Ops \cup {None}
<1>1. instance \in Nat /\ MaxInstances \in Nat /\ instance >= 1 /\ instance <= MaxInstances
  BY AdapterConstants DEF HostOK, Instances
<1>2. CASE NewProcess
  <2>1. instance' \in Instances /\ instance <= instance'
    BY <1>1, <1>2 DEF NewProcess, Instances
  <2> QED
    BY <1>2, <2>1 DEF NewProcess
<1>3. CASE NoProcess /\ scheduled' \in BOOLEAN
  <2>1. instance' \in Instances /\ (instance' = instance \/ instance' = instance + 1)
    BY <1>3 DEF NoProcess
  <2>2. instance <= instance'
    BY <1>1, <2>1
  <2> QED
    BY <1>3, <2>1, <2>2 DEF NoProcess, HostOK
<1> QED
  BY <1>2, <1>3

\* Every step keeps HostOK.
LEMMA HostStep ==
    ASSUME Typed, [Next]_vars
    PROVE  HostOK'
<1> USE ActorsAre, AdapterConstants DEF Typed
<1>0. instance \in Nat /\ recorded \in Nat
  BY DEF HostOK, Instances
<1>1. CASE Exit \/ TurnEnds \/ ScheduleRestart \/ UNCHANGED vars
  BY <1>1 DEF Exit, TurnEnds, ScheduleRestart, vars, HostOK
<1>2. CASE SetSecretEnvironment \/ Answer \/ Respond
  BY <1>2 DEF SetSecretEnvironment, Answer, Respond, HostOK
<1>3. CASE Restart
  <2>1. /\ \/ NewProcess \/ (NoProcess /\ scheduled' \in BOOLEAN)
           \/ UNCHANGED hostVars
        /\ UNCHANGED <<readers, recorded, bound, termBound, seenVars>>
    BY <1>3 DEF Restart
  <2>2. CASE UNCHANGED hostVars
    BY <2>1, <2>2 DEF HostOK
  <2>3. CASE NewProcess \/ (NoProcess /\ scheduled' \in BOOLEAN)
    <3>1. recorded \in 0..instance'
      BY <1>0, <2>3, ProcessTyped DEF HostOK, Instances
    <3> QED
      BY <2>1, <2>3, <3>1, ProcessTyped DEF HostOK
  <2> QED
    BY <2>1, <2>2, <2>3
<1>4. ASSUME NEW o \in Ops, OpStep(o) \/ RequestAsks(o)
             \/ \E t \in Threads, kind \in Kinds : Begin(o, t, kind)
      PROVE  HostOK'
  <2>0. ~At(Operation(o), "idle") => job[o].thread \in Threads
    BY DEF CallsOK
  <2>1. CASE RequestAsks(o) \/ \E t \in Threads, kind \in Kinds : Begin(o, t, kind)
    BY <2>1 DEF RequestAsks, Begin, HostOK
  <2>2. CASE ApplyScheduledRestart(o) \/ ApplyFails(o)
    <3>1. /\ \/ NewProcess \/ (NoProcess /\ scheduled' \in BOOLEAN)
             \/ UNCHANGED hostVars
          /\ UNCHANGED <<readers, recorded, bound, termBound, seenVars>>
      BY <2>2 DEF ApplyScheduledRestart, ApplyFails, HostOK
    <3>2. CASE UNCHANGED hostVars
      BY <3>1, <3>2 DEF HostOK
    <3>3. CASE NewProcess \/ (NoProcess /\ scheduled' \in BOOLEAN)
      <4>1. recorded \in 0..instance'
        BY <1>0, <3>3, ProcessTyped DEF HostOK, Instances
      <4> QED
        BY <3>1, <3>3, <4>1, ProcessTyped DEF HostOK
    <3> QED
      BY <3>1, <3>2, <3>3
  <2>3. CASE NoteInstance(o)
    <3>1. instance \in 0..instance
      BY <1>0
    <3>2. /\ UNCHANGED <<hostVars, readers, lost, unsure>> /\ recorded' = instance
          /\ bound' \subseteq bound /\ termBound' \subseteq termBound
          /\ orphaned' \subseteq orphaned \cup termBound
      BY <2>3 DEF NoteInstance
    <3> QED
      BY <3>1, <3>2 DEF HostOK
  <2>4. CASE Send(o)
    BY <2>4 DEF Send, HostOK
  <2>5. CASE Resumed(o)
    BY <2>0, <2>5 DEF Resumed, HostOK, At
  <2>6. CASE Bind(o)
    BY <2>0, <2>6 DEF Bind, HostOK, At
  <2>7. CASE Answered(o) \/ RequestFails(o)
    <3>1. /\ turn' \in BOOLEAN /\ loaded' \subseteq loaded /\ bound' \subseteq bound
          /\ readers' \subseteq readers /\ unsure' \subseteq unsure \cup loaded
          /\ asked' \in {asked, None}
          /\ UNCHANGED <<instance, up, scheduled, recorded, termBound, orphaned, lost>>
      BY <2>7 DEF Answered, RequestFails, Effect, HostOK
    <3> QED
      BY <3>1 DEF HostOK
  <2> QED
    BY <1>4, <2>1, <2>2, <2>3, <2>4, <2>5, <2>6, <2>7 DEF OpStep
<1>5. ASSUME NEW k \in Terminals,
             InsertSession(k) \/ OpenStep(k) \/ TaskStep(k) \/ ShellExits(k)
             \/ CloseTerminal(k) \/ CloseStep(k)
      PROVE  HostOK'
  <2>1. /\ UNCHANGED <<hostVars, recorded, bound, seenVars>>
        /\ termBound' \subseteq termBound \cup {k} /\ readers' \subseteq readers \cup {Closing(k)}
    BY <1>5 DEF InsertSession, OpenStep, OpenTerminal, OpenFails, MarkRunning, TaskStep, Publish,
       TaskEnds, ShellExits, CloseTerminal, CloseStep, SendTerminate, Terminated, TerminateFails,
       MarkClosing
  <2> QED
    BY <2>1 DEF HostOK
<1>6. CASE Project
  <2>1. exits # <<>> => Head(exits) \in Terminals
    BY HeadTailProperties DEF TerminalsOK
  <2> QED
    BY <1>6, <2>1 DEF Project, ProjectExit, ProjectExitFails, HostOK
<1>7. CASE ServerRestart
  <2>1. instance + 1 \in Instances /\ 0 \in 0..(instance + 1)
    BY <1>0, <1>7 DEF ServerRestart, HostOK, Instances
  <2> QED
    BY <1>7, <2>1 DEF ServerRestart, HostOK
<1> QED
  BY <1>1, <1>2, <1>3, <1>4, <1>5, <1>6, <1>7 DEF Next

-----------------------------------------------------------------------------
(* Terminal sessions. *)

\* Where the route that opens terminal k stands matters only there.
SameRoutes == \A k \in Terminals : pc'[Opening(k)] = pc[Opening(k)]

\* A step that touches no session, row or event.
LEMMA SessionsKept ==
    ASSUME TerminalsOK, UNCHANGED <<row, exits>>, task' \in {task, Ended}, SameRoutes
    PROVE  TerminalsOK'
<1>1. /\ task' \in [Terminals -> TaskStates]
      /\ \A k \in Terminals : task[k] \in {"none", "gone"} => task'[k] = task[k]
  BY EndedKeepsQueued DEF TerminalsOK
<1>2. \A i \in 1..Len(exits) : exits[i] \in Terminals
  BY DEF TerminalsOK
<1> QED
  BY <1>1, <1>2 DEF TerminalsOK, SameRoutes

\* The task of one terminal goes on to a state before the exit is reported.
LEMMA TaskMovesOn ==
    ASSUME TerminalsOK, UNCHANGED <<row, exits>>, SameRoutes, NEW k \in Terminals,
           NEW s \in TaskStates, task[k] \in {"queued", "live"}, task' = [task EXCEPT ![k] = s]
    PROVE  TerminalsOK'
<1>1. /\ task' \in [Terminals -> TaskStates]
      /\ \A j \in Terminals : task[j] \in {"none", "gone"} => task'[j] = task[j]
      /\ \A j \in Terminals \ {k} : task'[j] = task[j]
  BY DEF TerminalsOK
<1>2. row[k] \notin {"absent", "closed", "failed"} /\ pc[Opening(k)] # "open"
  BY DEF TerminalsOK
<1>3. \A i \in 1..Len(exits) : exits[i] \in Terminals
  BY DEF TerminalsOK
<1> QED
  BY <1>1, <1>2, <1>3 DEF TerminalsOK, SameRoutes

\* A route writes the row of its terminal, whose command is not started or not final.
LEMMA RouteWrites ==
    ASSUME TerminalsOK, UNCHANGED <<task, exits>>, NEW k \in Terminals, NEW s \in RowStates,
           row' = [row EXCEPT ![k] = s],
           \A j \in Terminals \ {k} : pc'[Opening(j)] = pc[Opening(j)],
           s = "absent" => row[k] = "absent" /\ pc'[Opening(k)] = "idle",
           s \in {"closed", "failed"} => row[k] = s \/ task[k] = "none",
           pc'[Opening(k)] = "open" => s = "starting" /\ task[k] = "none"
    PROVE  TerminalsOK'
<1>1. row' \in [Terminals -> RowStates] /\ \A j \in Terminals \ {k} : row'[j] = row[j]
  BY DEF TerminalsOK
<1>2. ASSUME NEW i \in 1..Len(exits)
      PROVE  task'[exits[i]] = "gone" /\ row'[exits[i]] \notin {"absent", "closed", "failed"}
  <2>1. /\ exits[i] \in Terminals /\ task[exits[i]] = "gone"
        /\ row[exits[i]] \notin {"absent", "closed", "failed"}
    BY DEF TerminalsOK
  <2> QED
    BY <1>1, <2>1 DEF TerminalsOK
<1>3. ASSUME NEW j \in Terminals
      PROVE  /\ row'[j] = "absent" => task'[j] = "none" /\ pc'[Opening(j)] = "idle"
             /\ pc'[Opening(j)] = "open" => row'[j] = "starting" /\ task'[j] = "none"
             /\ row'[j] \in {"closed", "failed"} => task'[j] \in {"none", "gone"}
  <2>1. CASE j = k
    BY <2>1 DEF TerminalsOK
  <2>2. CASE j # k
    BY <1>1, <2>2 DEF TerminalsOK
  <2> QED
    BY <2>1, <2>2
<1> QED
  BY <1>1, <1>2, <1>3 DEF TerminalsOK

\* Every step keeps TerminalsOK.
LEMMA TerminalsStep ==
    ASSUME Typed, [Next]_vars
    PROVE  TerminalsOK'
<1> USE ActorsAre, ActorsDiffer DEF Typed
<1>a. pc \in [Actors -> Labels]
  BY DEF CallsOK
<1>1. CASE Exit \/ TurnEnds \/ ScheduleRestart \/ SetSecretEnvironment \/ Restart \/ Answer \/ Respond
           \/ UNCHANGED vars
  <2>1. UNCHANGED <<row, exits>> /\ task' \in {task, Ended}
    BY <1>1 DEF Exit, TurnEnds, ScheduleRestart, SetSecretEnvironment, Restart, Answer, Respond,
       NewProcess, NoProcess, vars
  <2>2. SameRoutes
    BY <1>1, <1>a DEF Exit, TurnEnds, ScheduleRestart, SetSecretEnvironment, Restart, Answer,
       Respond, Goto, SameRoutes, vars
  <2> QED
    BY <2>1, <2>2, SessionsKept
<1>2. ASSUME NEW o \in Ops, OpStep(o) \/ RequestAsks(o)
             \/ \E t \in Threads, kind \in Kinds : Begin(o, t, kind)
      PROVE  TerminalsOK'
  <2>1. UNCHANGED <<row, exits>> /\ task' \in {task, Ended}
    BY <1>2 DEF OpStep, ApplyScheduledRestart, ApplyFails, NoteInstance, Send, Resumed, Bind,
       Answered, RequestFails, RequestAsks, Begin, NewProcess, NoProcess
  <2>2. pc' = pc \/ \E l : pc' = [pc EXCEPT ![Operation(o)] = l]
    BY <1>2 DEF OpStep, ApplyScheduledRestart, ApplyFails, NoteInstance, Send, Resumed, Bind,
       Answered, RequestFails, RequestAsks, Begin, Finish, Goto
  <2>3. SameRoutes
    BY <1>a, <2>2 DEF SameRoutes
  <2> QED
    BY <2>1, <2>3, SessionsKept
<1>3. ASSUME NEW k \in Terminals, InsertSession(k) \/ OpenFails(k) \/ MarkRunning(k)
      PROVE  TerminalsOK'
  <2>1. /\ UNCHANGED <<task, exits>>
        /\ \A j \in Terminals \ {k} : pc'[Opening(j)] = pc[Opening(j)]
    BY <1>3, <1>a DEF InsertSession, OpenFails, MarkRunning, Goto
  <2>2. /\ pc[Opening(k)] = "open" => row[k] = "starting" /\ task[k] = "none"
        /\ row[k] = "absent" => task[k] = "none" /\ pc[Opening(k)] = "idle"
        /\ row[k] \in RowStates /\ row = [row EXCEPT ![k] = row[k]]
    BY DEF TerminalsOK
  <2>3. PICK s \in RowStates :
          /\ row' = [row EXCEPT ![k] = s]
          /\ s = "absent" => row[k] = "absent" /\ pc'[Opening(k)] = "idle"
          /\ s \in {"closed", "failed"} => row[k] = s \/ task[k] = "none"
          /\ pc'[Opening(k)] = "open" => s = "starting" /\ task[k] = "none"
    <3>1. CASE InsertSession(k)
      BY <1>a, <2>2, <3>1 DEF InsertSession, Goto, RowStates, Open
    <3>2. CASE OpenFails(k)
      BY <1>a, <2>2, <3>2 DEF OpenFails, Goto, At, RowStates, Open
    <3>3. CASE MarkRunning(k)
      <4>1. row' = [row EXCEPT ![k] = row[k]]
            \/ (row[k] = "starting" /\ row' = [row EXCEPT ![k] = "running"])
        BY <2>2, <3>3 DEF MarkRunning
      <4>2. pc'[Opening(k)] = "idle" /\ row[k] # "absent"
        BY <1>a, <2>2, <3>3 DEF MarkRunning, Goto, At
      <4> QED
        BY <2>2, <4>1, <4>2 DEF RowStates, Open
    <3> QED
      BY <1>3, <3>1, <3>2, <3>3
  <2> QED
    BY <2>1, <2>3, RouteWrites
<1>4. ASSUME NEW k \in Terminals, OpenTerminal(k)
      PROVE  TerminalsOK'
  <2>1. /\ UNCHANGED <<row, exits>> /\ row[k] = "starting" /\ task[k] = "none"
        /\ pc'[Opening(k)] = "mark"
        /\ \A j \in Terminals \ {k} : pc'[Opening(j)] = pc[Opening(j)]
        /\ task' \in [Terminals -> TaskStates]
        /\ task'[k] = "queued" /\ \A j \in Terminals \ {k} : task'[j] = task[j]
    BY <1>4, <1>a DEF OpenTerminal, Goto, At, TerminalsOK, TaskStates
  <2>2. \A i \in 1..Len(exits) : exits[i] \in Terminals \ {k}
    BY <2>1 DEF TerminalsOK
  <2> QED
    BY <2>1, <2>2 DEF TerminalsOK
<1>5. ASSUME NEW k \in Terminals, Publish(k) \/ ShellExits(k) \/ Terminated(k)
      PROVE  TerminalsOK'
  <2>1. SameRoutes
    BY <1>5, <1>a DEF Publish, ShellExits, Terminated, Goto, SameRoutes
  <2>2. /\ UNCHANGED <<row, exits>> /\ task[k] \in {"queued", "live"}
        /\ \E s \in {"live", "ended"} : task' = [task EXCEPT ![k] = s]
    BY <1>5 DEF Publish, ShellExits, Terminated
  <2> QED
    BY <2>1, <2>2, TaskMovesOn DEF TaskStates
<1>6. ASSUME NEW k \in Terminals, TaskEnds(k)
      PROVE  TerminalsOK'
  <2>1. /\ task[k] = "ended" /\ task' = [task EXCEPT ![k] = "gone"] /\ row' = row /\ pc' = pc
        /\ exits' = Append(exits, k) /\ exits \in Seq(Terminals)
    BY <1>6 DEF TaskEnds, TerminalsOK
  <2>2. /\ exits' \in Seq(Terminals) /\ Len(exits') = Len(exits) + 1 /\ Len(exits) \in Nat
        /\ \A i \in 1..Len(exits) : exits'[i] = exits[i] /\ exits[i] \in Terminals
        /\ exits'[Len(exits) + 1] = k
    BY <2>1, AppendProperties
  <2>3. \A i \in 1..Len(exits') : i \in 1..Len(exits) \/ i = Len(exits) + 1
    BY <2>2
  <2>4. \A i \in 1..Len(exits) : exits[i] # k
    BY <2>1 DEF TerminalsOK
  <2>5. \A i, j \in 1..Len(exits') : exits'[i] = exits'[j] => i = j
    BY <2>2, <2>3, <2>4 DEF TerminalsOK
  <2>6. /\ task' \in [Terminals -> TaskStates] /\ task'[k] = "gone"
        /\ \A j \in Terminals \ {k} : task'[j] = task[j]
        /\ row[k] \notin {"absent", "closed", "failed"} /\ pc[Opening(k)] # "open"
    BY <2>1 DEF TerminalsOK, TaskStates
  <2>7. \A i \in 1..Len(exits') :
           task'[exits'[i]] = "gone" /\ row'[exits'[i]] \notin {"absent", "closed", "failed"}
    BY <2>1, <2>2, <2>3, <2>4, <2>6 DEF TerminalsOK
  <2>8. \A j \in Terminals :
          /\ row'[j] = "absent" => task'[j] = "none" /\ pc'[Opening(j)] = "idle"
          /\ pc'[Opening(j)] = "open" => row'[j] = "starting" /\ task'[j] = "none"
          /\ row'[j] \in {"closed", "failed"} => task'[j] \in {"none", "gone"}
    BY <2>1, <2>6 DEF TerminalsOK
  <2> QED
    BY <2>1, <2>2, <2>5, <2>6, <2>7, <2>8 DEF TerminalsOK
<1>7. CASE Project
  <2> DEFINE k == Head(exits)
  <2>1. /\ exits # <<>> /\ exits' = Tail(exits) /\ UNCHANGED <<task, pc>>
        /\ exits \in Seq(Terminals)
    BY <1>7 DEF Project, ProjectExit, ProjectExitFails, TerminalsOK
  <2>2. /\ exits' \in Seq(Terminals) /\ Len(exits) \in Nat \ {0} /\ Len(exits') = Len(exits) - 1
        /\ \A i \in 1..Len(exits') : i + 1 \in 1..Len(exits) /\ exits'[i] = exits[i + 1]
        /\ exits[1] = k /\ k \in Terminals
    BY <2>1, HeadTailProperties
  <2>3. ASSUME NEW i \in 1..Len(exits'), NEW j \in 1..Len(exits'), exits'[i] = exits'[j]
        PROVE  i = j
    <3>1. /\ i + 1 \in 1..Len(exits) /\ j + 1 \in 1..Len(exits)
          /\ exits[i + 1] = exits[j + 1]
      BY <2>2, <2>3
    <3>2. i + 1 = j + 1
      BY <3>1 DEF TerminalsOK
    <3> QED
      BY <2>2, <3>2
  <2>4. task[k] = "gone" /\ row[k] \notin {"absent", "closed", "failed"} /\ pc[Opening(k)] # "open"
    <3>1. 1 \in 1..Len(exits)
      BY <2>2
    <3> QED
      BY <2>2, <3>1 DEF TerminalsOK
  <2>5. /\ row' \in [Terminals -> RowStates] /\ \A j \in Terminals \ {k} : row'[j] = row[j]
        /\ row'[k] # "absent"
    BY <1>7, <2>2, <2>4 DEF Project, ProjectExit, ProjectExitFails, TerminalsOK, RowStates
  <2>6. ASSUME NEW i \in 1..Len(exits')
        PROVE  task'[exits'[i]] = "gone" /\ row'[exits'[i]] \notin {"absent", "closed", "failed"}
    <3>1. /\ i + 1 \in 1..Len(exits) /\ 1 \in 1..Len(exits) /\ exits'[i] = exits[i + 1]
          /\ i + 1 # 1 /\ exits[i + 1] \in Terminals
      BY <2>1, <2>2
    <3>2. exits[i + 1] # k
      BY <2>2, <3>1 DEF TerminalsOK
    <3> QED
      BY <2>1, <2>5, <3>1, <3>2 DEF TerminalsOK
  <2>7. \A j \in Terminals :
          /\ row'[j] = "absent" => task'[j] = "none" /\ pc'[Opening(j)] = "idle"
          /\ pc'[Opening(j)] = "open" => row'[j] = "starting" /\ task'[j] = "none"
          /\ row'[j] \in {"closed", "failed"} => task'[j] \in {"none", "gone"}
    BY <2>1, <2>4, <2>5 DEF TerminalsOK
  <2> QED
    BY <2>1, <2>2, <2>3, <2>5, <2>6, <2>7 DEF TerminalsOK
<1>8. ASSUME NEW k \in Terminals, CloseTerminal(k) \/ SendTerminate(k) \/ TerminateFails(k)
      PROVE  TerminalsOK'
  <2>1. UNCHANGED termVars /\ SameRoutes
    BY <1>8, <1>a DEF CloseTerminal, SendTerminate, TerminateFails, Goto, SameRoutes
  <2> QED
    BY <2>1, SessionsKept
<1>9. ASSUME NEW k \in Terminals, MarkClosing(k)
      PROVE  TerminalsOK'
  <2>1. /\ UNCHANGED <<task, exits>> /\ SameRoutes
        /\ row' = row \/ (row[k] \in Open /\ row' = [row EXCEPT ![k] = "closing"])
    BY <1>9, <1>a DEF MarkClosing, Goto, SameRoutes, TerminalsOK
  <2>2. CASE row' = row
    BY <2>1, <2>2, SessionsKept
  <2>3. CASE row[k] \in Open /\ row' = [row EXCEPT ![k] = "closing"]
    <3>1. pc'[Opening(k)] # "open"
      <4>1. task[k] # "none"
        BY <1>9 DEF MarkClosing, At, ClosersOK
      <4> QED
        BY <2>1, <4>1 DEF SameRoutes, TerminalsOK
    <3> QED
      BY <2>1, <2>3, <3>1, RouteWrites DEF SameRoutes, RowStates
  <2> QED
    BY <2>1, <2>2, <2>3
<1>10. CASE ServerRestart
  <2>1. /\ row' = row /\ exits' = <<>>
        /\ task' = [k \in Terminals |-> IF row[k] = "absent" THEN "none" ELSE "gone"]
        /\ pc' = [a \in Actors |-> "idle"]
    BY <1>10 DEF ServerRestart
  <2>2. exits' \in Seq(Terminals) /\ Len(exits') = 0
    BY <2>1
  <2> QED
    BY <2>1, <2>2 DEF TerminalsOK, TaskStates
<1> QED
  BY <1>1, <1>2, <1>3, <1>4, <1>5, <1>6, <1>7, <1>8, <1>9, <1>10
     DEF Next, OpenStep, TaskStep, CloseStep

-----------------------------------------------------------------------------
(* Closing terminals. *)

\* A command that was spawned stays so, and what becomes bound or closing was.
LEMMA ClosersKept ==
    ASSUME ClosersOK,
           \A k \in Terminals : task'[k] = "none" => task[k] = "none",
           \A k \in Terminals : k \in termBound' => k \in termBound \/ task'[k] = "queued",
           \A k \in Terminals : pc'[Closing(k)] # "idle" => pc[Closing(k)] # "idle" \/ k \in termBound
    PROVE  ClosersOK'
BY DEF ClosersOK

\* Every step keeps ClosersOK.
LEMMA ClosersStep ==
    ASSUME Typed, [Next]_vars
    PROVE  ClosersOK'
<1> USE ActorsAre, ActorsDiffer DEF Typed
<1>a. pc \in [Actors -> Labels] /\ task \in [Terminals -> TaskStates]
  BY DEF CallsOK, TerminalsOK
<1>b. \A k \in Terminals : task' \in {task, Ended} /\ task'[k] = "none" => task[k] = "none"
  BY DEF Ended
<1>1. CASE Exit \/ TurnEnds \/ ScheduleRestart \/ SetSecretEnvironment \/ Restart \/ Answer \/ Respond
           \/ Project \/ UNCHANGED vars
  <2>1. UNCHANGED termBound /\ task' \in {task, Ended}
    BY <1>1 DEF Exit, TurnEnds, ScheduleRestart, SetSecretEnvironment, Restart, Answer, Respond,
       NewProcess, NoProcess, Project, ProjectExit, ProjectExitFails, vars
  <2>2. \A k \in Terminals : pc'[Closing(k)] = pc[Closing(k)]
    BY <1>1, <1>a DEF Exit, TurnEnds, ScheduleRestart, SetSecretEnvironment, Restart, Answer,
       Respond, Goto, Project, ProjectExit, ProjectExitFails, vars
  <2> QED
    BY <1>b, <2>1, <2>2, ClosersKept
<1>2. ASSUME NEW o \in Ops, OpStep(o) \/ RequestAsks(o)
             \/ \E t \in Threads, kind \in Kinds : Begin(o, t, kind)
      PROVE  ClosersOK'
  <2>1. termBound' \subseteq termBound /\ task' \in {task, Ended}
    BY <1>2 DEF OpStep, ApplyScheduledRestart, ApplyFails, NoteInstance, Send, Resumed, Bind,
       Answered, RequestFails, RequestAsks, Begin, NewProcess, NoProcess
  <2>2. pc' = pc \/ \E l : pc' = [pc EXCEPT ![Operation(o)] = l]
    BY <1>2 DEF OpStep, ApplyScheduledRestart, ApplyFails, NoteInstance, Send, Resumed, Bind,
       Answered, RequestFails, RequestAsks, Begin, Finish, Goto
  <2>3. \A k \in Terminals : pc'[Closing(k)] = pc[Closing(k)]
    BY <1>a, <2>2
  <2> QED
    BY <1>b, <2>1, <2>3, ClosersKept
<1>3. ASSUME NEW k \in Terminals,
             InsertSession(k) \/ OpenStep(k) \/ TaskStep(k) \/ ShellExits(k)
             \/ CloseTerminal(k) \/ CloseStep(k)
      PROVE  ClosersOK'
  <2>1. task' = task \/ \E s \in {"queued", "live", "ended", "gone"} : task' = [task EXCEPT ![k] = s]
    BY <1>3 DEF InsertSession, OpenStep, OpenTerminal, OpenFails, MarkRunning, TaskStep, Publish,
       TaskEnds, ShellExits, CloseTerminal, CloseStep, SendTerminate, Terminated, TerminateFails,
       MarkClosing
  <2>2. \A j \in Terminals : task'[j] = "none" => task[j] = "none"
    BY <1>a, <2>1
  <2>3. \/ termBound' \subseteq termBound
        \/ termBound' = termBound \cup {k} /\ task' = [task EXCEPT ![k] = "queued"]
    BY <1>3 DEF InsertSession, OpenStep, OpenTerminal, OpenFails, MarkRunning, TaskStep, Publish,
       TaskEnds, ShellExits, CloseTerminal, CloseStep, SendTerminate, Terminated, TerminateFails,
       MarkClosing
  <2>4. \A j \in Terminals : j \in termBound' => j \in termBound \/ task'[j] = "queued"
    BY <1>a, <2>3
  <2>5. \/ pc' = pc \/ \E l : pc' = [pc EXCEPT ![Opening(k)] = l]
        \/ /\ pc[Closing(k)] # "idle" \/ k \in termBound
           /\ \E l : pc' = [pc EXCEPT ![Closing(k)] = l]
    BY <1>3 DEF InsertSession, OpenStep, OpenTerminal, OpenFails, MarkRunning, TaskStep, Publish,
       TaskEnds, ShellExits, CloseTerminal, CloseStep, SendTerminate, Terminated, TerminateFails,
       MarkClosing, Goto, At
  <2>6. \A j \in Terminals : pc'[Closing(j)] # "idle" => pc[Closing(j)] # "idle" \/ j \in termBound
    BY <1>a, <2>5
  <2> QED
    BY <2>2, <2>4, <2>6, ClosersKept
<1>4. CASE ServerRestart
  BY <1>4 DEF ServerRestart, ClosersOK
<1> QED
  BY <1>1, <1>2, <1>3, <1>4 DEF Next

-----------------------------------------------------------------------------
(* Bindings. *)

\* What holds of a step that only changes whether, and as which instance, the
\* process runs.
LEMMA ProcessChanges ==
    ASSUME Typed, BindReady, BoundIsLoaded, NewProcess \/ NoProcess, UNCHANGED <<recorded, bound, unsure>>
    PROVE  ~(up' /\ recorded' = instance')
<1>1. instance \in Nat /\ recorded \in Nat /\ recorded <= instance
  BY DEF Typed, HostOK, Instances
<1>2. CASE NewProcess
  BY <1>1, <1>2 DEF NewProcess
<1>3. CASE NoProcess
  BY <1>3 DEF NoProcess
<1> QED
  BY <1>2, <1>3

\* An operation that is past the mutex is alone.
LEMMA OneOperation ==
    ASSUME CallsOK, NEW o \in Ops, NEW p \in Ops, pc[Operation(o)] # "idle", pc[Operation(p)] # "idle"
    PROVE  o = p
BY DEF CallsOK, At

\* Every step keeps BindReady and BoundIsLoaded.
LEMMA LoadedStep ==
    ASSUME Typed, BindReady, BoundIsLoaded, [Next]_vars
    PROVE  BindReady' /\ BoundIsLoaded'
<1> USE ActorsAre, ActorsDiffer DEF Typed
<1>a. pc \in [Actors -> Labels] /\ job \in [Ops -> JobType]
  BY DEF CallsOK
<1>0. ASSUME UNCHANGED <<instance, up, loaded, recorded, bound, unsure, job>>,
             \A o \in Ops : pc'[Operation(o)] = pc[Operation(o)]
      PROVE  BindReady' /\ BoundIsLoaded'
  BY <1>0 DEF BindReady, BoundIsLoaded, At
<1>1. CASE TurnEnds \/ ScheduleRestart \/ SetSecretEnvironment \/ Answer \/ Respond \/ Project
           \/ UNCHANGED vars
  <2>1. UNCHANGED <<instance, up, loaded, recorded, bound, unsure, job>>
    BY <1>1 DEF TurnEnds, ScheduleRestart, SetSecretEnvironment, Answer, Respond, Project,
       ProjectExit, ProjectExitFails, vars
  <2>2. \A o \in Ops : pc'[Operation(o)] = pc[Operation(o)]
    BY <1>1, <1>a DEF TurnEnds, ScheduleRestart, SetSecretEnvironment, Answer, Respond, Project,
       ProjectExit, ProjectExitFails, Goto, vars
  <2> QED
    BY <1>0, <2>1, <2>2
<1>2. CASE Exit
  BY <1>2 DEF Exit, BindReady, BoundIsLoaded
<1>3. CASE Restart
  <2>1. /\ UNCHANGED <<recorded, bound, unsure, job>>
        /\ NewProcess \/ NoProcess \/ UNCHANGED <<instance, up, loaded>>
    BY <1>3 DEF Restart
  <2>2. CASE NewProcess \/ NoProcess
    BY <2>1, <2>2, ProcessChanges DEF BindReady, BoundIsLoaded
  <2>3. \A o \in Ops : pc'[Operation(o)] = pc[Operation(o)]
    BY <1>3, <1>a DEF Restart, Goto
  <2> QED
    BY <1>0, <2>1, <2>2, <2>3
<1>4. ASSUME NEW o \in Ops, OpStep(o) \/ RequestAsks(o)
             \/ \E t \in Threads, kind \in Kinds : Begin(o, t, kind)
      PROVE  BindReady' /\ BoundIsLoaded'
  <2>1. CASE RequestAsks(o)
    BY <1>0, <2>1 DEF RequestAsks
  <2>2. ASSUME NEW t \in Threads, NEW kind \in Kinds, Begin(o, t, kind)
        PROVE  BindReady' /\ BoundIsLoaded'
    <3>1. /\ pc' = [pc EXCEPT ![Operation(o)] = "prepare"]
          /\ \A p \in Ops \ {o} : job'[p] = job[p]
          /\ UNCHANGED <<instance, up, loaded, recorded, bound, unsure>>
      BY <1>a, <2>2 DEF Begin, Goto
    <3> QED
      BY <1>a, <3>1 DEF BindReady, BoundIsLoaded, At
  <2>3. CASE OpStep(o)
    <3>1. pc[Operation(o)] # "idle"
      BY <2>3 DEF OpStep, ApplyScheduledRestart, ApplyFails, NoteInstance, Send, Resumed, Bind,
         Answered, RequestFails, At
    <3>2. \A p \in Ops : p # o => pc[Operation(p)] = "idle"
      BY <3>1, OneOperation
    <3>3. PICK l : Goto(Operation(o), l)
      BY <2>3 DEF OpStep, ApplyScheduledRestart, ApplyFails, NoteInstance, Send, Resumed, Bind,
         Answered, RequestFails, Finish
    <3>4. \A p \in Ops : p # o => pc'[Operation(p)] = "idle"
      BY <1>a, <3>2, <3>3 DEF Goto
    <3>5. pc'[Operation(o)] = l
      BY <1>a, <3>3 DEF Goto
    <3>6. CASE ApplyScheduledRestart(o) \/ ApplyFails(o)
      <4>1. /\ UNCHANGED <<recorded, bound, unsure>>
            /\ NewProcess \/ NoProcess \/ UNCHANGED <<instance, up, loaded>>
        BY <3>6 DEF ApplyScheduledRestart, ApplyFails
      <4>2. CASE NewProcess \/ NoProcess
        BY <4>1, <4>2, ProcessChanges DEF BindReady, BoundIsLoaded
      <4>3. pc'[Operation(o)] # "bind"
        BY <1>a, <3>6 DEF ApplyScheduledRestart, ApplyFails, Finish, Goto
      <4> QED
        BY <3>4, <4>1, <4>2, <4>3 DEF BindReady, BoundIsLoaded, At
    <3>7. CASE NoteInstance(o)
      <4>1. /\ UNCHANGED <<instance, up, loaded, unsure>>
            /\ bound' = {} \/ UNCHANGED <<recorded, bound>>
        BY <3>7 DEF NoteInstance
      <4>2. pc'[Operation(o)] # "bind"
        BY <1>a, <3>7 DEF NoteInstance, Goto
      <4> QED
        BY <3>4, <4>1, <4>2 DEF BindReady, BoundIsLoaded, At
    <3>8. CASE Send(o)
      <4>1. UNCHANGED <<instance, up, loaded, unsure, recorded, bound>>
        BY <3>8 DEF Send
      <4>2. pc'[Operation(o)] # "bind"
        BY <1>a, <3>8 DEF Send, Goto
      <4> QED
        BY <3>4, <4>1, <4>2 DEF BindReady, BoundIsLoaded, At
    <3>9. CASE Resumed(o)
      <4>1. /\ UNCHANGED <<instance, up, unsure, recorded, bound, job>>
            /\ loaded' = loaded \cup {job[o].thread}
        BY <3>9 DEF Resumed
      <4> QED
        BY <3>4, <4>1 DEF BindReady, BoundIsLoaded, At
    <3>10. CASE Bind(o)
      <4>1. /\ UNCHANGED <<instance, up, loaded, recorded>>
            /\ bound' = bound \cup {job[o].thread} /\ unsure' = unsure \ {job[o].thread}
            /\ up /\ recorded = instance => job[o].thread \in loaded
        BY <3>10 DEF Bind, BindReady
      <4>2. pc'[Operation(o)] # "bind"
        BY <1>a, <3>10 DEF Bind, Finish, Goto
      <4> QED
        BY <3>4, <4>1, <4>2 DEF BindReady, BoundIsLoaded, At
    <3>11. CASE Answered(o)
      <4>1. /\ UNCHANGED <<instance, up, recorded, unsure>>
            /\ \/ UNCHANGED <<loaded, bound>>
               \/ loaded' = loaded \ {job[o].thread} /\ bound' = bound \ {job[o].thread}
        BY <3>11 DEF Answered, Effect
      <4>2. pc'[Operation(o)] # "bind"
        BY <1>a, <3>11 DEF Answered, Finish, Goto
      <4> QED
        BY <3>4, <4>1, <4>2 DEF BindReady, BoundIsLoaded, At
    <3>12. CASE RequestFails(o)
      <4>1. /\ UNCHANGED <<instance, up, recorded, bound>>
            /\ UNCHANGED <<loaded, unsure>> \/ unsure' = unsure \cup (loaded \ loaded')
        BY <3>12 DEF RequestFails
      <4>2. pc'[Operation(o)] # "bind"
        BY <1>a, <3>12 DEF RequestFails, Finish, Goto
      <4> QED
        BY <3>4, <4>1, <4>2 DEF BindReady, BoundIsLoaded, At
    <3> QED
      BY <2>3, <3>6, <3>7, <3>8, <3>9, <3>10, <3>11, <3>12 DEF OpStep
  <2> QED
    BY <1>4, <2>1, <2>2, <2>3
<1>5. ASSUME NEW k \in Terminals,
             InsertSession(k) \/ OpenStep(k) \/ TaskStep(k) \/ ShellExits(k)
             \/ CloseTerminal(k) \/ CloseStep(k)
      PROVE  BindReady' /\ BoundIsLoaded'
  <2>1. UNCHANGED <<instance, up, loaded, recorded, bound, unsure, job>>
    BY <1>5 DEF InsertSession, OpenStep, OpenTerminal, OpenFails, MarkRunning, TaskStep, Publish,
       TaskEnds, ShellExits, CloseTerminal, CloseStep, SendTerminate, Terminated, TerminateFails,
       MarkClosing
  <2>2. pc' = pc \/ \E l : \E a \in {Opening(k), Closing(k)} : pc' = [pc EXCEPT ![a] = l]
    BY <1>5 DEF InsertSession, OpenStep, OpenTerminal, OpenFails, MarkRunning, TaskStep, Publish,
       TaskEnds, ShellExits, CloseTerminal, CloseStep, SendTerminate, Terminated, TerminateFails,
       MarkClosing, Goto
  <2>3. \A o \in Ops : pc'[Operation(o)] = pc[Operation(o)]
    BY <1>a, <2>2
  <2> QED
    BY <1>0, <2>1, <2>3
<1>6. CASE ServerRestart
  BY <1>6 DEF ServerRestart, BindReady, BoundIsLoaded, At
<1> QED
  BY <1>1, <1>2, <1>3, <1>4, <1>5, <1>6 DEF Next

\* Every step keeps LiveIsBound.
LEMMA LiveStep ==
    ASSUME Typed, LiveIsBound, [Next]_vars
    PROVE  LiveIsBound'
<1> USE DEF Typed
<1>a. task \in [Terminals -> TaskStates]
  BY DEF TerminalsOK
<1>b. ASSUME task' \in {task, Ended}, UNCHANGED <<termBound, orphaned>>
      PROVE  LiveIsBound'
  BY <1>b DEF Ended, LiveIsBound
<1>1. CASE Exit \/ TurnEnds \/ ScheduleRestart \/ SetSecretEnvironment \/ Restart \/ Answer \/ Respond
           \/ Project \/ UNCHANGED vars
  BY <1>1, <1>b DEF Exit, TurnEnds, ScheduleRestart, SetSecretEnvironment, Restart, Answer, Respond,
     NewProcess, NoProcess, Project, ProjectExit, ProjectExitFails, vars
<1>2. ASSUME NEW o \in Ops, OpStep(o) \/ RequestAsks(o)
             \/ \E t \in Threads, kind \in Kinds : Begin(o, t, kind)
      PROVE  LiveIsBound'
  <2>1. CASE NoteInstance(o)
    BY <2>1 DEF NoteInstance, LiveIsBound
  <2>2. CASE ~NoteInstance(o)
    BY <1>2, <1>b, <2>2 DEF OpStep, ApplyScheduledRestart, ApplyFails, Send, Resumed, Bind,
       Answered, RequestFails, RequestAsks, Begin, NewProcess, NoProcess
  <2> QED
    BY <2>1, <2>2
<1>3. ASSUME NEW k \in Terminals,
             InsertSession(k) \/ OpenStep(k) \/ TaskStep(k) \/ ShellExits(k)
             \/ CloseTerminal(k) \/ CloseStep(k)
      PROVE  LiveIsBound'
  <2>1. CASE OpenTerminal(k)
    BY <1>a, <2>1 DEF OpenTerminal, LiveIsBound
  <2>2. CASE Publish(k) \/ ShellExits(k) \/ Terminated(k)
    BY <1>a, <2>2 DEF Publish, ShellExits, Terminated, LiveIsBound
  <2>3. CASE TaskEnds(k)
    BY <1>a, <2>3 DEF TaskEnds, LiveIsBound
  <2>4. CASE InsertSession(k) \/ OpenFails(k) \/ MarkRunning(k) \/ CloseTerminal(k)
             \/ SendTerminate(k) \/ TerminateFails(k) \/ MarkClosing(k)
    BY <1>b, <2>4 DEF InsertSession, OpenFails, MarkRunning, CloseTerminal, SendTerminate,
       TerminateFails, MarkClosing
  <2> QED
    BY <1>3, <2>1, <2>2, <2>3, <2>4 DEF OpenStep, TaskStep, CloseStep
<1>4. CASE ServerRestart
  BY <1>4 DEF ServerRestart, LiveIsBound
<1> QED
  BY <1>1, <1>2, <1>3, <1>4 DEF Next

-----------------------------------------------------------------------------
(* What the recorded end of a session implies. *)

\* No step rewrites a closed or failed row, whose command is over.
LEMMA EndStep ==
    ASSUME Typed, [Next]_vars
    PROVE  \A k \in Terminals : row[k] \in {"closed", "failed"} =>
               task[k] # "live" /\ row'[k] = row[k]
<1> SUFFICES ASSUME NEW k \in Terminals, row[k] \in {"closed", "failed"}
             PROVE  task[k] # "live" /\ row'[k] = row[k]
  OBVIOUS
<1> USE DEF Typed
<1>1. task[k] # "live" /\ row \in [Terminals -> RowStates] /\ pc[Opening(k)] # "open"
  BY DEF TerminalsOK
<1>2. CASE row' = row
  BY <1>1, <1>2
<1>3. CASE Exit \/ TurnEnds \/ ScheduleRestart \/ SetSecretEnvironment \/ Restart \/ Answer \/ Respond
           \/ ServerRestart \/ UNCHANGED vars
  BY <1>2, <1>3 DEF Exit, TurnEnds, ScheduleRestart, SetSecretEnvironment, Restart, Answer, Respond,
     ServerRestart, vars
<1>4. ASSUME NEW o \in Ops, OpStep(o) \/ RequestAsks(o)
             \/ \E t \in Threads, kind \in Kinds : Begin(o, t, kind)
      PROVE  row'[k] = row[k]
  BY <1>2, <1>4 DEF OpStep, ApplyScheduledRestart, ApplyFails, NoteInstance, Send, Resumed, Bind,
     Answered, RequestFails, RequestAsks, Begin
<1>5. ASSUME NEW j \in Terminals,
             InsertSession(j) \/ OpenStep(j) \/ TaskStep(j) \/ ShellExits(j)
             \/ CloseTerminal(j) \/ CloseStep(j)
      PROVE  row'[k] = row[k]
  <2>1. CASE InsertSession(j) \/ OpenFails(j)
    <3>1. j # k
      BY <1>1, <2>1 DEF InsertSession, OpenFails, At
    <3> QED
      BY <1>1, <2>1, <3>1 DEF InsertSession, OpenFails
  <2>2. CASE MarkRunning(j) \/ MarkClosing(j)
    BY <1>1, <2>2 DEF MarkRunning, MarkClosing, Open
  <2>3. CASE OpenTerminal(j) \/ TaskStep(j) \/ ShellExits(j) \/ CloseTerminal(j)
             \/ SendTerminate(j) \/ Terminated(j) \/ TerminateFails(j)
    BY <1>2, <2>3 DEF OpenTerminal, TaskStep, Publish, TaskEnds, ShellExits, CloseTerminal,
       SendTerminate, Terminated, TerminateFails
  <2> QED
    BY <1>5, <2>1, <2>2, <2>3 DEF OpenStep, CloseStep
<1>6. CASE Project
  <2>1. exits # <<>> => Head(exits) # k
    <3>1. ASSUME exits # <<>>
          PROVE  1 \in 1..Len(exits) /\ exits[1] = Head(exits)
      BY <3>1, HeadTailProperties DEF TerminalsOK
    <3> QED
      BY <3>1 DEF TerminalsOK
  <2> QED
    BY <1>1, <1>6, <2>1 DEF Project, ProjectExit, ProjectExitFails
<1> QED
  BY <1>1, <1>3, <1>4, <1>5, <1>6 DEF Next

-----------------------------------------------------------------------------
(* Theorems. *)

\* The initial state is typed.
LEMMA InitTyped ==
    ASSUME Init
    PROVE  Typed
<1>1. 1 \in Instances /\ 0 \in 0..1
  BY AdapterConstants DEF Instances
<1>2. HostOK
  BY <1>1 DEF Init, HostOK
<1>3. CallsOK
  BY ActorsAre, AdapterConstants DEF Init, CallsOK, At, JobType, Labels
<1>4. LineOK
  <2>1. queue \in Seq(Actors) /\ Len(queue) = 0
    BY DEF Init
  <2> QED
    BY <2>1 DEF LineOK
<1>5. TerminalsOK
  <2>1. exits \in Seq(Terminals) /\ Len(exits) = 0
    BY DEF Init
  <2> QED
    BY <2>1, ActorsAre DEF Init, TerminalsOK, RowStates, TaskStates
<1>6. ClosersOK
  BY ActorsAre DEF Init, ClosersOK
<1> QED
  BY <1>2, <1>3, <1>4, <1>5, <1>6 DEF Typed

\* Every reachable state is typed.
LEMMA AlwaysTyped == Spec => []Typed
<1>1. Typed /\ [Next]_vars => Typed'
  BY HostStep, CallsStep, LineStep, TerminalsStep, ClosersStep DEF Typed
<1> QED
  BY <1>1, InitTyped, PTL DEF Spec

\* The lifecycle lock's queue holds nobody twice, the runtime mutex is held exactly
\* by the operation that is past it, and the adapter never records an instance the
\* Host has not had (prepare_runtime, with_lifecycle_read).
THEOREM TypeCorrect == Spec => []TypeOK
<1>1. Typed => TypeOK
  <2> SUFFICES ASSUME Typed
               PROVE  TypeOK
    OBVIOUS
  <2>1. /\ DOMAIN queue = 1..Len(queue) /\ \A i \in 1..Len(queue) : queue[i] \in Actors
        /\ DOMAIN exits = 1..Len(exits) /\ \A i \in 1..Len(exits) : exits[i] \in Terminals
    BY DEF Typed, LineOK, TerminalsOK
  <2> QED
    BY <2>1 DEF Typed, HostOK, CallsOK, LineOK, TerminalsOK, TypeOK, RowStates, TaskStates
<1> QED
  BY <1>1, AlwaysTyped, PTL

\* What the adapter believes bound is what the process has: prepare_runtime skips the
\* resume of a Thread only if this process has it loaded (or an unconfirmed archive
\* may have unloaded it), and no live terminal is out of reach unless prepare_runtime
\* itself unbound it.
THEOREM BindingsAgree == Spec => []BindingsMatch
<1>1. Init => BindInv
  BY ActorsAre DEF Init, BindInv, BindReady, BindingsMatch, BoundIsLoaded, LiveIsBound, At
<1>2. Typed /\ BindInv /\ [Next]_vars => BindInv'
  BY LoadedStep, LiveStep DEF BindInv, BindingsMatch
<1>3. BindInv => BindingsMatch
  BY DEF BindInv
<1> QED
  BY <1>1, <1>2, <1>3, AlwaysTyped, PTL DEF Spec

\* A session recorded closed or failed has no shell left and is never reopened,
\* whatever the open and close routes and the projection still write.
THEOREM SessionEndIsFinal == Spec => EndedIsFinal
<1>1. Typed /\ [Next]_vars =>
          [\A k \in Terminals : row[k] \in {"closed", "failed"} =>
               task[k] # "live" /\ row'[k] = row[k]]_vars
  BY EndStep
<1> QED
  BY <1>1, AlwaysTyped, PTL DEF Spec, EndedIsFinal

=============================================================================
