----------------------------- MODULE CodexAdapter -----------------------------
(***************************************************************************)
(* The Codex adapter (crates/codex-adapter/src/real.rs) over a Profile     *)
(* Host that is restarted under it: Thread operations, which prepare the   *)
(* Runtime under the adapter's runtime mutex, and terminals, which do not, *)
(* with the routes that open and close terminals (routes/terminals.rs) and *)
(* the projection of their exits (event_projection.rs).                    *)
(*                                                                         *)
(* Everybody shares the Profile Host's lifecycle lock, a FIFO RwLock: a    *)
(* request holds it for reading until its response or its timeout, a       *)
(* restart for writing, and who comes after a waiting writer waits behind  *)
(* it.  What the Host does inside a restart is in module ProfileHost; here *)
(* it is one step, as is every use of the lock that waits for nothing.     *)
(* There is one workspace, and a terminal id is used once: the table keeps *)
(* its row.                                                                *)
(***************************************************************************)
EXTENDS Naturals, Sequences, FiniteSets

CONSTANTS
    Threads,
    Ops,            \* Thread operations served concurrently
    Kinds,          \* of them: thread/start, turn/start, turn/interrupt (as
                    \* turn/steer), thread/archive
    Terminals,
    None,
    MaxInstances    \* bound: app-server processes over time

ASSUME AdapterConstants ==
    /\ MaxInstances \in Nat \ {0}
    /\ Kinds \subseteq {"start", "start_turn", "interrupt", "archive"}
    /\ None \notin Threads \cup Ops \cup Terminals

VARIABLES
    instance,    \* the Host's runtime_instance_id
    up,          \* the app-server runs
    loaded,      \* Threads the process has loaded
    turn,        \* a Turn is active
    asked,       \* the operation whose request waits for the user
    scheduled,   \* scheduled_restart
    readers,     \* who holds the lifecycle lock for reading
    queue,       \* who waits for it
    mutex,       \* the holder of the adapter's runtime mutex
    recorded,    \* the adapter's runtime_instance, 0 for None
    bound,       \* thread_workspaces
    termBound,   \* terminal_workspaces
    pc,          \* where each actor is
    job,         \* the Thread and kind of each Thread operation
    row,         \* terminal_sessions.state
    task,        \* the task spawned for each terminal's command/exec
    exits,       \* platform/terminalExited events not yet projected
    orphaned,    \* terminals unbound while they were alive
    lost,        \* terminals whose exit will never be recorded
    unsure       \* Threads whose archiving was not confirmed

hostVars == <<instance, up, loaded, turn, asked, scheduled>>
lockVars == <<readers, queue>>
bindVars == <<mutex, recorded, bound, termBound>>
callVars == <<pc, job>>
termVars == <<row, task, exits>>
seenVars == <<orphaned, lost, unsure>>
vars == <<hostVars, lockVars, bindVars, callVars, termVars, seenVars>>

-----------------------------------------------------------------------------

Operation(o) == <<"operation", o>>
Registry == <<"registry", None>>
Responder == <<"responder", None>>
Opening(k) == <<"opening", k>>     \* POST terminals
Running(k) == <<"running", k>>     \* its spawned task
Closing(k) == <<"closing", k>>     \* DELETE terminal
Actors == {Registry, Responder}
          \cup {Operation(o) : o \in Ops}
          \cup {<<r, k>> : r \in {"opening", "running", "closing"}, k \in Terminals}

Instances == 1..MaxInstances

At(a, l) == pc[a] = l
Goto(a, l) == pc' = [pc EXCEPT ![a] = l]
Enqueue(a) == queue' = Append(queue, a)
\* a is first in line, and what it asks for can be granted.
Turnstile(a) == queue # <<>> /\ Head(queue) = a
CanWrite(a) == Turnstile(a) /\ readers = {}

\* runtime_is_busy
Busy == turn \/ asked # None

\* A process ends: command/exec is over for every terminal in it.
Ended == [k \in Terminals |-> IF task[k] = "live" THEN "ended" ELSE task[k]]

Init ==
    /\ instance = 1 /\ up = TRUE /\ loaded = {} /\ turn = FALSE /\ asked = None
    /\ scheduled = FALSE
    /\ readers = {} /\ queue = <<>> /\ mutex = None
    /\ recorded = 0 /\ bound = {} /\ termBound = {}
    /\ pc = [a \in Actors |-> "idle"]
    /\ job = [o \in Ops |-> [thread |-> None, kind |-> None]]
    /\ row = [k \in Terminals |-> "absent"] /\ task = [k \in Terminals |-> "none"]
    /\ exits = <<>>
    /\ orphaned = {} /\ lost = {} /\ unsure = {}

-----------------------------------------------------------------------------
(* The Profile Host and the app-server. *)

\* restart_unlocked: a new process, which has loaded nothing.
NewProcess ==
    /\ instance < MaxInstances
    /\ instance' = instance + 1 /\ up' = TRUE
    /\ loaded' = {}
    /\ turn' = FALSE /\ asked' = None
    /\ scheduled' = FALSE
    /\ task' = Ended

\* restart_unlocked fails: the old process is gone, its id perhaps replaced.
NoProcess ==
    /\ instance' \in {instance, instance + 1} \cap Instances
    /\ up' = FALSE /\ loaded' = {} /\ task' = Ended
    /\ UNCHANGED <<turn, asked>>

\* The app-server exits by itself: what it was doing is over.
Exit ==
    /\ up
    /\ up' = FALSE /\ loaded' = {} /\ turn' = FALSE /\ asked' = None
    /\ task' = Ended
    /\ UNCHANGED <<instance, scheduled, lockVars, bindVars, callVars, row, exits, seenVars>>

TurnEnds ==
    /\ turn
    /\ turn' = FALSE
    /\ UNCHANGED <<instance, up, loaded, asked, scheduled, lockVars, bindVars, callVars, termVars,
                   seenVars>>

\* schedule_runtime_refresh
ScheduleRestart ==
    /\ ~scheduled /\ instance < MaxInstances
    /\ scheduled' = TRUE
    /\ UNCHANGED <<instance, up, loaded, turn, asked, lockVars, bindVars, callVars, termVars,
                   seenVars>>

\* set_secret_environment: restart() waits for the lock.
SetSecretEnvironment ==
    /\ At(Registry, "idle") /\ instance < MaxInstances
    /\ Goto(Registry, "restart") /\ Enqueue(Registry)
    /\ UNCHANGED <<hostVars, readers, bindVars, job, termVars, seenVars>>

\* restart() is refused while the Runtime is busy (a terminal does not make it so)
\* and may fail; the environment is restored and restart() called once more.
Restart ==
    /\ pc[Registry] \in {"restart", "recover"} /\ CanWrite(Registry)
    /\ \/ /\ ~Busy /\ NewProcess
          /\ queue' = Tail(queue) /\ Goto(Registry, "idle")
       \/ /\ \/ UNCHANGED <<hostVars, task>>
             \/ ~Busy /\ NoProcess /\ scheduled' = FALSE
          /\ IF At(Registry, "restart")
             THEN queue' = Append(Tail(queue), Registry) /\ Goto(Registry, "recover")
             ELSE queue' = Tail(queue) /\ Goto(Registry, "idle")
    /\ UNCHANGED <<readers, bindVars, job, row, exits, seenVars>>

\* The user answers a request, or a Turn, whose questions make the Runtime no
\* busier than the Turn itself: respond() waits for the lock like a request.
Answer ==
    /\ At(Responder, "idle") /\ (asked # None \/ turn)
    /\ Goto(Responder, "respond") /\ Enqueue(Responder)
    /\ UNCHANGED <<hostVars, readers, bindVars, job, termVars, seenVars>>

Respond ==
    /\ At(Responder, "respond") /\ Turnstile(Responder)
    /\ asked' \in {None, asked}
    /\ queue' = Tail(queue) /\ Goto(Responder, "idle")
    /\ UNCHANGED <<instance, up, loaded, turn, scheduled, readers, bindVars, job, termVars,
                   seenVars>>

-----------------------------------------------------------------------------
(* Thread operations. *)

\* Mutant: an operation ends with the runtime mutex locked.
FinishKeepsMutex(o) ==
    /\ Goto(Operation(o), "idle")
    /\ job' = [job EXCEPT ![o] = [thread |-> None, kind |-> None]]
    /\ UNCHANGED mutex

Finish(o) ==
    /\ Goto(Operation(o), "idle")
    /\ mutex' = None
    /\ job' = [job EXCEPT ![o] = [thread |-> None, kind |-> None]]

\* prepare_runtime locks the mutex and waits for the lifecycle lock, for writing.
Begin(o, t, kind) ==
    /\ At(Operation(o), "idle") /\ mutex = None
    /\ kind = "start" => t \notin loaded \cup bound
    /\ mutex' = o
    /\ job' = [job EXCEPT ![o] = [thread |-> t, kind |-> kind]]
    /\ Goto(Operation(o), "prepare") /\ Enqueue(Operation(o))
    /\ UNCHANGED <<hostVars, readers, recorded, bound, termBound, termVars, seenVars>>

\* apply_scheduled_restart
ApplyScheduledRestart(o) ==
    /\ At(Operation(o), "prepare") /\ CanWrite(Operation(o))
    /\ queue' = Tail(queue)
    /\ IF scheduled /\ Busy
       THEN Finish(o) /\ UNCHANGED <<hostVars, task>>
       ELSE /\ Goto(Operation(o), "note")
            /\ IF scheduled THEN NewProcess ELSE UNCHANGED <<hostVars, task>>
            /\ UNCHANGED <<mutex, job>>
    /\ UNCHANGED <<readers, recorded, bound, termBound, row, exits, seenVars>>

\* The replacement process does not come up and stays scheduled.
ApplyFails(o) ==
    /\ At(Operation(o), "prepare") /\ CanWrite(Operation(o)) /\ scheduled /\ ~Busy
    /\ queue' = Tail(queue)
    /\ NoProcess
    /\ Finish(o)
    /\ UNCHANGED <<scheduled, readers, recorded, bound, termBound, row,
                   exits, seenVars>>

\* Mutant: the bindings of the previous process survive.
KeepBindings(o) ==
    /\ At(Operation(o), "note")
    /\ recorded' = instance
    /\ Goto(Operation(o), IF job[o].thread \in bound THEN "request" ELSE "resume")
    /\ Enqueue(Operation(o))
    /\ UNCHANGED <<hostVars, readers, mutex, bound, termBound, job, termVars, seenVars>>

\* The instance id is read; a new one clears what was bound in the old process.
\* A bound Thread is used as it is, another is resumed first.
NoteInstance(o) ==
    /\ At(Operation(o), "note")
    /\ recorded' = instance
    /\ bound' = IF recorded = instance THEN bound ELSE {}
    /\ termBound' = IF recorded = instance THEN termBound ELSE {}
    /\ orphaned' = orphaned \cup {k \in termBound \ termBound' : task[k] \in {"queued", "live"}}
    /\ Goto(Operation(o), IF job[o].thread \in bound' THEN "request" ELSE "resume")
    /\ Enqueue(Operation(o))
    /\ UNCHANGED <<hostVars, readers, mutex, job, termVars, lost, unsure>>

\* A request is sent once the lock is held for reading.
Send(o) ==
    /\ pc[Operation(o)] \in {"request", "resume"} /\ Turnstile(Operation(o))
    /\ readers' = readers \cup {Operation(o)}
    /\ queue' = Tail(queue)
    /\ Goto(Operation(o), IF At(Operation(o), "resume") THEN "resuming" ELSE "requesting")
    /\ UNCHANGED <<hostVars, bindVars, job, termVars, seenVars>>

\* The app-server asks the user something before it can answer.
RequestAsks(o) ==
    /\ At(Operation(o), "requesting") /\ up /\ asked = None
    /\ asked' = o
    /\ UNCHANGED <<instance, up, loaded, turn, scheduled, lockVars, bindVars, callVars, termVars,
                   seenVars>>

Resumed(o) ==
    /\ At(Operation(o), "resuming") /\ up
    /\ loaded' = loaded \cup {job[o].thread}
    /\ readers' = readers \ {Operation(o)}
    /\ Goto(Operation(o), "bind")
    /\ UNCHANGED <<instance, up, turn, asked, scheduled, queue, bindVars, job, termVars, seenVars>>

\* The Thread is bound, which for thread/start is all; else its request follows.
Bind(o) ==
    /\ At(Operation(o), "bind")
    /\ bound' = bound \cup {job[o].thread}
    /\ unsure' = unsure \ {job[o].thread}
    /\ IF job[o].kind = "start"
       THEN Finish(o) /\ UNCHANGED queue
       ELSE /\ Goto(Operation(o), "request") /\ Enqueue(Operation(o))
            /\ UNCHANGED <<mutex, job>>
    /\ UNCHANGED <<hostVars, readers, recorded, termBound, termVars, orphaned, lost>>

\* What the app-server does: a Turn starts or ends, or the Thread is unloaded.
Effect(o) ==
    /\ up /\ asked # o /\ job[o].thread \in loaded
    /\ turn' = CASE job[o].kind = "start_turn" -> TRUE
                 [] job[o].kind = "interrupt" -> FALSE
                 [] OTHER -> turn
    /\ loaded' = IF job[o].kind = "archive" THEN loaded \ {job[o].thread} ELSE loaded

\* and the response arrives.
Answered(o) ==
    /\ At(Operation(o), "requesting")
    /\ Effect(o)
    /\ bound' = IF job[o].kind = "archive" THEN bound \ {job[o].thread} ELSE bound
    /\ readers' = readers \ {Operation(o)}
    /\ Finish(o)
    /\ UNCHANGED <<instance, up, asked, scheduled, queue, recorded, termBound, termVars, seenVars>>

\* Mutant: a request waits for its response for ever.
FailsWhenTold(o) ==
    /\ pc[Operation(o)] \in {"resuming", "requesting"} /\ ~up
    /\ readers' = readers \ {Operation(o)}
    /\ Finish(o)
    /\ UNCHANGED <<hostVars, queue, recorded, bound, termBound, termVars, seenVars>>

\* An error response, a closed transport, or request_timeout; the app-server may
\* have acted all the same.
RequestFails(o) ==
    /\ pc[Operation(o)] \in {"resuming", "requesting"}
    /\ \/ UNCHANGED <<loaded, turn, unsure>>
       \/ /\ At(Operation(o), "requesting") /\ Effect(o)
          /\ unsure' = unsure \cup (loaded \ loaded')
    /\ readers' = readers \ {Operation(o)}
    /\ Finish(o)
    /\ asked' = IF asked = o THEN None ELSE asked
    /\ UNCHANGED <<instance, up, scheduled, queue, recorded, bound, termBound, termVars,
                   orphaned, lost>>

-----------------------------------------------------------------------------
(* Terminals. *)

Open == {"starting", "running"}

\* The route inserts the session; a second row for the id is a conflict.
InsertSession(k) ==
    /\ At(Opening(k), "idle") /\ row[k] = "absent"
    /\ row' = [row EXCEPT ![k] = "starting"]
    /\ Goto(Opening(k), "open")
    /\ UNCHANGED <<hostVars, lockVars, bindVars, job, task, exits, seenVars>>

\* open_terminal binds the process id and spawns the task that waits for the lock.
OpenTerminal(k) ==
    /\ At(Opening(k), "open")
    /\ termBound' = termBound \cup {k}
    /\ task' = [task EXCEPT ![k] = "queued"]
    /\ Goto(Opening(k), "mark") /\ Enqueue(Running(k))
    /\ UNCHANGED <<hostVars, readers, mutex, recorded, bound, job, row, exits, seenVars>>

OpenFails(k) ==
    /\ At(Opening(k), "open")
    /\ row' \in {row, [row EXCEPT ![k] = "failed"]}
    /\ Goto(Opening(k), "idle")
    /\ UNCHANGED <<hostVars, lockVars, bindVars, job, task, exits, seenVars>>

\* Mutant: the update does not require state = 'starting'.
MarkAlways(k) ==
    /\ At(Opening(k), "mark")
    /\ row' = [row EXCEPT ![k] = "running"]
    /\ Goto(Opening(k), "idle")
    /\ UNCHANGED <<hostVars, lockVars, bindVars, job, task, exits, seenVars>>

\* An update of the row may fail; the handler returns all the same.
MarkRunning(k) ==
    /\ At(Opening(k), "mark")
    /\ row' \in {row, [row EXCEPT ![k] = IF @ = "starting" THEN "running" ELSE @]}
    /\ Goto(Opening(k), "idle")
    /\ UNCHANGED <<hostVars, lockVars, bindVars, job, task, exits, seenVars>>

\* request_long_running holds the lock only while it publishes command/exec.
Publish(k) ==
    /\ task[k] = "queued" /\ Turnstile(Running(k))
    /\ queue' = Tail(queue)
    /\ task' = [task EXCEPT ![k] = IF up THEN "live" ELSE "ended"]
    /\ UNCHANGED <<hostVars, readers, bindVars, callVars, row, exits, seenVars>>

\* The shell exits.
ShellExits(k) ==
    /\ task[k] = "live"
    /\ task' = [task EXCEPT ![k] = "ended"]
    /\ UNCHANGED <<hostVars, lockVars, bindVars, callVars, row, exits, seenVars>>

\* Mutant: only a command that answered is reported.
ReportIfUp(k) ==
    /\ task[k] = "ended"
    /\ termBound' = termBound \ {k}
    /\ task' = [task EXCEPT ![k] = "gone"]
    /\ exits' = IF up THEN Append(exits, k) ELSE exits
    /\ UNCHANGED <<hostVars, lockVars, mutex, recorded, bound, callVars, row, seenVars>>

\* The response, or the error of a drained request, ends the task.
TaskEnds(k) ==
    /\ task[k] = "ended"
    /\ termBound' = termBound \ {k}
    /\ task' = [task EXCEPT ![k] = "gone"]
    /\ exits' = Append(exits, k)
    /\ UNCHANGED <<hostVars, lockVars, mutex, recorded, bound, callVars, row, seenVars>>

\* persist_terminal_frame
ProjectExit ==
    /\ exits # <<>>
    /\ \E state \in {"closed", "failed"} : row' = [row EXCEPT ![Head(exits)] = state]
    /\ exits' = Tail(exits)
    /\ UNCHANGED <<hostVars, lockVars, bindVars, callVars, task, seenVars>>

ProjectExitFails ==
    /\ exits # <<>>
    /\ lost' = lost \cup {Head(exits)}
    /\ exits' = Tail(exits)
    /\ UNCHANGED <<hostVars, lockVars, bindVars, callVars, row, task, orphaned, unsure>>

\* close: an open session that the adapter has bound is terminated.
CloseTerminal(k) ==
    /\ At(Closing(k), "idle") /\ row[k] \in Open /\ k \in termBound
    /\ Goto(Closing(k), "terminate") /\ Enqueue(Closing(k))
    /\ UNCHANGED <<hostVars, readers, bindVars, job, termVars, seenVars>>

SendTerminate(k) ==
    /\ At(Closing(k), "terminate") /\ Turnstile(Closing(k))
    /\ readers' = readers \cup {Closing(k)}
    /\ queue' = Tail(queue)
    /\ Goto(Closing(k), "terminating")
    /\ UNCHANGED <<hostVars, bindVars, job, termVars, seenVars>>

Terminated(k) ==
    /\ At(Closing(k), "terminating") /\ task[k] = "live"
    /\ task' = [task EXCEPT ![k] = "ended"]
    /\ readers' = readers \ {Closing(k)}
    /\ Goto(Closing(k), "close")
    /\ UNCHANGED <<hostVars, queue, bindVars, job, row, exits, seenVars>>

TerminateFails(k) ==
    /\ At(Closing(k), "terminating")
    /\ readers' = readers \ {Closing(k)}
    /\ Goto(Closing(k), "idle")
    /\ UNCHANGED <<hostVars, queue, bindVars, job, termVars, seenVars>>

MarkClosing(k) ==
    /\ At(Closing(k), "close")
    /\ row' \in {row, [row EXCEPT ![k] = IF @ \in Open THEN "closing" ELSE @]}
    /\ Goto(Closing(k), "idle")
    /\ UNCHANGED <<hostVars, lockVars, bindVars, job, task, exits, seenVars>>

-----------------------------------------------------------------------------

\* The server stops, the app-server with it, and starts again: the rows stay.
ServerRestart ==
    /\ instance < MaxInstances
    /\ instance' = instance + 1 /\ up' = TRUE
    /\ loaded' = {} /\ turn' = FALSE /\ asked' = None /\ scheduled' = FALSE
    /\ readers' = {} /\ queue' = <<>> /\ mutex' = None
    /\ recorded' = 0 /\ bound' = {} /\ termBound' = {}
    /\ pc' = [a \in Actors |-> "idle"]
    /\ job' = [o \in Ops |-> [thread |-> None, kind |-> None]]
    /\ task' = [k \in Terminals |-> IF row[k] = "absent" THEN "none" ELSE "gone"]
    /\ exits' = <<>>
    /\ lost' = lost \cup {k \in Terminals : row[k] \in Open \cup {"closing"}}
    /\ UNCHANGED <<row, orphaned, unsure>>

OpStep(o) ==
    \/ ApplyScheduledRestart(o) \/ ApplyFails(o) \/ NoteInstance(o) \/ Send(o)
    \/ Resumed(o) \/ Bind(o) \/ Answered(o) \/ RequestFails(o)
OpenStep(k) == OpenTerminal(k) \/ OpenFails(k) \/ MarkRunning(k)
TaskStep(k) == Publish(k) \/ TaskEnds(k)
CloseStep(k) ==
    SendTerminate(k) \/ Terminated(k) \/ TerminateFails(k) \/ MarkClosing(k)
Project == ProjectExit \/ ProjectExitFails

Next ==
    \/ Exit \/ TurnEnds
    \/ ScheduleRestart \/ SetSecretEnvironment \/ Restart \/ Answer \/ Respond
    \/ \E o \in Ops :
        OpStep(o) \/ RequestAsks(o) \/ \E t \in Threads, kind \in Kinds : Begin(o, t, kind)
    \/ \E k \in Terminals :
        InsertSession(k) \/ OpenStep(k) \/ TaskStep(k) \/ ShellExits(k)
        \/ CloseTerminal(k) \/ CloseStep(k)
    \/ Project \/ ServerRestart

Spec == Init /\ [][Next]_vars

\* Every task of the server runs on, timeouts included; users and the app-server
\* owe nothing.
Fairness ==
    /\ WF_vars(Restart) /\ WF_vars(Respond) /\ WF_vars(Project)
    /\ \A o \in Ops : WF_vars(OpStep(o))
    /\ \A k \in Terminals : /\ WF_vars(OpenStep(k)) /\ WF_vars(TaskStep(k))
                            /\ WF_vars(CloseStep(k))
FairSpec == Spec /\ Fairness

-----------------------------------------------------------------------------

TypeOK ==
    /\ instance \in Instances /\ recorded \in 0..instance
    /\ up \in BOOLEAN /\ turn \in BOOLEAN /\ scheduled \in BOOLEAN
    /\ loaded \subseteq Threads /\ bound \subseteq Threads
    /\ asked \in Ops \cup {None}
    /\ readers \subseteq Actors
    /\ \A i, j \in DOMAIN queue : queue[i] \in Actors /\ (queue[i] = queue[j] => i = j)
    /\ mutex \in Ops \cup {None} /\ termBound \subseteq Terminals
    /\ \A o \in Ops : At(Operation(o), "idle") = (mutex # o)
    /\ row \in [Terminals -> Open \cup {"absent", "closing", "closed", "failed"}]
    /\ task \in [Terminals -> {"none", "queued", "live", "ended", "gone"}]
    /\ \A i \in DOMAIN exits : exits[i] \in Terminals
    /\ orphaned \subseteq Terminals /\ lost \subseteq Terminals /\ unsure \subseteq Threads

\* A Thread the adapter believes bound is loaded in the process whose instance it
\* recorded: what prepare_runtime skips when the instance is unchanged was done.
\* Not so after an archive that timed out: the app-server may have unloaded it.
BoundIsLoaded == up /\ recorded = instance => bound \subseteq loaded \cup unsure

\* A session recorded as closed or failed has no shell left, and stays so whatever
\* the routes that open and close it write afterwards.
EndedIsFinal ==
    [][\A k \in Terminals : row[k] \in {"closed", "failed"} =>
           task[k] # "live" /\ row'[k] = row[k]]_vars

\* A live terminal can be written to and closed, unless prepare_runtime unbound it:
\* it clears every terminal when it notices a new instance, those of the new
\* instance too.
LiveIsBound ==
    \A k \in Terminals : task[k] \in {"queued", "live"} => k \in termBound \/ k \in orphaned

\* What the adapter believes to be bound is what the process has.
BindingsMatch == BoundIsLoaded /\ LiveIsBound

\* Every Thread operation, restart, answer and close comes to an end although each
\* may wait behind the others for the lifecycle lock and a request may wait for an
\* answer that is in the same queue.
CallsReturn ==
    \A a \in {Registry, Responder} \cup {Operation(o) : o \in Ops}
             \cup {Closing(k) : k \in Terminals} :
        pc[a] # "idle" ~> pc[a] = "idle"

\* The end of a terminal's command, by itself or with its process, is recorded,
\* unless the server stopped or its event could not be stored.
ExitIsRecorded ==
    \A k \in Terminals : task[k] = "ended" ~> row[k] \in {"closed", "failed"} \/ k \in lost
=============================================================================
