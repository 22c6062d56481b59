----------------------------- MODULE ProfileHost -----------------------------
(***************************************************************************)
(* The Profile Host (apps/web/crates/profile-host), which owns one Codex   *)
(* app-server process and replaces it in place, with the two callers that  *)
(* replace it: the adapter's prepare_runtime before a Thread operation     *)
(* (crates/codex-adapter/src/real.rs) and the Profile Registry when a      *)
(* secret changes (crates/profile-registry).  One stdout reader per        *)
(* process runs beside them without the lifecycle lock.                    *)
(*                                                                         *)
(* The adapter's runtime mutex serialises its operations, the registry's   *)
(* operation mutex its own: each is one actor.  Between these two the      *)
(* lifecycle RwLock, read by one and written by both, excludes.            *)
(* Requests are numbered by next_id; turn/start number n starts Turn n,    *)
(* and an approval that Turn n asks for has the number of the Turn.        *)
(***************************************************************************)
EXTENDS Integers, Sequences, FiniteSets

CONSTANTS
    Secrets,       \* values of the secret environment
    FirstSecret,
    None,
    MaxProcs,      \* bound: processes over time
    MaxRequests,   \* bound: turn/start requests
    MayExit        \* whether the app-server may exit or be shut down

ASSUME HostConstants ==
    /\ FirstSecret \in Secrets
    /\ None \notin Secrets \cup {"adapter", "registry"}
    /\ MaxProcs \in Nat \ {0} /\ MaxRequests \in Nat
    /\ MayExit \in BOOLEAN

VARIABLES
    generation,     \* process_generation
    runtimeId,      \* runtime_instance_id
    state,          \* snapshot.state
    lock,           \* the actor that holds the lifecycle lock, or None
    activeTurns,    \* active_turns
    serverRequests, \* pending_server_requests
    pending,        \* pending: requests whose response is awaited
    scheduled,      \* scheduled_restart: the environment captured, or None
    env,            \* ManagedProfile.secret_environment
    ctl,            \* what each actor is doing, with which environment
    request,        \* the adapter's request and what its receiver yielded
    nextId,         \* next_id
    reader,         \* the stdout reader of each process
    proc,           \* the process that runs (a generation), or 0
    procEnv,        \* the environment it was started with
    fresh,          \* it was started after the last schedule_runtime_refresh
    stdin,          \* requests it has not taken yet
    stdout,         \* what each process wrote and its reader has not read
    running,        \* Turns it is running
    asking,         \* Turns that wait for an approval
    \* History, for the properties:
    acked,          \* Turns whose turn/start has returned to the adapter, until
                    \* their end is handled
    early,          \* Turns that were over before the host booked them, or booked by
                    \* the reader of a process that had been stopped or replaced,
                    \* since the books were last cleared
    wiped,          \* Turns that the reader of a replaced process took off the books
    lateActs        \* how often the reader of each process has changed the books or
                    \* sent an event under another's id after it was replaced

lifecycleVars == <<generation, runtimeId, state, lock>>
workVars == <<activeTurns, serverRequests, pending>>
configVars == <<scheduled, env>>
callVars == <<request, nextId, acked, early, wiped>>
processVars == <<proc, procEnv, fresh, stdin, running, asking>>
vars == <<lifecycleVars, workVars, configVars, ctl, callVars, reader, lateActs,
          processVars, stdout>>

-----------------------------------------------------------------------------

Actors == {"adapter", "registry"}
Procs == 1..MaxProcs
Turns == 1..MaxRequests
Restarting == {"bump", "stop", "spawn", "initialize"}

Idle == [pc |-> "idle", env |-> None]
NoRequest == [id |-> 0, reply |-> "none"]
NoReader == [pc |-> "none", msg |-> None]
Reading == [pc |-> "read", msg |-> None]

Goto(a, l) == ctl' = [ctl EXCEPT ![a].pc = l]

\* runtime_is_busy
Busy == activeTurns # {} \/ serverRequests # {}

\* drain_pending: a receiver still waiting gets an error.
Drained(req) == IF req.id \in pending THEN [req EXCEPT !.reply = "error"] ELSE req

Init ==
    /\ generation = 1 /\ runtimeId = 1 /\ state = "ready" /\ lock = None
    /\ activeTurns = {} /\ serverRequests = {} /\ pending = {}
    /\ scheduled = None /\ env = FirstSecret
    /\ ctl = [a \in Actors |-> Idle]
    /\ request = NoRequest /\ nextId = 1
    /\ acked = {} /\ early = {} /\ wiped = {} /\ lateActs = [g \in Procs |-> 0]
    /\ reader = [g \in Procs |-> IF g = 1 THEN Reading ELSE NoReader]
    /\ proc = 1 /\ procEnv = FirstSecret /\ fresh = TRUE
    /\ stdin = {} /\ running = {} /\ asking = {}
    /\ stdout = [g \in Procs |-> <<>>]

-----------------------------------------------------------------------------
(* Profile Registry. *)

\* schedule_runtime_refresh captures the effective configuration; what it makes
\* the next process pick up is already in the Profile home.
ScheduleRuntimeRefresh ==
    /\ ctl["registry"].pc = "idle"
    /\ scheduled' = env
    /\ fresh' = FALSE
    /\ UNCHANGED <<lifecycleVars, workVars, env, ctl, callVars, reader, lateActs,
                   proc, procEnv, stdin, running, asking, stdout>>

\* set_secret_environment: the map changes, then restart() waits for the lock.
\* The actor keeps the previous value while it may have to be restored.
SetSecretEnvironment(value) ==
    /\ ctl["registry"].pc = "idle"
    /\ value # env
    /\ env' = value
    /\ ctl' = [ctl EXCEPT !["registry"] = [pc |-> "restart", env |-> env]]
    /\ UNCHANGED <<lifecycleVars, workVars, scheduled, callVars, reader, lateActs,
                   processVars, stdout>>

\* Mutant: a failed restart leaves the new value in place.
RestartFailedKeeps ==
    /\ ctl' = [ctl EXCEPT !["registry"] = Idle]
    /\ UNCHANGED env

\* restart() failed: restore the previous value and restart once more with it;
\* the second failure is reported.
RestartFailed ==
    IF ctl["registry"].env # None
    THEN /\ env' = ctl["registry"].env
         /\ ctl' = [ctl EXCEPT !["registry"] = [pc |-> "restart", env |-> None]]
    ELSE /\ ctl' = [ctl EXCEPT !["registry"] = Idle]
         /\ UNCHANGED env

\* restart(): refused while busy, else it supersedes a scheduled restart.
Restart ==
    /\ ctl["registry"].pc = "restart" /\ lock = None
    /\ IF Busy
       THEN RestartFailed /\ UNCHANGED <<lock, scheduled>>
       ELSE /\ lock' = "registry"
            /\ scheduled' = None
            /\ Goto("registry", "bump")
            /\ UNCHANGED env
    /\ UNCHANGED <<generation, runtimeId, state, workVars, callVars, reader, lateActs,
                   processVars, stdout>>

\* shutdown(), by the registry: Turns or not.
Shutdown ==
    /\ MayExit
    /\ ctl["registry"].pc = "idle" /\ lock = None /\ state # "stopped"
    /\ scheduled' = None
    /\ state' = "stopped"
    /\ proc' = 0 /\ stdin' = {} /\ running' = {} /\ asking' = {}
    /\ request' = Drained(request)
    /\ activeTurns' = {} /\ serverRequests' = {} /\ pending' = {}
    /\ acked' = {} /\ early' = {} /\ wiped' = {}
    /\ UNCHANGED <<generation, runtimeId, lock, env, ctl, nextId, reader,
                   lateActs, procEnv, fresh, stdout>>

-----------------------------------------------------------------------------
(* The adapter: prepare_runtime, then the request. *)

PrepareRuntime ==
    /\ ctl["adapter"].pc = "idle"
    /\ Goto("adapter", "prepare")
    /\ UNCHANGED <<lifecycleVars, workVars, configVars, callVars, reader, lateActs,
                   processVars, stdout>>

\* Mutant: the configuration that was taken is not put back.
PutBackNothing == None

\* What apply_scheduled_restart puts back when it cannot restart now.
PutBack == IF ctl["adapter"].env # None THEN ctl["adapter"].env ELSE scheduled

\* apply_scheduled_restart up to the restart: nothing scheduled, RuntimeBusy, or
\* the configuration is taken and restart_unlocked entered.
ApplyScheduledRestart ==
    /\ ctl["adapter"].pc = "prepare" /\ lock = None
    /\ \/ /\ scheduled = None
          /\ Goto("adapter", "request")
          /\ UNCHANGED <<lock, scheduled>>
       \/ /\ scheduled # None /\ Busy
          /\ ctl' = [ctl EXCEPT !["adapter"] = Idle]
          /\ scheduled' = PutBack
          /\ UNCHANGED lock
       \/ /\ scheduled # None /\ ~Busy
          /\ ctl' = [ctl EXCEPT !["adapter"] = [pc |-> "bump", env |-> scheduled]]
          /\ lock' = "adapter"
          /\ scheduled' = None
    /\ UNCHANGED <<generation, runtimeId, state, workVars, env, callVars, reader,
                   lateActs, processVars, stdout>>

\* request("turn/start") under the read lock: publish it, or the pipe is closed.
BeginRequest ==
    /\ ctl["adapter"].pc = "request" /\ lock = None /\ nextId <= MaxRequests
    /\ nextId' = nextId + 1
    /\ IF proc # 0
       THEN /\ lock' = "adapter"
            /\ pending' = pending \cup {nextId}
            /\ stdin' = stdin \cup {nextId}
            /\ request' = [id |-> nextId, reply |-> "none"]
            /\ Goto("adapter", "await")
       ELSE /\ ctl' = [ctl EXCEPT !["adapter"] = Idle]
            /\ UNCHANGED <<lock, pending, stdin, request>>
    /\ UNCHANGED <<generation, runtimeId, state, activeTurns, serverRequests, configVars,
                   acked, early, wiped, reader, lateActs, proc, procEnv, fresh, running, asking, stdout>>

\* Any other operation of the adapter (thread/start, thread/resume and so on): its
\* request starts no Turn.
OtherRequest ==
    /\ ctl["adapter"].pc = "request" /\ lock = None
    /\ ctl' = [ctl EXCEPT !["adapter"] = Idle]
    /\ UNCHANGED <<lifecycleVars, workVars, configVars, callVars, reader, lateActs,
                   processVars, stdout>>

EndRequest ==
    /\ ctl["adapter"].pc = "await"
    /\ ctl' = [ctl EXCEPT !["adapter"] = Idle]
    /\ lock' = None
    /\ request' = NoRequest
    /\ UNCHANGED <<generation, runtimeId, state, serverRequests, configVars, nextId, early, reader,
                   lateActs, processVars, stdout>>

\* Mutant: the Turn is left to its turn/started notification.
TurnStartReturnsEarly ==
    /\ request.reply = "ok"
    /\ EndRequest
    /\ acked' = acked \cup {request.id}
    /\ UNCHANGED <<activeTurns, pending, wiped>>

\* The response is in: the Turn is recorded before the lock is released.
TurnStartReturns ==
    /\ request.reply = "ok"
    /\ EndRequest
    /\ activeTurns' = activeTurns \cup {request.id}
    /\ acked' = acked \cup {request.id}
    /\ wiped' = wiped \ {request.id}
    /\ UNCHANGED pending

\* An error, a closed transport, or no answer within request_timeout.
RequestFails ==
    /\ request.reply # "ok"
    /\ EndRequest
    /\ pending' = pending \ {request.id}
    /\ UNCHANGED <<activeTurns, acked, wiped>>

-----------------------------------------------------------------------------
(* restart_unlocked, by the actor that holds the lock. *)

BumpGeneration(a) ==
    /\ ctl[a].pc = "bump" /\ generation < MaxProcs
    /\ generation' = generation + 1
    /\ Goto(a, "stop")
    /\ UNCHANGED <<runtimeId, state, lock, workVars, configVars, callVars, reader,
                   lateActs, processVars, stdout>>

\* shutdown_unlocked: nothing to do for a host that is stopped already.
StopProcess(a) ==
    /\ ctl[a].pc = "stop"
    /\ Goto(a, "spawn")
    /\ IF state = "stopped"
       THEN UNCHANGED <<state, workVars, request, acked, early, wiped, proc, stdin,
                        running, asking>>
       ELSE /\ state' = "stopped"
            /\ proc' = 0 /\ stdin' = {} /\ running' = {} /\ asking' = {}
            /\ request' = Drained(request)
            /\ activeTurns' = {} /\ serverRequests' = {} /\ pending' = {}
            /\ acked' = {} /\ early' = {} /\ wiped' = {}
    /\ UNCHANGED <<generation, runtimeId, lock, configVars, nextId, reader,
                   lateActs, procEnv, fresh, stdout>>

\* The error leaves restart_unlocked: apply_scheduled_restart puts the
\* configuration back, the registry restores the secret.
RestartEndsInError(a) ==
    /\ lock' = None
    /\ \/ /\ a = "adapter"
          /\ scheduled' = PutBack
          /\ ctl' = [ctl EXCEPT ![a] = Idle]
          /\ UNCHANGED env
       \/ /\ a = "registry"
          /\ RestartFailed
          /\ UNCHANGED scheduled

\* Mutant: the registry restarts with the value it keeps to restore.
RestartEnvKept(a) == ctl[a].env

\* The environment the actor restarts with.
RestartEnv(a) == IF a = "adapter" THEN ctl[a].env ELSE env

\* A new runtime_instance_id, then spawn_app_server, which may fail.
SpawnProcess(a) ==
    /\ ctl[a].pc = "spawn"
    /\ runtimeId' = generation
    /\ \/ /\ proc' = generation /\ procEnv' = RestartEnv(a) /\ fresh' = TRUE
          /\ state' = "initializing"
          /\ reader' = [reader EXCEPT ![generation] = Reading]
          /\ Goto(a, "initialize")
          /\ UNCHANGED <<lock, configVars>>
       \/ /\ RestartEndsInError(a)
          /\ UNCHANGED <<proc, procEnv, fresh, state, reader>>
    /\ UNCHANGED <<generation, workVars, callVars, lateActs, stdin, running, asking, stdout>>

\* initialize_unlocked and finish_initialize.
InitializeSucceeds(a) ==
    /\ ctl[a].pc = "initialize" /\ proc = generation
    /\ state' = "ready"
    /\ lock' = None
    /\ ctl' = [ctl EXCEPT ![a] = [pc |-> IF a = "adapter" THEN "request" ELSE "idle",
                                  env |-> None]]
    /\ UNCHANGED <<generation, runtimeId, workVars, configVars, callVars, reader,
                   lateActs, processVars, stdout>>

\* mark_failed and terminate_child.
InitializeFails(a) ==
    /\ ctl[a].pc = "initialize"
    /\ state' = IF state = "stopped" THEN state ELSE "failed"
    /\ proc' = 0 /\ stdin' = {} /\ running' = {} /\ asking' = {}
    /\ RestartEndsInError(a)
    /\ UNCHANGED <<generation, runtimeId, workVars, callVars, reader, lateActs,
                   procEnv, fresh, stdout>>

-----------------------------------------------------------------------------
(* The stdout reader of process g (spawn_stdout_reader, dispatch_incoming).  *)

ReaderAt(g, l) == reader[g].pc = l
ActedIf(g, replaced) == [lateActs EXCEPT ![g] = IF replaced THEN @ + 1 ELSE @]

\* A line of a current process is read; a response goes to its receiver at once.
ReadLine(g) ==
    LET m == Head(stdout[g])
    IN  /\ ReaderAt(g, "read") /\ stdout[g] # <<>>
        /\ stdout' = [stdout EXCEPT ![g] = Tail(@)]
        /\ IF generation # g
           THEN /\ reader' = [reader EXCEPT ![g].pc = "ended"]
                /\ UNCHANGED <<request, pending>>
           ELSE IF m.kind \in {"ok", "error"}
           THEN /\ pending' = pending \ {m.turn}
                /\ request' = IF m.turn \in pending
                              THEN [request EXCEPT !.reply = m.kind] ELSE request
                /\ UNCHANGED reader
           ELSE /\ reader' = [reader EXCEPT ![g] = [pc |-> "update", msg |-> m]]
                /\ UNCHANGED <<request, pending>>
        /\ UNCHANGED <<lifecycleVars, activeTurns, serverRequests, configVars, ctl,
                       nextId, acked, early, wiped, lateActs, processVars>>

\* Mutant: only the start of a Turn is accounted for.
TurnsStarted(m) == IF m.kind = "started" THEN activeTurns \cup {m.turn} ELSE activeTurns

\* The active Turns after a notification.
TurnsAfter(m) ==
    CASE m.kind = "started" -> activeTurns \cup {m.turn}
      [] m.kind = "completed" -> activeTurns \ {m.turn}
      [] OTHER -> activeTurns

\* update_runtime_work, whatever has become of the process.
UpdateRuntimeWork(g) ==
    LET m == reader[g].msg
    IN  /\ ReaderAt(g, "update")
        /\ activeTurns' = TurnsAfter(m)
        /\ early' = IF \/ generation # g \/ state = "stopped"
                       \/ m.kind = "completed" /\ m.turn \notin acked
                     THEN early \cup {m.turn} ELSE early
        /\ acked' = IF m.kind = "completed" THEN acked \ {m.turn} ELSE acked
        /\ lateActs' = ActedIf(g, generation # g)
        /\ serverRequests' = CASE m.kind = "ask" -> serverRequests \cup {m.turn}
                               [] m.kind = "resolved" -> serverRequests \ {m.turn}
                               [] OTHER -> serverRequests
        /\ reader' = [reader EXCEPT ![g].pc = "publish"]
        /\ UNCHANGED <<lifecycleVars, pending, configVars, ctl, request, nextId,
                       wiped, processVars, stdout>>

\* Mutant: the message is sent whatever the generation.
CheckNothing(g) ==
    /\ ReaderAt(g, "publish")
    /\ reader' = [reader EXCEPT ![g].pc = "send"]
    /\ UNCHANGED <<lifecycleVars, workVars, configVars, ctl, callVars, lateActs,
                   processVars, stdout>>

\* The generation is compared, then the instance id read, then the event sent.
CheckGeneration(g) ==
    /\ ReaderAt(g, "publish")
    /\ reader' = [reader EXCEPT ![g] = IF generation = g THEN [@ EXCEPT !.pc = "send"]
                                       ELSE Reading]
    /\ UNCHANGED <<lifecycleVars, workVars, configVars, ctl, callVars, lateActs,
                   processVars, stdout>>

SendEvent(g) ==
    /\ ReaderAt(g, "send")
    /\ lateActs' = ActedIf(g, runtimeId # g)
    /\ reader' = [reader EXCEPT ![g] = Reading]
    /\ UNCHANGED <<lifecycleVars, workVars, configVars, ctl, callVars, processVars, stdout>>

\* End of file: the reader of a replaced process just ends.
ReadEof(g) ==
    /\ ReaderAt(g, "read") /\ proc # g /\ stdout[g] = <<>>
    /\ reader' = [reader EXCEPT ![g].pc = IF generation = g THEN "close" ELSE "ended"]
    /\ UNCHANGED <<lifecycleVars, workVars, configVars, ctl, callVars, lateActs,
                   processVars, stdout>>

\* The current process is gone: fail the host, its requests and its work.
CloseRuntime(g) ==
    /\ ReaderAt(g, "close")
    /\ reader' = [reader EXCEPT ![g].pc = "ended"]
    /\ state' = IF state = "stopped" THEN state ELSE "failed"
    /\ request' = Drained(request)
    /\ activeTurns' = {} /\ serverRequests' = {} /\ pending' = {}
    /\ acked' = IF generation = g THEN {} ELSE acked
    /\ early' = {n \in {request.id} : /\ request.reply = "ok"
                                      /\ generation = g \/ n \in early}
    /\ wiped' = IF generation = g THEN {} ELSE wiped \cup activeTurns
    /\ lateActs' = ActedIf(g, generation # g)
    /\ UNCHANGED <<generation, runtimeId, lock, configVars, ctl, nextId, processVars, stdout>>

-----------------------------------------------------------------------------
(* The app-server process, external: it answers turn/start and then reports  *)
(* the Turn, its approvals and its end.                                      *)

Write(msgs) == stdout' = [stdout EXCEPT ![proc] = @ \o msgs]
Msg(kind, n) == [kind |-> kind, turn |-> n]

ProcessAnswers(n) ==
    /\ proc # 0 /\ n \in stdin
    /\ stdin' = stdin \ {n}
    /\ \/ /\ running' = running \cup {n}
          /\ Write(<<Msg("ok", n), Msg("started", n)>>)
       \/ /\ UNCHANGED running
          /\ Write(<<Msg("error", n)>>)
    /\ UNCHANGED <<lifecycleVars, workVars, configVars, ctl, callVars, reader, lateActs,
                   proc, procEnv, fresh, asking>>

TurnAsks(n) ==
    /\ n \in running \ asking
    /\ asking' = asking \cup {n}
    /\ Write(<<Msg("ask", n)>>)
    /\ UNCHANGED <<lifecycleVars, workVars, configVars, ctl, callVars, reader, lateActs,
                   proc, procEnv, fresh, stdin, running>>

\* The Turn ends; an approval it still waits for is resolved first.
TurnEnds(n) ==
    /\ n \in running
    /\ running' = running \ {n}
    /\ asking' = asking \ {n}
    /\ Write((IF n \in asking THEN <<Msg("resolved", n)>> ELSE <<>>)
                \o <<Msg("completed", n)>>)
    /\ UNCHANGED <<lifecycleVars, workVars, configVars, ctl, callVars, reader, lateActs,
                   proc, procEnv, fresh, stdin>>

ProcessCrashes ==
    /\ MayExit /\ proc # 0
    /\ proc' = 0 /\ stdin' = {} /\ running' = {} /\ asking' = {}
    /\ UNCHANGED <<lifecycleVars, workVars, configVars, ctl, callVars, reader, lateActs,
                   procEnv, fresh, stdout>>

-----------------------------------------------------------------------------

Registry ==
    \/ ScheduleRuntimeRefresh \/ (\E value \in Secrets : SetSecretEnvironment(value))
    \/ Restart \/ Shutdown

Adapter ==
    \/ PrepareRuntime \/ ApplyScheduledRestart \/ BeginRequest \/ OtherRequest
    \/ TurnStartReturns \/ RequestFails

RestartUnlocked(a) ==
    \/ BumpGeneration(a) \/ StopProcess(a) \/ SpawnProcess(a)
    \/ InitializeSucceeds(a) \/ InitializeFails(a)

Reader(g) ==
    \/ ReadLine(g) \/ UpdateRuntimeWork(g) \/ CheckGeneration(g) \/ SendEvent(g)
    \/ ReadEof(g) \/ CloseRuntime(g)

Process ==
    \/ \E n \in Turns : ProcessAnswers(n) \/ TurnAsks(n) \/ TurnEnds(n)
    \/ ProcessCrashes

Next ==
    \/ Registry \/ Adapter \/ Process
    \/ \E a \in Actors : RestartUnlocked(a)
    \/ \E g \in Procs : Reader(g)

Spec == Init /\ [][Next]_vars

-----------------------------------------------------------------------------
(* Properties. *)

MsgType == [kind : {"ok", "error", "started", "completed", "ask", "resolved"}, turn : Turns]

\* Every field of the host, the actors and the process holds a value of its type.
TypeOK ==
    /\ generation \in Procs /\ runtimeId \in Procs /\ proc \in 0..MaxProcs
    /\ state \in {"initializing", "ready", "failed", "stopped"}
    /\ lock \in Actors \cup {None}
    /\ activeTurns \subseteq Turns /\ serverRequests \subseteq Turns /\ pending \subseteq Turns
    /\ stdin \subseteq Turns /\ running \subseteq Turns /\ asking \subseteq running
    /\ acked \subseteq Turns /\ early \subseteq Turns /\ wiped \subseteq Turns
    /\ scheduled \in Secrets \cup {None} /\ env \in Secrets /\ procEnv \in Secrets
    /\ ctl \in [Actors -> [pc : {"idle", "restart", "prepare", "request", "await"}
                                  \cup Restarting,
                           env : Secrets \cup {None}]]
    /\ request \in [id : 0..MaxRequests, reply : {"none", "ok", "error"}]
    /\ nextId \in 1..(MaxRequests + 1) /\ fresh \in BOOLEAN
    /\ reader \in [Procs -> [pc : {"none", "read", "update", "publish", "send", "close", "ended"},
                             msg : MsgType \cup {None}]]
    /\ lateActs \in [Procs -> Nat]
    /\ stdout \in [Procs -> Seq(MsgType)]

\* request(): "so a credential-triggered restart cannot enter that gap": once a
\* restart is decided on, the process runs no Turn that a caller was told of, save
\* those that the reader of a replaced process has taken off the books: it found
\* itself current, was overtaken by a whole restart and then cleared the successor's.
RestartSparesTurns ==
    \A a \in Actors : ctl[a].pc \in {"bump", "stop"} => acked \cap running \subseteq wiped

\* schedule_restart: a process older than the last refresh request still has a
\* restart scheduled, or one under way, whatever failed in between.
RefreshNotLost ==
    proc # 0 /\ ~fresh => scheduled # None \/ \E a \in Actors : ctl[a].pc \in Restarting

\* set_secret_environment and a scheduled restart never leave a process running
\* with another environment than the one the registry reports.
SecretsInSync ==
    proc # 0 /\ (\A a \in Actors : ctl[a].pc \notin Restarting \cup {"restart"})
        => procEnv = env

\* The process is idle or gone, and the host has handled all it wrote.
Quiet ==
    /\ running = {} /\ stdin = {} /\ stdout[generation] = <<>>
    /\ reader[generation].pc \in IF proc = generation THEN {"read"} ELSE {"none", "ended"}
    /\ ctl["adapter"].pc = "idle" /\ lock = None

\* Work kept for a process that died "would permanently block a safe restart": when
\* all is quiet nothing is booked, however Turns, approvals, exits and restarts
\* crossed, except Turns that were booked when they were over: by turn/start itself,
\* which returned after turn/completed, or by the reader of a process that had been
\* stopped or replaced.  These stay booked.
IdleIsNotBusy == Quiet => activeTurns \cup serverRequests \subseteq early

\* The reader compares process_generation before a line, before its event and at the
\* end, and acts later.  A restart may come between; then the reader of the replaced
\* process once books its line, or publishes it under the successor's id, or clears
\* the successor's books.  It never does so twice: no backlog of a replaced process
\* is booked or published.
ReplacedReaderActsOnce == \A g \in Procs : lateActs[g] <= 1

=============================================================================
