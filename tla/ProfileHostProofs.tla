-------------------------- MODULE ProfileHostProofs --------------------------
(***************************************************************************)
(* Proofs about ProfileHost, for any number of processes, requests and     *)
(* secrets: type correctness with the lifecycle lock, no refresh and no    *)
(* secret lost over restarts that fail, Turns spared by a restart, readers *)
(* that act once after they were replaced, and no work booked for ever.    *)
(***************************************************************************)
EXTENDS ProfileHost, SequenceTheorems, TLAPS

USE DEF lifecycleVars, workVars, configVars, callVars, processVars

AdapterLabels == {"idle", "prepare", "request", "await"} \cup Restarting
RegistryLabels == {"idle", "restart"} \cup Restarting
Labels == AdapterLabels \cup RegistryLabels
States == {"initializing", "ready", "failed", "stopped"}
ReaderLabels == {"none", "read", "update", "publish", "send", "close", "ended"}

Adapt == ctl["adapter"]
Reg == ctl["registry"]

\* Who restarts holds the lifecycle lock, and the adapter's request holds it too.
ControlOK ==
    /\ ctl \in [Actors -> [pc : Labels, env : Secrets \cup {None}]]
    /\ Adapt.pc \in AdapterLabels /\ Reg.pc \in RegistryLabels
    /\ lock \in Actors \cup {None}
    /\ lock = "registry" <=> Reg.pc \in Restarting
    /\ lock = "adapter" <=> Adapt.pc \in Restarting \cup {"await"}
    /\ Adapt.env # None <=> Adapt.pc \in Restarting
    /\ Reg.pc = "idle" => Reg.env = None
    /\ scheduled \in Secrets \cup {None} /\ env \in Secrets

\* One request at a time, answered once; its number is new.
RequestOK ==
    /\ nextId \in 1..(MaxRequests + 1)
    /\ request \in [id : 0..MaxRequests, reply : {"none", "ok", "error"}]
    /\ pending \subseteq Turns /\ pending \subseteq {request.id}
    /\ request.reply # "none" => pending = {}
    /\ Adapt.pc = "await" => request.id \in Turns /\ request.id < nextId
    /\ Adapt.pc # "await" => request = NoRequest

\* The process that runs, if one does, is of the present generation, or of the one
\* before while a restart is about to stop it.
ProcessOK ==
    /\ generation \in Procs /\ runtimeId \in 1..generation /\ proc \in 0..generation
    /\ state \in States /\ fresh \in BOOLEAN /\ procEnv \in Secrets
    /\ stdin \subseteq Turns /\ running \subseteq Turns /\ asking \subseteq running
    /\ proc = 0 => stdin = {} /\ running = {}
    /\ state = "stopped" => proc = 0
    /\ \A a \in Actors : ctl[a].pc = "spawn" => state = "stopped"
    /\ \A a \in Actors : ctl[a].pc \in {"stop", "spawn"} => reader[generation].pc = "none"
    /\ proc \notin {0, generation} => \E a \in Actors : ctl[a].pc = "stop"

\* One reader per process, begun with it.
ReaderOK ==
    /\ reader \in [Procs -> [pc : ReaderLabels, msg : MsgType \cup {None}]]
    /\ stdout \in [Procs -> Seq(MsgType)]
    /\ \A g \in Procs : reader[g].pc = "update" => reader[g].msg \in MsgType
    /\ \A g \in Procs : g > generation => reader[g].pc = "none"
    /\ \A g \in Procs : reader[g].pc = "none" => stdout[g] = <<>> /\ proc # g
    /\ runtimeId # generation => reader[generation].pc = "none"
    /\ lateActs \in [Procs -> Nat]

BooksOK ==
    /\ activeTurns \subseteq Turns /\ serverRequests \subseteq Turns
    /\ acked \subseteq Turns /\ early \subseteq Turns /\ wiped \subseteq Turns

Typed == ControlOK /\ RequestOK /\ ProcessOK /\ ReaderOK /\ BooksOK

\* A process older than the last refresh request is about to be stopped, or has a
\* restart scheduled.
RefreshInv ==
    proc # 0 /\ ~fresh => scheduled # None \/ \E a \in Actors : ctl[a].pc \in {"bump", "stop"}

\* The environment that is in force until the registry's restart has spawned.
Agreed == IF Reg.env # None THEN Reg.env ELSE env

SecretInv ==
    /\ scheduled \in {None, Agreed}
    /\ Reg.pc \in Restarting => scheduled = None
    /\ Adapt.pc \in Restarting => Adapt.env = Agreed
    /\ proc # 0 => procEnv = IF Reg.pc = "initialize" THEN env ELSE Agreed

\* A request the process has not taken yet is in nothing it wrote, and in no book.
NumbersInv ==
    /\ running \cap stdin = {} /\ acked \cap stdin = {}
    /\ \A n \in running \cup stdin \cup acked : n < nextId
    /\ \A g \in Procs : \A i \in 1..Len(stdout[g]) :
          stdout[g][i].turn \notin stdin /\ stdout[g][i].turn < nextId
    /\ request.reply = "ok" => request.id \notin stdin
    /\ Adapt.pc = "await" => request.id \notin acked

\* A Turn a caller was told of is booked while it runs, or was taken off the books by
\* the reader of a replaced process.
SpareInv ==
    NumbersInv /\ acked \cap running \subseteq activeTurns \cup wiped /\ RestartSparesTurns

\* A reader that has acted for a replaced process is past none of its checks.
OnceInv ==
    \A g \in Procs :
        /\ lateActs[g] <= 1
        /\ g >= generation => lateActs[g] = 0
        /\ lateActs[g] # 0 => reader[g].pc \notin {"update", "send", "close"}

Out == stdout[generation]
In == reader[generation]

\* The end of Turn n's work is still to be read: a message of the given kind.
Ahead(k, n) == \E j \in 1..Len(Out) : Out[j] = Msg(k, n)
Behind(k, n, i) == \E j \in 1..Len(Out) : j > i /\ Out[j] = Msg(k, n)
Held(k, n) == In.pc = "update" /\ In.msg = Msg(k, n)

\* What the process reports as begun it has not ended, or has reported the end
\* behind it.
StreamInv ==
    proc = generation =>
    /\ In.pc \notin {"none", "ended", "close"}
    /\ \A i \in 1..Len(Out) : LET m == Out[i] IN
          /\ m.kind \in {"ok", "started"} => m.turn \in running \/ Behind("completed", m.turn, i)
          /\ m.kind = "ask" => m.turn \in asking \/ Behind("resolved", m.turn, i)
    /\ In.pc = "update" =>
          /\ In.msg.kind = "started" => In.msg.turn \in running \/ Ahead("completed", In.msg.turn)
          /\ In.msg.kind = "ask" => In.msg.turn \in asking \/ Ahead("resolved", In.msg.turn)

\* The books are going to be cleared.
Clearing == state # "stopped" /\ \E a \in Actors : ctl[a].pc = "stop"
Dying == proc # generation /\ In.pc \notin {"none", "ended"}
\* Turn n, its approval, is going to be taken off the books.
Ending(n) == proc = generation /\ (n \in running \/ Ahead("completed", n) \/ Held("completed", n))
Resolving(n) == proc = generation /\ (n \in asking \/ Ahead("resolved", n) \/ Held("resolved", n))

BookedInv ==
    /\ \A n \in activeTurns : n \in early \/ Clearing \/ Dying \/ Ending(n)
    /\ \A n \in serverRequests : n \in early \/ Clearing \/ Dying \/ Resolving(n)
    /\ request.reply = "ok" => request.id \in early \/ Dying \/ Ending(request.id)
    /\ state = "stopped" => activeTurns \cup serverRequests \subseteq early /\ Adapt.pc # "await"

IdleInv == StreamInv /\ BookedInv

-----------------------------------------------------------------------------
(* The two actors. *)

\* There are two actors.
LEMMA ActorsAre ==
    /\ "adapter" \in Actors /\ "registry" \in Actors
    /\ \A a \in Actors : a = "adapter" \/ a = "registry"
BY DEF Actors

\* An actor goes on.
LEMMA CtlGoto ==
    ASSUME ControlOK, NEW a \in Actors, NEW l \in Labels, Goto(a, l)
    PROVE  /\ ctl' \in [Actors -> [pc : Labels, env : Secrets \cup {None}]]
           /\ ctl'[a].pc = l /\ ctl'[a].env = ctl[a].env
           /\ \A b \in Actors \ {a} : ctl'[b] = ctl[b]
<1>1. ctl \in [Actors -> [pc : Labels, env : Secrets \cup {None}]]
  BY DEF ControlOK
<1>2. ctl[a] \in [pc : Labels, env : Secrets \cup {None}]
  BY <1>1
<1>3. /\ [ctl[a] EXCEPT !.pc = l] \in [pc : Labels, env : Secrets \cup {None}]
      /\ [ctl[a] EXCEPT !.pc = l].pc = l /\ [ctl[a] EXCEPT !.pc = l].env = ctl[a].env
  BY <1>2
<1>4. ctl' = [ctl EXCEPT ![a] = [ctl[a] EXCEPT !.pc = l]]
  BY DEF Goto
<1> HIDE DEF Labels
<1> QED
  BY <1>1, <1>3, <1>4

\* An actor goes on, with an environment or without one.
LEMMA CtlSet ==
    ASSUME ControlOK, NEW a \in Actors, NEW l \in Labels, NEW e \in Secrets \cup {None},
           ctl' = [ctl EXCEPT ![a] = [pc |-> l, env |-> e]]
    PROVE  /\ ctl' \in [Actors -> [pc : Labels, env : Secrets \cup {None}]]
           /\ ctl'[a].pc = l /\ ctl'[a].env = e
           /\ \A b \in Actors \ {a} : ctl'[b] = ctl[b]
BY DEF ControlOK

\* The adapter is done.
LEMMA AdapterDone ==
    ASSUME ControlOK, ctl' = [ctl EXCEPT !["adapter"] = Idle]
    PROVE  /\ ctl' \in [Actors -> [pc : Labels, env : Secrets \cup {None}]]
           /\ ctl'["adapter"].pc = "idle" /\ ctl'["adapter"].env = None
           /\ ctl'["registry"] = ctl["registry"]
<1>1. "adapter" \in Actors /\ "registry" \in Actors \ {"adapter"}
  BY DEF Actors
<1>2. "idle" \in Labels /\ None \in Secrets \cup {None}
  BY DEF Labels, AdapterLabels
<1>3. /\ Idle \in [pc : Labels, env : Secrets \cup {None}]
      /\ Idle.pc = "idle" /\ Idle.env = None
  BY <1>2 DEF Idle
<1>4. ctl \in [Actors -> [pc : Labels, env : Secrets \cup {None}]]
  BY DEF ControlOK
<1>5. ctl'["adapter"] = Idle /\ ctl'["registry"] = ctl["registry"]
  BY <1>1, <1>4
<1>6. ctl' \in [Actors -> [pc : Labels, env : Secrets \cup {None}]]
  BY <1>3, <1>4
<1> QED
  BY <1>3, <1>5, <1>6

\* The registry's restart() failed.
LEMMA CtlFailed ==
    ASSUME ControlOK, RestartFailed
    PROVE  /\ ctl' \in [Actors -> [pc : Labels, env : Secrets \cup {None}]]
           /\ ctl'["adapter"] = ctl["adapter"] /\ ctl'["registry"].env = None
           /\ \/ ctl'["registry"].pc = "restart" /\ Reg.env # None /\ env' = Reg.env
              \/ ctl'["registry"].pc = "idle" /\ Reg.env = None /\ env' = env
<1>0. "restart" \in Labels /\ "idle" \in Labels
  BY DEF Labels, AdapterLabels, RegistryLabels
<1>1. CASE Reg.env # None
  <2>1. ctl' = [ctl EXCEPT !["registry"] = [pc |-> "restart", env |-> None]] /\ env' = Reg.env
    BY <1>1 DEF RestartFailed, Reg
  <2> QED
    BY <1>0, <1>1, <2>1, CtlSet, ActorsAre
<1>2. CASE Reg.env = None
  <2>1. ctl' = [ctl EXCEPT !["registry"] = [pc |-> "idle", env |-> None]] /\ env' = env
    BY <1>2 DEF RestartFailed, Reg, Idle
  <2> QED
    BY <1>0, <1>2, <2>1, CtlSet, ActorsAre
<1> QED
  BY <1>1, <1>2

\* How a restart that fails leaves restart_unlocked.
LEMMA CtlError ==
    ASSUME ControlOK, NEW a \in Actors, ctl[a].pc \in Restarting, RestartEndsInError(a)
    PROVE  /\ ControlOK' /\ lock' = None
           /\ \/ /\ a = "adapter" /\ Adapt'.pc = "idle" /\ Reg' = Reg /\ env' = env
                 /\ scheduled' = Adapt.env /\ scheduled' # None
              \/ /\ a = "registry" /\ Adapt' = Adapt /\ scheduled' = scheduled /\ Reg'.env = None
                 /\ \/ Reg'.pc = "restart" /\ Reg.env # None /\ env' = Reg.env
                    \/ Reg'.pc = "idle" /\ Reg.env = None /\ env' = env
<1> USE ActorsAre, HostConstants
<1>0. /\ "idle" \in Labels /\ None \in Secrets \cup {None}
      /\ {"idle", "restart", "await"} \cap Restarting = {}
      /\ "idle" \in AdapterLabels /\ "idle" \in RegistryLabels /\ "restart" \in RegistryLabels
  BY DEF Labels, AdapterLabels, RegistryLabels, Restarting
<1>1. CASE a = "adapter"
  <2>1. /\ ctl' = [ctl EXCEPT !["adapter"] = Idle]
        /\ lock' = None /\ env' = env /\ scheduled' = PutBack
    BY <1>1 DEF RestartEndsInError
  <2>2. /\ ctl' \in [Actors -> [pc : Labels, env : Secrets \cup {None}]]
        /\ ctl'["adapter"].pc = "idle" /\ ctl'["adapter"].env = None
        /\ ctl'["registry"] = ctl["registry"]
    BY <2>1, AdapterDone
  <2>3. scheduled' = Adapt.env /\ Adapt.env # None /\ Adapt.env \in Secrets
    BY <1>1, <2>1 DEF PutBack, ControlOK, Adapt
  <2>4. lock = "adapter" /\ Reg.pc \notin Restarting
    BY <1>1 DEF ControlOK, Adapt
  <2> QED
    BY <1>0, <1>1, <2>1, <2>2, <2>3, <2>4 DEF ControlOK, Adapt, Reg
<1>2. CASE a = "registry"
  <2>1. RestartFailed /\ lock' = None /\ scheduled' = scheduled
    BY <1>2 DEF RestartEndsInError
  <2>2. lock = "registry" /\ Adapt.pc \notin Restarting \cup {"await"}
    BY <1>2 DEF ControlOK, Reg
  <2>3. env' \in Secrets
    BY <2>1, CtlFailed DEF ControlOK, Reg
  <2> QED
    BY <1>0, <1>2, <2>1, <2>2, <2>3, CtlFailed DEF ControlOK, Adapt, Reg
<1> QED
  BY <1>1, <1>2

\* The lifecycle lock excludes: every step keeps ControlOK.
LEMMA ControlStep ==
    ASSUME Typed, [Next]_vars
    PROVE  ControlOK'
<1> USE ActorsAre, HostConstants
<1>0. ControlOK
  BY DEF Typed
<1>a. /\ Labels = AdapterLabels \cup RegistryLabels
      /\ AdapterLabels = {"idle", "prepare", "request", "await"} \cup Restarting
      /\ RegistryLabels = {"idle", "restart"} \cup Restarting
      /\ Restarting = {"bump", "stop", "spawn", "initialize"}
  BY DEF Labels, AdapterLabels, RegistryLabels, Restarting
<1>1. CASE UNCHANGED <<ctl, lock, scheduled, env>>
  BY <1>0, <1>1 DEF ControlOK, Adapt, Reg
<1>2. CASE Process \/ UNCHANGED vars
  BY <1>1, <1>2 DEF Process, ProcessAnswers, TurnAsks, TurnEnds, ProcessCrashes, vars
<1>3. ASSUME NEW g \in Procs, Reader(g)
      PROVE  ControlOK'
  BY <1>1, <1>3 DEF Reader, ReadLine, UpdateRuntimeWork, CheckGeneration, SendEvent, ReadEof, CloseRuntime
<1>4. CASE Registry
  <2>1. CASE ScheduleRuntimeRefresh
    BY <1>0, <2>1 DEF ScheduleRuntimeRefresh, ControlOK, Adapt, Reg
  <2>2. ASSUME NEW value \in Secrets, SetSecretEnvironment(value)
        PROVE  ControlOK'
    <3>1. /\ ctl' = [ctl EXCEPT !["registry"] = [pc |-> "restart", env |-> env]]
          /\ Reg.pc = "idle" /\ env \in Secrets
          /\ UNCHANGED <<lock, scheduled>> /\ env' \in Secrets
      BY <1>0, <2>2 DEF SetSecretEnvironment, ControlOK, Reg
    <3>2. /\ ctl' \in [Actors -> [pc : Labels, env : Secrets \cup {None}]]
          /\ ctl'["registry"].pc = "restart"
          /\ ctl'["adapter"] = ctl["adapter"]
      BY <1>0, <1>a, <3>1, CtlSet
    <3> QED
      BY <1>0, <1>a, <3>1, <3>2 DEF ControlOK, Adapt, Reg
  <2>3. CASE Restart
    <3>1. CASE Busy
      <4>1. RestartFailed /\ UNCHANGED <<lock, scheduled>> /\ Reg.pc = "restart" /\ lock = None
        BY <2>3, <3>1 DEF Restart, Reg
      <4>2. env' \in Secrets
        BY <1>0, <4>1, CtlFailed DEF ControlOK, Reg
      <4> QED
        BY <1>0, <1>a, <4>1, <4>2, CtlFailed DEF ControlOK, Adapt, Reg
    <3>2. CASE ~Busy
      <4>1. /\ Goto("registry", "bump") /\ lock = None /\ lock' = "registry" /\ scheduled' = None
            /\ Reg.pc = "restart" /\ env' = env
        BY <2>3, <3>2 DEF Restart, Reg
      <4>2. /\ ctl' \in [Actors -> [pc : Labels, env : Secrets \cup {None}]]
            /\ ctl'["registry"].pc = "bump" /\ ctl'["adapter"] = ctl["adapter"]
        BY <1>0, <1>a, <4>1, CtlGoto
      <4> QED
        BY <1>0, <1>a, <4>1, <4>2 DEF ControlOK, Adapt, Reg
    <3> QED
      BY <3>1, <3>2
  <2>4. CASE Shutdown
    BY <1>0, <2>4 DEF Shutdown, ControlOK, Adapt, Reg
  <2> QED
    BY <1>4, <2>1, <2>2, <2>3, <2>4 DEF Registry
<1>5. CASE Adapter
  <2>1. CASE PrepareRuntime
    <3>1. /\ Goto("adapter", "prepare") /\ Adapt.pc = "idle" /\ UNCHANGED <<lock, scheduled, env>>
      BY <2>1 DEF PrepareRuntime, Adapt
    <3>2. /\ ctl' \in [Actors -> [pc : Labels, env : Secrets \cup {None}]]
          /\ ctl'["adapter"].pc = "prepare" /\ ctl'["adapter"].env = ctl["adapter"].env
          /\ ctl'["registry"] = ctl["registry"]
      BY <1>0, <1>a, <3>1, CtlGoto
    <3> QED
      BY <1>0, <1>a, <3>1, <3>2 DEF ControlOK, Adapt, Reg
  <2>2. CASE ApplyScheduledRestart
    <3>0. Adapt.pc = "prepare" /\ lock = None /\ env' = env
      BY <2>2 DEF ApplyScheduledRestart, Adapt
    <3>1. CASE Goto("adapter", "request") /\ UNCHANGED <<lock, scheduled>>
      <4>1. /\ ctl' \in [Actors -> [pc : Labels, env : Secrets \cup {None}]]
            /\ ctl'["adapter"].pc = "request" /\ ctl'["adapter"].env = ctl["adapter"].env
            /\ ctl'["registry"] = ctl["registry"]
        BY <1>0, <1>a, <3>1, CtlGoto
      <4> QED
        BY <1>0, <1>a, <3>0, <3>1, <4>1 DEF ControlOK, Adapt, Reg
    <3>2. CASE /\ ctl' = [ctl EXCEPT !["adapter"] = Idle]
               /\ scheduled' = PutBack /\ UNCHANGED lock
      <4>1. /\ ctl' \in [Actors -> [pc : Labels, env : Secrets \cup {None}]]
            /\ ctl'["adapter"].pc = "idle" /\ ctl'["adapter"].env = None
            /\ ctl'["registry"] = ctl["registry"]
        BY <1>0, <3>2, AdapterDone
      <4>2. scheduled' \in Secrets \cup {None}
        BY <1>0, <3>2 DEF PutBack, ControlOK
      <4> QED
        BY <1>0, <1>a, <3>0, <3>2, <4>1, <4>2 DEF ControlOK, Adapt, Reg
    <3>3. CASE /\ ctl' = [ctl EXCEPT !["adapter"] = [pc |-> "bump", env |-> scheduled]]
               /\ lock' = "adapter" /\ scheduled' = None /\ scheduled # None
      <4>1. /\ ctl' \in [Actors -> [pc : Labels, env : Secrets \cup {None}]]
            /\ ctl'["adapter"].pc = "bump" /\ ctl'["adapter"].env = scheduled
            /\ ctl'["registry"] = ctl["registry"]
        <5>1. scheduled \in Secrets \cup {None}
          BY <1>0 DEF ControlOK
        <5> QED
          BY <1>0, <1>a, <3>3, <5>1, CtlSet
      <4> QED
        BY <1>0, <1>a, <3>0, <3>3, <4>1 DEF ControlOK, Adapt, Reg
    <3> QED
      BY <2>2, <3>1, <3>2, <3>3 DEF ApplyScheduledRestart
  <2>3. CASE BeginRequest
    <3>0. Adapt.pc = "request" /\ lock = None /\ UNCHANGED <<env, scheduled>>
      BY <2>3 DEF BeginRequest, Adapt
    <3>1. CASE Goto("adapter", "await") /\ lock' = "adapter"
      <4>1. /\ ctl' \in [Actors -> [pc : Labels, env : Secrets \cup {None}]]
            /\ ctl'["adapter"].pc = "await" /\ ctl'["adapter"].env = ctl["adapter"].env
            /\ ctl'["registry"] = ctl["registry"]
        BY <1>0, <1>a, <3>1, CtlGoto
      <4> QED
        BY <1>0, <1>a, <3>0, <3>1, <4>1 DEF ControlOK, Adapt, Reg
    <3>2. CASE ctl' = [ctl EXCEPT !["adapter"] = Idle] /\ UNCHANGED lock
      <4>1. /\ ctl' \in [Actors -> [pc : Labels, env : Secrets \cup {None}]]
            /\ ctl'["adapter"].pc = "idle" /\ ctl'["adapter"].env = None
            /\ ctl'["registry"] = ctl["registry"]
        BY <1>0, <3>2, AdapterDone
      <4> QED
        BY <1>0, <1>a, <3>0, <3>2, <4>1 DEF ControlOK, Adapt, Reg
    <3> QED
      BY <2>3, <3>1, <3>2 DEF BeginRequest
  <2>4. CASE OtherRequest
    <3>1. /\ Adapt.pc = "request" /\ lock = None /\ UNCHANGED <<env, scheduled, lock>>
          /\ ctl' = [ctl EXCEPT !["adapter"] = Idle]
      BY <2>4 DEF OtherRequest, Adapt, lifecycleVars, configVars
    <3>2. /\ ctl' \in [Actors -> [pc : Labels, env : Secrets \cup {None}]]
          /\ ctl'["adapter"].pc = "idle" /\ ctl'["adapter"].env = None
          /\ ctl'["registry"] = ctl["registry"]
      BY <1>0, <3>1, AdapterDone
    <3> QED
      BY <1>0, <1>a, <3>1, <3>2 DEF ControlOK, Adapt, Reg
  <2>5. CASE TurnStartReturns \/ RequestFails
    <3>1. /\ ctl' = [ctl EXCEPT !["adapter"] = Idle] /\ lock' = None
          /\ Adapt.pc = "await" /\ UNCHANGED <<env, scheduled>>
      BY <2>5 DEF TurnStartReturns, RequestFails, EndRequest, Adapt
    <3>2. /\ ctl' \in [Actors -> [pc : Labels, env : Secrets \cup {None}]]
          /\ ctl'["adapter"].pc = "idle" /\ ctl'["adapter"].env = None
          /\ ctl'["registry"] = ctl["registry"]
      BY <1>0, <3>1, AdapterDone
    <3> QED
      BY <1>0, <1>a, <3>1, <3>2 DEF ControlOK, Adapt, Reg
  <2> QED
    BY <1>5, <2>1, <2>2, <2>3, <2>4, <2>5 DEF Adapter
<1>6. ASSUME NEW a \in Actors, RestartUnlocked(a)
      PROVE  ControlOK'
  <2>0. ctl[a].pc \in Restarting
    BY <1>6, <1>a DEF RestartUnlocked, BumpGeneration, StopProcess, SpawnProcess, InitializeSucceeds,
       InitializeFails
  <2>1. ASSUME NEW l \in Restarting, Goto(a, l), UNCHANGED <<lock, scheduled, env>>
        PROVE  ControlOK'
    <3>1. /\ ctl' \in [Actors -> [pc : Labels, env : Secrets \cup {None}]]
          /\ ctl'[a].pc = l /\ ctl'[a].env = ctl[a].env
          /\ \A b \in Actors \ {a} : ctl'[b] = ctl[b]
      BY <1>0, <1>a, <2>1, CtlGoto
    <3>2. CASE a = "adapter"
      BY <1>0, <1>a, <2>0, <2>1, <3>1, <3>2 DEF ControlOK, Adapt, Reg
    <3>3. CASE a = "registry"
      BY <1>0, <1>a, <2>0, <2>1, <3>1, <3>3 DEF ControlOK, Adapt, Reg
    <3> QED
      BY <3>2, <3>3
  <2>2. CASE BumpGeneration(a) \/ StopProcess(a)
    BY <1>a, <2>1, <2>2 DEF BumpGeneration, StopProcess
  <2>3. CASE SpawnProcess(a)
    BY <1>0, <1>a, <2>0, <2>1, <2>3, CtlError DEF SpawnProcess
  <2>4. CASE InitializeSucceeds(a)
    <3>1. PICK l \in {"request", "idle"} :
            /\ ctl' = [ctl EXCEPT ![a] = [pc |-> l, env |-> None]]
            /\ a = "registry" => l = "idle"
      BY <2>4 DEF InitializeSucceeds
    <3>2. /\ ctl' \in [Actors -> [pc : Labels, env : Secrets \cup {None}]]
          /\ ctl'[a].pc = l /\ ctl'[a].env = None
          /\ \A b \in Actors \ {a} : ctl'[b] = ctl[b]
      BY <1>0, <1>a, <3>1, CtlSet
    <3>3. lock' = None /\ UNCHANGED <<scheduled, env>>
      BY <2>4 DEF InitializeSucceeds
    <3>4. CASE a = "adapter"
      BY <1>0, <1>a, <2>0, <3>2, <3>3, <3>4 DEF ControlOK, Adapt, Reg
    <3>5. CASE a = "registry"
      BY <1>0, <1>a, <2>0, <3>1, <3>2, <3>3, <3>5 DEF ControlOK, Adapt, Reg
    <3> QED
      BY <3>4, <3>5
  <2>5. CASE InitializeFails(a)
    BY <1>0, <2>0, <2>5, CtlError DEF InitializeFails
  <2> QED
    BY <1>6, <2>2, <2>3, <2>4, <2>5 DEF RestartUnlocked
<1> QED
  BY <1>2, <1>3, <1>4, <1>5, <1>6 DEF Next

\* The actor that restarts has the lock, and the other one keeps still.
LEMMA CtlRestart ==
    ASSUME ControlOK, NEW a \in Actors, RestartUnlocked(a)
    PROVE  /\ lock = a /\ ctl[a].pc \in Restarting
           /\ \A b \in Actors \ {a} : ctl'[b] = ctl[b] /\ ctl[b].pc \notin Restarting \cup {"await"}
           /\ ctl'[a].pc # "await"
           /\ BumpGeneration(a) => ctl[a].pc = "bump" /\ ctl'[a].pc = "stop" /\ ctl'[a].env = ctl[a].env
           /\ StopProcess(a) => ctl[a].pc = "stop" /\ ctl'[a].pc = "spawn" /\ ctl'[a].env = ctl[a].env
<1> USE ActorsAre, HostConstants
<1>a. /\ Labels = AdapterLabels \cup RegistryLabels
      /\ AdapterLabels = {"idle", "prepare", "request", "await"} \cup Restarting
      /\ RegistryLabels = {"idle", "restart"} \cup Restarting
      /\ Restarting = {"bump", "stop", "spawn", "initialize"}
  BY DEF Labels, AdapterLabels, RegistryLabels, Restarting
<1>1. ctl[a].pc \in Restarting
  BY <1>a DEF RestartUnlocked, BumpGeneration, StopProcess, SpawnProcess, InitializeSucceeds,
     InitializeFails
<1>2. lock = a
  BY <1>1 DEF ControlOK, Adapt, Reg
<1>3. \A b \in Actors \ {a} : ctl[b].pc \notin Restarting \cup {"await"}
  BY <1>a, <1>2 DEF ControlOK, Adapt, Reg
<1>4. ASSUME NEW l \in Restarting, Goto(a, l)
      PROVE  /\ ctl'[a].pc = l /\ ctl'[a].env = ctl[a].env
             /\ \A b \in Actors \ {a} : ctl'[b] = ctl[b]
  BY <1>a, <1>4, CtlGoto
<1>5. BumpGeneration(a) => ctl[a].pc = "bump" /\ ctl'[a].pc = "stop" /\ ctl'[a].env = ctl[a].env
  BY <1>a, <1>4 DEF BumpGeneration
<1>6. StopProcess(a) => ctl[a].pc = "stop" /\ ctl'[a].pc = "spawn" /\ ctl'[a].env = ctl[a].env
  BY <1>a, <1>4 DEF StopProcess
<1>7. CASE BumpGeneration(a) \/ StopProcess(a)
  BY <1>1, <1>2, <1>3, <1>4, <1>5, <1>6, <1>7, <1>a DEF BumpGeneration, StopProcess
<1>8. CASE RestartEndsInError(a)
  <2>1. \A b \in Actors \ {a} : ctl'[b] = ctl[b]
    BY <1>1, <1>8, CtlError DEF Adapt, Reg
  <2>2. ctl'[a].pc # "await"
    BY <1>1, <1>8, CtlError DEF Adapt, Reg
  <2> QED
    BY <1>1, <1>2, <1>3, <1>5, <1>6, <2>1, <2>2
<1>9. CASE InitializeSucceeds(a)
  <2>1. PICK l \in {"request", "idle"} :
          ctl' = [ctl EXCEPT ![a] = [pc |-> l, env |-> None]]
    BY <1>9 DEF InitializeSucceeds
  <2>2. ctl'[a].pc = l /\ \A b \in Actors \ {a} : ctl'[b] = ctl[b]
    BY <1>a, <2>1, CtlSet
  <2> QED
    BY <1>1, <1>2, <1>3, <1>5, <1>6, <2>2
<1>10. CASE SpawnProcess(a) /\ Goto(a, "initialize")
  BY <1>1, <1>2, <1>3, <1>4, <1>5, <1>6, <1>10, <1>a
<1> QED
  BY <1>7, <1>8, <1>9, <1>10 DEF RestartUnlocked, SpawnProcess, InitializeFails

\* Who takes no step keeps its place, and the adapter goes on only from where it is.
LEMMA AdapterStays ==
    ASSUME ControlOK, Registry \/ Process \/ (\E g \in Procs : Reader(g))
    PROVE  ctl'["adapter"] = ctl["adapter"] /\ nextId' = nextId
<1> USE ActorsAre
<1>1. CASE Process
  BY <1>1 DEF Process, ProcessAnswers, TurnAsks, TurnEnds, ProcessCrashes
<1>2. CASE \E g \in Procs : Reader(g)
  BY <1>2 DEF Reader, ReadLine, UpdateRuntimeWork, CheckGeneration, SendEvent, ReadEof, CloseRuntime
<1>3. CASE Registry
  <2>1. CASE ScheduleRuntimeRefresh \/ Shutdown
    BY <2>1 DEF ScheduleRuntimeRefresh, Shutdown
  <2>2. CASE \E value \in Secrets : SetSecretEnvironment(value)
    BY <2>2 DEF SetSecretEnvironment, ControlOK
  <2>3. CASE Restart
    <3>1. CASE RestartFailed
      BY <2>3, <3>1, CtlFailed DEF Restart
    <3>2. CASE Goto("registry", "bump")
      <4>1. "bump" \in Labels
        BY DEF Labels, AdapterLabels, Restarting
      <4> QED
        BY <2>3, <3>2, <4>1, CtlGoto DEF Restart
    <3> QED
      BY <2>3, <3>1, <3>2 DEF Restart
  <2> QED
    BY <1>3, <2>1, <2>2, <2>3 DEF Registry
<1> QED
  BY <1>1, <1>2, <1>3

-----------------------------------------------------------------------------
(* The adapter's request. *)

\* A drained request keeps its number, and nothing is pending then.
LEMMA DrainedOK ==
    ASSUME RequestOK
    PROVE  /\ Drained(request) \in [id : 0..MaxRequests, reply : {"none", "ok", "error"}]
           /\ Drained(request).id = request.id
           /\ Drained(request).reply = "ok" => request.reply = "ok"
           /\ Adapt.pc # "await" => Drained(request) = NoRequest
<1>1. request \in [id : 0..MaxRequests, reply : {"none", "ok", "error"}]
  BY DEF RequestOK
<1>2. CASE request.id \in pending
  <2>1. Adapt.pc = "await"
    BY <1>2 DEF RequestOK, NoRequest, Turns
  <2>2. Drained(request) = [request EXCEPT !.reply = "error"]
    BY <1>2 DEF Drained
  <2> QED
    BY <1>1, <2>1, <2>2
<1>3. CASE request.id \notin pending
  BY <1>1, <1>3 DEF Drained, RequestOK
<1> QED
  BY <1>2, <1>3

\* One request at a time, under a new number: every step keeps RequestOK.
LEMMA RequestStep ==
    ASSUME Typed, [Next]_vars
    PROVE  RequestOK'
<1> USE ActorsAre, HostConstants
<1>0. ControlOK /\ RequestOK
  BY DEF Typed
<1>1. ASSUME UNCHANGED <<request, pending, nextId>>, Adapt'.pc = Adapt.pc
      PROVE  RequestOK'
  BY <1>0, <1>1 DEF RequestOK
<1>2. ASSUME UNCHANGED <<request, pending, nextId>>, Adapt.pc # "await", Adapt'.pc # "await"
      PROVE  RequestOK'
  BY <1>0, <1>2 DEF RequestOK
<1>3. ASSUME request' = Drained(request), pending' = {}, nextId' = nextId,
             (Adapt.pc = "await") = (Adapt'.pc = "await"),
             Adapt'.pc # "idle" => Adapt.pc # "idle"
      PROVE  RequestOK'
  <2>1. /\ request' \in [id : 0..MaxRequests, reply : {"none", "ok", "error"}]
        /\ request'.id = request.id
        /\ Adapt.pc # "await" => request' = NoRequest
    BY <1>0, <1>3, DrainedOK
  <2> QED
    BY <1>0, <1>3, <2>1 DEF RequestOK
<1>4. CASE Registry \/ Process
  <2>1. CASE Shutdown
    <3>1. request' = Drained(request) /\ pending' = {} /\ nextId' = nextId /\ ctl' = ctl
      BY <2>1 DEF Shutdown
    <3> QED
      BY <1>3, <3>1 DEF Adapt
  <2>2. CASE ~Shutdown
    <3>1. Adapt' = Adapt
      BY <1>0, <1>4, AdapterStays DEF Adapt
    <3>2. UNCHANGED <<request, pending, nextId>>
      BY <1>4, <2>2 DEF Registry, ScheduleRuntimeRefresh, SetSecretEnvironment, Restart, Process,
         ProcessAnswers, TurnAsks, TurnEnds, ProcessCrashes
    <3> QED
      BY <1>1, <3>1, <3>2
  <2> QED
    BY <2>1, <2>2
<1>5. ASSUME NEW g \in Procs, Reader(g)
      PROVE  RequestOK'
  <2>1. Adapt' = Adapt
    BY <1>0, <1>5, AdapterStays DEF Adapt
  <2>2. CASE CloseRuntime(g)
    BY <1>3, <2>1, <2>2 DEF CloseRuntime
  <2>3. CASE ReadLine(g)
    <3>1. CASE UNCHANGED <<request, pending>>
      BY <1>1, <2>1, <2>3, <3>1 DEF ReadLine
    <3>2. CASE ~UNCHANGED <<request, pending>>
      <4> DEFINE m == Head(stdout[g])
      <4>1. /\ m.kind \in {"ok", "error"}
            /\ pending' = pending \ {m.turn} /\ nextId' = nextId
            /\ request' = IF m.turn \in pending THEN [request EXCEPT !.reply = m.kind] ELSE request
        BY <2>3, <3>2 DEF ReadLine
      <4> HIDE DEF m
      <4>2. CASE m.turn \in pending
        <5>1. pending = {request.id} /\ pending' = {} /\ Adapt.pc = "await"
          BY <1>0, <4>1, <4>2 DEF RequestOK, NoRequest, Turns
        <5>2. /\ request' \in [id : 0..MaxRequests, reply : {"none", "ok", "error"}]
              /\ request'.id = request.id
          BY <1>0, <4>1, <4>2 DEF RequestOK
        <5> QED
          BY <1>0, <2>1, <4>1, <5>1, <5>2 DEF RequestOK
      <4>3. CASE m.turn \notin pending
        BY <1>1, <2>1, <4>1, <4>3
      <4> QED
        BY <4>2, <4>3
    <3> QED
      BY <3>1, <3>2
  <2>4. CASE UpdateRuntimeWork(g) \/ CheckGeneration(g) \/ SendEvent(g) \/ ReadEof(g)
    BY <1>1, <2>1, <2>4 DEF UpdateRuntimeWork, CheckGeneration, SendEvent, ReadEof
  <2> QED
    BY <1>5, <2>2, <2>3, <2>4 DEF Reader
<1>6. CASE Adapter
  <2>1. CASE PrepareRuntime
    <3>1. "prepare" \in Labels
      BY DEF Labels, AdapterLabels
    <3>2. Adapt'.pc = "prepare"
      BY <1>0, <2>1, <3>1, CtlGoto DEF PrepareRuntime, Adapt
    <3> QED
      BY <1>2, <2>1, <3>2 DEF PrepareRuntime, Adapt
  <2>2. CASE ApplyScheduledRestart
    <3>1. Adapt'.pc # "await"
      <4>1. CASE Goto("adapter", "request")
        BY <1>0, <4>1, CtlGoto DEF Adapt, Labels, AdapterLabels
      <4>2. CASE \/ ctl' = [ctl EXCEPT !["adapter"] = Idle]
                 \/ ctl' = [ctl EXCEPT !["adapter"] = [pc |-> "bump", env |-> scheduled]]
        BY <1>0, <4>2 DEF Adapt, Idle, ControlOK
      <4> QED
        BY <2>2, <4>1, <4>2 DEF ApplyScheduledRestart
    <3> QED
      BY <1>2, <2>2, <3>1 DEF ApplyScheduledRestart, Adapt
  <2>3. CASE BeginRequest
    <3>1. /\ Adapt.pc = "request" /\ nextId' = nextId + 1 /\ nextId \in 1..MaxRequests
          /\ request = NoRequest /\ pending = {}
      <4>1. Adapt.pc = "request" /\ nextId' = nextId + 1 
        BY <2>3 DEF BeginRequest, Adapt
      <4>2. request = NoRequest /\ nextId \in 1..MaxRequests
        BY <1>0, <2>3, <4>1 DEF RequestOK, BeginRequest
      <4>3. pending = {}
        BY <1>0, <4>2 DEF RequestOK, NoRequest, Turns
      <4> QED
        BY <4>1, <4>2, <4>3
    <3>a. nextId' \in 1..(MaxRequests + 1) /\ nextId < nextId' /\ nextId \in 0..MaxRequests
      BY <3>1
    <3>2. CASE proc # 0
      <4>1. /\ pending' = pending \cup {nextId} /\ request' = [id |-> nextId, reply |-> "none"]
            /\ Goto("adapter", "await")
        BY <2>3, <3>2 DEF BeginRequest
      <4>2. Adapt'.pc = "await"
        BY <1>0, <4>1, CtlGoto DEF Adapt, Labels, AdapterLabels
      <4>3. /\ request' \in [id : 0..MaxRequests, reply : {"none", "ok", "error"}]
            /\ request'.id = nextId /\ request'.reply = "none"
        BY <3>a, <4>1
      <4> QED
        BY <3>1, <3>a, <4>1, <4>2, <4>3 DEF RequestOK, Turns
    <3>3. CASE proc = 0
      <4>1. UNCHANGED <<pending, request>> /\ ctl' = [ctl EXCEPT !["adapter"] = Idle]
        BY <2>3, <3>3 DEF BeginRequest
      <4>2. Adapt'.pc = "idle"
        BY <1>0, <4>1 DEF Adapt, Idle, ControlOK
      <4> QED
        BY <1>0, <3>1, <3>a, <4>1, <4>2 DEF RequestOK
    <3> QED
      BY <3>2, <3>3
  <2>4. CASE OtherRequest
    <3>1. /\ UNCHANGED <<request, pending, nextId>> /\ Adapt.pc = "request"
          /\ ctl' = [ctl EXCEPT !["adapter"] = Idle]
      BY <2>4 DEF OtherRequest, Adapt, callVars, workVars
    <3>2. Adapt'.pc = "idle"
      BY <1>0, <3>1 DEF Adapt, Idle, ControlOK
    <3> QED
      BY <1>2, <3>1, <3>2
  <2>5. CASE TurnStartReturns \/ RequestFails
    <3>1. /\ ctl' = [ctl EXCEPT !["adapter"] = Idle] /\ request' = NoRequest /\ nextId' = nextId
          /\ Adapt.pc = "await"
          /\ \/ request.reply = "ok" /\ pending' = pending
             \/ pending' = pending \ {request.id}
      BY <2>5 DEF TurnStartReturns, RequestFails, EndRequest, Adapt
    <3>2. Adapt'.pc = "idle"
      BY <1>0, <3>1 DEF Adapt, Idle, ControlOK
    <3>3. pending' = {}
      BY <1>0, <3>1 DEF RequestOK
    <3>4. NoRequest \in [id : 0..MaxRequests, reply : {"none", "ok", "error"}]
      BY DEF NoRequest
    <3> QED
      BY <1>0, <3>1, <3>2, <3>3, <3>4 DEF RequestOK
  <2> QED
    BY <1>6, <2>1, <2>2, <2>3, <2>4, <2>5 DEF Adapter
<1>7. ASSUME NEW a \in Actors, RestartUnlocked(a)
      PROVE  RequestOK'
  <2>1. Adapt.pc # "await" /\ Adapt'.pc # "await"
    <3>1. CASE a = "adapter"
      BY <1>0, <1>7, <3>1, CtlRestart DEF Adapt, Restarting
    <3>2. CASE a = "registry"
      BY <1>0, <1>7, <3>2, CtlRestart DEF Adapt
    <3> QED
      BY <3>1, <3>2
  <2>2. Adapt'.pc # "idle" => Adapt.pc # "idle"
    <3>1. CASE a = "adapter"
      BY <1>0, <1>7, <3>1, CtlRestart DEF Adapt, Restarting
    <3>2. CASE a = "registry"
      BY <1>0, <1>7, <3>2, CtlRestart DEF Adapt
    <3> QED
      BY <3>1, <3>2
  <2>3. CASE UNCHANGED <<request, pending, nextId>>
    BY <1>0, <2>1, <2>2, <2>3 DEF RequestOK
  <2>4. CASE request' = Drained(request) /\ pending' = {} /\ nextId' = nextId
    BY <1>3, <2>1, <2>2, <2>4
  <2> QED
    BY <1>7, <2>3, <2>4 DEF RestartUnlocked, BumpGeneration, StopProcess, SpawnProcess,
       InitializeSucceeds, InitializeFails
<1>8. CASE UNCHANGED vars
  BY <1>1, <1>8 DEF vars, Adapt
<1> QED
  BY <1>4, <1>5, <1>6, <1>7, <1>8 DEF Next

-----------------------------------------------------------------------------
(* The process and its reader. *)

\* Only restart_unlocked moves an actor into it or within it.
LEMMA PlacesKept ==
    ASSUME ControlOK, Registry \/ Adapter \/ Process \/ (\E g \in Procs : Reader(g)) \/ UNCHANGED vars
    PROVE  \A a \in Actors : ctl'[a] = ctl[a] \/ {ctl[a].pc, ctl'[a].pc} \cap {"stop", "spawn", "initialize"} = {}
<1> USE ActorsAre, HostConstants
<1>a. {"bump", "request", "prepare", "await", "idle", "restart"} \subseteq Labels
  BY DEF Labels, AdapterLabels, RegistryLabels, Restarting
<1>1. CASE Process \/ (\E g \in Procs : Reader(g)) \/ UNCHANGED vars
  BY <1>1 DEF Process, ProcessAnswers, TurnAsks, TurnEnds, ProcessCrashes, Reader, ReadLine,
     UpdateRuntimeWork, CheckGeneration, SendEvent, ReadEof, CloseRuntime, vars
<1>2. CASE Registry
  <2>1. ctl'["adapter"] = ctl["adapter"]
    BY <1>2, AdapterStays
  <2>2. CASE ScheduleRuntimeRefresh \/ Shutdown
    BY <2>2 DEF ScheduleRuntimeRefresh, Shutdown
  <2>3. CASE \E value \in Secrets : SetSecretEnvironment(value)
    <3>1. ctl["registry"].pc = "idle" /\ ctl'["registry"].pc = "restart"
      BY <2>3 DEF SetSecretEnvironment, ControlOK
    <3> QED
      BY <2>1, <3>1
  <2>4. CASE Restart
    <3>1. ctl["registry"].pc = "restart"
      BY <2>4 DEF Restart
    <3>2. CASE RestartFailed
      BY <2>1, <3>1, <3>2, CtlFailed
    <3>3. CASE Goto("registry", "bump")
      BY <1>a, <2>1, <3>1, <3>3, CtlGoto
    <3> QED
      BY <2>4, <3>2, <3>3 DEF Restart
  <2> QED
    BY <1>2, <2>2, <2>3, <2>4 DEF Registry
<1>3. CASE Adapter
  <2>1. ctl["adapter"].pc \in {"idle", "prepare", "request", "await"}
    BY <1>3 DEF Adapter, PrepareRuntime, ApplyScheduledRestart, BeginRequest, OtherRequest,
       TurnStartReturns,
       RequestFails, EndRequest
  <2>2. \/ \E l \in {"prepare", "request", "await"} : Goto("adapter", l)
        \/ \E l \in {"idle", "bump"}, e \in Secrets \cup {None} :
               ctl' = [ctl EXCEPT !["adapter"] = [pc |-> l, env |-> e]]
    BY <1>3 DEF Adapter, PrepareRuntime, ApplyScheduledRestart, BeginRequest, OtherRequest,
       TurnStartReturns,
       RequestFails, EndRequest, Idle, ControlOK
  <2>3. ctl'["registry"] = ctl["registry"] /\ ctl'["adapter"].pc \in {"prepare", "request", "await", "idle", "bump"}
    <3>1. CASE \E l \in {"prepare", "request", "await"} : Goto("adapter", l)
      BY <1>a, <3>1, CtlGoto
    <3>2. CASE \E l \in {"idle", "bump"}, e \in Secrets \cup {None} :
               ctl' = [ctl EXCEPT !["adapter"] = [pc |-> l, env |-> e]]
      <4>1. PICK l \in {"idle", "bump"}, e \in Secrets \cup {None} :
               ctl' = [ctl EXCEPT !["adapter"] = [pc |-> l, env |-> e]]
        BY <3>2
      <4>2. l \in Labels /\ "adapter" \in Actors /\ "registry" \in Actors
        BY DEF Labels, AdapterLabels, Restarting, Actors
      <4>3. ctl'["adapter"] = [pc |-> l, env |-> e] /\ ctl'["registry"] = ctl["registry"]
        BY <1>a, <4>1, <4>2, CtlSet
      <4> QED
        BY <4>3
    <3> QED
      BY <2>2, <3>1, <3>2
  <2> QED
    BY <2>1, <2>3
<1> QED
  BY <1>1, <1>2, <1>3

\* A reader reads what its process wrote, and never starts by itself.
LEMMA ReaderMoves ==
    ASSUME ReaderOK, generation \in Procs, NEW g \in Procs, Reader(g)
    PROVE  /\ reader' \in [Procs -> [pc : ReaderLabels, msg : MsgType \cup {None}]]
           /\ stdout' \in [Procs -> Seq(MsgType)]
           /\ \A h \in Procs \ {g} : reader'[h] = reader[h] /\ stdout'[h] = stdout[h]
           /\ reader[g].pc # "none" /\ reader'[g].pc # "none"
           /\ reader'[g].pc = "update" => reader'[g].msg \in MsgType
<1>0. /\ reader \in [Procs -> [pc : ReaderLabels, msg : MsgType \cup {None}]]
      /\ stdout \in [Procs -> Seq(MsgType)]
      /\ reader[g] \in [pc : ReaderLabels, msg : MsgType \cup {None}]
  BY DEF ReaderOK
<1>a. {"none", "read", "update", "publish", "send", "close", "ended"} = ReaderLabels
  BY DEF ReaderLabels
<1>1. ASSUME NEW l \in {"ended", "publish", "send", "close"}, reader' = [reader EXCEPT ![g].pc = l]
      PROVE  /\ reader' \in [Procs -> [pc : ReaderLabels, msg : MsgType \cup {None}]]
             /\ reader'[g].pc = l
             /\ \A h \in Procs \ {g} : reader'[h] = reader[h]
  <2>1. [reader[g] EXCEPT !.pc = l] \in [pc : ReaderLabels, msg : MsgType \cup {None}]
    BY <1>0, <1>a
  <2>2. [reader[g] EXCEPT !.pc = l].pc = l
    BY <1>0
  <2>3. reader' = [reader EXCEPT ![g] = [reader[g] EXCEPT !.pc = l]]
    BY <1>1
  <2> HIDE DEF ReaderLabels
  <2> QED
    BY <1>0, <2>1, <2>2, <2>3
<1>2. ASSUME NEW l \in {"read", "update"}, NEW m \in MsgType \cup {None},
             reader' = [reader EXCEPT ![g] = [pc |-> l, msg |-> m]]
      PROVE  /\ reader' \in [Procs -> [pc : ReaderLabels, msg : MsgType \cup {None}]]
             /\ reader'[g].pc = l /\ reader'[g].msg = m
             /\ \A h \in Procs \ {g} : reader'[h] = reader[h]
  BY <1>0, <1>2, <1>a
<1>3. CASE ReadLine(g)
  <2>1. /\ reader[g].pc = "read" /\ stdout[g] # <<>> /\ stdout[g] \in Seq(MsgType)
        /\ stdout' = [stdout EXCEPT ![g] = Tail(stdout[g])]
    BY <1>0, <1>3 DEF ReadLine, ReaderAt
  <2>2. Tail(stdout[g]) \in Seq(MsgType) /\ Head(stdout[g]) \in MsgType
    BY <2>1, HeadTailProperties
  <2>3. /\ stdout' \in [Procs -> Seq(MsgType)]
        /\ \A h \in Procs \ {g} : stdout'[h] = stdout[h]
    BY <1>0, <2>1, <2>2
  <2>4. \/ reader' = [reader EXCEPT ![g].pc = "ended"]
        \/ reader' = reader
        \/ reader' = [reader EXCEPT ![g] = [pc |-> "update", msg |-> Head(stdout[g])]]
    BY <1>3 DEF ReadLine
  <2> QED
    BY <1>0, <1>1, <1>2, <2>1, <2>2, <2>3, <2>4
<1>4. CASE UpdateRuntimeWork(g) \/ CloseRuntime(g)
  <2>1. /\ \E l \in {"publish", "ended"} : reader' = [reader EXCEPT ![g].pc = l]
        /\ stdout' = stdout /\ reader[g].pc # "none"
    BY <1>4 DEF UpdateRuntimeWork, CloseRuntime, ReaderAt
  <2> QED
    BY <1>0, <1>1, <2>1
<1>5. CASE CheckGeneration(g) \/ SendEvent(g)
  <2>1. /\ \/ reader' = [reader EXCEPT ![g].pc = "send"]
           \/ reader' = [reader EXCEPT ![g] = [pc |-> "read", msg |-> None]]
        /\ stdout' = stdout /\ reader[g].pc # "none"
    BY <1>5 DEF CheckGeneration, SendEvent, ReaderAt, Reading
  <2> QED
    BY <1>0, <1>1, <1>2, <2>1
<1>6. CASE ReadEof(g)
  <2>1. /\ \E l \in {"close", "ended"} : reader' = [reader EXCEPT ![g].pc = l]
        /\ stdout' = stdout /\ reader[g].pc # "none"
    BY <1>6 DEF ReadEof, ReaderAt
  <2> QED
    BY <1>0, <1>1, <2>1
<1> QED
  BY <1>3, <1>4, <1>5, <1>6 DEF Reader

\* What the process writes is appended to its own output.
LEMMA ProcessWrites ==
    ASSUME ReaderOK, ProcessOK, Process
    PROVE  /\ stdout' \in [Procs -> Seq(MsgType)]
           /\ \A g \in Procs : g # proc => stdout'[g] = stdout[g]
           /\ UNCHANGED <<reader, lateActs, generation, runtimeId, state, fresh, procEnv>>
           /\ proc' \in {proc, 0} /\ (stdout' # stdout => proc # 0)
           /\ stdin' \subseteq stdin /\ running' \subseteq Turns /\ asking' \subseteq running'
           /\ proc' = 0 => stdin' = {} /\ running' = {}
<1>0. stdout \in [Procs -> Seq(MsgType)] /\ proc \in 0..MaxProcs
  BY HostConstants DEF ReaderOK, ProcessOK, Procs
<1>1. ASSUME NEW msgs \in Seq(MsgType), proc # 0, Write(msgs)
      PROVE  /\ stdout' \in [Procs -> Seq(MsgType)]
             /\ \A g \in Procs : g # proc => stdout'[g] = stdout[g]
  <2>1. proc \in Procs
    BY <1>0, <1>1, HostConstants DEF Procs
  <2>2. stdout[proc] \o msgs \in Seq(MsgType)
    BY <1>0, <2>1, ConcatProperties
  <2> QED
    BY <1>0, <1>1, <2>1, <2>2 DEF Write
<1>2. ASSUME NEW n \in Turns
      PROVE  /\ <<Msg("ok", n), Msg("started", n)>> \in Seq(MsgType)
             /\ <<Msg("error", n)>> \in Seq(MsgType) /\ <<Msg("ask", n)>> \in Seq(MsgType)
             /\ <<Msg("resolved", n)>> \o <<Msg("completed", n)>> \in Seq(MsgType)
             /\ <<>> \o <<Msg("completed", n)>> \in Seq(MsgType)
  <2>1. \A k \in {"ok", "error", "started", "completed", "ask", "resolved"} : Msg(k, n) \in MsgType
    BY DEF Msg, MsgType
  <2> HIDE DEF MsgType
  <2>2. /\ <<>> \in Seq(MsgType) /\ <<Msg("completed", n)>> \in Seq(MsgType)
        /\ <<Msg("resolved", n)>> \in Seq(MsgType)
    BY <2>1
  <2> QED
    BY <2>1, <2>2, ConcatProperties
<1>3. ASSUME NEW n \in Turns, ProcessAnswers(n)
      PROVE  /\ proc # 0 /\ \E msgs \in Seq(MsgType) : Write(msgs)
             /\ stdin' \subseteq stdin /\ running' \subseteq Turns /\ asking' \subseteq running'
             /\ UNCHANGED <<reader, lateActs, generation, runtimeId, state, fresh, procEnv, proc>>
  BY <1>2, <1>3 DEF ProcessAnswers, ProcessOK
<1>4. ASSUME NEW n \in Turns, TurnAsks(n) \/ TurnEnds(n)
      PROVE  /\ proc # 0 /\ \E msgs \in Seq(MsgType) : Write(msgs)
             /\ stdin' \subseteq stdin /\ running' \subseteq Turns /\ asking' \subseteq running'
             /\ UNCHANGED <<reader, lateActs, generation, runtimeId, state, fresh, procEnv, proc>>
  BY <1>2, <1>4 DEF TurnAsks, TurnEnds, ProcessOK
<1>5. CASE ProcessCrashes
  BY <1>0, <1>5 DEF ProcessCrashes
<1> QED
  BY <1>1, <1>3, <1>4, <1>5 DEF Process

\* Every step keeps ProcessOK.
LEMMA ProcessStep ==
    ASSUME Typed, [Next]_vars
    PROVE  ProcessOK'
<1> USE ActorsAre, HostConstants
<1>0. ControlOK /\ RequestOK /\ ProcessOK /\ ReaderOK
  BY DEF Typed
<1>1. ASSUME UNCHANGED <<generation, runtimeId>>, proc' \in {proc, 0},
             fresh' \in BOOLEAN, procEnv' = procEnv, stdin' \subseteq Turns, running' \subseteq Turns,
             asking' \subseteq running', proc' = 0 => stdin' = {} /\ running' = {},
             state' \in States,
             state' = "stopped" => state = "stopped" \/ proc' = 0,
             state = "stopped" => state' = "stopped",
             (reader[generation].pc = "none") => (reader'[generation].pc = "none"),
             \A a \in Actors : ctl'[a] = ctl[a] \/ {ctl[a].pc, ctl'[a].pc} \cap {"stop", "spawn", "initialize"} = {}
      PROVE  ProcessOK'
  <2>1. proc' \in 0..generation
    BY <1>0, <1>1 DEF ProcessOK, Procs
  <2>2. ASSUME NEW a \in Actors, NEW l \in {"stop", "spawn"}
        PROVE  ctl'[a].pc = l <=> ctl[a].pc = l
    <3>1. CASE ctl'[a] = ctl[a]
      BY <3>1
    <3>2. CASE {ctl[a].pc, ctl'[a].pc} \cap {"stop", "spawn", "initialize"} = {}
      <4>1. ctl[a].pc \notin {"stop", "spawn"} /\ ctl'[a].pc \notin {"stop", "spawn"}
        BY <3>2
      <4> QED
        BY <4>1
    <3> QED
      BY <1>1, <3>1, <3>2
  <2> QED
    BY <1>0, <1>1, <2>1, <2>2 DEF ProcessOK
<1>2. CASE Registry \/ Adapter \/ UNCHANGED vars
  <2>1. /\ UNCHANGED <<generation, runtimeId, procEnv, reader>>
        /\ \/ UNCHANGED <<proc, running, asking, state>>
              /\ (stdin' = stdin \/ (proc # 0 /\ stdin' = stdin \cup {nextId} /\ BeginRequest))
           \/ /\ proc' = 0 /\ stdin' = {} /\ running' = {} /\ asking' = {} /\ state' = "stopped"
        /\ fresh' \in {fresh, FALSE}
    BY <1>2 DEF Registry, ScheduleRuntimeRefresh, SetSecretEnvironment, Restart, Shutdown, Adapter,
       PrepareRuntime, ApplyScheduledRestart, BeginRequest, OtherRequest,
       TurnStartReturns, RequestFails,
       EndRequest, vars
  <2>2. BeginRequest => nextId \in Turns
    BY <1>0 DEF BeginRequest, RequestOK, Turns, Adapt
  <2>3. \A a \in Actors : ctl'[a] = ctl[a] \/ {ctl[a].pc, ctl'[a].pc} \cap {"stop", "spawn", "initialize"} = {}
    BY <1>0, <1>2, PlacesKept
  <2>4. /\ stdin' \subseteq Turns /\ running' \subseteq Turns /\ asking' \subseteq running'
        /\ (proc' = 0 => stdin' = {} /\ running' = {}) /\ state' \in States /\ fresh' \in BOOLEAN
        /\ proc' \in {proc, 0}
        /\ (state' = "stopped" => state = "stopped" \/ proc' = 0)
        /\ (state = "stopped" => state' = "stopped")
    BY <1>0, <2>1, <2>2 DEF ProcessOK, States
  <2> QED
    BY <1>1, <2>1, <2>3, <2>4
<1>3. CASE Process
  <2>1. \A a \in Actors : ctl'[a] = ctl[a] \/ {ctl[a].pc, ctl'[a].pc} \cap {"stop", "spawn", "initialize"} = {}
    BY <1>0, <1>3, PlacesKept
  <2>2. stdin' \subseteq Turns /\ fresh \in BOOLEAN /\ state \in States
    BY <1>0, <1>3, ProcessWrites DEF ProcessOK
  <2> QED
    BY <1>0, <1>1, <1>3, <2>1, <2>2, ProcessWrites
<1>4. ASSUME NEW g \in Procs, Reader(g)
      PROVE  ProcessOK'
  <2>1. \A a \in Actors : ctl'[a] = ctl[a] \/ {ctl[a].pc, ctl'[a].pc} \cap {"stop", "spawn", "initialize"} = {}
    BY <1>0, <1>4, PlacesKept
  <2>2. /\ UNCHANGED <<generation, runtimeId, proc, procEnv, fresh, stdin, running, asking>>
        /\ state' = state \/ (state # "stopped" /\ state' = "failed")
    BY <1>4 DEF Reader, ReadLine, UpdateRuntimeWork, CheckGeneration, SendEvent, ReadEof, CloseRuntime
  <2>3. (reader[generation].pc = "none") => (reader'[generation].pc = "none")
    <3>1. generation \in Procs
      BY <1>0 DEF ProcessOK
    <3> QED
      BY <1>0, <1>4, <3>1, ReaderMoves
  <2>4. /\ stdin \subseteq Turns /\ running \subseteq Turns /\ asking \subseteq running
        /\ (proc = 0 => stdin = {} /\ running = {}) /\ state' \in States /\ fresh \in BOOLEAN
    BY <1>0, <2>2 DEF ProcessOK, States
  <2> QED
    BY <1>1, <2>1, <2>2, <2>3, <2>4
<1>5. ASSUME NEW a \in Actors, RestartUnlocked(a)
      PROVE  ProcessOK'
  <2>0. /\ ctl[a].pc \in Restarting
        /\ \A b \in Actors \ {a} : ctl'[b] = ctl[b] /\ ctl[b].pc \notin {"stop", "spawn"}
    BY <1>0, <1>5, CtlRestart DEF Restarting
  <2>1. CASE BumpGeneration(a)
    <3>1. /\ generation < MaxProcs /\ generation' = generation + 1
          /\ UNCHANGED <<runtimeId, state, reader, processVars>>
      BY <2>1 DEF BumpGeneration
    <3>2. /\ generation' \in Procs /\ runtimeId' \in 1..generation' /\ proc' \in 0..generation'
          /\ generation' > generation
      BY <1>0, <3>1 DEF ProcessOK, Procs
    <3>3. reader'[generation'].pc = "none"
      BY <1>0, <3>1, <3>2 DEF ReaderOK
    <3>4. ctl'[a].pc = "stop"
      BY <1>0, <1>5, <2>1, CtlRestart
    <3> QED
      BY <1>0, <2>0, <3>1, <3>2, <3>3, <3>4 DEF ProcessOK
  <2>2. CASE StopProcess(a)
    <3>1. ctl[a].pc = "stop" /\ ctl'[a].pc = "spawn"
      BY <1>0, <1>5, <2>2, CtlRestart
    <3>2. /\ proc' = 0 /\ state' = "stopped" /\ stdin' = {} /\ running' = {} /\ asking' = {}
          /\ UNCHANGED <<generation, runtimeId, reader, procEnv, fresh>>
      BY <1>0, <2>2 DEF StopProcess, ProcessOK
    <3> QED
      BY <1>0, <2>0, <3>1, <3>2 DEF ProcessOK, States, Procs
  <2>3. CASE SpawnProcess(a)
    <3>0. /\ ctl[a].pc = "spawn" /\ runtimeId' = generation /\ generation' = generation
          /\ UNCHANGED <<stdin, running, asking>>
          /\ state = "stopped" /\ proc = 0 /\ stdin = {} /\ running = {} /\ asking = {}
      BY <1>0, <2>3 DEF SpawnProcess, ProcessOK
    <3>a. generation \in Procs /\ generation \in 1..generation /\ generation \in 0..generation /\ generation # 0
      BY <1>0 DEF ProcessOK, Procs
    <3>1. CASE Goto(a, "initialize") /\ proc' = generation /\ procEnv' = RestartEnv(a) /\ fresh' = TRUE
               /\ state' = "initializing"
      <4>1. ctl'[a].pc = "initialize"
        BY <1>0, <3>1, CtlGoto DEF Labels, AdapterLabels, Restarting
      <4>2. procEnv' \in Secrets
        BY <1>0, <3>0, <3>1 DEF RestartEnv, ControlOK, Adapt, Reg, Restarting
      <4> QED
        BY <1>0, <2>0, <3>0, <3>a, <3>1, <4>1, <4>2 DEF ProcessOK, States
    <3>2. CASE RestartEndsInError(a) /\ UNCHANGED <<proc, procEnv, fresh, state, reader>>
      <4>1. ctl'[a].pc \in {"idle", "restart"}
        BY <1>0, <2>0, <3>2, CtlError DEF Adapt, Reg
      <4> QED
        BY <1>0, <2>0, <3>0, <3>a, <3>2, <4>1 DEF ProcessOK
    <3> QED
      BY <2>3, <3>1, <3>2 DEF SpawnProcess
  <2>4. CASE InitializeSucceeds(a)
    <3>1. /\ proc = generation /\ state' = "ready"
          /\ UNCHANGED <<generation, runtimeId, reader, processVars>>
      BY <2>4 DEF InitializeSucceeds
    <3>2. ctl'[a].pc \in {"request", "idle"}
      BY <1>0, <2>4 DEF InitializeSucceeds, ControlOK
    <3> QED
      BY <1>0, <2>0, <3>1, <3>2 DEF ProcessOK, States, Procs
  <2>5. CASE InitializeFails(a)
    <3>1. /\ state' \in {state, "failed"} /\ proc' = 0 /\ stdin' = {} /\ running' = {} /\ asking' = {}
          /\ UNCHANGED <<generation, runtimeId, reader, procEnv, fresh>> /\ RestartEndsInError(a)
      BY <2>5 DEF InitializeFails
    <3>2. ctl'[a].pc \in {"idle", "restart"}
      BY <1>0, <2>0, <3>1, CtlError DEF Adapt, Reg
    <3>3. 0 \in 0..generation
      BY <1>0 DEF ProcessOK, Procs
    <3> QED
      BY <1>0, <2>0, <3>1, <3>2, <3>3 DEF ProcessOK, States
  <2> QED
    BY <1>5, <2>1, <2>2, <2>3, <2>4, <2>5 DEF RestartUnlocked
<1> QED
  BY <1>2, <1>3, <1>4, <1>5 DEF Next

\* Every step keeps ReaderOK.
LEMMA ReaderStep ==
    ASSUME Typed, [Next]_vars
    PROVE  ReaderOK'
<1> USE ActorsAre, HostConstants
<1>0. ControlOK /\ RequestOK /\ ProcessOK /\ ReaderOK
  BY DEF Typed
<1>a. generation \in Procs /\ generation \in Nat
  BY <1>0 DEF ProcessOK, Procs
<1>1. ASSUME UNCHANGED <<generation, runtimeId, reader, stdout, lateActs>>, proc' \in {proc, 0}
      PROVE  ReaderOK'
  <2>1. \A g \in Procs : g # 0
    BY DEF Procs
  <2> QED
    BY <1>0, <1>1, <2>1 DEF ReaderOK
<1>2. CASE Registry \/ Adapter \/ UNCHANGED vars
  BY <1>1, <1>2 DEF Registry, ScheduleRuntimeRefresh, SetSecretEnvironment, Restart, Shutdown, Adapter,
     PrepareRuntime, ApplyScheduledRestart, BeginRequest, OtherRequest,
     TurnStartReturns, RequestFails,
     EndRequest, vars
<1>3. CASE Process
  <2>1. \A g \in Procs : g # 0
    BY DEF Procs
  <2> QED
    BY <1>0, <1>3, <2>1, ProcessWrites DEF ReaderOK
<1>4. ASSUME NEW g \in Procs, Reader(g)
      PROVE  ReaderOK'
  <2>1. /\ UNCHANGED <<generation, runtimeId, proc>>
        /\ lateActs' = lateActs \/ \E b \in BOOLEAN : lateActs' = ActedIf(g, b)
    BY <1>4 DEF Reader, ReadLine, UpdateRuntimeWork, CheckGeneration, SendEvent, ReadEof, CloseRuntime
  <2>2. lateActs' \in [Procs -> Nat]
    BY <1>0, <2>1 DEF ReaderOK, ActedIf
  <2> QED
    BY <1>0, <1>4, <1>a, <2>1, <2>2, ReaderMoves DEF ReaderOK
<1>5. ASSUME NEW a \in Actors, RestartUnlocked(a)
      PROVE  ReaderOK'
  <2>1. CASE BumpGeneration(a)
    <3>1. /\ generation < MaxProcs /\ generation' = generation + 1
          /\ UNCHANGED <<runtimeId, reader, stdout, lateActs, proc>>
      BY <2>1 DEF BumpGeneration
    <3>2. /\ generation' \in Procs /\ generation' > generation
          /\ \A g \in Procs : g > generation' => g > generation
      BY <1>a, <3>1 DEF Procs
    <3> QED
      BY <1>0, <3>1, <3>2 DEF ReaderOK
  <2>2. CASE SpawnProcess(a)
    <3>1. UNCHANGED <<stdout, lateActs, generation>> /\ runtimeId' = generation
      BY <2>2 DEF SpawnProcess
    <3>2. CASE proc' = generation /\ reader' = [reader EXCEPT ![generation] = Reading]
      <4>1. Reading \in [pc : ReaderLabels, msg : MsgType \cup {None}] /\ Reading.pc = "read"
        BY DEF Reading, ReaderLabels
      <4>2. /\ reader' \in [Procs -> [pc : ReaderLabels, msg : MsgType \cup {None}]]
            /\ reader'[generation].pc = "read"
            /\ \A g \in Procs \ {generation} : reader'[g] = reader[g]
        BY <1>0, <1>a, <3>2, <4>1 DEF ReaderOK
      <4>3. ~(generation > generation)
        BY <1>a
      <4> QED
        BY <1>0, <1>a, <3>1, <3>2, <4>2, <4>3 DEF ReaderOK
    <3>3. CASE UNCHANGED <<proc, reader>>
      BY <1>0, <3>1, <3>3 DEF ReaderOK
    <3> QED
      BY <2>2, <3>2, <3>3 DEF SpawnProcess
  <2>3. CASE StopProcess(a) \/ InitializeSucceeds(a) \/ InitializeFails(a)
    BY <1>1, <2>3 DEF StopProcess, InitializeSucceeds, InitializeFails
  <2> QED
    BY <1>5, <2>1, <2>2, <2>3 DEF RestartUnlocked
<1> QED
  BY <1>2, <1>3, <1>4, <1>5 DEF Next

\* Every step keeps the types of the books.
LEMMA BooksStep ==
    ASSUME Typed, [Next]_vars
    PROVE  BooksOK'
<1>0. ControlOK /\ RequestOK /\ ProcessOK /\ ReaderOK /\ BooksOK
  BY DEF Typed
<1>a. request.reply = "ok" => request.id \in Turns
  BY <1>0 DEF RequestOK, NoRequest
<1>1. CASE UNCHANGED <<activeTurns, serverRequests, acked, early, wiped>>
  BY <1>0, <1>1 DEF BooksOK
<1>2. CASE activeTurns' = {} /\ serverRequests' = {} /\ acked' = {} /\ early' = {} /\ wiped' = {}
  BY <1>2 DEF BooksOK
<1>3. CASE Registry \/ Process \/ UNCHANGED vars
  BY <1>1, <1>2, <1>3 DEF Registry, ScheduleRuntimeRefresh, SetSecretEnvironment, Restart, Shutdown,
     Process, ProcessAnswers, TurnAsks, TurnEnds, ProcessCrashes, vars
<1>4. CASE Adapter
  <2>1. CASE TurnStartReturns
    BY <1>0, <1>a, <2>1 DEF TurnStartReturns, EndRequest, BooksOK
  <2>2. CASE ~TurnStartReturns
    BY <1>1, <1>4, <2>2 DEF Adapter, PrepareRuntime, ApplyScheduledRestart, BeginRequest, OtherRequest,
       RequestFails,
       EndRequest
  <2> QED
    BY <2>1, <2>2
<1>5. ASSUME NEW a \in Actors, RestartUnlocked(a)
      PROVE  BooksOK'
  BY <1>1, <1>2, <1>5 DEF RestartUnlocked, BumpGeneration, StopProcess, SpawnProcess,
     InitializeSucceeds, InitializeFails
<1>6. ASSUME NEW g \in Procs, Reader(g)
      PROVE  BooksOK'
  <2>1. CASE UpdateRuntimeWork(g)
    <3> DEFINE m == reader[g].msg
    <3>1. m.turn \in Turns
      BY <1>0, <2>1 DEF UpdateRuntimeWork, ReaderAt, ReaderOK, MsgType
    <3>2. /\ activeTurns' \subseteq activeTurns \cup {m.turn}
          /\ serverRequests' \subseteq serverRequests \cup {m.turn}
          /\ acked' \subseteq acked /\ early' \subseteq early \cup {m.turn} /\ wiped' = wiped
      BY <2>1 DEF UpdateRuntimeWork, TurnsAfter
    <3> QED
      BY <1>0, <3>1, <3>2 DEF BooksOK
  <2>2. CASE CloseRuntime(g)
    <3>1. acked' \subseteq acked /\ wiped' \subseteq wiped \cup activeTurns
      BY <2>2 DEF CloseRuntime
    <3>2. early' \subseteq Turns
      BY <1>a, <2>2 DEF CloseRuntime
    <3> QED
      BY <1>0, <2>2, <3>1, <3>2 DEF CloseRuntime, BooksOK
  <2>3. CASE ReadLine(g) \/ CheckGeneration(g) \/ SendEvent(g) \/ ReadEof(g)
    BY <1>1, <2>3 DEF ReadLine, CheckGeneration, SendEvent, ReadEof
  <2> QED
    BY <1>6, <2>1, <2>2, <2>3 DEF Reader
<1> QED
  BY <1>3, <1>4, <1>5, <1>6 DEF Next

-----------------------------------------------------------------------------
(* Every reachable state is typed. *)

\* The initial state is typed.
LEMMA InitTyped ==
    ASSUME Init
    PROVE  Typed
<1> USE ActorsAre, HostConstants
<1>1. ControlOK
  BY DEF Init, ControlOK, Adapt, Reg, Idle, Labels, AdapterLabels, RegistryLabels, Restarting
<1>2. RequestOK
  <2>1. /\ NoRequest \in [id : 0..MaxRequests, reply : {"none", "ok", "error"}]
        /\ NoRequest.reply = "none"
    BY DEF NoRequest
  <2>2. Adapt.pc = "idle" /\ request = NoRequest /\ nextId = 1 /\ pending = {}
    BY DEF Init, Adapt, Idle
  <2>3. 1 \in 1..(MaxRequests + 1)
    OBVIOUS
  <2> QED
    BY <2>1, <2>2, <2>3 DEF RequestOK
<1>3. ProcessOK
  <2>1. 1 \in Procs /\ 1 \in 1..1 /\ 1 \in 0..1
    BY DEF Procs
  <2>2. \A a \in Actors : ctl[a].pc = "idle"
    BY DEF Init, Idle
  <2> QED
    BY <2>1, <2>2 DEF Init, ProcessOK, States
<1>4. ReaderOK
  <2>1. /\ Reading \in [pc : ReaderLabels, msg : MsgType \cup {None}] /\ Reading.pc = "read"
        /\ NoReader \in [pc : ReaderLabels, msg : MsgType \cup {None}] /\ NoReader.pc = "none"
    BY DEF Reading, NoReader, ReaderLabels
  <2>2. \A g \in Procs : g > 1 => g # 1
    BY DEF Procs
  <2>3. <<>> \in Seq(MsgType)
    OBVIOUS
  <2>4. /\ reader = [g \in Procs |-> IF g = 1 THEN Reading ELSE NoReader]
        /\ stdout = [g \in Procs |-> <<>>] /\ generation = 1 /\ runtimeId = 1 /\ proc = 1
        /\ lateActs = [g \in Procs |-> 0]
    BY DEF Init
  <2>5. /\ reader \in [Procs -> [pc : ReaderLabels, msg : MsgType \cup {None}]]
        /\ stdout \in [Procs -> Seq(MsgType)]
    BY <2>1, <2>3, <2>4
  <2>6. \A g \in Procs : reader[g].pc \in {"read", "none"} /\ (reader[g].pc = "none" <=> g # 1)
    BY <2>1, <2>4
  <2> QED
    BY <2>2, <2>4, <2>5, <2>6 DEF ReaderOK
<1>5. BooksOK
  BY DEF Init, BooksOK
<1> QED
  BY <1>1, <1>2, <1>3, <1>4, <1>5 DEF Typed

\* Every reachable state is typed.
LEMMA AlwaysTyped == Spec => []Typed
<1>1. Typed /\ [Next]_vars => Typed'
  BY ControlStep, RequestStep, ProcessStep, ReaderStep, BooksStep DEF Typed
<1> QED
  BY <1>1, InitTyped, PTL DEF Spec

\* The state of the host, of its two callers and of its readers stays in its types:
\* among them, one request is awaited at a time and is answered at most once.
THEOREM TypeCorrect == Spec => []TypeOK
<1>1. Typed => TypeOK
  <2> SUFFICES ASSUME Typed
               PROVE  TypeOK
    OBVIOUS
  <2>1. runtimeId \in Procs /\ proc \in 0..MaxProcs
    BY HostConstants DEF Typed, ProcessOK, Procs
  <2> QED
    BY <2>1 DEF Typed, ControlOK, RequestOK, ProcessOK, ReaderOK, BooksOK, TypeOK, Labels,
       AdapterLabels, RegistryLabels, States, ReaderLabels
<1> QED
  BY <1>1, AlwaysTyped, PTL

-----------------------------------------------------------------------------
(* Refresh requests and secrets. *)

\* An actor in restart_unlocked waits for nobody else.
LEMMA RestarterKept ==
    ASSUME ControlOK, Registry \/ Adapter \/ Process \/ (\E g \in Procs : Reader(g)) \/ UNCHANGED vars
    PROVE  \A a \in Actors : ctl[a].pc \in Restarting => ctl'[a] = ctl[a]
<1> USE ActorsAre
<1>a. Restarting = {"bump", "stop", "spawn", "initialize"}
  BY DEF Restarting
<1>1. CASE Process \/ (\E g \in Procs : Reader(g)) \/ UNCHANGED vars
  BY <1>1 DEF Process, ProcessAnswers, TurnAsks, TurnEnds, ProcessCrashes, Reader, ReadLine,
     UpdateRuntimeWork, CheckGeneration, SendEvent, ReadEof, CloseRuntime, vars
<1>2. CASE Registry
  <2>1. ctl'["adapter"] = ctl["adapter"]
    BY <1>2, AdapterStays
  <2>2. ctl["registry"].pc \in {"idle", "restart"} \/ ctl' = ctl
    BY <1>2 DEF Registry, ScheduleRuntimeRefresh, SetSecretEnvironment, Restart, Shutdown
  <2> QED
    BY <1>a, <2>1, <2>2
<1>3. CASE Adapter
  <2>1. ctl["adapter"].pc \in {"idle", "prepare", "request", "await"}
    BY <1>3 DEF Adapter, PrepareRuntime, ApplyScheduledRestart, BeginRequest, OtherRequest,
       TurnStartReturns,
       RequestFails, EndRequest
  <2>2. ctl'["registry"] = ctl["registry"]
    <3>1. \E x : ctl' = [ctl EXCEPT !["adapter"] = x]
      BY <1>3 DEF Adapter, PrepareRuntime, ApplyScheduledRestart, BeginRequest, OtherRequest,
         TurnStartReturns,
         RequestFails, EndRequest, Goto
    <3> QED
      BY <3>1 DEF ControlOK
  <2> QED
    BY <1>a, <2>1, <2>2
<1> QED
  BY <1>1, <1>2, <1>3

\* Every step keeps RefreshInv: what takes a scheduled restart away decides on a
\* restart, and a restart that fails has stopped the process or puts it back.
LEMMA RefreshStep ==
    ASSUME Typed, RefreshInv, [Next]_vars
    PROVE  RefreshInv'
<1> USE ActorsAre, HostConstants
<1>0. ControlOK /\ ProcessOK
  BY DEF Typed
<1>a. Restarting = {"bump", "stop", "spawn", "initialize"}
  BY DEF Restarting
<1>1. ASSUME Registry \/ Adapter \/ Process \/ (\E g \in Procs : Reader(g)) \/ UNCHANGED vars,
             proc' \in {proc, 0}, fresh' = fresh, scheduled # None => scheduled' # None
      PROVE  RefreshInv'
  BY <1>0, <1>1, <1>a, RestarterKept DEF RefreshInv
<1>2. CASE Process
  BY <1>1, <1>2 DEF Process, ProcessAnswers, TurnAsks, TurnEnds, ProcessCrashes
<1>3. ASSUME NEW g \in Procs, Reader(g)
      PROVE  RefreshInv'
  BY <1>1, <1>3 DEF Reader, ReadLine, UpdateRuntimeWork, CheckGeneration, SendEvent, ReadEof, CloseRuntime
<1>4. CASE Registry
  <2>1. CASE ScheduleRuntimeRefresh
    BY <1>0, <2>1 DEF ScheduleRuntimeRefresh, RefreshInv, ControlOK
  <2>2. CASE Shutdown
    BY <2>2 DEF Shutdown, RefreshInv
  <2>3. CASE \E value \in Secrets : SetSecretEnvironment(value)
    BY <1>1, <1>4, <2>3 DEF SetSecretEnvironment
  <2>4. CASE Restart /\ Busy
    BY <1>1, <1>4, <2>4 DEF Restart
  <2>5. CASE Restart /\ ~Busy
    <3>1. Goto("registry", "bump")
      BY <2>5 DEF Restart
    <3>2. ctl'["registry"].pc = "bump"
      BY <1>0, <3>1, CtlGoto DEF Labels, AdapterLabels, Restarting
    <3> QED
      BY <3>2 DEF RefreshInv
  <2> QED
    BY <1>4, <2>1, <2>2, <2>3, <2>4, <2>5 DEF Registry
<1>5. CASE Adapter
  <2>1. CASE ApplyScheduledRestart
    <3>1. CASE scheduled = None \/ Busy
      BY <1>0, <1>1, <1>5, <2>1, <3>1 DEF ApplyScheduledRestart, PutBack
    <3>2. CASE scheduled # None /\ ~Busy
      <4>1. ctl' = [ctl EXCEPT !["adapter"] = [pc |-> "bump", env |-> scheduled]]
        BY <2>1, <3>2 DEF ApplyScheduledRestart
      <4>2. ctl'["adapter"].pc = "bump"
        BY <1>0, <4>1 DEF ControlOK
      <4> QED
        BY <4>2 DEF RefreshInv
    <3> QED
      BY <3>1, <3>2
  <2>2. CASE ~ApplyScheduledRestart
    BY <1>1, <1>5, <2>2 DEF Adapter, PrepareRuntime, BeginRequest, OtherRequest,
       TurnStartReturns, RequestFails,
       EndRequest
  <2> QED
    BY <2>1, <2>2
<1>6. ASSUME NEW a \in Actors, RestartUnlocked(a)
      PROVE  RefreshInv'
  <2>1. CASE BumpGeneration(a)
    BY <1>0, <1>6, <2>1, CtlRestart DEF RefreshInv
  <2>2. CASE StopProcess(a)
    BY <1>0, <2>2 DEF StopProcess, ProcessOK, RefreshInv
  <2>3. CASE SpawnProcess(a)
    BY <1>0, <2>3 DEF SpawnProcess, ProcessOK, RefreshInv
  <2>4. CASE InitializeSucceeds(a)
    <3>1. ctl[a].pc = "initialize" /\ UNCHANGED <<proc, fresh, scheduled>>
      BY <2>4 DEF InitializeSucceeds
    <3>2. \A b \in Actors : ctl[b].pc \notin {"bump", "stop"}
      BY <1>0, <1>6, <1>a, <3>1, CtlRestart
    <3> QED
      BY <3>1, <3>2 DEF RefreshInv
  <2>5. CASE InitializeFails(a)
    BY <2>5 DEF InitializeFails, RefreshInv
  <2> QED
    BY <1>6, <2>1, <2>2, <2>3, <2>4, <2>5 DEF RestartUnlocked
<1>7. CASE UNCHANGED vars
  BY <1>1, <1>7 DEF vars
<1> QED
  BY <1>2, <1>3, <1>4, <1>5, <1>6, <1>7 DEF Next

\* A refresh that was asked for is not forgotten (schedule_restart,
\* apply_scheduled_restart): a process older than the request has a restart scheduled
\* or under way, whichever restarts were refused, failed or superseded since.
THEOREM RefreshKept == Spec => []RefreshNotLost
<1>1. Init => RefreshInv
  BY DEF Init, RefreshInv
<1>2. Typed /\ RefreshInv /\ [Next]_vars => RefreshInv'
  BY RefreshStep
<1>3. RefreshInv => RefreshNotLost
  BY DEF RefreshInv, RefreshNotLost, Restarting
<1> QED
  BY <1>1, <1>2, <1>3, AlwaysTyped, PTL DEF Spec

\* Every step keeps SecretInv.
LEMMA SecretStep ==
    ASSUME Typed, SecretInv, [Next]_vars
    PROVE  SecretInv'
<1> USE ActorsAre, HostConstants
<1>0. ControlOK /\ ProcessOK
  BY DEF Typed
<1>a. Restarting = {"bump", "stop", "spawn", "initialize"}
  BY DEF Restarting
<1>1. CASE UNCHANGED <<scheduled, env, ctl, procEnv>> /\ proc' \in {proc, 0}
  BY <1>1 DEF SecretInv, Agreed, Adapt, Reg
<1>2. CASE Process \/ UNCHANGED vars
  BY <1>1, <1>2 DEF Process, ProcessAnswers, TurnAsks, TurnEnds, ProcessCrashes, vars
<1>3. ASSUME NEW g \in Procs, Reader(g)
      PROVE  SecretInv'
  BY <1>1, <1>3 DEF Reader, ReadLine, UpdateRuntimeWork, CheckGeneration, SendEvent, ReadEof, CloseRuntime
<1>4. CASE Registry
  <2>0. Adapt' = Adapt
    BY <1>0, <1>4, AdapterStays DEF Adapt
  <2>1. CASE ScheduleRuntimeRefresh
    BY <1>0, <1>a, <2>1 DEF ScheduleRuntimeRefresh, SecretInv, Agreed, Adapt, Reg, ControlOK
  <2>2. CASE Shutdown
    BY <2>2 DEF Shutdown, SecretInv, Agreed, Adapt, Reg
  <2>3. ASSUME NEW value \in Secrets, SetSecretEnvironment(value)
        PROVE  SecretInv'
    <3>1. /\ ctl' = [ctl EXCEPT !["registry"] = [pc |-> "restart", env |-> env]]
          /\ Reg.pc = "idle" /\ env \in Secrets /\ Reg.env = None
          /\ UNCHANGED <<scheduled, proc, procEnv>>
      BY <1>0, <2>3 DEF SetSecretEnvironment, ControlOK, Reg
    <3>2. Reg'.pc = "restart" /\ Reg'.env = env
      BY <1>0, <3>1 DEF ControlOK, Reg
    <3>3. Agreed' = Agreed
      BY <3>1, <3>2 DEF Agreed
    <3> QED
      BY <1>a, <2>0, <3>1, <3>2, <3>3 DEF SecretInv
  <2>4. CASE Restart /\ Busy
    <3>1. RestartFailed /\ UNCHANGED <<scheduled, proc, procEnv>> /\ Reg.pc = "restart"
      BY <2>4 DEF Restart, Reg
    <3>2. Agreed' = Agreed /\ Reg'.pc \in {"idle", "restart"}
      BY <1>0, <3>1, CtlFailed DEF Agreed, Reg
    <3> QED
      BY <1>a, <2>0, <3>1, <3>2 DEF SecretInv
  <2>5. CASE Restart /\ ~Busy
    <3>1. /\ Goto("registry", "bump") /\ scheduled' = None /\ UNCHANGED <<env, proc, procEnv>>
          /\ Reg.pc = "restart"
      BY <2>5 DEF Restart, Reg
    <3>2. Reg'.pc = "bump" /\ Reg'.env = Reg.env
      BY <1>0, <3>1, CtlGoto DEF Labels, AdapterLabels, Restarting, Reg
    <3>3. Agreed' = Agreed
      BY <3>1, <3>2 DEF Agreed
    <3> QED
      BY <1>a, <2>0, <3>1, <3>2, <3>3 DEF SecretInv
  <2> QED
    BY <1>4, <2>1, <2>2, <2>3, <2>4, <2>5 DEF Registry
<1>5. CASE Adapter
  <2>1. /\ UNCHANGED <<env, proc, procEnv>>
        /\ \E x : ctl' = [ctl EXCEPT !["adapter"] = x]
    BY <1>5 DEF Adapter, PrepareRuntime, ApplyScheduledRestart, BeginRequest, OtherRequest,
       TurnStartReturns,
       RequestFails, EndRequest, Goto
  <2>2. Reg' = Reg /\ Agreed' = Agreed
    BY <1>0, <2>1 DEF ControlOK, Reg, Agreed
  <2>3. CASE ApplyScheduledRestart
    <3>1. Adapt.pc = "prepare" /\ Adapt.env = None /\ Reg.pc \notin Restarting
      BY <1>0, <1>a, <2>3 DEF ApplyScheduledRestart, ControlOK, Adapt, Reg
    <3>2. CASE scheduled = None
      <4>1. Goto("adapter", "request") /\ scheduled' = scheduled
        BY <2>3, <3>2 DEF ApplyScheduledRestart
      <4>2. Adapt'.pc = "request"
        BY <1>0, <4>1, CtlGoto DEF Labels, AdapterLabels, Adapt
      <4> QED
        BY <1>a, <2>1, <2>2, <4>1, <4>2 DEF SecretInv
    <3>3. CASE scheduled # None /\ Busy
      <4>1. ctl' = [ctl EXCEPT !["adapter"] = Idle] /\ scheduled' = scheduled
        BY <2>3, <3>1, <3>3 DEF ApplyScheduledRestart, PutBack, Adapt
      <4>2. Adapt'.pc = "idle"
        BY <1>0, <4>1 DEF ControlOK, Idle, Adapt
      <4> QED
        BY <1>a, <2>1, <2>2, <4>1, <4>2 DEF SecretInv
    <3>4. CASE scheduled # None /\ ~Busy
      <4>1. ctl' = [ctl EXCEPT !["adapter"] = [pc |-> "bump", env |-> scheduled]] /\ scheduled' = None
        BY <2>3, <3>4 DEF ApplyScheduledRestart
      <4>2. Adapt'.pc = "bump" /\ Adapt'.env = scheduled
        BY <1>0, <4>1 DEF ControlOK, Adapt
      <4> QED
        BY <1>a, <2>1, <2>2, <3>4, <4>1, <4>2 DEF SecretInv
    <3> QED
      BY <3>2, <3>3, <3>4
  <2>4. CASE ~ApplyScheduledRestart
    <3>1. /\ scheduled' = scheduled
          /\ \/ \E l \in {"prepare", "await"} : Goto("adapter", l)
             \/ ctl' = [ctl EXCEPT !["adapter"] = Idle]
      BY <1>5, <2>4 DEF Adapter, PrepareRuntime, BeginRequest, OtherRequest,
         TurnStartReturns, RequestFails, EndRequest
    <3>2. CASE \E l \in {"prepare", "await"} : Goto("adapter", l)
      <4>1. Adapt'.pc \in {"prepare", "await"}
        BY <1>0, <3>2, CtlGoto DEF Labels, AdapterLabels, Adapt
      <4> QED
        BY <1>a, <2>1, <2>2, <3>1, <4>1 DEF SecretInv
    <3>3. CASE ctl' = [ctl EXCEPT !["adapter"] = Idle]
      <4>1. Adapt'.pc = "idle"
        BY <1>0, <3>3 DEF ControlOK, Idle, Adapt
      <4> QED
        BY <1>a, <2>1, <2>2, <3>1, <4>1 DEF SecretInv
    <3> QED
      BY <3>1, <3>2, <3>3
  <2> QED
    BY <2>3, <2>4
<1>6. ASSUME NEW a \in Actors, RestartUnlocked(a)
      PROVE  SecretInv'
  <2>0. /\ ctl[a].pc \in Restarting
        /\ \A b \in Actors \ {a} : ctl'[b] = ctl[b] /\ ctl[b].pc \notin Restarting
    BY <1>0, <1>6, CtlRestart
  <2>1. ASSUME NEW l \in {"stop", "spawn"}, ctl'[a].pc = l, ctl'[a].env = ctl[a].env, UNCHANGED configVars,
               proc' \in {proc, 0}, UNCHANGED procEnv, ctl[a].pc \in {"bump", "stop"}
        PROVE  SecretInv'
    <3>1. Agreed' = Agreed
      BY <2>0, <2>1 DEF Agreed, Reg
    <3>2. CASE a = "adapter"
      BY <1>a, <2>0, <2>1, <3>1, <3>2 DEF SecretInv, Adapt, Reg
    <3>3. CASE a = "registry"
      BY <1>a, <2>0, <2>1, <3>1, <3>3 DEF SecretInv, Adapt, Reg
    <3> QED
      BY <3>2, <3>3
  <2>2. CASE BumpGeneration(a) \/ StopProcess(a)
    <3>1. UNCHANGED configVars /\ UNCHANGED procEnv /\ proc' \in {proc, 0}
      BY <2>2 DEF BumpGeneration, StopProcess
    <3> QED
      BY <1>0, <1>6, <2>1, <2>2, <3>1, CtlRestart
  <2>3. ASSUME RestartEndsInError(a), proc' = 0
        PROVE  SecretInv'
    <3>1. CASE a = "adapter"
      <4>1. /\ Adapt'.pc = "idle" /\ Reg' = Reg /\ env' = env /\ scheduled' = Adapt.env
            /\ Adapt.env = Agreed /\ Reg.pc \notin Restarting
        BY <1>0, <2>0, <2>3, <3>1, CtlError DEF SecretInv, Adapt, Reg
      <4>2. Agreed' = Agreed
        BY <4>1 DEF Agreed
      <4> QED
        BY <1>a, <2>3, <4>1, <4>2 DEF SecretInv
    <3>2. CASE a = "registry"
      <4>1. /\ Adapt' = Adapt /\ scheduled' = scheduled /\ scheduled = None
            /\ Reg'.pc \in {"restart", "idle"} /\ Adapt.pc \notin Restarting
        BY <1>0, <2>0, <2>3, <3>2, CtlError DEF SecretInv, Adapt, Reg
      <4> QED
        BY <1>a, <2>3, <4>1 DEF SecretInv
    <3> QED
      BY <3>1, <3>2
  <2>4. CASE SpawnProcess(a)
    <3>1. CASE RestartEndsInError(a) /\ proc' = proc
      <4>1. proc = 0
        BY <1>0, <2>4 DEF SpawnProcess, ProcessOK
      <4> QED
        BY <2>3, <3>1, <4>1
    <3>2. CASE Goto(a, "initialize") /\ procEnv' = RestartEnv(a) /\ UNCHANGED configVars
      <4>1. ctl'[a].pc = "initialize" /\ ctl'[a].env = ctl[a].env
        BY <1>0, <3>2, CtlGoto DEF Labels, AdapterLabels, Restarting
      <4>2. Agreed' = Agreed
        BY <2>0, <3>2, <4>1 DEF Agreed, Reg
      <4>3. CASE a = "adapter"
        BY <1>a, <2>0, <3>2, <4>1, <4>2, <4>3 DEF SecretInv, Adapt, Reg, RestartEnv
      <4>4. CASE a = "registry"
        BY <1>a, <2>0, <3>2, <4>1, <4>2, <4>4 DEF SecretInv, Adapt, Reg, RestartEnv
      <4> QED
        BY <4>3, <4>4
    <3> QED
      BY <2>4, <3>1, <3>2 DEF SpawnProcess
  <2>5. CASE InitializeSucceeds(a)
    <3>1. PICK l \in {"request", "idle"} :
            /\ ctl' = [ctl EXCEPT ![a] = [pc |-> l, env |-> None]]
            /\ a = "registry" => l = "idle"
      BY <2>5 DEF InitializeSucceeds
    <3>2. ctl'[a].pc = l /\ ctl'[a].env = None
      BY <1>0, <3>1 DEF ControlOK
    <3>3. UNCHANGED <<configVars, proc, procEnv>> /\ ctl[a].pc = "initialize"
      BY <2>5 DEF InitializeSucceeds
    <3>4. CASE a = "adapter"
      <4>1. Reg' = Reg /\ Adapt'.pc \notin Restarting /\ Agreed' = Agreed
        BY <1>a, <2>0, <3>2, <3>3, <3>4 DEF Adapt, Reg, Agreed
      <4> QED
        BY <3>3, <4>1 DEF SecretInv
    <3>5. CASE a = "registry"
      <4>1. Adapt' = Adapt /\ Adapt.pc \notin Restarting /\ Agreed' = env /\ Reg'.pc = "idle"
            /\ Reg.pc = "initialize"
        BY <1>a, <2>0, <3>1, <3>2, <3>3, <3>5 DEF Adapt, Reg, Agreed
      <4> QED
        BY <1>a, <3>3, <4>1 DEF SecretInv
    <3> QED
      BY <3>4, <3>5
  <2>6. CASE InitializeFails(a)
    BY <2>3, <2>6 DEF InitializeFails
  <2> QED
    BY <1>6, <2>2, <2>4, <2>5, <2>6 DEF RestartUnlocked
<1> QED
  BY <1>2, <1>3, <1>4, <1>5, <1>6 DEF Next

\* A process never runs on with another environment than the one the registry
\* reports (set_secret_environment and its roll-back, apply_scheduled_restart).
THEOREM SecretsAgree == Spec => []SecretsInSync
<1>1. Init => SecretInv
  BY ActorsAre DEF Init, SecretInv, Agreed, Adapt, Reg, Idle, Restarting
<1>2. Typed /\ SecretInv /\ [Next]_vars => SecretInv'
  BY SecretStep
<1>3. Typed /\ SecretInv => SecretsInSync
  <2> SUFFICES ASSUME Typed, SecretInv, proc # 0,
                      \A a \in Actors : ctl[a].pc \notin Restarting \cup {"restart"}
               PROVE  procEnv = env
    BY DEF SecretsInSync
  <2>1. Reg.pc = "idle" /\ Reg.env = None
    BY ActorsAre DEF Typed, ControlOK, Reg, RegistryLabels
  <2> QED
    BY <2>1 DEF SecretInv, Agreed
<1> QED
  BY <1>1, <1>2, <1>3, AlwaysTyped, PTL DEF Spec

-----------------------------------------------------------------------------
(* Events and the instance they are published under. *)

\* Every step keeps OnceInv: a reader that acts late is past its check no more, and
\* does not get there again.
LEMMA OnceStep ==
    ASSUME Typed, OnceInv, [Next]_vars
    PROVE  OnceInv'
<1>0. ReaderOK /\ ProcessOK
  BY DEF Typed
<1>a. generation \in Procs /\ generation \in Nat /\ Procs \subseteq Nat
  BY <1>0, HostConstants DEF ProcessOK, Procs
<1>1. CASE UNCHANGED <<reader, generation, lateActs>>
  BY <1>1 DEF OnceInv
<1>2. CASE Registry \/ Adapter \/ Process \/ UNCHANGED vars
  BY <1>1, <1>2 DEF Registry, ScheduleRuntimeRefresh, SetSecretEnvironment, Restart, Shutdown, Adapter,
     PrepareRuntime, ApplyScheduledRestart, BeginRequest, OtherRequest,
     TurnStartReturns, RequestFails,
     EndRequest, Process, ProcessAnswers, TurnAsks, TurnEnds, ProcessCrashes, vars
<1>3. ASSUME NEW g \in Procs, Reader(g)
      PROVE  OnceInv'
  <2>0. /\ reader \in [Procs -> [pc : ReaderLabels, msg : MsgType \cup {None}]]
        /\ lateActs \in [Procs -> Nat] /\ lateActs[g] \in Nat
    BY <1>0 DEF ReaderOK
  <2>1. generation' = generation /\ \A h \in Procs \ {g} : reader'[h] = reader[h] /\ lateActs'[h] = lateActs[h]
    BY <1>0, <1>3, <1>a, <2>0, ReaderMoves DEF Reader, ReadLine, UpdateRuntimeWork, CheckGeneration,
       SendEvent, ReadEof, CloseRuntime, ActedIf
  <2>2. CASE generation = g
    <3>1. reader[g].pc # "none"
      BY <1>0, <1>3, <1>a, ReaderMoves
    <3>2. runtimeId = g
      BY <1>0, <2>2, <3>1 DEF ReaderOK
    <3>3. lateActs'[g] = lateActs[g]
      BY <1>3, <2>0, <2>2, <3>2 DEF Reader, ReadLine, UpdateRuntimeWork, CheckGeneration, SendEvent, ReadEof,
         CloseRuntime, ActedIf
    <3>4. lateActs[g] = 0
      BY <1>a, <2>2 DEF OnceInv
    <3> QED
      BY <2>1, <3>3, <3>4 DEF OnceInv
  <2>3. CASE generation # g
    <3>1. CASE reader[g].pc \notin {"update", "send", "close"}
      <4>1. /\ lateActs' = lateActs
            /\ \/ reader' = [reader EXCEPT ![g].pc = "ended"]
               \/ reader' = [reader EXCEPT ![g] = Reading]
        BY <1>3, <2>3, <3>1 DEF Reader, ReadLine, UpdateRuntimeWork, CheckGeneration, SendEvent,
           ReadEof, CloseRuntime, ReaderAt
      <4>2. reader'[g].pc \in {"ended", "read"}
        BY <2>0, <4>1 DEF Reading
      <4> QED
        BY <2>1, <4>1, <4>2 DEF OnceInv
    <3>2. CASE reader[g].pc \in {"update", "send", "close"}
      <4>1. lateActs[g] = 0
        BY <3>2 DEF OnceInv
      <4>2. g < generation
        BY <1>0, <1>a, <2>3, <3>2 DEF ReaderOK
      <4>3. /\ lateActs'[g] \in {0, 1}
            /\ \/ \E l \in {"publish", "ended"} : reader' = [reader EXCEPT ![g].pc = l]
               \/ reader' = [reader EXCEPT ![g] = Reading]
        BY <1>3, <2>0, <3>2, <4>1 DEF Reader, ReadLine, UpdateRuntimeWork, CheckGeneration, SendEvent,
           ReadEof, CloseRuntime, ReaderAt, ActedIf
      <4>4. reader'[g].pc \in {"publish", "ended", "read"}
        BY <2>0, <4>3 DEF Reading
      <4>5. ~(g >= generation) /\ lateActs'[g] <= 1
        BY <1>a, <4>2, <4>3
      <4> QED
        BY <2>1, <4>4, <4>5 DEF OnceInv
    <3> QED
      BY <3>1, <3>2
  <2> QED
    BY <2>2, <2>3
<1>4. ASSUME NEW a \in Actors, RestartUnlocked(a)
      PROVE  OnceInv'
  <2>1. CASE BumpGeneration(a)
    <3>1. generation' = generation + 1 /\ UNCHANGED <<reader, lateActs>>
      BY <2>1 DEF BumpGeneration
    <3>2. \A g \in Procs : g >= generation' => g >= generation
      BY <1>a, <3>1
    <3> QED
      BY <3>1, <3>2 DEF OnceInv
  <2>2. CASE SpawnProcess(a)
    <3>1. /\ generation' = generation /\ lateActs' = lateActs
          /\ reader' = reader \/ reader' = [reader EXCEPT ![generation] = Reading]
      BY <2>2 DEF SpawnProcess
    <3> QED
      BY <1>0, <1>a, <3>1 DEF OnceInv, Reading, ReaderOK
  <2>3. CASE StopProcess(a) \/ InitializeSucceeds(a) \/ InitializeFails(a)
    BY <1>1, <2>3 DEF StopProcess, InitializeSucceeds, InitializeFails
  <2> QED
    BY <1>4, <2>1, <2>2, <2>3 DEF RestartUnlocked
<1> QED
  BY <1>2, <1>3, <1>4 DEF Next

\* A reader that a restart overtakes between one of its three checks of the
\* generation (spawn_stdout_reader, dispatch_incoming) and what follows it acts on
\* the next process's books or events once, and then finds itself replaced.
THEOREM OvertakenOnce == Spec => []ReplacedReaderActsOnce
<1>1. Init => OnceInv
  BY DEF Init, OnceInv, Reading, NoReader
<1>2. Typed /\ OnceInv /\ [Next]_vars => OnceInv'
  BY OnceStep
<1>3. OnceInv => ReplacedReaderActsOnce
  BY DEF OnceInv, ReplacedReaderActsOnce
<1> QED
  BY <1>1, <1>2, <1>3, AlwaysTyped, PTL DEF Spec

-----------------------------------------------------------------------------
(* What a process writes and its reader reads. *)

\* The output after a Write: what was there, then the messages.
LEMMA Written ==
    ASSUME stdout \in [Procs -> Seq(MsgType)], proc \in Procs, NEW msgs \in Seq(MsgType), Write(msgs)
    PROVE  /\ \A g \in Procs \ {proc} : stdout'[g] = stdout[g]
           /\ \A i \in 1..Len(stdout[proc]) :
                 i \in 1..Len(stdout'[proc]) /\ stdout'[proc][i] = stdout[proc][i]
           /\ \A i \in 1..Len(stdout'[proc]) :
                 \/ i \in 1..Len(stdout[proc])
                 \/ /\ \A j \in 1..Len(stdout[proc]) : i > j
                    /\ \E j \in 1..Len(msgs) : stdout'[proc][i] = msgs[j]
           /\ \A j \in 1..Len(msgs) : \E i \in 1..Len(stdout'[proc]) :
                 /\ stdout'[proc][i] = msgs[j]
                 /\ \A k \in 1..Len(stdout[proc]) : i > k
<1> DEFINE s == stdout[proc]
           t == stdout'[proc]
<1>1. s \in Seq(MsgType) /\ t = s \o msgs /\ \A g \in Procs \ {proc} : stdout'[g] = stdout[g]
  BY DEF Write
<1> HIDE DEF s, t
<1>2. /\ Len(s) \in Nat /\ Len(msgs) \in Nat /\ Len(t) = Len(s) + Len(msgs)
      /\ \A i \in 1..Len(t) : t[i] = IF i <= Len(s) THEN s[i] ELSE msgs[i - Len(s)]
  BY <1>1, ConcatProperties
<1>3. ASSUME NEW i \in 1..Len(s)
      PROVE  i \in 1..Len(t) /\ t[i] = s[i]
  BY <1>2
<1>4. ASSUME NEW i \in 1..Len(t), i \notin 1..Len(s)
      PROVE  /\ \A j \in 1..Len(s) : i > j
             /\ \E j \in 1..Len(msgs) : t[i] = msgs[j]
  <2>1. ~(i <= Len(s)) /\ i - Len(s) \in 1..Len(msgs) /\ \A j \in 1..Len(s) : i > j
    BY <1>2, <1>4
  <2>2. t[i] = msgs[i - Len(s)]
    BY <1>2, <2>1
  <2> QED
    BY <2>1, <2>2
<1>5. ASSUME NEW j \in 1..Len(msgs)
      PROVE  \E i \in 1..Len(t) : t[i] = msgs[j] /\ \A k \in 1..Len(s) : i > k
  <2>1. /\ Len(s) + j \in 1..Len(t) /\ ~(Len(s) + j <= Len(s)) /\ (Len(s) + j) - Len(s) = j
        /\ \A k \in 1..Len(s) : Len(s) + j > k
    BY <1>2
  <2>2. t[Len(s) + j] = msgs[j]
    BY <1>2, <2>1
  <2> QED
    BY <2>1, <2>2
<1> QED
  BY <1>1, <1>3, <1>4, <1>5 DEF s, t

\* What the process says in each of its steps.
LEMMA ProcessSays ==
    ASSUME ReaderOK, ProcessOK, NEW n \in Turns, ProcessAnswers(n) \/ TurnAsks(n) \/ TurnEnds(n)
    PROVE  /\ proc \in Procs /\ proc' = proc
           /\ \A g \in Procs \ {proc} : stdout'[g] = stdout[g]
           /\ \A i \in 1..Len(stdout[proc]) :
                 i \in 1..Len(stdout'[proc]) /\ stdout'[proc][i] = stdout[proc][i]
           /\ \A i \in 1..Len(stdout'[proc]) :
                 \/ i \in 1..Len(stdout[proc])
                 \/ /\ \A j \in 1..Len(stdout[proc]) : i > j
                    /\ stdout'[proc][i].turn = n
                    /\ stdout'[proc][i].kind \in {"ok", "started"} => n \in running'
                    /\ stdout'[proc][i].kind = "ask" => n \in asking'
           /\ TurnEnds(n) =>
                 /\ running' = running \ {n} /\ asking' = asking \ {n}
                 /\ \E i \in 1..Len(stdout'[proc]) :
                       /\ stdout'[proc][i] = Msg("completed", n)
                       /\ \A j \in 1..Len(stdout[proc]) : i > j
                 /\ n \in asking => \E i \in 1..Len(stdout'[proc]) :
                       /\ stdout'[proc][i] = Msg("resolved", n)
                       /\ \A j \in 1..Len(stdout[proc]) : i > j
           /\ ~TurnEnds(n) => running \subseteq running' /\ asking \subseteq asking'
<1>0. /\ stdout \in [Procs -> Seq(MsgType)] /\ proc \in Procs /\ proc' = proc
  BY HostConstants DEF ReaderOK, ProcessOK, Procs, ProcessAnswers, TurnAsks, TurnEnds
<1>1. /\ \A k \in {"ok", "error", "started", "completed", "ask", "resolved"} :
            Msg(k, n) \in MsgType /\ Msg(k, n).kind = k /\ Msg(k, n).turn = n
  BY DEF Msg, MsgType
<1> HIDE DEF MsgType, Msg
<1> DEFINE Says(msgs) ==
             /\ msgs \in Seq(MsgType) /\ Write(msgs)
             /\ \A j \in 1..Len(msgs) :
                   /\ msgs[j].turn = n
                   /\ msgs[j].kind \in {"ok", "started"} => n \in running'
                   /\ msgs[j].kind = "ask" => n \in asking'
             /\ TurnEnds(n) =>
                   /\ running' = running \ {n} /\ asking' = asking \ {n}
                   /\ \E j \in 1..Len(msgs) : msgs[j] = Msg("completed", n)
                   /\ n \in asking => \E j \in 1..Len(msgs) : msgs[j] = Msg("resolved", n)
             /\ ~TurnEnds(n) => running \subseteq running' /\ asking \subseteq asking'
<1>2. \E msgs : Says(msgs)
  <2>1. CASE TurnEnds(n) /\ n \in asking
    <3> DEFINE r == <<Msg("resolved", n)>>
               c == <<Msg("completed", n)>>
               m == r \o c
    <3>0. /\ r \in Seq(MsgType) /\ Len(r) = 1 /\ r[1] = Msg("resolved", n)
          /\ c \in Seq(MsgType) /\ Len(c) = 1 /\ c[1] = Msg("completed", n)
      BY <1>1
    <3>1. Write(m) /\ running' = running \ {n} /\ asking' = asking \ {n}
      BY <2>1 DEF TurnEnds, Write
    <3>2. /\ m \in Seq(MsgType) /\ Len(m) = 2 /\ 1 \in 1..Len(m) /\ 2 \in 1..Len(m)
          /\ m[1] = Msg("resolved", n) /\ m[2] = Msg("completed", n)
          /\ \A j \in 1..Len(m) : j = 1 \/ j = 2
      <4> HIDE DEF r, c
      <4>1. /\ m \in Seq(MsgType) /\ Len(m) = Len(r) + Len(c)
            /\ \A i \in 1..Len(r) + Len(c) : m[i] = IF i <= Len(r) THEN r[i] ELSE c[i - Len(r)]
        BY <3>0, ConcatProperties
      <4> HIDE DEF m
      <4>2. Len(m) = 2 /\ m[1] = r[1] /\ m[2] = c[2 - 1]
        BY <3>0, <4>1
      <4> QED
        BY <3>0, <4>1, <4>2
    <3> HIDE DEF m
    <3>3. Says(m)
      BY <1>1, <2>1, <3>1, <3>2
    <3> QED
      BY <3>3
  <2>2. CASE TurnEnds(n) /\ n \notin asking
    <3> DEFINE m == <<Msg("completed", n)>>
    <3>0. <<>> \o m = m
      OBVIOUS
    <3>1. Write(m) /\ running' = running \ {n} /\ asking' = asking \ {n}
      BY <2>2, <3>0 DEF TurnEnds, Write
    <3>2. /\ m \in Seq(MsgType) /\ Len(m) = 1 /\ 1 \in 1..Len(m)
          /\ m[1] = Msg("completed", n)
          /\ \A j \in 1..Len(m) : j = 1
      BY <1>1
    <3> HIDE DEF m
    <3>3. Says(m)
      BY <1>1, <2>2, <3>1, <3>2
    <3> QED
      BY <3>3
  <2>a. ProcessAnswers(n) \/ TurnAsks(n) => ~TurnEnds(n)
    <3> SUFFICES ASSUME ProcessAnswers(n) \/ TurnAsks(n), TurnEnds(n)
                 PROVE  FALSE
      OBVIOUS
    <3>1. n \in running /\ running' = running \ {n}
      BY DEF TurnEnds
    <3>2. running \subseteq running'
      BY DEF ProcessAnswers, TurnAsks
    <3> QED
      BY <3>1, <3>2
  <2>3. CASE ProcessAnswers(n) /\ running' = running \cup {n}
             /\ Write(<<Msg("ok", n), Msg("started", n)>>)
    <3> DEFINE m == <<Msg("ok", n), Msg("started", n)>>
    <3>1. Write(m) /\ asking' = asking
      BY <2>3 DEF ProcessAnswers
    <3>2. /\ m \in Seq(MsgType) /\ Len(m) = 2
          /\ m[1] = Msg("ok", n) /\ m[2] = Msg("started", n)
          /\ \A j \in 1..Len(m) : j = 1 \/ j = 2
      BY <1>1
    <3> HIDE DEF m
    <3>3. Says(m)
      BY <1>1, <2>3, <2>a, <3>1, <3>2
    <3> QED
      BY <3>3
  <2>4. CASE ProcessAnswers(n) /\ running' = running /\ Write(<<Msg("error", n)>>)
    <3> DEFINE m == <<Msg("error", n)>>
    <3>1. Write(m) /\ asking' = asking
      BY <2>4 DEF ProcessAnswers
    <3>2. /\ m \in Seq(MsgType) /\ Len(m) = 1 /\ m[1] = Msg("error", n)
          /\ \A j \in 1..Len(m) : j = 1
      BY <1>1
    <3> HIDE DEF m
    <3>3. Says(m)
      BY <1>1, <2>4, <2>a, <3>1, <3>2
    <3> QED
      BY <3>3
  <2>5. CASE TurnAsks(n)
    <3> DEFINE m == <<Msg("ask", n)>>
    <3>1. Write(m) /\ asking' = asking \cup {n} /\ running' = running
      BY <2>5 DEF TurnAsks
    <3>2. /\ m \in Seq(MsgType) /\ Len(m) = 1 /\ m[1] = Msg("ask", n)
          /\ \A j \in 1..Len(m) : j = 1
      BY <1>1
    <3> HIDE DEF m
    <3>3. Says(m)
      BY <1>1, <2>5, <2>a, <3>1, <3>2
    <3> QED
      BY <3>3
  <2> QED
    BY <2>1, <2>2, <2>3, <2>4, <2>5 DEF ProcessAnswers
<1>3. PICK msgs : Says(msgs)
  BY <1>2
<1>4. /\ \A g \in Procs \ {proc} : stdout'[g] = stdout[g]
      /\ \A i \in 1..Len(stdout[proc]) :
            i \in 1..Len(stdout'[proc]) /\ stdout'[proc][i] = stdout[proc][i]
      /\ \A i \in 1..Len(stdout'[proc]) :
            \/ i \in 1..Len(stdout[proc])
            \/ /\ \A j \in 1..Len(stdout[proc]) : i > j
               /\ \E j \in 1..Len(msgs) : stdout'[proc][i] = msgs[j]
      /\ \A j \in 1..Len(msgs) : \E i \in 1..Len(stdout'[proc]) :
            /\ stdout'[proc][i] = msgs[j]
            /\ \A k \in 1..Len(stdout[proc]) : i > k
  BY <1>0, <1>3, Written
<1>5. ASSUME NEW i \in 1..Len(stdout'[proc]), i \notin 1..Len(stdout[proc])
      PROVE  /\ \A j \in 1..Len(stdout[proc]) : i > j
             /\ stdout'[proc][i].turn = n
             /\ stdout'[proc][i].kind \in {"ok", "started"} => n \in running'
             /\ stdout'[proc][i].kind = "ask" => n \in asking'
  <2>1. PICK j \in 1..Len(msgs) : stdout'[proc][i] = msgs[j]
    BY <1>4, <1>5
  <2> QED
    BY <1>3, <1>4, <1>5, <2>1
<1>6. ASSUME TurnEnds(n)
      PROVE  /\ running' = running \ {n} /\ asking' = asking \ {n}
             /\ \E i \in 1..Len(stdout'[proc]) :
                   /\ stdout'[proc][i] = Msg("completed", n)
                   /\ \A j \in 1..Len(stdout[proc]) : i > j
             /\ n \in asking => \E i \in 1..Len(stdout'[proc]) :
                   /\ stdout'[proc][i] = Msg("resolved", n)
                   /\ \A j \in 1..Len(stdout[proc]) : i > j
  <2>1. PICK j \in 1..Len(msgs) : msgs[j] = Msg("completed", n)
    BY <1>3, <1>6
  <2>2. \E i \in 1..Len(stdout'[proc]) :
          /\ stdout'[proc][i] = Msg("completed", n)
          /\ \A k \in 1..Len(stdout[proc]) : i > k
    BY <1>4, <2>1
  <2>3. ASSUME n \in asking
        PROVE  \E i \in 1..Len(stdout'[proc]) :
                 /\ stdout'[proc][i] = Msg("resolved", n)
                 /\ \A k \in 1..Len(stdout[proc]) : i > k
    <3>1. PICK k \in 1..Len(msgs) : msgs[k] = Msg("resolved", n)
      BY <1>3, <1>6, <2>3
    <3> QED
      BY <1>4, <3>1
  <2> QED
    BY <1>3, <1>6, <2>2, <2>3
<1>7. ~TurnEnds(n) => running \subseteq running' /\ asking \subseteq asking'
  BY <1>3
<1> QED
  BY <1>0, <1>4, <1>5, <1>6, <1>7

\* The output after its first message is taken.
LEMMA Taken ==
    ASSUME NEW s \in Seq(MsgType), s # <<>>, NEW t, t = Tail(s)
    PROVE  /\ 1 \in 1..Len(s) /\ s[1] = Head(s)
           /\ \A i \in 1..Len(t) : i + 1 \in 1..Len(s) /\ t[i] = s[i + 1]
           /\ \A i \in 1..Len(s) : i # 1 => i - 1 \in 1..Len(t) /\ t[i - 1] = s[i]
<1>1. /\ Len(s) \in Nat \ {0} /\ Len(t) = Len(s) - 1 /\ s[1] = Head(s)
      /\ \A i \in 1..Len(t) : t[i] = s[i + 1]
  BY HeadTailProperties
<1>2. \A i \in 1..Len(t) : i + 1 \in 1..Len(s)
  BY <1>1
<1>3. ASSUME NEW i \in 1..Len(s), i # 1
      PROVE  i - 1 \in 1..Len(t) /\ t[i - 1] = s[i]
  <2>1. i - 1 \in 1..Len(t) /\ (i - 1) + 1 = i
    BY <1>1, <1>3
  <2> QED
    BY <1>1, <2>1
<1> QED
  BY <1>1, <1>2, <1>3

-----------------------------------------------------------------------------
(* Turns that a restart spares. *)

\* Turns and their next number are numbers.
LEMMA NumbersAre ==
    ASSUME Typed
    PROVE  nextId \in Nat /\ Turns \subseteq Nat
BY HostConstants DEF Typed, RequestOK, Turns

\* A step that hands out no number.
LEMMA NumbersKept ==
    ASSUME NumbersInv, nextId' = nextId, stdin' \subseteq stdin, acked' \subseteq acked,
           \A n \in running' : n \in running \/ (n < nextId /\ n \notin stdin'),
           \A g \in Procs : \A i \in 1..Len(stdout'[g]) :
              \/ \E j \in 1..Len(stdout[g]) : stdout'[g][i] = stdout[g][j]
              \/ stdout'[g][i].turn < nextId /\ stdout'[g][i].turn \notin stdin',
           request'.reply = "ok" => request'.id \notin stdin',
           Adapt'.pc = "await" => Adapt.pc = "await" /\ request'.id = request.id
    PROVE  NumbersInv'
<1>1. \A n \in running' \cup stdin' \cup acked' : n < nextId
  BY DEF NumbersInv
<1>2. ASSUME NEW g \in Procs, NEW i \in 1..Len(stdout'[g])
      PROVE  stdout'[g][i].turn \notin stdin' /\ stdout'[g][i].turn < nextId
  BY DEF NumbersInv
<1>3. running' \cap stdin' = {} /\ acked' \cap stdin' = {}
  BY DEF NumbersInv
<1>4. Adapt'.pc = "await" => request'.id \notin acked'
  BY DEF NumbersInv
<1> QED
  BY <1>1, <1>2, <1>3, <1>4 DEF NumbersInv

\* Numbers are handed out once: every step keeps NumbersInv.
LEMMA NumbersStep ==
    ASSUME Typed, NumbersInv, [Next]_vars
    PROVE  NumbersInv'
<1> USE ActorsAre, HostConstants
<1>0. ControlOK /\ RequestOK /\ ProcessOK /\ ReaderOK /\ BooksOK
  BY DEF Typed
<1>a. nextId \in Nat /\ Turns \subseteq Nat
  BY NumbersAre
<1>1. ASSUME nextId' = nextId, stdin' \subseteq stdin, acked' \subseteq acked, running' \subseteq running,
             stdout' = stdout,
             request'.reply = "ok" => request.reply = "ok" /\ request'.id = request.id,
             Adapt'.pc = "await" => Adapt.pc = "await" /\ request'.id = request.id
      PROVE  NumbersInv'
  <2>1. request'.reply = "ok" => request'.id \notin stdin'
    BY <1>1 DEF NumbersInv
  <2> QED
    BY <1>1, <2>1, NumbersKept
<1>2. CASE Registry \/ ProcessCrashes \/ UNCHANGED vars
  <2>1. Adapt' = Adapt /\ nextId' = nextId
    BY <1>0, <1>2, AdapterStays DEF Process, vars, Adapt
  <2>2. /\ stdin' \subseteq stdin /\ acked' \subseteq acked /\ running' \subseteq running
        /\ stdout' = stdout /\ request' \in {request, Drained(request)}
    BY <1>2 DEF Registry, ScheduleRuntimeRefresh, SetSecretEnvironment, Restart, Shutdown,
       ProcessCrashes, vars
  <2>3. request'.id = request.id /\ (request'.reply = "ok" => request.reply = "ok")
    BY <1>0, <2>2, DrainedOK
  <2> QED
    BY <1>1, <2>1, <2>2, <2>3
<1>3. ASSUME NEW a \in Actors, RestartUnlocked(a)
      PROVE  NumbersInv'
  <2>1. Adapt'.pc # "await"
    BY <1>0, <1>3, CtlRestart DEF Adapt
  <2>2. /\ nextId' = nextId /\ stdin' \subseteq stdin /\ acked' \subseteq acked
        /\ running' \subseteq running /\ stdout' = stdout /\ request' \in {request, Drained(request)}
    BY <1>3 DEF RestartUnlocked, BumpGeneration, StopProcess, SpawnProcess, InitializeSucceeds,
       InitializeFails
  <2>3. request'.id = request.id /\ (request'.reply = "ok" => request.reply = "ok")
    BY <1>0, <2>2, DrainedOK
  <2> QED
    BY <1>1, <2>1, <2>2, <2>3
<1>4. CASE Adapter
  <2>1. CASE PrepareRuntime \/ ApplyScheduledRestart
    <3>1. UNCHANGED <<nextId, stdin, acked, running, stdout, request>>
      BY <2>1 DEF PrepareRuntime, ApplyScheduledRestart
    <3>2. Adapt'.pc # "await"
      <4>1. \/ \E l \in {"prepare", "request"} : Goto("adapter", l)
            \/ ctl' = [ctl EXCEPT !["adapter"] = Idle]
            \/ ctl' = [ctl EXCEPT !["adapter"] = [pc |-> "bump", env |-> scheduled]]
        BY <2>1 DEF PrepareRuntime, ApplyScheduledRestart
      <4>2. CASE \E l \in {"prepare", "request"} : Goto("adapter", l)
        BY <1>0, <4>2, CtlGoto DEF Adapt, Labels, AdapterLabels
      <4>3. CASE \/ ctl' = [ctl EXCEPT !["adapter"] = Idle]
                 \/ ctl' = [ctl EXCEPT !["adapter"] = [pc |-> "bump", env |-> scheduled]]
        BY <1>0, <4>3 DEF Adapt, Idle, ControlOK
      <4> QED
        BY <4>1, <4>2, <4>3
    <3> QED
      BY <1>1, <3>1, <3>2
  <2>2. CASE RequestFails
    <3>1. /\ UNCHANGED <<nextId, stdin, acked, running, stdout>> /\ request' = NoRequest
          /\ ctl' = [ctl EXCEPT !["adapter"] = Idle]
      BY <2>2 DEF RequestFails, EndRequest
    <3>2. Adapt'.pc = "idle" /\ request'.reply = "none"
      BY <1>0, <3>1 DEF Adapt, Idle, ControlOK, NoRequest
    <3> QED
      BY <1>1, <3>1, <3>2
  <2>3. CASE TurnStartReturns
    <3>1. /\ UNCHANGED <<nextId, stdin, running, stdout>> /\ request' = NoRequest
          /\ ctl' = [ctl EXCEPT !["adapter"] = Idle] /\ acked' = acked \cup {request.id}
          /\ request.reply = "ok" /\ Adapt.pc = "await"
      BY <2>3 DEF TurnStartReturns, EndRequest, Adapt
    <3>2. Adapt'.pc = "idle" /\ request'.reply = "none"
      BY <1>0, <3>1 DEF Adapt, Idle, ControlOK, NoRequest
    <3>3. request.id \notin stdin /\ request.id < nextId
      BY <1>0, <3>1 DEF NumbersInv, RequestOK
    <3> QED
      BY <3>1, <3>2, <3>3 DEF NumbersInv
  <2>4. CASE OtherRequest
    <3>1. /\ UNCHANGED <<nextId, stdin, acked, running, stdout, request>>
          /\ ctl' = [ctl EXCEPT !["adapter"] = Idle]
      BY <2>4 DEF OtherRequest, callVars, processVars
    <3>2. Adapt'.pc = "idle"
      BY <1>0, <3>1 DEF Adapt, Idle, ControlOK
    <3> QED
      BY <1>1, <3>1, <3>2
  <2>5. CASE BeginRequest
    <3>1. /\ nextId' = nextId + 1 /\ UNCHANGED <<acked, running, stdout>>
          /\ \/ stdin' = stdin \cup {nextId} /\ request' = [id |-> nextId, reply |-> "none"]
             \/ /\ stdin' = stdin /\ request' = request
                /\ ctl' = [ctl EXCEPT !["adapter"] = Idle]
          /\ Adapt.pc = "request"
      BY <2>5 DEF BeginRequest, Adapt
    <3>2. \A n \in Nat : n < nextId => n < nextId' /\ n # nextId
      BY <1>a, <3>1
    <3>3. /\ running \subseteq Nat /\ stdin \subseteq Nat /\ acked \subseteq Nat
          /\ nextId < nextId'
      BY <1>0, <1>a, <3>1 DEF ProcessOK, BooksOK
    <3>4. \A n \in running' \cup stdin' \cup acked' : n < nextId'
      BY <3>1, <3>2, <3>3 DEF NumbersInv
    <3>5. \A n \in running \cup acked : n # nextId
      BY <3>2, <3>3 DEF NumbersInv
    <3>6. ASSUME NEW g \in Procs, NEW i \in 1..Len(stdout'[g])
          PROVE  stdout'[g][i].turn \notin stdin' /\ stdout'[g][i].turn < nextId'
      <4>a. stdout[g][i] \in MsgType
        BY <1>0, <3>1 DEF ReaderOK
      <4>1. stdout[g][i].turn \in Nat
        BY <1>a, <4>a DEF MsgType
      <4>2. stdout[g][i].turn \notin stdin /\ stdout[g][i].turn < nextId
        BY <3>1 DEF NumbersInv
      <4> QED
        BY <3>1, <3>2, <4>1, <4>2
    <3>7. request = NoRequest
      BY <1>0, <3>1 DEF RequestOK
    <3>8. request'.reply = "none"
      BY <3>1, <3>7 DEF NoRequest
    <3>9. Adapt'.pc = "await" => request'.id = nextId
      BY <1>0, <3>1 DEF Adapt, Idle, ControlOK
    <3> QED
      BY <3>1, <3>4, <3>5, <3>6, <3>8, <3>9 DEF NumbersInv
  <2> QED
    BY <1>4, <2>1, <2>2, <2>3, <2>4, <2>5 DEF Adapter
<1>5. ASSUME NEW g \in Procs, Reader(g)
      PROVE  NumbersInv'
  <2>1. Adapt' = Adapt /\ nextId' = nextId
    BY <1>0, <1>5, AdapterStays DEF Adapt
  <2>2. CASE ReadLine(g)
    <3> DEFINE m == Head(stdout[g])
    <3>1. /\ stdout[g] # <<>> /\ stdout[g] \in Seq(MsgType) /\ stdout'[g] = Tail(stdout[g])
          /\ \A h \in Procs \ {g} : stdout'[h] = stdout[h]
          /\ UNCHANGED <<stdin, acked, running>>
          /\ request' = request \/ (m.turn \in pending /\ request' = [request EXCEPT !.reply = m.kind])
      BY <1>0, <2>2 DEF ReadLine, ReaderOK
    <3>2. /\ 1 \in 1..Len(stdout[g]) /\ stdout[g][1] = m
          /\ \A i \in 1..Len(stdout'[g]) : i + 1 \in 1..Len(stdout[g]) /\ stdout'[g][i] = stdout[g][i + 1]
      BY <3>1, Taken
    <3>3. m.turn \notin stdin
      BY <3>2 DEF NumbersInv
    <3> HIDE DEF m
    <3>4. request'.id = request.id
      BY <1>0, <3>1 DEF RequestOK
    <3>5. request'.reply = "ok" => request'.id \notin stdin'
      <4>1. CASE request' = request
        BY <3>1, <4>1 DEF NumbersInv
      <4>2. CASE m.turn \in pending
        <5>1. m.turn = request.id
          BY <1>0, <4>2 DEF RequestOK
        <5> QED
          BY <3>1, <3>3, <3>4, <5>1
      <4> QED
        BY <3>1, <4>1, <4>2
    <3>6. ASSUME NEW h \in Procs, NEW i \in 1..Len(stdout'[h])
          PROVE  \E j \in 1..Len(stdout[h]) : stdout'[h][i] = stdout[h][j]
      <4>1. CASE h = g
        BY <3>2, <3>6, <4>1
      <4>2. CASE h # g
        BY <3>1, <3>6, <4>2
      <4> QED
        BY <4>1, <4>2
    <3> QED
      BY <2>1, <3>1, <3>4, <3>5, <3>6, NumbersKept
  <2>3. CASE ~ReadLine(g)
    <3>1. /\ UNCHANGED <<stdin, running, stdout>> /\ acked' \subseteq acked
          /\ request' \in {request, Drained(request)}
      BY <1>5, <2>3 DEF Reader, UpdateRuntimeWork, CheckGeneration, SendEvent, ReadEof, CloseRuntime
    <3>2. request'.id = request.id /\ (request'.reply = "ok" => request.reply = "ok")
      BY <1>0, <3>1, DrainedOK
    <3> QED
      BY <1>1, <2>1, <3>1, <3>2
  <2> QED
    BY <2>2, <2>3
<1>6. ASSUME NEW n \in Turns, ProcessAnswers(n) \/ TurnAsks(n) \/ TurnEnds(n)
      PROVE  NumbersInv'
  <2>1. /\ UNCHANGED <<nextId, acked, request, ctl>> /\ stdin' \subseteq stdin
        /\ running' \subseteq running \cup {n}
        /\ (n \in stdin /\ n \notin stdin') \/ n \in running
    BY <1>0, <1>6 DEF ProcessAnswers, TurnAsks, TurnEnds, ProcessOK
  <2>2. n < nextId /\ n \notin stdin'
    BY <2>1 DEF NumbersInv
  <2>3. ASSUME NEW g \in Procs, NEW i \in 1..Len(stdout'[g])
        PROVE  (\E j \in 1..Len(stdout[g]) : stdout'[g][i] = stdout[g][j]) \/ stdout'[g][i].turn = n
    <3>1. CASE g = proc
      BY <1>0, <1>6, <2>3, <3>1, ProcessSays
    <3>2. CASE g # proc
      BY <1>0, <1>6, <2>3, <3>2, ProcessSays
    <3> QED
      BY <3>1, <3>2
  <2>4. request'.reply = "ok" => request'.id \notin stdin'
    BY <2>1 DEF NumbersInv
  <2> QED
    BY <2>1, <2>2, <2>3, <2>4, NumbersKept DEF Adapt
<1> QED
  BY <1>2, <1>3, <1>4, <1>5, <1>6 DEF Next, Process

\* Only the return of turn/start adds to the Turns that run and a caller knows.
LEMMA KnownTurns ==
    ASSUME Typed, NumbersInv, [Next]_vars, ~TurnStartReturns
    PROVE  acked' \cap running' \subseteq acked \cap running
<1>1. CASE UNCHANGED <<acked, running>>
  BY <1>1
<1>2. CASE acked' = {} \/ (acked' \subseteq acked /\ running' \subseteq running)
  BY <1>2
<1>3. CASE Registry \/ Adapter \/ UNCHANGED vars
  BY <1>2, <1>3 DEF Registry, ScheduleRuntimeRefresh, SetSecretEnvironment, Restart, Shutdown, Adapter,
     PrepareRuntime, ApplyScheduledRestart, BeginRequest, OtherRequest, RequestFails, EndRequest, vars
<1>4. ASSUME NEW g \in Procs, Reader(g)
      PROVE  acked' \cap running' \subseteq acked \cap running
  BY <1>2, <1>4 DEF Reader, ReadLine, UpdateRuntimeWork, CheckGeneration, SendEvent, ReadEof, CloseRuntime
<1>5. ASSUME NEW a \in Actors, RestartUnlocked(a)
      PROVE  acked' \cap running' \subseteq acked \cap running
  BY <1>2, <1>5 DEF RestartUnlocked, BumpGeneration, StopProcess, SpawnProcess, InitializeSucceeds,
     InitializeFails
<1>6. CASE Process
  <2>1. ASSUME NEW n \in Turns, ProcessAnswers(n)
        PROVE  acked' \cap running' \subseteq acked \cap running
    <3>1. n \in stdin /\ running' \subseteq running \cup {n} /\ acked' = acked
      BY <2>1 DEF ProcessAnswers
    <3>2. n \notin acked
      BY <3>1 DEF NumbersInv
    <3> QED
      BY <3>1, <3>2
  <2>2. ASSUME NEW n \in Turns, TurnAsks(n) \/ TurnEnds(n)
        PROVE  acked' \cap running' \subseteq acked \cap running
    BY <2>2, <1>2 DEF TurnAsks, TurnEnds
  <2>3. CASE ProcessCrashes
    BY <2>3, <1>2 DEF ProcessCrashes
  <2> QED
    BY <1>6, <2>1, <2>2, <2>3 DEF Process
<1> QED
  BY <1>3, <1>4, <1>5, <1>6 DEF Next

\* Every step keeps SpareInv.
LEMMA SpareStep ==
    ASSUME Typed, SpareInv, [Next]_vars
    PROVE  SpareInv'
<1> USE ActorsAre, HostConstants
<1>0. ControlOK /\ RequestOK /\ ProcessOK /\ NumbersInv
  BY DEF Typed, SpareInv
<1>a. Restarting = {"bump", "stop", "spawn", "initialize"}
  BY DEF Restarting
<1>1. NumbersInv'
  BY <1>0, NumbersStep
<1>2. CASE TurnStartReturns
  <2>1. /\ acked' = acked \cup {request.id} /\ running' = running
        /\ activeTurns' = activeTurns \cup {request.id} /\ wiped' = wiped \ {request.id}
        /\ ctl' = [ctl EXCEPT !["adapter"] = Idle] /\ Adapt.pc = "await"
    BY <1>2 DEF TurnStartReturns, EndRequest, Adapt
  <2>2. acked' \cap running' \subseteq activeTurns' \cup wiped'
    BY <2>1 DEF SpareInv
  <2>3. Reg.pc \notin Restarting /\ Reg' = Reg /\ Adapt'.pc = "idle"
    BY <1>0, <2>1 DEF ControlOK, Adapt, Reg, Idle
  <2>4. RestartSparesTurns'
    BY <1>a, <2>3 DEF RestartSparesTurns, Adapt, Reg
  <2> QED
    BY <1>1, <2>2, <2>4 DEF SpareInv
<1>3. CASE ~TurnStartReturns
  <2>1. acked' \cap running' \subseteq acked \cap running
    BY <1>0, <1>3, KnownTurns
  <2>a. acked' = {} \/ wiped \subseteq wiped'
    <3>1. CASE acked' = {} \/ wiped \subseteq wiped'
      BY <3>1
    <3>2. CASE Registry \/ Adapter \/ Process \/ UNCHANGED vars
      BY <1>3, <3>1, <3>2 DEF Registry, ScheduleRuntimeRefresh, SetSecretEnvironment, Restart, Shutdown,
         Adapter, PrepareRuntime, ApplyScheduledRestart, BeginRequest, OtherRequest,
         RequestFails, EndRequest,
         Process, ProcessAnswers, TurnAsks, TurnEnds, ProcessCrashes, vars
    <3>3. ASSUME NEW g \in Procs, Reader(g)
          PROVE  acked' = {} \/ wiped \subseteq wiped'
      BY <3>1, <3>3 DEF Reader, ReadLine, UpdateRuntimeWork, CheckGeneration, SendEvent, ReadEof, CloseRuntime
    <3>4. ASSUME NEW a \in Actors, RestartUnlocked(a)
          PROVE  acked' = {} \/ wiped \subseteq wiped'
      BY <3>1, <3>4 DEF RestartUnlocked, BumpGeneration, StopProcess, SpawnProcess, InitializeSucceeds,
         InitializeFails
    <3> QED
      BY <3>2, <3>3, <3>4 DEF Next
  <2>2. acked' \cap running' \subseteq activeTurns' \cup wiped'
    <3>1. CASE activeTurns' = activeTurns \/ acked' = {}
      BY <2>1, <2>a, <3>1 DEF SpareInv
    <3>2. ASSUME NEW g \in Procs, UpdateRuntimeWork(g)
          PROVE  acked' \cap running' \subseteq activeTurns' \cup wiped'
      BY <2>1, <2>a, <3>2 DEF UpdateRuntimeWork, TurnsAfter, SpareInv
    <3>3. CASE Registry \/ Adapter \/ Process \/ UNCHANGED vars
      BY <1>3, <3>1, <3>3 DEF Registry, ScheduleRuntimeRefresh, SetSecretEnvironment, Restart, Shutdown,
         Adapter, PrepareRuntime, ApplyScheduledRestart, BeginRequest, OtherRequest,
         RequestFails, EndRequest,
         Process, ProcessAnswers, TurnAsks, TurnEnds, ProcessCrashes, vars
    <3>4. ASSUME NEW g \in Procs, Reader(g)
          PROVE  acked' \cap running' \subseteq activeTurns' \cup wiped'
      <4>1. CloseRuntime(g) => acked' = {} \/ acked' \cap running' \subseteq wiped'
        BY <2>1 DEF CloseRuntime, SpareInv
      <4> QED
        BY <3>1, <3>2, <3>4, <4>1 DEF Reader, ReadLine, CheckGeneration, SendEvent, ReadEof
    <3>5. ASSUME NEW a \in Actors, RestartUnlocked(a)
          PROVE  acked' \cap running' \subseteq activeTurns' \cup wiped'
      BY <3>1, <3>5 DEF RestartUnlocked, BumpGeneration, StopProcess, SpawnProcess, InitializeSucceeds,
         InitializeFails
    <3> QED
      BY <3>3, <3>4, <3>5 DEF Next
  <2>3. CASE \E a \in Actors : ctl[a].pc \in {"bump", "stop"}
    BY <1>1, <2>1, <2>2, <2>3, <2>a DEF SpareInv, RestartSparesTurns
  <2>4. CASE \A a \in Actors : ctl[a].pc \notin {"bump", "stop"}
    <3>1. CASE Restart \/ ApplyScheduledRestart
      <4>1. CASE Busy
        <5>1. \A a \in Actors : ctl'[a].pc \notin {"bump", "stop"}
          <6>1. CASE Restart
            <7>1. RestartFailed
              BY <4>1, <6>1 DEF Restart
            <7> QED
              BY <1>0, <2>4, <7>1, CtlFailed
          <6>2. CASE ApplyScheduledRestart /\ scheduled = None
            <7>1. Goto("adapter", "request")
              BY <4>1, <6>2 DEF ApplyScheduledRestart
            <7>2. ctl'["adapter"].pc = "request" /\ ctl'["registry"] = ctl["registry"]
              BY <1>0, <7>1, CtlGoto DEF Labels, AdapterLabels
            <7> QED
              BY <2>4, <7>2
          <6>3. CASE ApplyScheduledRestart /\ scheduled # None
            <7>1. ctl' = [ctl EXCEPT !["adapter"] = Idle]
              BY <4>1, <6>3 DEF ApplyScheduledRestart
            <7>2. ctl'["adapter"].pc = "idle" /\ ctl'["registry"] = ctl["registry"]
              BY <1>0, <7>1 DEF Idle, ControlOK
            <7> QED
              BY <2>4, <7>2
          <6> QED
            BY <3>1, <6>1, <6>2, <6>3
        <5> QED
          BY <1>1, <2>2, <5>1 DEF SpareInv, RestartSparesTurns
      <4>2. CASE ~Busy
        <5>1. activeTurns = {}
          BY <4>2 DEF Busy
        <5>2. acked' \cap running' \subseteq wiped'
          BY <2>1, <2>a, <5>1 DEF SpareInv
        <5> QED
          BY <1>1, <2>2, <5>2 DEF SpareInv, RestartSparesTurns
      <4> QED
        BY <4>1, <4>2
    <3>2. CASE ~(Restart \/ ApplyScheduledRestart)
      <4>1. \A a \in Actors : ctl'[a].pc \notin {"bump", "stop"}
        <5>1. CASE ctl' = ctl
          BY <2>4, <5>1
        <5>2. CASE Process \/ (\E g \in Procs : Reader(g)) \/ UNCHANGED vars
          BY <5>1, <5>2 DEF Process, ProcessAnswers, TurnAsks, TurnEnds, ProcessCrashes, Reader, ReadLine,
             UpdateRuntimeWork, CheckGeneration, SendEvent, ReadEof, CloseRuntime, vars
        <5>3. CASE Registry
          <6>1. CASE \E value \in Secrets : SetSecretEnvironment(value)
            <7>1. ctl' = [ctl EXCEPT !["registry"] = [pc |-> "restart", env |-> env]]
              BY <6>1 DEF SetSecretEnvironment
            <7>2. ctl'["registry"].pc = "restart" /\ ctl'["adapter"] = ctl["adapter"]
              BY <1>0, <7>1 DEF ControlOK
            <7> QED
              BY <2>4, <7>2
          <6> QED
            BY <3>2, <5>1, <5>3, <6>1 DEF Registry, ScheduleRuntimeRefresh, Shutdown
        <5>4. CASE Adapter
          <6>1. CASE PrepareRuntime \/ (BeginRequest /\ proc # 0)
            <7>1. \E l \in {"prepare", "await"} : Goto("adapter", l)
              BY <6>1 DEF PrepareRuntime, BeginRequest
            <7>2. ctl'["adapter"].pc \in {"prepare", "await"} /\ ctl'["registry"] = ctl["registry"]
              BY <1>0, <7>1, CtlGoto DEF Labels, AdapterLabels
            <7> QED
              BY <2>4, <7>2
          <6>2. CASE (BeginRequest /\ proc = 0) \/ OtherRequest \/ RequestFails
            <7>1. ctl' = [ctl EXCEPT !["adapter"] = Idle]
              BY <6>2 DEF BeginRequest, OtherRequest, RequestFails, EndRequest
            <7>2. ctl'["adapter"].pc = "idle" /\ ctl'["registry"] = ctl["registry"]
              BY <1>0, <7>1 DEF Idle, ControlOK
            <7> QED
              BY <2>4, <7>2
          <6> QED
            BY <1>3, <3>2, <5>4, <6>1, <6>2 DEF Adapter
        <5>5. ASSUME NEW a \in Actors, RestartUnlocked(a)
              PROVE  \A b \in Actors : ctl'[b].pc \notin {"bump", "stop"}
          <6>1. /\ ctl[a].pc \in {"spawn", "initialize"}
                /\ \A b \in Actors \ {a} : ctl'[b] = ctl[b]
            BY <1>0, <1>a, <2>4, <5>5, CtlRestart
          <6>2. ctl'[a].pc \notin {"bump", "stop"}
            <7>1. CASE RestartEndsInError(a)
              BY <1>0, <1>a, <6>1, <7>1, CtlError DEF Adapt, Reg
            <7>2. CASE Goto(a, "initialize")
              BY <1>0, <7>2, CtlGoto DEF Labels, AdapterLabels, Restarting
            <7>3. CASE InitializeSucceeds(a)
              <8>1. PICK l \in {"request", "idle"} :
                      ctl' = [ctl EXCEPT ![a] = [pc |-> l, env |-> None]]
                BY <7>3 DEF InitializeSucceeds
              <8> QED
                BY <1>0, <8>1 DEF ControlOK
            <7> QED
              BY <5>5, <6>1, <7>1, <7>2, <7>3 DEF RestartUnlocked, BumpGeneration, StopProcess,
                 SpawnProcess, InitializeFails
          <6> QED
            BY <2>4, <6>1, <6>2
        <5> QED
          BY <5>2, <5>3, <5>4, <5>5 DEF Next
      <4> QED
        BY <1>1, <2>2, <4>1 DEF SpareInv, RestartSparesTurns
    <3> QED
      BY <3>1, <3>2
  <2> QED
    BY <2>3, <2>4
<1> QED
  BY <1>2, <1>3

\* "A credential-triggered restart cannot enter that gap" (request): once a restart is
\* decided on, and until the process is stopped, it runs no Turn whose turn/start has
\* returned to a caller, whatever the readers of replaced processes do: such a reader
\* exposes only the Turns it took off the books of the next process.
THEOREM TurnsAreSpared == Spec => []RestartSparesTurns
<1>1. Init => SpareInv
  BY ActorsAre DEF Init, SpareInv, NumbersInv, RestartSparesTurns, NoRequest, Adapt, Idle
<1>2. Typed /\ SpareInv /\ [Next]_vars => SpareInv'
  BY SpareStep
<1>3. SpareInv => RestartSparesTurns
  BY DEF SpareInv
<1> QED
  BY <1>1, <1>2, <1>3, AlwaysTyped, PTL DEF Spec

-----------------------------------------------------------------------------
(* No work is booked for ever. *)

\* A step that leaves the process, its output and its reader alone.
LEMMA StreamSame ==
    ASSUME UNCHANGED <<generation, proc, running, asking>>, In' = In, Out' = Out
    PROVE  /\ StreamInv => StreamInv'
           /\ Dying => Dying'
           /\ \A n \in Nat : Ending(n) => Ending(n)'
           /\ \A n \in Nat : Resolving(n) => Resolving(n)'
<1>1. /\ \A k, n : Ahead(k, n)' = Ahead(k, n) /\ Held(k, n)' = Held(k, n)
      /\ \A k, n, i : Behind(k, n, i)' = Behind(k, n, i)
  BY DEF Ahead, Held, Behind
<1> QED
  BY <1>1 DEF StreamInv, Dying, Ending, Resolving

\* A step that leaves all readers alone.
LEMMA StreamKept ==
    ASSUME UNCHANGED <<generation, proc, running, asking, reader, stdout>>
    PROVE  /\ StreamInv => StreamInv'
           /\ Dying => Dying'
           /\ \A n \in Nat : Ending(n) => Ending(n)'
           /\ \A n \in Nat : Resolving(n) => Resolving(n)'
<1>1. In' = In /\ Out' = Out
  BY DEF In, Out
<1> QED
  BY <1>1, StreamSame

\* A step that adds nothing to the books.
LEMMA BookedKept ==
    ASSUME BooksOK, BookedInv, UNCHANGED <<activeTurns, serverRequests, early>>,
           Clearing => Clearing', Dying => Dying',
           \A n \in Nat : Ending(n) => Ending(n)' \/ Dying',
           \A n \in Nat : Resolving(n) => Resolving(n)' \/ Dying',
           (request.reply = "ok" => request.id \in early \/ Dying \/ Ending(request.id))',
           state' = "stopped" => state = "stopped" /\ Adapt'.pc # "await"
    PROVE  BookedInv'
<1>0. Turns \subseteq Nat
  BY HostConstants DEF Turns
<1>1. ASSUME NEW n \in activeTurns'
      PROVE  n \in early' \/ Clearing' \/ Dying' \/ Ending(n)'
  <2>1. n \in Nat /\ (n \in early \/ Clearing \/ Dying \/ Ending(n))
    BY <1>0 DEF BooksOK, BookedInv
  <2> QED
    BY <2>1
<1>2. ASSUME NEW n \in serverRequests'
      PROVE  n \in early' \/ Clearing' \/ Dying' \/ Resolving(n)'
  <2>1. n \in Nat /\ (n \in early \/ Clearing \/ Dying \/ Resolving(n))
    BY <1>0 DEF BooksOK, BookedInv
  <2> QED
    BY <2>1
<1> QED
  BY <1>1, <1>2 DEF BookedInv

\* A step after which nothing runs and nothing is booked.
LEMMA BookedEmpty ==
    ASSUME activeTurns' = {}, serverRequests' = {}, request'.reply # "ok",
           state' = "stopped" => Adapt'.pc # "await"
    PROVE  BookedInv'
BY DEF BookedInv

\* An actor that is about to stop the process stays there.
LEMMA ClearingKept ==
    ASSUME ControlOK, state' = state,
           Registry \/ Adapter \/ Process \/ (\E g \in Procs : Reader(g)) \/ UNCHANGED vars
    PROVE  Clearing => Clearing'
<1>1. \A a \in Actors : ctl[a].pc = "stop" => ctl'[a].pc = "stop"
  BY RestarterKept DEF Restarting
<1> QED
  BY <1>1 DEF Clearing

\* restart_unlocked replaces the process only with the books cleared.
LEMMA IdleRestart ==
    ASSUME Typed, Typed', IdleInv, NEW a \in Actors, RestartUnlocked(a)
    PROVE  IdleInv'
<1> USE ActorsAre, HostConstants
<1>0. ControlOK /\ RequestOK /\ ProcessOK /\ ReaderOK /\ BooksOK /\ StreamInv /\ BookedInv
  BY DEF Typed, IdleInv
<1>a. Restarting = {"bump", "stop", "spawn", "initialize"}
  BY DEF Restarting
<1>b. generation \in Procs /\ generation # 0 /\ generation \in Nat
  BY <1>0 DEF ProcessOK, Procs
<1>1. /\ ctl[a].pc \in Restarting
      /\ \A b \in Actors \ {a} : ctl'[b] = ctl[b] /\ ctl[b].pc \notin Restarting \cup {"await"}
      /\ ctl'[a].pc # "await"
  BY <1>0, CtlRestart
<1>2. Adapt.pc # "await" /\ Adapt'.pc # "await"
  BY <1>1, <1>a DEF Adapt
<1>3. request = NoRequest /\ request' = NoRequest /\ request'.reply # "ok"
  BY <1>0, <1>2 DEF Typed, RequestOK, NoRequest
<1>4. ctl[a].pc # "stop" => ~Clearing /\ proc \in {0, generation}
  BY <1>0, <1>1, <1>a DEF Clearing, ProcessOK
<1>5. state = "stopped" => activeTurns \cup serverRequests \subseteq early /\ proc = 0
  BY <1>0 DEF BookedInv, ProcessOK
<1>6. CASE BumpGeneration(a)
  <2>1. /\ generation' = generation + 1 /\ ctl[a].pc = "bump" /\ ctl'[a].pc = "stop"
        /\ UNCHANGED <<activeTurns, serverRequests, early, state, proc>>
    BY <1>0, <1>6, CtlRestart DEF BumpGeneration
  <2>2. proc' # generation'
    BY <1>4, <1>b, <2>1
  <2>3. state # "stopped" => Clearing'
    BY <2>1 DEF Clearing
  <2> QED
    BY <1>2, <1>3, <1>5, <2>1, <2>2, <2>3 DEF IdleInv, StreamInv, BookedInv
<1>7. CASE StopProcess(a)
  <2>1. proc' = 0 /\ generation' = generation
    BY <1>5, <1>7 DEF StopProcess
  <2>2. StreamInv'
    BY <1>b, <2>1 DEF StreamInv
  <2>3. CASE state # "stopped"
    <3>1. activeTurns' = {} /\ serverRequests' = {}
      BY <1>7, <2>3 DEF StopProcess
    <3> QED
      BY <1>2, <1>3, <2>2, <3>1, BookedEmpty DEF IdleInv
  <2>4. CASE state = "stopped"
    <3>1. UNCHANGED <<activeTurns, serverRequests, early>>
      BY <1>7, <2>4 DEF StopProcess
    <3> QED
      BY <1>2, <1>3, <1>5, <2>2, <2>4, <3>1 DEF IdleInv, BookedInv
  <2> QED
    BY <2>3, <2>4
<1>8. CASE SpawnProcess(a)
  <2>1. /\ state = "stopped" /\ reader[generation].pc = "none"
        /\ UNCHANGED <<activeTurns, serverRequests, early, generation, stdout, running, asking>>
    BY <1>0, <1>8 DEF SpawnProcess, ProcessOK
  <2>2. BookedInv'
    BY <1>2, <1>3, <1>5, <2>1 DEF BookedInv
  <2>3. CASE proc' = generation
    <3>1. reader' = [reader EXCEPT ![generation] = Reading] \/ proc = generation
      BY <1>8, <2>3 DEF SpawnProcess
    <3>2. reader' = [reader EXCEPT ![generation] = Reading] /\ stdout[generation] = <<>>
      BY <1>0, <1>5, <1>b, <2>1, <3>1 DEF ReaderOK
    <3>3. In'.pc = "read" /\ Out' = <<>>
      BY <1>0, <1>b, <2>1, <3>2 DEF In, Out, ReaderOK, Reading
    <3>4. 1..Len(Out') = {}
      BY <3>3
    <3> QED
      BY <2>2, <3>3, <3>4 DEF IdleInv, StreamInv
  <2>4. CASE proc' # generation
    BY <2>1, <2>2, <2>4 DEF IdleInv, StreamInv
  <2> QED
    BY <2>3, <2>4
<1>9. CASE InitializeSucceeds(a)
  <2>1. /\ UNCHANGED <<generation, proc, running, asking, reader, stdout>>
        /\ UNCHANGED <<activeTurns, serverRequests, early>>
        /\ state' = "ready" /\ ctl[a].pc = "initialize"
    BY <1>9 DEF InitializeSucceeds
  <2>2. BookedInv'
    BY <1>0, <1>3, <1>4, <2>1, StreamKept, BookedKept
  <2> QED
    BY <1>0, <2>1, <2>2, StreamKept DEF IdleInv
<1>10. CASE InitializeFails(a)
  <2>1. /\ proc' = 0 /\ ctl[a].pc = "initialize"
        /\ UNCHANGED <<generation, reader, activeTurns, serverRequests, early>>
        /\ state' = "stopped" => state = "stopped"
    BY <1>10 DEF InitializeFails
  <2>2. StreamInv'
    BY <1>b, <2>1 DEF StreamInv
  <2>3. proc = generation \/ Dying => Dying'
    BY <1>0, <1>b, <2>1 DEF Dying, StreamInv, In
  <2>4. \A n \in Nat : (Ending(n) => Dying') /\ (Resolving(n) => Dying')
    BY <2>3 DEF Ending, Resolving
  <2>5. BookedInv'
    BY <1>0, <1>2, <1>3, <1>4, <2>1, <2>3, <2>4, BookedKept
  <2> QED
    BY <2>2, <2>5 DEF IdleInv
<1> QED
  BY <1>6, <1>7, <1>8, <1>9, <1>10 DEF RestartUnlocked

\* What the process says of a Turn is followed by what it says of its end.
LEMMA IdleProcess ==
    ASSUME Typed, Typed', IdleInv, Process
    PROVE  IdleInv'
<1>0. ControlOK /\ RequestOK /\ ProcessOK /\ ReaderOK /\ BooksOK /\ StreamInv /\ BookedInv
  BY DEF Typed, IdleInv
<1>b. generation \in Procs /\ generation # 0 /\ generation \in Nat
  BY <1>0, HostConstants DEF ProcessOK, Procs
<1>1. UNCHANGED <<generation, state, ctl, reader, activeTurns, serverRequests, early, request>>
  BY DEF Process, ProcessAnswers, TurnAsks, TurnEnds, ProcessCrashes
<1>2. Clearing => Clearing'
  BY <1>1 DEF Clearing
<1>3. state' = "stopped" => state = "stopped" /\ Adapt'.pc # "await"
  BY <1>0, <1>1 DEF BookedInv, Adapt
<1>4. request'.reply = "ok" => request'.id \in Nat
  BY <1>0, <1>1, HostConstants DEF RequestOK
<1>5. ASSUME Dying => Dying', \A n \in Nat : Ending(n) => Ending(n)' \/ Dying',
             \A n \in Nat : Resolving(n) => Resolving(n)' \/ Dying'
      PROVE  BookedInv'
  <2>1. (request.reply = "ok" => request.id \in early \/ Dying \/ Ending(request.id))'
    <3> SUFFICES ASSUME request'.reply = "ok"
                 PROVE  (request.id \in early \/ Dying \/ Ending(request.id))'
      OBVIOUS
    <3> DEFINE q == request.id
    <3>1. q \in early \/ Dying \/ Ending(q)
      BY <1>0, <1>1 DEF BookedInv
    <3>2. q' = q /\ q \in Nat
      BY <1>1, <1>4
    <3> HIDE DEF q
    <3>3. q \in early' \/ Dying' \/ Ending(q)'
      BY <1>1, <1>5, <3>1, <3>2
    <3> QED
      BY <1>1, <3>3 DEF q, Ending, Ahead, Held
  <2> QED
    BY <1>0, <1>1, <1>2, <1>3, <1>5, <2>1, BookedKept
<1>6. CASE ProcessCrashes
  <2>1. proc' = 0
    BY <1>6 DEF ProcessCrashes
  <2>2. StreamInv'
    BY <1>1, <1>b, <2>1 DEF StreamInv
  <2>3. proc = generation \/ Dying => Dying'
    BY <1>0, <1>1, <1>b, <2>1 DEF Dying, StreamInv, In
  <2>4. \A n \in Nat : (Ending(n) => Dying') /\ (Resolving(n) => Dying')
    BY <2>3 DEF Ending, Resolving
  <2> QED
    BY <1>5, <2>2, <2>3, <2>4 DEF IdleInv
<1>7. ASSUME NEW n \in Turns, ProcessAnswers(n) \/ TurnAsks(n) \/ TurnEnds(n)
      PROVE  IdleInv'
  <2>1. proc' = proc
    BY <1>0, <1>7, ProcessSays
  <2>2. Dying => Dying'
    BY <1>1, <2>1 DEF Dying, In
  <2>3. CASE proc # generation
    <3>1. StreamInv'
      BY <1>1, <2>1, <2>3 DEF StreamInv
    <3>2. \A q \in Nat : ~Ending(q) /\ ~Resolving(q)
      BY <2>3 DEF Ending, Resolving
    <3> QED
      BY <1>5, <2>2, <3>1, <3>2 DEF IdleInv
  <2>4. CASE proc = generation
    <3>0. stdout[proc] = Out /\ stdout'[proc] = Out' /\ In' = In
      BY <1>1, <2>1, <2>4 DEF In, Out
    <3> HIDE DEF Out, In
    <3>1. /\ \A i \in 1..Len(Out) : i \in 1..Len(Out') /\ Out'[i] = Out[i]
          /\ \A i \in 1..Len(Out') :
                \/ i \in 1..Len(Out)
                \/ /\ Out'[i].turn = n
                   /\ Out'[i].kind \in {"ok", "started"} => n \in running'
                   /\ Out'[i].kind = "ask" => n \in asking'
          /\ TurnEnds(n) =>
                /\ running' = running \ {n} /\ asking' = asking \ {n}
                /\ \E i \in 1..Len(Out') : Out'[i] = Msg("completed", n) /\ \A j \in 1..Len(Out) : i > j
                /\ n \in asking =>
                      \E i \in 1..Len(Out') : Out'[i] = Msg("resolved", n) /\ \A j \in 1..Len(Out) : i > j
          /\ ~TurnEnds(n) => running \subseteq running' /\ asking \subseteq asking'
      BY <1>0, <1>7, <3>0, ProcessSays
    <3>2. ASSUME NEW q \in running
          PROVE  \/ q \in running'
                 \/ \E i \in 1..Len(Out') : Out'[i] = Msg("completed", q) /\ \A j \in 1..Len(Out) : i > j
      BY <3>1
    <3>3. ASSUME NEW q \in asking
          PROVE  \/ q \in asking'
                 \/ \E i \in 1..Len(Out') : Out'[i] = Msg("resolved", q) /\ \A j \in 1..Len(Out) : i > j
      BY <3>1
    <3>4. \A k, q : Ahead(k, q) => Ahead(k, q)'
      BY <3>1 DEF Ahead
    <3>5. \A k, q, i : Behind(k, q, i) => Behind(k, q, i)'
      BY <3>1 DEF Behind
    <3>6. \A k, q : Held(k, q) => Held(k, q)'
      BY <3>0 DEF Held
    <3>7. \A q \in running : q \in running' \/ Ahead("completed", q)'
      BY <3>2 DEF Ahead
    <3>8. \A q \in asking : q \in asking' \/ Ahead("resolved", q)'
      BY <3>3 DEF Ahead
    <3>9. \A i \in 1..Len(Out) : \A q \in running : q \in running' \/ Behind("completed", q, i)'
      BY <3>2 DEF Behind
    <3>10. \A i \in 1..Len(Out) : \A q \in asking : q \in asking' \/ Behind("resolved", q, i)'
      BY <3>3 DEF Behind
    <3>11. StreamInv'
      <4>1. In'.pc \notin {"none", "ended", "close"}
        BY <1>0, <2>4, <3>0 DEF StreamInv
      <4>2. ASSUME NEW i \in 1..Len(Out')
            PROVE  /\ Out'[i].kind \in {"ok", "started"} =>
                         Out'[i].turn \in running' \/ Behind("completed", Out[i].turn, i)'
                   /\ Out'[i].kind = "ask" =>
                         Out'[i].turn \in asking' \/ Behind("resolved", Out[i].turn, i)'
        <5>1. CASE i \in 1..Len(Out)
          <6> DEFINE q == Out[i].turn
          <6>1. Out'[i] = Out[i]
            BY <3>1, <5>1
          <6>2. /\ Out[i].kind \in {"ok", "started"} => q \in running \/ Behind("completed", q, i)
                /\ Out[i].kind = "ask" => q \in asking \/ Behind("resolved", q, i)
            BY <1>0, <2>4, <5>1 DEF StreamInv
          <6>3. PICK p : p = q
            OBVIOUS
          <6>4. /\ Out'[i].kind \in {"ok", "started"} => p \in running' \/ Behind("completed", p, i)'
                /\ Out'[i].kind = "ask" => p \in asking' \/ Behind("resolved", p, i)'
            <7> HIDE DEF q
            <7> QED
              BY <3>5, <3>9, <3>10, <5>1, <6>1, <6>2, <6>3
          <6> QED
            BY <6>1, <6>3, <6>4 DEF Behind
        <5>2. CASE i \notin 1..Len(Out)
          BY <3>1, <5>2
        <5> QED
          BY <5>1, <5>2
      <4>3. ASSUME In'.pc = "update"
            PROVE  /\ In'.msg.kind = "started" =>
                         In'.msg.turn \in running' \/ Ahead("completed", In.msg.turn)'
                   /\ In'.msg.kind = "ask" =>
                         In'.msg.turn \in asking' \/ Ahead("resolved", In.msg.turn)'
        <5> DEFINE q == In.msg.turn
        <5>1. /\ In.msg.kind = "started" => q \in running \/ Ahead("completed", q)
              /\ In.msg.kind = "ask" => q \in asking \/ Ahead("resolved", q)
          BY <1>0, <2>4, <3>0, <4>3 DEF StreamInv
        <5>2. PICK p : p = q
          OBVIOUS
        <5>3. /\ In'.msg.kind = "started" => p \in running' \/ Ahead("completed", p)'
              /\ In'.msg.kind = "ask" => p \in asking' \/ Ahead("resolved", p)'
          <6> HIDE DEF q
          <6> QED
            BY <3>0, <3>4, <3>7, <3>8, <5>1, <5>2
        <5> QED
          BY <3>0, <5>2, <5>3 DEF Ahead
      <4> QED
        BY <4>1, <4>2, <4>3 DEF StreamInv
    <3>12. \A q \in Nat : (Ending(q) => Ending(q)') /\ (Resolving(q) => Resolving(q)')
      BY <1>1, <2>1, <2>4, <3>4, <3>6, <3>7, <3>8 DEF Ending, Resolving
    <3> QED
      BY <1>5, <2>2, <3>11, <3>12 DEF IdleInv
  <2> QED
    BY <2>3, <2>4
<1> QED
  BY <1>6, <1>7 DEF Process

\* The reader takes the first message off the output and holds it, or gives a
\* response to its receiver.
LEMMA IdleRead ==
    ASSUME Typed, Typed', IdleInv, ReadLine(generation)
    PROVE  IdleInv'
<1>0. ControlOK /\ RequestOK /\ ProcessOK /\ ReaderOK /\ BooksOK /\ StreamInv /\ BookedInv
  BY DEF Typed, IdleInv
<1>b. generation \in Procs
  BY <1>0 DEF ProcessOK
<1> DEFINE m == Head(Out)
<1>1. /\ UNCHANGED <<generation, state, ctl, activeTurns, serverRequests, early, proc, running, asking>>
      /\ In.pc = "read" /\ Out # <<>> /\ Out \in Seq(MsgType) /\ Out' = Tail(Out)
  BY <1>0, <1>b DEF ReadLine, ReaderAt, In, Out, ReaderOK
<1>2. \/ /\ In' = In /\ m.kind \in {"ok", "error"}
         /\ request' = request \/ (m.turn \in pending /\ request' = [request EXCEPT !.reply = m.kind])
      \/ /\ In'.pc = "update" /\ In'.msg = m /\ request' = request
         /\ m.kind \notin {"ok", "error"}
  BY <1>0, <1>1, <1>b DEF ReadLine, In, Out, ReaderOK
<1> HIDE DEF In, Out
<1>3. /\ 1 \in 1..Len(Out) /\ Out[1] = m
      /\ \A i \in 1..Len(Out') : i + 1 \in 1..Len(Out) /\ Out'[i] = Out[i + 1]
      /\ \A i \in 1..Len(Out) : i # 1 => i - 1 \in 1..Len(Out') /\ Out'[i - 1] = Out[i]
  BY <1>1, Taken
<1>a. Len(Out) \in Nat /\ Len(Out') \in Nat
  <2>1. Out' \in Seq(MsgType)
    BY <1>1, HeadTailProperties
  <2> QED
    BY <1>1, <2>1, LenProperties
<1> HIDE DEF m
<1>4. Clearing => Clearing'
  BY <1>1 DEF Clearing
<1>5. Dying => Dying'
  BY <1>1, <1>2 DEF Dying
<1>6. ASSUME NEW k \in {"completed", "resolved"}, NEW q, Ahead(k, q)
      PROVE  Ahead(k, q)' \/ Held(k, q)'
  <2>1. PICK j \in 1..Len(Out) : Out[j] = Msg(k, q)
    BY <1>6 DEF Ahead
  <2>2. CASE j = 1
    <3>1. m = Msg(k, q) /\ m.kind = k
      BY <1>3, <2>1, <2>2 DEF Msg
    <3> QED
      BY <1>2, <3>1 DEF Held
  <2>3. CASE j # 1
    <3>1. j - 1 \in 1..Len(Out') /\ Out'[j - 1] = Msg(k, q)
      BY <1>3, <2>1, <2>3
    <3> QED
      BY <3>1 DEF Ahead
  <2> QED
    BY <2>2, <2>3
<1>7. ASSUME NEW k, NEW q, NEW i \in Nat, Behind(k, q, i + 1)
      PROVE  Behind(k, q, i)'
  <2>1. PICK j \in 1..Len(Out) : j > i + 1 /\ Out[j] = Msg(k, q)
    BY <1>7 DEF Behind
  <2>2. j # 1 /\ j - 1 > i /\ j \in Nat
    BY <1>a, <2>1
  <2>3. j - 1 \in 1..Len(Out') /\ Out'[j - 1] = Msg(k, q)
    BY <1>3, <2>1, <2>2
  <2> QED
    BY <2>2, <2>3 DEF Behind
<1>8. ASSUME NEW k, NEW q, Behind(k, q, 1)
      PROVE  Ahead(k, q)'
  <2>1. Behind(k, q, 0 + 1)
    BY <1>8
  <2>2. Behind(k, q, 0)'
    BY <1>7, <2>1
  <2> QED
    BY <2>2 DEF Behind, Ahead
<1>9. \A q \in Nat : (Ending(q) => Ending(q)') /\ (Resolving(q) => Resolving(q)')
  <2>1. \A k, q : ~Held(k, q)
    BY <1>1 DEF Held
  <2> QED
    BY <1>1, <1>6, <2>1 DEF Ending, Resolving
<1>10. StreamInv'
  <2> SUFFICES ASSUME proc = generation
               PROVE  StreamInv'
    BY <1>1 DEF StreamInv
  <2>1. In'.pc \notin {"none", "ended", "close"}
    BY <1>1, <1>2
  <2>2. ASSUME NEW i \in 1..Len(Out')
        PROVE  /\ Out'[i].kind \in {"ok", "started"} =>
                     Out'[i].turn \in running' \/ Behind("completed", Out[i].turn, i)'
               /\ Out'[i].kind = "ask" =>
                     Out'[i].turn \in asking' \/ Behind("resolved", Out[i].turn, i)'
    <3>1. i + 1 \in 1..Len(Out) /\ Out'[i] = Out[i + 1] /\ i \in Nat
      BY <1>3, <1>a
    <3>2. PICK p : p = Out[i + 1].turn
      OBVIOUS
    <3>3. /\ Out'[i].kind \in {"ok", "started"} => p \in running \/ Behind("completed", p, i + 1)
          /\ Out'[i].kind = "ask" => p \in asking \/ Behind("resolved", p, i + 1)
      BY <1>0, <3>1, <3>2 DEF StreamInv
    <3>4. /\ Out'[i].kind \in {"ok", "started"} => p \in running' \/ Behind("completed", p, i)'
          /\ Out'[i].kind = "ask" => p \in asking' \/ Behind("resolved", p, i)'
      BY <1>1, <1>7, <3>1, <3>3
    <3> QED
      BY <3>1, <3>2, <3>4 DEF Behind
  <2>3. ASSUME In'.pc = "update"
        PROVE  /\ In'.msg.kind = "started" =>
                     In'.msg.turn \in running' \/ Ahead("completed", In.msg.turn)'
               /\ In'.msg.kind = "ask" =>
                     In'.msg.turn \in asking' \/ Ahead("resolved", In.msg.turn)'
    <3>1. In'.msg = m /\ m = Out[1] /\ 1 \in 1..Len(Out)
      BY <1>1, <1>2, <1>3, <2>3
    <3>2. PICK p : p = Out[1].turn
      OBVIOUS
    <3>3. /\ m.kind = "started" => p \in running \/ Behind("completed", p, 1)
          /\ m.kind = "ask" => p \in asking \/ Behind("resolved", p, 1)
      BY <1>0, <3>1, <3>2 DEF StreamInv
    <3>4. /\ m.kind = "started" => p \in running' \/ Ahead("completed", p)'
          /\ m.kind = "ask" => p \in asking' \/ Ahead("resolved", p)'
      BY <1>1, <1>8, <3>3
    <3> QED
      BY <3>1, <3>2, <3>4 DEF Ahead
  <2> QED
    BY <2>1, <2>2, <2>3 DEF StreamInv
<1>11. (request.reply = "ok" => request.id \in early \/ Dying \/ Ending(request.id))'
  <2> SUFFICES ASSUME request'.reply = "ok"
               PROVE  (request.id \in early \/ Dying \/ Ending(request.id))'
    OBVIOUS
  <2>0. request \in [id : 0..MaxRequests, reply : {"none", "ok", "error"}] /\ pending \subseteq {request.id}
    BY <1>0 DEF RequestOK
  <2>1. PICK p : p = request.id
    OBVIOUS
  <2>2. request'.id = p /\ p \in Nat
    BY <1>2, <2>0, <2>1, HostConstants
  <2>3. p \in early' \/ Dying' \/ Ending(p)'
    <3>1. CASE request' = request
      <4>1. p \in early \/ Dying \/ Ending(p)
        BY <1>0, <2>1, <3>1 DEF BookedInv
      <4> QED
        BY <1>1, <1>5, <1>9, <2>2, <4>1
    <3>2. CASE request' # request
      <4>1. m.kind = "ok" /\ m.turn = p /\ In' = In
        BY <1>2, <2>0, <2>1, <3>2
      <4>2. CASE proc # generation
        BY <1>1, <4>1, <4>2 DEF Dying
      <4>3. CASE proc = generation
        <5>1. p \in running \/ Behind("completed", p, 1)
          BY <1>0, <1>3, <4>1, <4>3 DEF StreamInv
        <5>2. p \in running' \/ Ahead("completed", p)'
          BY <1>1, <1>8, <5>1
        <5> QED
          BY <1>1, <4>3, <5>2 DEF Ending
      <4> QED
        BY <4>2, <4>3
    <3> QED
      BY <3>1, <3>2
  <2> QED
    BY <2>2, <2>3 DEF Ending, Ahead, Held
<1>12. state' = "stopped" => state = "stopped" /\ Adapt'.pc # "await"
  BY <1>0, <1>1 DEF BookedInv, Adapt
<1>13. BookedInv'
  BY <1>0, <1>1, <1>4, <1>5, <1>9, <1>11, <1>12, BookedKept
<1> QED
  BY <1>10, <1>13 DEF IdleInv

\* update_runtime_work books what is going to end, and takes off what has ended.
LEMMA IdleUpdate ==
    ASSUME Typed, Typed', NumbersInv, IdleInv, UpdateRuntimeWork(generation)
    PROVE  IdleInv'
<1>0. ControlOK /\ RequestOK /\ ProcessOK /\ ReaderOK /\ BooksOK /\ StreamInv /\ BookedInv
  BY DEF Typed, IdleInv
<1>b. generation \in Procs
  BY <1>0 DEF ProcessOK
<1> DEFINE m == In.msg
<1>1. /\ UNCHANGED <<generation, state, ctl, proc, running, asking, request>>
      /\ In.pc = "update" /\ In'.pc = "publish" /\ Out' = Out
  BY <1>0, <1>b DEF UpdateRuntimeWork, ReaderAt, In, Out, ReaderOK
<1>2. /\ activeTurns' = TurnsAfter(m)
      /\ early' = IF state = "stopped" \/ (m.kind = "completed" /\ m.turn \notin acked)
                  THEN early \cup {m.turn} ELSE early
      /\ serverRequests' = CASE m.kind = "ask" -> serverRequests \cup {m.turn}
                             [] m.kind = "resolved" -> serverRequests \ {m.turn}
                             [] OTHER -> serverRequests
  BY DEF UpdateRuntimeWork, In
<1> HIDE DEF In, Out
<1>a. \A k, q : Held(k, q) => m.kind = k /\ m.turn = q
  BY DEF Held, Msg
<1> HIDE DEF m
<1>3. early \subseteq early' /\ (state = "stopped" => m.turn \in early')
  BY <1>2
<1>4. /\ \A q \in activeTurns' : q \in activeTurns \/ (m.kind = "started" /\ q = m.turn)
      /\ m.kind = "completed" => m.turn \notin activeTurns'
      /\ \A q \in serverRequests' : q \in serverRequests \/ (m.kind = "ask" /\ q = m.turn)
      /\ m.kind = "resolved" => m.turn \notin serverRequests'
  BY <1>2 DEF TurnsAfter
<1>5. (Clearing => Clearing') /\ (Dying => Dying') /\ (proc # generation => Dying')
  BY <1>1 DEF Clearing, Dying
<1>6. /\ \A k, q : Ahead(k, q) => Ahead(k, q)'
      /\ \A k, q, i : Behind(k, q, i) => Behind(k, q, i)'
  BY <1>1 DEF Ahead, Behind
<1>7. StreamInv'
  <2> SUFFICES ASSUME proc = generation
               PROVE  StreamInv'
    BY <1>1 DEF StreamInv
  <2>1. ASSUME NEW i \in 1..Len(Out')
        PROVE  /\ Out'[i].kind \in {"ok", "started"} =>
                     Out'[i].turn \in running' \/ Behind("completed", Out[i].turn, i)'
               /\ Out'[i].kind = "ask" =>
                     Out'[i].turn \in asking' \/ Behind("resolved", Out[i].turn, i)'
    BY <1>0, <1>1 DEF StreamInv, Behind
  <2> QED
    BY <1>1, <2>1 DEF StreamInv
<1>8. ASSUME NEW q \in activeTurns'
      PROVE  q \in early' \/ Clearing' \/ Dying' \/ Ending(q)'
  <2>1. CASE q \in activeTurns /\ ~(m.kind = "completed" /\ q = m.turn)
    <3>1. q \in early \/ Clearing \/ Dying \/ Ending(q)
      BY <1>0, <2>1 DEF BookedInv
    <3>2. Ending(q) => Ending(q)'
      BY <1>1, <1>6, <1>a, <2>1 DEF Ending
    <3> QED
      BY <1>3, <1>5, <3>1, <3>2
  <2>2. CASE m.kind = "started" /\ q = m.turn
    <3>1. proc = generation => q \in running \/ Ahead("completed", q)
      BY <1>0, <1>1, <2>2 DEF StreamInv, m
    <3>2. proc = generation => Ending(q)'
      BY <1>1, <1>6, <3>1 DEF Ending
    <3> QED
      BY <1>5, <3>2
  <2> QED
    BY <1>4, <2>1, <2>2
<1>9. ASSUME NEW q \in serverRequests'
      PROVE  q \in early' \/ Clearing' \/ Dying' \/ Resolving(q)'
  <2>1. CASE q \in serverRequests /\ ~(m.kind = "resolved" /\ q = m.turn)
    <3>1. q \in early \/ Clearing \/ Dying \/ Resolving(q)
      BY <1>0, <2>1 DEF BookedInv
    <3>2. Resolving(q) => Resolving(q)'
      BY <1>1, <1>6, <1>a, <2>1 DEF Resolving
    <3> QED
      BY <1>3, <1>5, <3>1, <3>2
  <2>2. CASE m.kind = "ask" /\ q = m.turn
    <3>1. proc = generation => q \in asking \/ Ahead("resolved", q)
      BY <1>0, <1>1, <2>2 DEF StreamInv, m
    <3>2. proc = generation => Resolving(q)'
      BY <1>1, <1>6, <3>1 DEF Resolving
    <3> QED
      BY <1>5, <3>2
  <2> QED
    BY <1>4, <2>1, <2>2
<1>10. (request.reply = "ok" => request.id \in early \/ Dying \/ Ending(request.id))'
  <2> SUFFICES ASSUME request.reply = "ok"
               PROVE  (request.id \in early \/ Dying \/ Ending(request.id))'
    BY <1>1
  <2>1. PICK p : p = request.id
    OBVIOUS
  <2>2. p \in early \/ Dying \/ Ending(p)
    BY <1>0, <2>1 DEF BookedInv
  <2>3. p \notin acked
    BY <1>0, <2>1 DEF RequestOK, NoRequest, NumbersInv
  <2>4. Held("completed", p) => p \in early'
    BY <1>2, <1>a, <2>3
  <2>5. Ending(p) => p \in early' \/ Ending(p)'
    BY <1>1, <1>6, <2>4 DEF Ending
  <2>6. p \in early' \/ Dying' \/ Ending(p)'
    BY <1>3, <1>5, <2>2, <2>5
  <2> QED
    BY <1>1, <2>1, <2>6 DEF Ending, Ahead, Held
<1>11. state' = "stopped" => activeTurns' \cup serverRequests' \subseteq early' /\ Adapt'.pc # "await"
  BY <1>0, <1>1, <1>3, <1>4 DEF BookedInv, Adapt
<1>12. BookedInv'
  BY <1>8, <1>9, <1>10, <1>11 DEF BookedInv
<1> QED
  BY <1>7, <1>12 DEF IdleInv

\* What the reader of a replaced process still books counts as over, and what it
\* clears is not missed.
LEMMA IdleOvertaken ==
    ASSUME Typed, IdleInv, NEW g \in Procs, g # generation, UpdateRuntimeWork(g) \/ CloseRuntime(g)
    PROVE  IdleInv'
<1>0. ControlOK /\ RequestOK /\ ProcessOK /\ ReaderOK /\ BooksOK /\ StreamInv /\ BookedInv
  BY DEF Typed, IdleInv
<1>b. generation \in Procs /\ Turns \subseteq Nat
  BY <1>0, HostConstants DEF ProcessOK, Turns
<1>1. UNCHANGED <<generation, ctl, proc, running, asking, stdout>> /\ reader'[generation] = reader[generation]
  <2>1. Reader(g)
    BY DEF Reader
  <2>2. UNCHANGED <<generation, ctl, proc, running, asking, stdout>>
    BY DEF UpdateRuntimeWork, CloseRuntime
  <2> QED
    BY <1>0, <1>b, <2>1, <2>2, ReaderMoves
<1>2. In' = In /\ Out' = Out
  BY <1>1 DEF In, Out
<1>3. /\ StreamInv'
      /\ Dying => Dying'
      /\ \A n \in Nat : Ending(n) => Ending(n)'
      /\ \A n \in Nat : Resolving(n) => Resolving(n)'
  BY <1>0, <1>1, <1>2, StreamSame
<1>4. ASSUME request' = request, \A n \in early : n = request.id => n \in early'
      PROVE  (request.reply = "ok" => request.id \in early \/ Dying \/ Ending(request.id))'
  <2> SUFFICES ASSUME request.reply = "ok"
               PROVE  (request.id \in early \/ Dying \/ Ending(request.id))'
    BY <1>4
  <2>1. PICK p : p = request.id
    OBVIOUS
  <2>2. p \in Nat /\ (p \in early \/ Dying \/ Ending(p))
    BY <1>0, <2>1, HostConstants DEF BookedInv, RequestOK
  <2>3. p \in early' \/ Dying' \/ Ending(p)'
    BY <1>3, <1>4, <2>1, <2>2
  <2> QED
    BY <1>4, <2>1, <2>3 DEF Ending, Ahead, Held
<1>5. CASE UpdateRuntimeWork(g)
  <2> DEFINE t == reader[g].msg.turn
  <2>1. /\ activeTurns' \subseteq activeTurns \cup {t} /\ serverRequests' \subseteq serverRequests \cup {t}
        /\ early' = early \cup {t} /\ request' = request /\ state' = state
    BY <1>5 DEF UpdateRuntimeWork, TurnsAfter
  <2> HIDE DEF t
  <2>2. Clearing => Clearing'
    BY <1>1, <2>1 DEF Clearing
  <2>3. ASSUME NEW n \in activeTurns'
        PROVE  n \in early' \/ Clearing' \/ Dying' \/ Ending(n)'
    <3>1. n = t \/ (n \in Nat /\ (n \in early \/ Clearing \/ Dying \/ Ending(n)))
      BY <1>0, <1>b, <2>1 DEF BookedInv, BooksOK
    <3> QED
      BY <1>3, <2>1, <2>2, <3>1
  <2>4. ASSUME NEW n \in serverRequests'
        PROVE  n \in early' \/ Clearing' \/ Dying' \/ Resolving(n)'
    <3>1. n = t \/ (n \in Nat /\ (n \in early \/ Clearing \/ Dying \/ Resolving(n)))
      BY <1>0, <1>b, <2>1 DEF BookedInv, BooksOK
    <3> QED
      BY <1>3, <2>1, <2>2, <3>1
  <2>5. state' = "stopped" => activeTurns' \cup serverRequests' \subseteq early' /\ Adapt'.pc # "await"
    BY <1>0, <1>1, <2>1 DEF BookedInv, Adapt
  <2>6. (request.reply = "ok" => request.id \in early \/ Dying \/ Ending(request.id))'
    BY <1>4, <2>1
  <2> QED
    BY <1>3, <2>3, <2>4, <2>5, <2>6 DEF IdleInv, BookedInv
<1>6. CASE CloseRuntime(g)
  <2>1. /\ activeTurns' = {} /\ serverRequests' = {} /\ (state' = "stopped" => state = "stopped")
        /\ request' = Drained(request)
        /\ request.reply = "ok" => \A n \in early : n = request.id => n \in early'
    BY <1>6 DEF CloseRuntime
  <2>2. request'.reply = "ok" => request' = request /\ request.reply = "ok"
    BY <1>0, <2>1 DEF Drained, RequestOK
  <2>3. (request.reply = "ok" => request.id \in early \/ Dying \/ Ending(request.id))'
    <3>1. CASE request'.reply = "ok"
      BY <1>4, <2>1, <2>2, <3>1
    <3>2. CASE request'.reply # "ok"
      BY <3>2
    <3> QED
      BY <3>1, <3>2
  <2>4. state' = "stopped" => Adapt'.pc # "await"
    BY <1>0, <1>1, <2>1 DEF BookedInv, Adapt
  <2> QED
    BY <1>3, <2>1, <2>3, <2>4 DEF IdleInv, BookedInv
<1> QED
  BY <1>5, <1>6

\* The reader of a process that is gone clears the books before it ends.
LEMMA IdleReader ==
    ASSUME Typed, Typed', NumbersInv, IdleInv, NEW g \in Procs, Reader(g)
    PROVE  IdleInv'
<1>0. ControlOK /\ RequestOK /\ ProcessOK /\ ReaderOK /\ BooksOK /\ StreamInv /\ BookedInv
  BY DEF Typed, IdleInv
<1>b. generation \in Procs
  BY <1>0 DEF ProcessOK
<1>1. CASE ReadLine(g) /\ g = generation
  BY <1>1, IdleRead
<1>2. CASE UpdateRuntimeWork(g) /\ g = generation
  BY <1>2, IdleUpdate
<1>a. CASE (UpdateRuntimeWork(g) \/ CloseRuntime(g)) /\ g # generation
  BY <1>a, IdleOvertaken
<1>3. CASE CloseRuntime(g) /\ g = generation
  <2>1. g = generation /\ In.pc = "close"
    BY <1>3 DEF CloseRuntime, ReaderAt, In
  <2>2. proc' = proc /\ generation' = generation /\ proc # generation
    BY <1>0, <1>3, <2>1 DEF CloseRuntime, StreamInv
  <2>3. /\ activeTurns' = {} /\ serverRequests' = {} /\ ctl' = ctl
        /\ state' = "stopped" => state = "stopped"
        /\ request' = Drained(request)
        /\ request.reply = "ok" => request.id \in early'
    BY <1>3 DEF CloseRuntime
  <2>4. request'.reply = "ok" => request'.id \in early'
    BY <1>0, <2>3, DrainedOK
  <2>5. state' = "stopped" => Adapt'.pc # "await"
    BY <1>0, <2>3 DEF BookedInv, Adapt
  <2> QED
    BY <2>2, <2>3, <2>4, <2>5 DEF IdleInv, StreamInv, BookedInv
<1>4. CASE (ReadLine(g) /\ g # generation) \/ CheckGeneration(g) \/ SendEvent(g) \/ ReadEof(g)
  <2>1. /\ UNCHANGED <<generation, state, ctl, proc, running, asking, request>>
        /\ UNCHANGED <<activeTurns, serverRequests, early>>
    BY <1>4 DEF ReadLine, CheckGeneration, SendEvent, ReadEof
  <2>2. Out' = Out
    BY <1>0, <1>4, <1>b, <2>1 DEF ReadLine, CheckGeneration, SendEvent, ReadEof, Out, ReaderOK
  <2>3. \/ In' = In
        \/ In.pc # "update" /\ In'.pc \notin {"update", "none", "ended"} /\ (In'.pc = "close" => proc # generation)
    <3>1. CASE g # generation
      BY <1>0, <1>4, <1>b, <2>1, <3>1, ReaderMoves DEF Reader, In
    <3>2. CASE g = generation
      <4>0. reader \in [Procs -> [pc : ReaderLabels, msg : MsgType \cup {None}]]
        BY <1>0 DEF ReaderOK
      <4>1. \/ In.pc # "update" /\ reader' = [reader EXCEPT ![g].pc = "send"]
            \/ In.pc # "update" /\ reader' = [reader EXCEPT ![g] = Reading]
            \/ In.pc # "update" /\ reader' = [reader EXCEPT ![g].pc = "close"] /\ proc # generation
        BY <1>4, <3>2 DEF CheckGeneration, SendEvent, ReadEof, ReaderAt, In
      <4> QED
        BY <1>b, <2>1, <3>2, <4>0, <4>1 DEF In, Reading
    <3> QED
      BY <3>1, <3>2
  <2> HIDE DEF In, Out
  <2>4. (Clearing => Clearing') /\ (Dying => Dying')
    BY <2>1, <2>3 DEF Clearing, Dying
  <2>5. /\ \A k, q : (Ahead(k, q) => Ahead(k, q)') /\ (Held(k, q) => Held(k, q)')
        /\ \A k, q, i : Behind(k, q, i) => Behind(k, q, i)'
    BY <2>2, <2>3 DEF Ahead, Held, Behind
  <2>6. \A q \in Nat : (Ending(q) => Ending(q)') /\ (Resolving(q) => Resolving(q)')
    BY <2>1, <2>5 DEF Ending, Resolving
  <2>7. StreamInv'
    <3> SUFFICES ASSUME proc = generation
                 PROVE  StreamInv'
      BY <2>1 DEF StreamInv
    <3>1. ASSUME NEW i \in 1..Len(Out')
          PROVE  /\ Out'[i].kind \in {"ok", "started"} =>
                       Out'[i].turn \in running' \/ Behind("completed", Out[i].turn, i)'
                 /\ Out'[i].kind = "ask" =>
                       Out'[i].turn \in asking' \/ Behind("resolved", Out[i].turn, i)'
      BY <1>0, <2>1, <2>2 DEF StreamInv, Behind
    <3>2. ASSUME In'.pc = "update"
          PROVE  /\ In'.msg.kind = "started" =>
                       In'.msg.turn \in running' \/ Ahead("completed", In.msg.turn)'
                 /\ In'.msg.kind = "ask" =>
                       In'.msg.turn \in asking' \/ Ahead("resolved", In.msg.turn)'
      BY <1>0, <2>1, <2>2, <2>3, <3>2 DEF StreamInv, Ahead
    <3>3. In'.pc \notin {"none", "ended", "close"}
      BY <1>0, <2>3 DEF StreamInv
    <3> QED
      BY <3>1, <3>2, <3>3 DEF StreamInv
  <2>8. (request.reply = "ok" => request.id \in early \/ Dying \/ Ending(request.id))'
    <3> SUFFICES ASSUME request.reply = "ok"
                 PROVE  (request.id \in early \/ Dying \/ Ending(request.id))'
      BY <2>1
    <3>1. PICK p : p = request.id
      OBVIOUS
    <3>2. p \in Nat /\ (p \in early \/ Dying \/ Ending(p))
      BY <1>0, <3>1, HostConstants DEF BookedInv, RequestOK
    <3>3. p \in early' \/ Dying' \/ Ending(p)'
      BY <2>1, <2>4, <2>6, <3>2
    <3> QED
      BY <2>1, <3>1, <3>3 DEF Ending, Ahead, Held
  <2>9. state' = "stopped" => state = "stopped" /\ Adapt'.pc # "await"
    BY <1>0, <2>1 DEF BookedInv, Adapt
  <2>10. BookedInv'
    BY <1>0, <2>1, <2>4, <2>6, <2>8, <2>9, BookedKept
  <2> QED
    BY <2>7, <2>10 DEF IdleInv
<1> QED
  BY <1>1, <1>2, <1>3, <1>4, <1>a DEF Reader

\* The two actors, outside restart_unlocked: what the return of turn/start books is
\* going to end, or was over before.
LEMMA IdleActors ==
    ASSUME Typed, Typed', IdleInv, Registry \/ Adapter \/ UNCHANGED vars
    PROVE  IdleInv'
<1> USE ActorsAre, HostConstants
<1>0. ControlOK /\ RequestOK /\ ProcessOK /\ ReaderOK /\ BooksOK /\ StreamInv /\ BookedInv
  BY DEF Typed, IdleInv
<1>b. generation # 0 /\ Turns \subseteq Nat
  BY <1>0 DEF ProcessOK, Procs, Turns
<1>1. CASE Shutdown
  <2>1. /\ proc' = 0 /\ generation' = generation /\ activeTurns' = {} /\ serverRequests' = {}
        /\ ctl' = ctl /\ lock = None
    BY <1>1 DEF Shutdown
  <2>2. Adapt'.pc # "await"
    BY <1>0, <2>1 DEF ControlOK, Adapt, Actors
  <2>3. request'.reply # "ok"
    BY <2>2 DEF Typed, RequestOK, NoRequest
  <2> QED
    BY <1>b, <2>1, <2>2, <2>3, BookedEmpty DEF IdleInv, StreamInv
<1>2. CASE ~Shutdown
  <2>1. UNCHANGED <<generation, proc, running, asking, reader, stdout, state, early, serverRequests>>
    BY <1>2 DEF Registry, ScheduleRuntimeRefresh, SetSecretEnvironment, Restart, Adapter,
       PrepareRuntime, ApplyScheduledRestart, BeginRequest, OtherRequest,
       TurnStartReturns, RequestFails,
       EndRequest, vars
  <2>2. StreamInv'
    BY <1>0, <2>1, StreamKept
  <2>3. Clearing => Clearing'
    BY <1>0, <2>1, ClearingKept
  <2>4. state' = "stopped" => state = "stopped" /\ Adapt'.pc # "await"
    <3> SUFFICES ASSUME state = "stopped"
                 PROVE  Adapt'.pc # "await"
      BY <2>1
    <3>1. proc = 0 /\ Adapt.pc # "await"
      BY <1>0 DEF ProcessOK, BookedInv
    <3>2. CASE Registry
      BY <1>0, <3>1, <3>2, AdapterStays DEF Adapt
    <3>3. CASE UNCHANGED vars
      BY <3>1, <3>3 DEF vars, Adapt
    <3>4. CASE Adapter
      <4>1. \/ \E l \in {"prepare", "request"} : Goto("adapter", l)
            \/ \E l \in {"idle", "bump"}, e \in Secrets \cup {None} :
                   ctl' = [ctl EXCEPT !["adapter"] = [pc |-> l, env |-> e]]
        BY <1>0, <3>1, <3>4 DEF Adapter, PrepareRuntime, ApplyScheduledRestart, BeginRequest, OtherRequest,
           TurnStartReturns, RequestFails, EndRequest, Idle, ControlOK
      <4>2. {"prepare", "request", "idle", "bump"} \subseteq Labels
        BY DEF Labels, AdapterLabels, Restarting
      <4> QED
        BY <1>0, <4>1, <4>2, CtlGoto, CtlSet DEF Adapt
    <3> QED
      BY <1>2, <3>2, <3>3, <3>4
  <2>5. CASE TurnStartReturns
    <3>1. /\ activeTurns' = activeTurns \cup {request.id} /\ request.reply = "ok"
          /\ request' = NoRequest /\ Adapt.pc = "await"
      BY <2>5 DEF TurnStartReturns, EndRequest, Adapt
    <3>2. PICK p : p = request.id
      OBVIOUS
    <3>3. p \in Nat /\ (p \in early \/ Dying \/ Ending(p))
      BY <1>0, <1>b, <3>1, <3>2 DEF BookedInv, RequestOK
    <3>4. ASSUME NEW q \in activeTurns'
          PROVE  q \in early' \/ Clearing' \/ Dying' \/ Ending(q)'
      <4>1. q \in Nat /\ (q \in early \/ Clearing \/ Dying \/ Ending(q))
        BY <1>0, <1>b, <3>1, <3>2, <3>3 DEF BookedInv, BooksOK
      <4> QED
        BY <2>1, <2>3, <4>1, StreamKept
    <3>5. ASSUME NEW q \in serverRequests'
          PROVE  q \in early' \/ Clearing' \/ Dying' \/ Resolving(q)'
      <4>1. q \in Nat /\ (q \in early \/ Clearing \/ Dying \/ Resolving(q))
        BY <1>0, <1>b, <2>1 DEF BookedInv, BooksOK
      <4> QED
        BY <2>1, <2>3, <4>1, StreamKept
    <3>6. state' # "stopped"
      BY <1>0, <2>1, <3>1 DEF BookedInv
    <3>7. request'.reply # "ok"
      BY <3>1 DEF NoRequest
    <3>8. BookedInv'
      BY <3>4, <3>5, <3>6, <3>7 DEF BookedInv
    <3> QED
      BY <2>2, <3>8 DEF IdleInv
  <2>6. CASE ~TurnStartReturns
    <3>1. activeTurns' = activeTurns /\ (request' = request \/ request'.reply = "none")
      BY <1>2, <2>6 DEF Registry, ScheduleRuntimeRefresh, SetSecretEnvironment, Restart, Adapter,
         PrepareRuntime, ApplyScheduledRestart, BeginRequest, OtherRequest,
         RequestFails, EndRequest, NoRequest, vars
    <3>2. (request.reply = "ok" => request.id \in early \/ Dying \/ Ending(request.id))'
      <4> SUFFICES ASSUME request'.reply = "ok"
                   PROVE  (request.id \in early \/ Dying \/ Ending(request.id))'
        OBVIOUS
      <4>1. PICK p : p = request.id
        OBVIOUS
      <4>2. p \in Nat /\ (p \in early \/ Dying \/ Ending(p)) /\ request'.id = p
        BY <1>0, <3>1, <4>1 DEF BookedInv, RequestOK
      <4>3. p \in early' \/ Dying' \/ Ending(p)'
        BY <2>1, <4>2, StreamKept
      <4> QED
        BY <4>2, <4>3 DEF Ending, Ahead, Held
    <3>3. BookedInv'
      BY <1>0, <2>1, <2>3, <2>4, <3>1, <3>2, StreamKept, BookedKept
    <3> QED
      BY <2>2, <3>3 DEF IdleInv
  <2> QED
    BY <2>5, <2>6
<1> QED
  BY <1>1, <1>2

\* An idle host may be restarted (apply_scheduled_restart): when the process has
\* nothing left to do and the host has handled all it wrote, no Turn or approval is
\* booked but one that was over when it was booked: by the return of its turn/start, or
\* by the reader of a process that had been stopped or replaced.
THEOREM IdleHostIsFree == Spec => []IdleIsNotBusy
<1>1. Init => NumbersInv /\ IdleInv
  <2> SUFFICES ASSUME Init
               PROVE  NumbersInv /\ IdleInv
    OBVIOUS
  <2>0. 1 \in Procs
    BY HostConstants DEF Procs
  <2>1. /\ In.pc = "read" /\ 1..Len(Out) = {} /\ activeTurns = {} /\ serverRequests = {}
        /\ request.reply = "none" /\ state = "ready"
    BY <2>0 DEF Init, In, Out, Reading, NoRequest
  <2>2. NumbersInv
    BY ActorsAre DEF Init, NumbersInv, NoRequest, Adapt, Idle
  <2> QED
    BY <2>1, <2>2 DEF IdleInv, StreamInv, BookedInv
<1>2. Typed /\ Typed' /\ NumbersInv /\ IdleInv /\ [Next]_vars => IdleInv'
  BY IdleActors, IdleProcess, IdleReader, IdleRestart DEF Next
<1>3. Typed /\ NumbersInv /\ [Next]_vars => NumbersInv'
  BY NumbersStep
<1>4. Typed /\ IdleInv => IdleIsNotBusy
  <2> SUFFICES ASSUME Typed, IdleInv, Quiet
               PROVE  activeTurns \cup serverRequests \subseteq early
    BY DEF IdleIsNotBusy
  <2>1. ~Clearing
    BY ActorsAre, HostConstants DEF Typed, ControlOK, Quiet, Clearing, Restarting, Adapt, Reg, Actors
  <2>2. ~Dying
    BY DEF Quiet, Dying, In
  <2>3. running = {} /\ asking = {} /\ 1..Len(Out) = {} /\ In.pc # "update"
    BY DEF Typed, ProcessOK, Quiet, Out, In
  <2>4. \A n : ~Ending(n) /\ ~Resolving(n)
    BY <2>3 DEF Ending, Resolving, Ahead, Held
  <2> QED
    BY <2>1, <2>2, <2>4 DEF IdleInv, BookedInv
<1> QED
  BY <1>1, <1>2, <1>3, <1>4, AlwaysTyped, PTL DEF Spec

=============================================================================
