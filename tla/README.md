# TLA+ models of Open Web Codex

Open Web Codex runs OpenAI Codex as a multi-user web platform: a Rust server
(`apps/web/server`, `apps/web/crates`) schedules Runs in Git workspaces, owns
one Codex *app-server* process per Profile, projects its events into
PostgreSQL, streams them to browsers and lets people decide the approvals it
asks for. This directory models the parts where several actors, a database, a
child process and a connection interleave, checks them with TLC and proves their
invariants and action properties with TLAPS.

The repository is mostly the vendored Codex subtree (`codex/`), third-party code
that the platform runs as a child process; the models treat it as an external
actor. The platform's own code is `apps/web`.

## 1. Inventory

| Component | State | Operations | Interacts with |
|---|---|---|---|
| Run orchestrator (`crates/run-orchestrator`) | `runs` (status, lease, attempt, Thread, active Turn), `tasks.status`, `workspaces.state`, `runner_jobs` | enqueue, cancel, recover, retire; worker loop: heartbeat, reap, claim, execute, cleanup | Git runtime, Codex adapter, other server processes through the tables |
| Run lifecycle projection (`server/src/event_projection.rs`) | the same rows, `run_events` with cursors | apply Turn and Thread events, persist frames | event bridge, browsers |
| Approval service (`crates/approval-service`, `server/src/routes/approvals.rs`) | `approvals` (state, version, decision, instance), audit records | capture, list, begin / complete decision, delivery unknown, resolve, cancel stale | adapter, Profile Host, bridge |
| Event bridge (`server/src/main.rs`) | last reconciled instance | reconcile, resolve, capture, persist, broadcast | adapter's frames, approval service, projection |
| Profile Host (`crates/profile-host`) | process, generation, instance id, pending requests, active Turns, server requests, scheduled restart | request, respond, restart, schedule, apply, shutdown, stdout reader | app-server process |
| Profile Registry (`crates/profile-registry`) | secret environment per Profile | set secret, schedule refresh, shutdown | Profile Host, provider service |
| Codex adapter (`crates/codex-adapter`) | runtime mutex with the bound instance, Thread bindings, logins, terminal bindings | Thread and Turn operations, login, terminals, event subscription | Profile Host |
| Terminals (`server/src/routes/terminals.rs`) | `terminal_sessions.state` | open, write, resize, close; exits are projected | adapter, projection |
| Git runtime (`crates/git-runtime`) | workspace directories | provision, branch, commit, remove | orchestrator, routes |
| Provider service (`crates/provider-service`), secret store (`crates/secret-store`) | operation mutex; the catalog in the app-server's configuration, `profile_secrets` | upsert, select, delete, refresh and update models, roll-back | app-server, Profile Registry |
| Auth, sessions, organizations, projects, configuration, content, artifacts, GitHub routes | rows | CRUD | database |
| Event replay (`server/src/routes/events.rs`, `tasks.rs`) | bounded event bus, one receiver per connection | live stream, resync notice, pages of `run_events` | bridge, browsers |
| Browser event client (`src/services/webClient.ts`, `browser/client.ts`) | a cursor per Task, known Threads, a promise chain | connect, deliver, baseline, replay, pending approvals | event replay, REST routes |
| Browser user interface, vendored Codex, tools | — | — | external |

What is hard here, and what makes each part correct:

* **Runs.** A worker holds no lock while it clones a repository and starts a
  Thread; its lease may expire, its Run be cancelled, retired or recovered, its
  process die, its database fail, before it writes again. A Run must be executed
  once, own a lease exactly while it is provisioning or running, keep one Thread,
  never be shown as ended with a Turn, never share its Task with another active
  Run; checkouts are removed by their cleanup job only; nothing stays
  provisioning, owned by a dead server or queued for cleanup for ever.
* **Approvals.** Several people, the Runtime's own resolution, restarts that
  reuse request ids and uncertain deliveries meet on one row. One decision is
  sent, to the process that asked; what ended stays ended; the audit trail tells
  the truth.
* **Profile Host.** A restart replaces the process under the feet of its stdout
  reader and of the callers. It must not kill a Turn a caller was told of, not
  forget a scheduled refresh, not leave the process with other secrets than the
  registry reports, and not let what the old process wrote pass for the new one's.
* **Event stream.** Events reach the page live, by replay and again as pending
  approvals, over a bus that drops and a connection that breaks. What the page
  shows must be durable, in order and not repeated, and nothing may be missing
  for good.
* **Providers.** A key is stored, put into the environment (by a restart that may
  be refused) and then named in the catalog, in three systems; every step may
  fail, the handler may be dropped, selections cross the other operations, and a
  request may name the managed variable without bringing a key.
* **Adapter.** Thread operations, answers, terminals and restarts queue for one
  FIFO lock while the process may be replaced or die. Nobody may wait for ever,
  and what is believed bound must be what the process has.

The hazards, each at its line, are listed in `PROJECT.json`.

## 2. Modules

| Module | Content |
|---|---|
| `RunOrchestrator` | the orchestrator, its worker processes and the lifecycle events |
| `RunOrchestratorProofs` | theorems about its types, leases, execution and Threads |
| `RunStatusProofs` | the status graph of Runs and Tasks, and the theorems that follow from it |
| `RunCheckoutProofs` | the theorem about workspaces and their directories |
| `MCRunOrchestrator` | instances: one Run with two servers; two Runs of one Task, the second forked from the first |
| `ApprovalContract` | what approvals promise: the abstract specification |
| `ApprovalService` | the service, its handlers and the bridge; refines `ApprovalContract` |
| `ApprovalServiceProofs` | theorems about it, the refinement among them |
| `MCApprovalService` | instances with one or two clients, one or two processes |
| `ProfileHost` | host, registry, adapter, readers and the app-server process |
| `ProfileHostProofs` | theorems about it |
| `MCProfileHost` | an instance with two secrets |
| `EventStream` | bridge, event bus, one connection, REST pages and the browser's event client |
| `EventStreamProofs` | theorems about it |
| `MCEventStream` | instances with one and two Tasks |
| `ProviderService` | every Provider operation over catalog, key store and environment |
| `ProviderServiceProofs` | theorems about it |
| `MCProviderService` | an instance with two concurrent requests |
| `CodexAdapter` | adapter, lifecycle lock, terminals and their routes |
| `CodexAdapterProofs` | theorems about it |
| `MCCodexAdapter` | instances with one operation and one terminal beside registry and responder |

Composition is by contract: `CodexAdapter` takes a restart, which `ProfileHost`
splits where it awaits, as one step; `ProviderService` takes
`set_secret_environment` at what `ProfileHost` shows of it (`SecretsInSync`);
`EventStream` takes the capture and the end of approvals from `ApprovalService`.

### RunOrchestrator

One action is one transaction, or one external call and what the code does with
its result. `pc[w]` is the position of worker `w` in `run_worker` (`heartbeat`,
`reap`, `claim`, `cleanup`), in `execute_lease` (`hb1` … `fail`) or in
`run_cleanup_once` (`removing`, `retiring`); `work[w]` is the Run and token it
carries. `lease` holds the three lease columns, the expiry abstracted to whether
it is past; lease tokens (UUIDs) are the numbers in which they were issued.
A Run is claimed only from `pending` and nothing returns it there, so workspace
row, directory and job are indexed by the Run. The `delayed` job state is
`pending` with a `run_after` in the future. `cancels` and `retires` are handlers
between two of their steps. Requests that are refused change nothing and are
not actions; a replayed idempotency key finds its row.

`DbError` lets any database call of a worker fail and goes where the code's `?`
and `if let Err` lead. `WorkerCrash` kills a server; its worker id is never used
again; one server always survives. Git operations and `start_thread` succeed or
fail freely; a failed provisioning may leave the directory or not, a failed removal
leaves it (`remove_dir_all` removes the directory itself last), perhaps with less in
it, which the model does not tell apart.

Abstracted: payloads, the order in which runs are claimed (any pending Run),
organization and access checks, the identity of Turns (whether one is recorded).

### ApprovalService and ApprovalContract

A request is `<<instance, id>>`: ids start anew in every process. `queue` is the
channel between adapter and bridge. A `call` is a handler of `decide` or
`respond_user_input` between its steps: begin (compare and swap on the version),
respond (Profile Host compares the instance and writes to stdin; a write that
reports an error may have been read), complete or mark unknown. `lister` is a
`list_pending` between reading the instance and cancelling what other instances
left. The Runtime (asks, resolves, is replaced) is external and free.

`ApprovalContract` knows no versions, handlers or processes: a request is decided
at most once, ends at most once as decided or cancelled, and a success is
recorded only for a delivered decision. The mapping reads the decision and the
final state off the row; a step of the service is a contract step or a stutter.
A decision is the one the row stores (`approved`, `rejected`, `answered`): accept and
acceptForSession store the same, as do decline and cancel, so a retry after an
uncertain delivery may send the other answer of the pair. The instance a frame is
tagged with is taken as right; see the overtaken readers of `ProfileHost`.

### ProfileHost

Two actors take the lifecycle lock: the adapter, whose runtime mutex serialises
`prepare_runtime` and the request that follows (a `turn/start`, or one that starts no
Turn and is a single step), and the registry, whose operation
mutex serialises secret changes. `restart_unlocked` is split where it awaits:
the generation is bumped, the process stopped, a new one spawned, then
initialised; each of the last two may fail. Readers run beside them, one per
process, split between checking the generation and acting on it. The model's
instance id is the generation of the process it was drawn for.

Readers hold no lock, so a restart may begin, and end, between a reader's check of
the generation and the action it guards. Such an overtaken reader books a line of
the old process (checked at `lib.rs:905`, booked at 983), publishes it under the new
instance id (984, 986), or marks the new process failed, drains its pending requests
and clears its books (924, 938). All three are in the model.

`acked`, `early`, `wiped`, `fresh` and `lateActs` are history: Turns a caller was
told of; Turns that were over when they were booked, by `request()` after their
`turn/completed` or by the reader of a process that had been stopped or replaced;
Turns that an overtaken reader took off the books; whether the process is younger
than the last request for a refresh; and how often each replaced reader has acted.

### EventStream

A frame gets its number when the bridge takes it; the number stands for
`run_events.sequence`, which only the bridge writes. The bridge captures an
approval, persists, then broadcasts, one frame at a time. `bus` is what was sent
and this connection's receiver has not read; when it holds more than `Capacity`
the receiver is told that it lagged and goes on with the newest `Capacity`. The
browser's promise chain is `ops`, with the operation at its head in `work`, split
at every request: a live delivery, an `online` (first: index, baseline, approvals;
later: replay, approvals), a `resync` (replay only). Pages are read one by one, so
events may be persisted between them. A failed request ends its operation, as
`catch` does.

`expected`, `base` and `overtaken` are history. `GapsExplained` and the liveness
properties name their exceptions: a failed request (the rest of the recovery is
dropped and later events move the cursor past the gap), the replay of pending
approvals (which sets the cursor to the approval's sequence although earlier events
may still be queued, `webClient.ts:623`), and for approvals a lag before the page
knew the Task. With these exceptions removed TLC finds the behaviour at once.

Abstracted: payloads (an event is hidden, shown or an approval), one Thread per
Task, one project, one tenant; so the case is left out that an event of a page names a
Thread the page cannot index, for which `findThreadContext` throws (`webClient.ts:199`,
216) and the rest of the replay is dropped without a failed request. A closed socket loses what was under way, as if it
had not been forwarded.

### ProviderService

One action is one call to the store, the registry or the app-server, with the
branch the code takes on its result. `lock` is the operation mutex, which `select`
and `select_model` do not take. A Provider is reduced to the credential its catalog
entry names (none, some variable of the environment, or its own managed one) and to
whose model list is stored for it. An `upsert` brings a key, which the service stores
and replaces by the name of the managed variable; or it names a variable, the managed
one included: `validate_credentials` accepts it (`lib.rs:692`), the edit form fills it
in (`Composer.tsx:149`), and the service then deletes the key and leaves the catalog
naming it (`secured.rs:275`). A write of a key that is reported as failed, or whose
handler is dropped, may have been applied. `WriteConfig` may be applied and still be reported as failed;
then, as when the listing after it fails, the key is rolled back under a catalog
that names it. `Dropped` is axum dropping the handler of a client that went away.
`doubtful`, `unrestored`, `byName` and `raced` are history and the exceptions in the
properties: the operation's own roll-back failed, was not tried or was cut off; a
write that failed for the client was applied; the entry was written with the managed
variable given by name; a select crossed a delete or a refresh.

The restart that `refresh_models` and `update_model` schedule at their end does not
touch this state; it is `ScheduleRuntimeRefresh` of `ProfileHost`.

### CodexAdapter

`queue` is the FIFO queue of tokio's `RwLock`: a writer is granted at the head when
no reader is left, a reader at the head at once, and everybody behind a waiting
writer waits. A request holds the lock until its answer or its timeout
(`RequestFails`, always possible, as the app-server may have acted or not);
`command/exec` holds it only while it is published. The runtime mutex is held from
`prepare_runtime` to the end of an operation. Kinds of operations: `start`
(thread/start, which binds), `start_turn`, `interrupt` (also for steer) and
`archive`; the latter three resume a Thread that is not bound. Terminals are their
row, the spawned task, the binding and the handlers that open and close them, any
write of which may fail. Server and app-server may stop at any point.

`orphaned`, `lost` and `unsure` are history and the exceptions in the properties:
terminals that `prepare_runtime` unbound while they ran (it clears all of them when
it first notices an instance, `real.rs:136`), exits that were not stored or that a
server restart swallowed, Threads whose archiving timed out.

## 3. Runs

| Run | Instance | Shows |
|---|---|---|
| `runs` | 1 Run, 2 servers, 2 cleanup attempts, database failures and crashes | the safety invariants of a Run and its workspace; what ended stays ended |
| `runs_tasks` | 2 Runs of one Task (parent and fork), 1 server | one active Run per Task; a Task shown running has a Run |
| `runs_live` | 1 Run, 2 servers, 2 cleanup attempts and a take-over, no database failures, `FairSpec` | provisioning ends, orphans are released, cleanup settles |
| `runs_checkout` | as `runs_live`, safety only | **violated** `RunningHasCheckout` |
| `approvals` | an approval and a user-input request, 2 clients, database failures | one stored decision, truthful audit, closed when resolved, the contract |
| `approvals_restart` | 1 request id, 2 processes, `FairSpec` | no stale answer, resolutions applied, delivered decisions audited |
| `host` | 3 processes, 1 Turn, 2 secrets, crashes and shutdown, readers overtaken anywhere | Turns spared, refresh kept, secrets in step, nothing left booked, each but for what the property names; a replaced reader acts at most once |
| `stream` | 2 Tasks, 2 frames, bus and page of 1, 1 loss of connection or server, 1 failed request | what is shown is durable, in order, once; every gap has a known cause |
| `stream_live` | 1 Task, 2 frames, 2 losses, `FairSpec` | the cursor catches up; pending approvals are shown |
| `providers` | 1 custom and the built-in Provider, 2 requests at a time, 2 keys | environment, store and catalog agree; the catalog is sound |
| `adapter` | 1 Thread, 1 operation of every kind, 1 terminal, 3 instances | bindings match the process; ended sessions stay ended; no deadlock |
| `adapter_live` | the same with thread/start and turn/start, 2 instances, `FairSpec` | every call returns; every exit is recorded |

Bounds. `MaxTokens` bounds recoveries (three tokens: the claim and two
recoveries, enough for a late writer to meet a second owner). `MaxClaims` bounds
cleanup claims by retries and take-overs; `CleanupAttempts` stands for the five
of the code, lowered so that giving up is reached. `MaxVersion = 4` allows a
delivery, its uncertainty and a retry. `MaxQueue = 2` holds a request and its
resolution. Three processes let a restart fail and the one that repairs it
succeed, and the reader of a replaced process meet its successor's successor. One
Turn meets restarts, approvals and overtaken readers in every order; with two Turns
and two processes TLC also finds no error (10 million states, 3 minutes), with two and
three it does not finish in time, and the theorems hold for any number of each. Two servers suffice for every pair of owner and late writer of one Run;
two Runs for the index, which compares two. `Capacity = 1` and `PageSize = 1`
stand for 1024 and 200: two events make a receiver lag and fill more than a page,
and a last page that is exactly full. Two frames give every order of an approval
and another event of the same or of another Task; two losses allow a loss during the
recovery from the first. One Provider is enough because operations on different
Providers meet only in the selection, for which the built-in one is the other; two
requests give every crossing of an operation with a select. Three instances let the
process be replaced while an operation recovers from a replacement; the lifecycle
lock has up to six parties (operation, registry, responder and the three of a
terminal). Symmetry is used for servers and clients in runs that check no liveness.

Deadlock is checked for the orchestrator, the Provider service and the adapter,
which can always go on. Approvals, Profile Host and event stream end when every
bounded request or frame is used up, so it is not checked there.

Fairness. Worker loops are weakly fair: `run_worker` is one task that always
reaches its next step, since every external call returns or fails. Leases that
nobody refreshes run out and delayed jobs fall due because time passes; a lease
with a live owner may or may not expire. The bridge and started handlers go on. In
`EventStream` the bridge, the connection (whose reconnect timer runs for ever) and
the page's promise chain are weakly fair each. In `CodexAdapter` the tasks of the
server are: every wait in them is for the lock, which is FIFO, or for an answer with
a timeout, and the expiry of a timeout is `RequestFails` or `TerminateFails`.
Nothing is assumed of users, the Runtime, failures, crashes or connections, which
the bounds make rare enough to recover from.

### What the violated property shows

**`RunningHasCheckout`** — a lease expires while `start_thread` runs;
`reap_expired` queues the workspace for cleanup since the Run has no Thread yet;
the worker then records the Thread and makes the Run recoverable; `recover_run`
revives it and the cleanup deletes its directory (`execution.rs:157`, `304`).

### Behaviours in the models without a run of their own

Properties that hold name these as their exceptions, or leave them out:

* A database failure in `execute_lease` and a second one in `fail_lease` leave the
  row `provisioning`, while the server goes on refreshing the lease of every Run it
  owns (`scheduler.rs:559`); `ProvisioningEnds` is checked with a working database.
* `cancel_run` turns a cancelled Run into `recovery_pending` when the interrupt
  fails (`scheduler.rs:281`), although product-design.md:467 lists `cancelled` as
  final.
* A Cancel is stored as decision `rejected` but ends as `cancelled`: if the
  Runtime's resolution comes before `complete_decision`, no audit record is written
  (`approval-service/src/lib.rs:454`).
* An approval whose final write fails stays `dispatching` until the process is
  replaced; a `list_pending` that read the instance id before a restart cancels the
  new process's requests (`routes/approvals.rs:21`).
* A `recovery_pending` Run without a Thread is never claimed again and `recover_run`
  refuses it (`scheduler.rs:481`); it blocks its Task until it is cancelled.
* A Turn that completes before `request()` resumes is booked after its removal and
  blocks every later restart (`profile-host/src/lib.rs:474`); `IdleIsNotBusy` excepts
  it (`early`).
* A stdout reader that a restart overtakes between its check of the generation and
  its act (`profile-host/src/lib.rs:905`, 924, 984) books a Turn of the old process,
  which stays booked (excepted in `IdleIsNotBusy`, `early`); clears the books of the
  new process, whose Turns a restart then kills (excepted in `RestartSparesTurns`,
  `wiped`); or publishes a message of the old process under the new instance id.
  Without the exceptions TLC refutes both properties. What holds is
  `ReplacedReaderActsOnce`: each reader does one of these at most once, however much
  the old process wrote.
* An edit of a Provider that keeps the pre-filled managed variable deletes its key
  while the catalog goes on naming it (`provider-service/src/secured.rs:275`);
  `CatalogMatchesStore` excepts the entry (`byName`).
* `turn/interrupt` and `turn/steer` are refused while a restart is scheduled and the
  Turn they are for is active (`real.rs:462`, `132`).
* The exceptions of `EventStream`, `ProviderService` and `CodexAdapter` above.

## 4. Theorems

Every invariant and action property of the passing runs is proved, for every value
of the constants; the runs show on small instances what the theorems say for all of
them, and TLC checked each inductive invariant before it was proved. The assumptions
are those named in the modules (`RunConstants`, `RunBounds`, `ApprovalConstants`,
`HostConstants`, `ProviderConstants`, `AdapterConstants`, `StreamConstants`: sets,
numbers and Booleans are what they should be) and, for `DeliveredAudited`, the value
of a switch: `~DbMayFail`. With the other value TLC refutes the property, for the
reason given at the end of section 3. A strengthened type invariant `Typed` (called
`TypeOK` in the two oldest modules) comes first in each module; the invariants below
are inductive together with it.

`RunOrchestratorProofs`, for every set of Runs, Tasks and servers, every relation
between Runs and every bound:

* `TypeCorrect`: `Spec => []TypeOK`. The last conjunct of `TypeOK` (a worker inside
  `execute_lease` or `run_cleanup_once` holds a Run) is what makes the updates at
  `work[w].run` well typed.
* `LeasesMatch`: `Spec => []LeaseMatchesStatus`. Each step releases, issues or
  refreshes a lease, or leaves it alone; the only write that releases by the Run's id
  alone, `record_delivery_uncertainty`, leaves the Run cancelled or recoverable.
* `ExecutedOnce`: `Spec => []ExclusiveExecution`, and `OneThread`:
  `Spec => []ThreadWrittenOnce`. Neither is inductive: a second claim is excluded
  because a Run that is `absent` or `pending` has not been claimed, has no Thread
  and is executed by nobody (`Unclaimed`), and a Thread is written by its executor
  only, which has it not yet (`NoThreadYet`). `ExecutionInv` is their conjunction.

`RunStatusProofs` first shows that every step follows the status graph `Legal`, each
edge with its guard (`GraphStep`). The write that needs an argument is
`record_delivery_uncertainty`, which looks at no status: `Held` says that a Run that
is being executed is provisioning, was lost or was cancelled. `TurnOfRunning` and
`FreshTask` (a Task whose Run waits or is provisioned is not shown running) complete
`StatusInv`, from which follow `OneActiveRun` (`OneActiveRunPerTask`),
`RunningTaskIsServed` (`RunningTaskHasRun`) and `EndIsFinal` (`EndedStaysEnded`).

`RunCheckoutProofs`: `CheckoutsAgree`, `Spec => []CheckoutsAccounted`. `CheckoutInv`
adds what the actors know: rows appear before Threads, jobs and requests to retire
(`RowsAppear`); the worker that executes a Run records its workspace once the
directory exists (`BuilderKnows`); a cleaner works for a queued job and writes
'retired' once the directory is gone (`CleanerKnows`).

`ApprovalServiceProofs`, for every set of request ids and clients, every number of
processes and every bound:

* `TypeCorrect`: `Spec => []TypeOK`.
* `OneDecision`, `AuditIsTrue`: `Spec => []OneDecisionReceived` and
  `Spec => []AuditTellsTheTruth`, from the inductive `DecisionInv`: a row nobody has
  begun to decide stores no decision; a handler past `begin_decision` carries the
  decision its row stores, one in `complete_decision` has delivered it; every answer
  sent is the decision its row stores; and the audit trail is true.
* `Refinement`: `Spec => ImplementsContract`. With `DecisionInv`, each action is
  shown to be one step of the contract (`begin_decision` decides, the response
  delivers, `complete_decision` records, resolutions and stale cancellations end
  requests, the latter many at once) or to leave the mapped variables alone.
* `ResolvedStaysClosed` (`ResolvedIsClosed`) and `AnswersArrive`
  (`AnswersReachTheirProcess`), from `ClosedInv`: the Runtime asks once before it
  resolves once, and the channel keeps that order, so a capture that comes late finds
  the resolution behind it.
* `DeliveredAudited` (`DeliveredIsAudited`), while the database works: a failed call
  in `complete_decision` returns without an audit record. `DispatchInv`: of the
  handlers past `begin_decision` one holds the dispatch, or the approval has ended.

`ProviderServiceProofs`, for any Providers, keys and concurrent requests:
`TypeCorrect`; `EnvironmentAgrees` and `CatalogAgreesWithStore`
(`EnvironmentMatchesStore`, `CatalogMatchesStore`) from `KeyInv`, whose `Phase` says
for every step of an operation which key is stored, whether the environment has it
and whether the catalog promises the one it replaced (`Promised`: it names the managed
variable, and not because a request gave it by name); `CatalogIsSound` (`CatalogSound`)
from `CatalogInv`: what an operation has read of the catalog is still so, for certain
under the mutex, else as long as nobody has written since (`Informed`).

`CodexAdapterProofs`, for any Threads, operations and terminals: `TypeCorrect` (its
`Typed` describes the FIFO line of the lifecycle lock: nobody stands in it twice, and
only who waits); `BindingsAgree` (`BindingsMatch`) from `BindInv`, whose addition is
that an operation about to bind its Thread has just resumed it in this process;
`SessionEndIsFinal` (`EndedIsFinal`).

`ProfileHostProofs`, for any secrets and numbers of processes and requests:

* `TypeCorrect`, and `RefreshKept` (`RefreshNotLost`): a process older than the last
  request for a refresh is about to be stopped or has a restart scheduled.
* `SecretsAgree` (`SecretsInSync`): `SecretInv` compares everything (the scheduled
  restart, the one under way, the process) with the environment that is in force
  until the registry's own restart has spawned (`Agreed`).
* `TurnsAreSpared` (`RestartSparesTurns`): a Turn a caller was told of is booked
  while it runs. It needs that a request the process has not taken is in nothing it
  wrote and in no book (`NumbersInv`), and that whoever clears the books is the reader
  of the current process, whose Turns are over, or leaves a note in `wiped`.
* `OvertakenOnce` (`ReplacedReaderActsOnce`), from `OnceInv`: a reader that has acted
  for a replaced process is past none of its checks, and the next one stops it.
* `IdleHostIsFree` (`IdleIsNotBusy`): whatever is booked is going to be taken off:
  its end is still in the pipe behind its beginning, or with the reader, or the books
  are going to be cleared (`StreamInv`, `BookedInv`), or it was over when it was booked.

`EventStreamProofs`, for any Tasks and frames, any size of bus and page, any number
of losses and failures:

* `TypeCorrect`; `ShownIsDurable` (`SeenIsDurable`); `OrderKept` (`ShownInOrder`).
  `Typed` says that only durable events are on the bus, in the chain, in a replay or
  at a cursor, and that what was shown is at or behind the cursor of its Task; an
  event that is not an approval is shown only ahead of it.
* `GapsAreExplained` (`GapsExplained`). Not inductive: that the cursor passes an event
  is decided long before. `GapInv` says where an event the page should have been shown
  and has not (`Missing`) is as long as no request failed: ahead of the cursor, and to
  come before any later event of its Task, be it from the chain (a delivery, or a
  recovery that still `Covers` it), the bus, or the bridge, unless a connection that
  is not ready will queue a recovery. `BatchInv` adds that a replay has everything
  between the cursor and the page it is at. That a page leaves out nothing unless it
  is full, and then only later events (`PageIs`), is proved by counting (`FirstOnes`:
  the map from an element to its rank is a bijection), and the existence of maxima
  (`MaxIs`) from the well-foundedness of the naturals.

Only model-checked: the liveness properties `ProvisioningEnds`, `OrphanReleased`,
`CleanupSettles`, `ResolutionApplied`, `CatchesUp`, `ApprovalsSurface`, `CallsReturn`
and `ExitIsRecorded`, as fairness and `ENABLED` are outside the prover's reach; and
the violation of `RunningHasCheckout`. Induction over data and RECURSIVE operators,
also outside its reach, are not needed: none is used.

## 5. Not modelled

The vendored Codex subtree is an external actor. The browser's user interface and its
reducers are sequential functions of the events it is given. CRUD routes, access
checks and read models have no interleaving beyond a single transaction. Encryption,
file layout, capability negotiation, stderr, the conversion of items and artifacts
into their public form and wire formats are I/O or formatting. Of the adapter, logins
and `generate_text` with its suppressed Threads are left out; of the Git runtime,
its operations on a checkout. The bounded channel from the Profile Host to the
adapter (`real.rs:1322`) is unbounded in the models. `PROJECT.json` gives the reason
for each component.

## 6. Plan

Done: the run orchestrator, the approval service, Profile Host, event stream,
Provider service, adapter and terminals, each with its theorems. What is left, in
order of weight:

1. The contract between modules as theorems: that a restart of `ProfileHost`, seen
   from outside the lifecycle lock, is the one step `CodexAdapter` takes for it.
2. Turn identities in the projection, with the late writes of `active_turn_id`
   (`routes/tasks.rs:436`).
3. An abstract event log that the stream implements up to the named gaps.
4. Logins and suppressed Threads of the adapter; the bounded channel below it.
5. Sessions: refresh and revocation.
