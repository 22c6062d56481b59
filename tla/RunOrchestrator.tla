--------------------------- MODULE RunOrchestrator ---------------------------
(***************************************************************************)
(* The Run orchestrator (apps/web/crates/run-orchestrator): HTTP handlers  *)
(* that enqueue, cancel, recover and retire Runs, and worker processes     *)
(* that lease pending Runs, provision a Git checkout, start the Codex      *)
(* Thread and clean workspaces up.  Every action is one database           *)
(* transaction, or one external call and what the code does with its       *)
(* result; handlers and workers interleave between them.                   *)
(*                                                                         *)
(* A Run is claimed from 'pending' only and nothing ever returns it there, *)
(* so a Run has at most one workspace: the workspace row, its checkout and *)
(* its cleanup job are indexed by the Run.  An element of Runs stands for  *)
(* one (requester, idempotency key) pair: replaying the request finds the  *)
(* row and changes nothing.                                                *)
(***************************************************************************)
EXTENDS Integers, FiniteSets

CONSTANTS
    Runs,             \* rows of runs, one per idempotency key
    Workers,          \* server processes ("server-<uuid>", fresh per process)
    Tasks,
    TaskOf,           \* the Task of each request
    ParentOf,         \* workspace_parent_run_id, or None
    ForkOf,           \* fork_source_run_id, or None
    MainRuns,         \* requests whose workspace_kind is 'main'
    None,
    CleanupAttempts,  \* attempts after which a cleanup job fails (5)
    MaxTokens,        \* bound: lease tokens issued per Run
    MaxClaims,        \* bound: cleanup claims per workspace
    DbMayFail         \* whether a worker's database calls may fail

ASSUME RunConstants ==
    /\ None \notin Runs \cup Workers
    /\ TaskOf \in [Runs -> Tasks]
    /\ ParentOf \in [Runs -> Runs \cup {None}]
    /\ ForkOf \in [Runs -> Runs \cup {None}]
    /\ MainRuns \subseteq {r \in Runs : ParentOf[r] = None}
    /\ DbMayFail \in BOOLEAN

ASSUME RunBounds ==
    /\ CleanupAttempts \in Nat \ {0}
    /\ MaxTokens \in Nat \ {0}
    /\ MaxClaims \in Nat \ {0}

VARIABLES
    status,      \* runs.status; "absent" before the row exists
    lease,       \* runs.lease_owner, lease_token, lease_expires_at < now()
    tokens,      \* lease tokens issued so far for the Run
    attempt,     \* runs.attempt
    thread,      \* runs.codex_thread_id is set
    turn,        \* runs.active_turn_id is set
    taskStatus,  \* tasks.status
    wsState,     \* workspaces.state; "none" before the row exists
    job,         \* runner_jobs: state, attempt, lease_token, lease expired
    checkout,    \* the workspace directory exists on disk
    pc,          \* where each worker's loop stands
    work,        \* the Run and token a worker holds between its steps
    cancels,     \* cancel_run calls that await interrupt_turn
    retires      \* retire_workspace calls between their read and their write

runVars == <<status, lease, tokens, attempt, thread, turn>>
workspaceVars == <<wsState, job, checkout>>
workerVars == <<pc, work>>
handlerVars == <<cancels, retires>>
vars == <<runVars, taskStatus, workspaceVars, workerVars, handlerVars>>

-----------------------------------------------------------------------------
(* Rows. *)

Terminal == {"completed", "failed", "cancelled"}
Leasable == {"provisioning", "running"}   \* 'cancelling' is never written
Active == {"pending", "recovery_pending"} \cup Leasable
Status == {"absent"} \cup Active \cup Terminal
TaskStatus == {"pending", "running", "completed", "cancelled", "archived"}
WorkspaceState == {"none", "ready", "busy", "cleanup_pending", "retired"}
JobState == {"none", "pending", "delayed", "running", "completed", "failed"}

NoLease == [owner |-> None, token |-> 0, expired |-> FALSE]
Lease(w, k) == [owner |-> w, token |-> k, expired |-> FALSE]
NoJob == [state |-> "none", attempt |-> 0, token |-> 0, expired |-> FALSE]
NoWork == [run |-> None, token |-> 0]

\* execute_lease, between the claim and the last write of run_once.
Executing == {"hb1", "provision", "hb2", "owned", "record", "discard",
              "start", "queue", "bind", "uncertain", "fail"}
Cleaning == {"removing", "retiring"}
PC == {"heartbeat", "reap", "claim", "cleanup", "dead"} \cup Executing \cup Cleaning

\* Mutant: the index leaves out 'recovery_pending'.
TaskBusyIgnoresRecovery(r) ==
    \E q \in Runs \ {r} : TaskOf[q] = TaskOf[r] /\ status[q] \in Leasable \cup {"pending"}

\* idx_runs_one_active_per_task: another Run of r's Task is active.
TaskBusy(r) == \E q \in Runs \ {r} : TaskOf[q] = TaskOf[r] /\ status[q] \in Active

\* runs WHERE id, lease_owner and lease_token match the lease that w holds.
Owned(w, states) ==
    LET r == work[w].run
    IN  /\ lease[r].owner = w
        /\ lease[r].token = work[w].token
        /\ status[r] \in states

\* INSERT INTO runner_jobs ... ON CONFLICT DO UPDATE SET state = 'pending': the
\* attempts and, except in retire_workspace, the lease columns are kept.
Requeued(j) == [j EXCEPT !.state = "pending"]

\* Mutant: lease_owner is cleared, lease_token is not.
ReleaseKeepsToken(r) == lease' = [lease EXCEPT ![r].owner = None]

\* lease_owner, lease_token and lease_expires_at are set to NULL.
Release(r) == lease' = [lease EXCEPT ![r] = NoLease]

Goto(w, label) == pc' = [pc EXCEPT ![w] = label]
Done(w, label) ==
    /\ Goto(w, label)
    /\ work' = [work EXCEPT ![w] = NoWork]

Init ==
    /\ status = [r \in Runs |-> "absent"]
    /\ lease = [r \in Runs |-> NoLease]
    /\ tokens = [r \in Runs |-> 0]
    /\ attempt = [r \in Runs |-> 0]
    /\ thread = [r \in Runs |-> FALSE]
    /\ turn = [r \in Runs |-> FALSE]
    /\ taskStatus = [t \in Tasks |-> "pending"]
    /\ wsState = [r \in Runs |-> "none"]
    /\ job = [r \in Runs |-> NoJob]
    /\ checkout = [r \in Runs |-> FALSE]
    /\ pc = [w \in Workers |-> "heartbeat"]
    /\ work = [w \in Workers |-> NoWork]
    /\ cancels = {}
    /\ retires = {}

-----------------------------------------------------------------------------
(* Request handlers. *)

\* enqueue_run: the parent's workspace is not retired, the fork source has its
\* Thread, and the unique index admits one active Run per Task.
EnqueueRun(r) ==
    /\ status[r] = "absent"
    /\ ParentOf[r] # None => wsState[ParentOf[r]] \notin {"none", "retired"}
    /\ ForkOf[r] # None => thread[ForkOf[r]]
    /\ ~TaskBusy(r)
    /\ status' = [status EXCEPT ![r] = "pending"]
    /\ UNCHANGED <<lease, tokens, attempt, thread, turn, taskStatus,
                   workspaceVars, workerVars, handlerVars>>

\* cancel_run up to its commit; interrupt_turn follows when a Turn is active.
CancelRun(r) ==
    /\ status[r] \in Active
    /\ status' = [status EXCEPT ![r] = "cancelled"]
    /\ Release(r)
    /\ turn' = [turn EXCEPT ![r] = FALSE]
    /\ wsState' = [wsState EXCEPT ![r] = IF @ \in {"none", "retired"} THEN @ ELSE "ready"]
    /\ taskStatus' = [taskStatus EXCEPT ![TaskOf[r]] = "cancelled"]
    /\ cancels' = IF thread[r] /\ turn[r] /\ wsState[r] # "none"
                  THEN cancels \cup {r} ELSE cancels
    /\ UNCHANGED <<tokens, attempt, thread, job, checkout, workerVars, retires>>

InterruptSucceeds(r) ==
    /\ r \in cancels
    /\ cancels' = cancels \ {r}
    /\ UNCHANGED <<runVars, taskStatus, workspaceVars, workerVars, retires>>

\* The interrupt failed: a Run still 'cancelled' becomes recoverable, unless the
\* unique index rejects the write because the Task has a newer active Run.
InterruptFails(r) ==
    /\ r \in cancels
    /\ cancels' = cancels \ {r}
    /\ status' = [status EXCEPT ![r] =
                    IF @ = "cancelled" /\ ~TaskBusy(r) THEN "recovery_pending" ELSE @]
    /\ UNCHANGED <<lease, tokens, attempt, thread, turn, taskStatus,
                   workspaceVars, workerVars, retires>>

\* retire_workspace: the unlocked read, and interrupt_turn if a Turn is active
\* (when it fails the request ends here and nothing has changed).
RetireBegin(r) ==
    /\ r \notin MainRuns \cup retires
    /\ wsState[r] \notin {"none", "retired"}
    /\ job[r].attempt < MaxClaims
    /\ retires' = retires \cup {r}
    /\ UNCHANGED <<runVars, taskStatus, workspaceVars, workerVars, cancels>>

\* retire_workspace: the transaction, which looks at the locked rows again.
RetireCommit(r) ==
    /\ r \in retires
    /\ retires' = retires \ {r}
    /\ IF wsState[r] = "retired"
       THEN UNCHANGED <<status, lease, turn, taskStatus, wsState, job>>
       ELSE /\ status' = [status EXCEPT ![r] = "cancelled"]
            /\ Release(r)
            /\ turn' = [turn EXCEPT ![r] = FALSE]
            /\ taskStatus' = [taskStatus EXCEPT ![TaskOf[r]] = "archived"]
            /\ wsState' = [wsState EXCEPT ![r] = "cleanup_pending"]
            /\ job' = [job EXCEPT ![r] =
                         [state |-> "pending", attempt |-> @.attempt,
                          token |-> 0, expired |-> FALSE]]
    /\ UNCHANGED <<tokens, attempt, thread, checkout, workerVars, cancels>>

\* recover_run, on the server whose worker id is w.  send_message calls it
\* whenever the Task's latest active Run is 'recovery_pending'.
RecoverRun(w, r) ==
    /\ pc[w] # "dead"
    /\ wsState[r] \notin {"none", "retired"}
    /\ thread[r]
    /\ status[r] = "recovery_pending"
    /\ tokens[r] < MaxTokens
    /\ status' = [status EXCEPT ![r] = "running"]
    /\ turn' = [turn EXCEPT ![r] = FALSE]
    /\ tokens' = [tokens EXCEPT ![r] = @ + 1]
    /\ lease' = [lease EXCEPT ![r] = Lease(w, tokens[r] + 1)]
    /\ wsState' = [wsState EXCEPT ![r] = "busy"]
    /\ taskStatus' = [taskStatus EXCEPT ![TaskOf[r]] = "running"]
    /\ UNCHANGED <<attempt, thread, job, checkout, workerVars, handlerVars>>

-----------------------------------------------------------------------------
(* Runtime events applied to the Run by event_projection, and the writes of  *)
(* send_message, start_review and interrupt_run to active_turn_id.           *)

\* Mutant: the status is not part of the WHERE clause.
HasThread(r) == thread[r]

\* The Run an event is for: found by its Thread, and written only while running.
Projected(r) == thread[r] /\ status[r] = "running"

TurnStarted(r) ==
    /\ Projected(r) /\ ~turn[r]
    /\ turn' = [turn EXCEPT ![r] = TRUE]
    /\ UNCHANGED <<status, lease, tokens, attempt, thread, taskStatus,
                   workspaceVars, workerVars, handlerVars>>

TurnCompleted(r) ==
    /\ turn[r]
    /\ turn' = [turn EXCEPT ![r] = FALSE]
    /\ UNCHANGED <<status, lease, tokens, attempt, thread, taskStatus,
                   workspaceVars, workerVars, handlerVars>>

\* Mutant: only a completed Thread is reflected in its Task.
TaskAfterCompletion(s, outcome) == IF outcome = "completed" THEN outcome ELSE s

\* What the end of a Thread makes of tasks.status.
TaskAfter(s, outcome) ==
    CASE s \in {"completed", "cancelled", "archived"} -> s
      [] s \in {"pending", "running"} ->
            IF outcome = "completed" THEN "completed" ELSE "pending"

\* thread/completed and thread/failed end a running Run only.
ThreadEnded(r, outcome) ==
    /\ Projected(r)
    /\ status' = [status EXCEPT ![r] = outcome]
    /\ turn' = [turn EXCEPT ![r] = FALSE]
    /\ Release(r)
    /\ wsState' = [wsState EXCEPT ![r] = "ready"]
    /\ taskStatus' = [taskStatus EXCEPT ![TaskOf[r]] = TaskAfter(@, outcome)]
    /\ UNCHANGED <<tokens, attempt, thread, job, checkout, workerVars, handlerVars>>

\* thread/archived and thread/unarchived, and the archive route.
ThreadArchived(r) ==
    /\ thread[r] /\ taskStatus[TaskOf[r]] # "archived"
    /\ taskStatus' = [taskStatus EXCEPT ![TaskOf[r]] = "archived"]
    /\ UNCHANGED <<runVars, workspaceVars, workerVars, handlerVars>>

ThreadUnarchived(r) ==
    /\ thread[r] /\ taskStatus[TaskOf[r]] = "archived"
    /\ taskStatus' = [taskStatus EXCEPT ![TaskOf[r]] = "pending"]
    /\ UNCHANGED <<runVars, workspaceVars, workerVars, handlerVars>>

-----------------------------------------------------------------------------
(* The worker loop (run_worker): heartbeat_owned_runs, reap_expired,         *)
(* run_once, run_cleanup_once, one after the other in one task.              *)

\* A loop step at `from` that only moves the worker to `to`.
Moves(w, from, to) ==
    /\ pc[w] = from
    /\ Goto(w, to)
    /\ UNCHANGED <<runVars, taskStatus, workspaceVars, work, handlerVars>>

HeartbeatOwnedRuns(w) ==
    /\ pc[w] = "heartbeat"
    /\ lease' = [r \in Runs |->
                    IF lease[r].owner = w /\ status[r] \in Leasable
                    THEN [lease[r] EXCEPT !.expired = FALSE] ELSE lease[r]]
    /\ Goto(w, "reap")
    /\ UNCHANGED <<status, tokens, attempt, thread, turn, taskStatus,
                   workspaceVars, work, handlerVars>>

\* Mutants: only running, or only provisioning, Runs are looked at.
ExpiredRunning(r) == status[r] = "running" /\ lease[r].expired
ExpiredProvisioning(r) == status[r] = "provisioning" /\ lease[r].expired

Expired(r) == status[r] \in Leasable /\ lease[r].expired

\* reap_expired: every expired lease at once; a workspace whose Run has no
\* Thread goes to cleanup.
ReapExpired(w) ==
    LET expired == {r \in Runs : Expired(r)}
        orphans == {r \in expired : wsState[r] # "none" /\ ~thread[r]}
    IN  /\ pc[w] = "reap"
        /\ status' = [r \in Runs |-> IF r \in expired THEN "recovery_pending" ELSE status[r]]
        /\ lease' = [r \in Runs |-> IF r \in expired THEN NoLease ELSE lease[r]]
        /\ wsState' = [r \in Runs |-> IF r \in orphans THEN "cleanup_pending" ELSE wsState[r]]
        /\ job' = [r \in Runs |-> IF r \in orphans THEN Requeued(job[r]) ELSE job[r]]
        /\ Goto(w, "claim")
        /\ UNCHANGED <<tokens, attempt, thread, turn, taskStatus, checkout,
                       work, handlerVars>>

\* Mutants: a lost Run is claimed again, or one that another worker provisions.
MayClaimLost(r) == status[r] \in {"pending", "recovery_pending"}
MayClaimAgain(r) == status[r] \in {"pending", "provisioning"}

\* The WHERE clause of claim_next.
MayClaim(r) == status[r] = "pending" /\ (lease[r].token = 0 \/ lease[r].expired)

ClaimNext(w, r) ==
    /\ pc[w] = "claim"
    /\ MayClaim(r)
    /\ status' = [status EXCEPT ![r] = "provisioning"]
    /\ attempt' = [attempt EXCEPT ![r] = @ + 1]
    /\ tokens' = [tokens EXCEPT ![r] = @ + 1]
    /\ lease' = [lease EXCEPT ![r] = Lease(w, tokens[r] + 1)]
    /\ work' = [work EXCEPT ![w] = [run |-> r, token |-> tokens[r] + 1]]
    /\ Goto(w, "hb1")
    /\ UNCHANGED <<thread, turn, taskStatus, workspaceVars, handlerVars>>

ClaimNothing(w) ==
    /\ \A r \in Runs : ~MayClaim(r)
    /\ Moves(w, "claim", "cleanup")

(* execute_lease *)

\* heartbeat(lease): refresh the lease, or LeaseLost.
Heartbeat(w, from, to) ==
    /\ pc[w] = from
    /\ IF Owned(w, Leasable)
       THEN /\ lease' = [lease EXCEPT ![work[w].run].expired = FALSE]
            /\ Goto(w, to)
       ELSE UNCHANGED lease /\ Goto(w, "fail")
    /\ UNCHANGED <<status, tokens, attempt, thread, turn, taskStatus,
                   workspaceVars, work, handlerVars>>

\* provision and, for a worktree, switch_or_create_branch.  Of a failed attempt
\* the directory may remain when its removal fails too.
Provision(w) ==
    /\ pc[w] = "provision"
    /\ \/ /\ checkout' = [checkout EXCEPT ![work[w].run] = TRUE]
          /\ Goto(w, "hb2")
       \/ /\ \E left \in BOOLEAN : checkout' = [checkout EXCEPT ![work[w].run] = left]
          /\ Goto(w, "fail")
    /\ UNCHANGED <<runVars, taskStatus, wsState, job, work, handlerVars>>

\* record_workspace reads the lease without locking the row ...
CheckOwned(w) ==
    /\ pc[w] = "owned"
    /\ Goto(w, IF Owned(w, {"provisioning"}) THEN "record" ELSE "discard")
    /\ UNCHANGED <<runVars, taskStatus, workspaceVars, work, handlerVars>>

\* ... and writes by the Run's id alone.
RecordWorkspace(w) ==
    /\ pc[w] = "record"
    /\ wsState' = [wsState EXCEPT ![work[w].run] = "ready"]
    /\ Goto(w, "start")
    /\ UNCHANGED <<runVars, taskStatus, job, checkout, work, handlerVars>>

\* record_workspace failed: remove_workspace, which may fail as well.
Discard(w) ==
    /\ pc[w] = "discard"
    /\ \E left \in BOOLEAN : checkout' = [checkout EXCEPT ![work[w].run] = left]
    /\ Goto(w, "fail")
    /\ UNCHANGED <<runVars, taskStatus, wsState, job, work, handlerVars>>

\* start_thread or fork_thread.  A fork whose source workspace is gone ends in
\* NotFound before the call, without queueing a cleanup.
ForkSourceGone(r) ==
    ForkOf[r] # None /\ wsState[ForkOf[r]] \in {"none", "retired"}

StartThread(w) ==
    /\ pc[w] = "start"
    /\ IF ForkSourceGone(work[w].run)
       THEN Goto(w, "fail")
       ELSE \E result \in {"bind", "queue"} : Goto(w, result)
    /\ UNCHANGED <<runVars, taskStatus, workspaceVars, work, handlerVars>>

\* The guarded write that makes the Run 'running' with its Thread.
BindThread(w) ==
    LET r == work[w].run
    IN  /\ pc[w] = "bind"
        /\ IF Owned(w, {"provisioning"})
           THEN /\ status' = [status EXCEPT ![r] = "running"]
                /\ thread' = [thread EXCEPT ![r] = TRUE]
                /\ lease' = [lease EXCEPT ![r].expired = FALSE]
                /\ wsState' = [wsState EXCEPT ![r] = "busy"]
                /\ taskStatus' = [taskStatus EXCEPT ![TaskOf[r]] = "running"]
                /\ Done(w, "cleanup")
           ELSE /\ Goto(w, "uncertain")
                /\ UNCHANGED <<status, thread, lease, wsState, taskStatus, work>>
        /\ UNCHANGED <<tokens, attempt, turn, job, checkout, handlerVars>>

\* record_delivery_uncertainty: the lease was lost while the Thread started.
RecordDeliveryUncertainty(w) ==
    LET r == work[w].run
    IN  /\ pc[w] = "uncertain"
        /\ thread' = [thread EXCEPT ![r] = TRUE]
        /\ status' = [status EXCEPT ![r] =
                         IF @ = "cancelled" THEN @ ELSE "recovery_pending"]
        /\ Release(r)
        /\ wsState' = [wsState EXCEPT ![r] = "ready"]
        /\ Goto(w, "fail")
        /\ UNCHANGED <<tokens, attempt, turn, taskStatus, job, checkout, work, handlerVars>>

\* queue_cleanup after start_thread failed.
QueueCleanup(w) ==
    LET r == work[w].run
    IN  /\ pc[w] = "queue"
        /\ wsState' = [wsState EXCEPT ![r] = "cleanup_pending"]
        /\ job' = [job EXCEPT ![r] = Requeued(@)]
        /\ Goto(w, "fail")
        /\ UNCHANGED <<runVars, taskStatus, checkout, work, handlerVars>>

\* fail_lease, called by run_once for every error of execute_lease.
FailLease(w) ==
    LET r == work[w].run
    IN  /\ pc[w] = "fail"
        /\ IF Owned(w, {"provisioning"})
           THEN /\ status' = [status EXCEPT ![r] = "failed"]
                /\ Release(r)
           ELSE UNCHANGED <<status, lease>>
        /\ Done(w, "cleanup")
        /\ UNCHANGED <<tokens, attempt, thread, turn, taskStatus,
                       workspaceVars, handlerVars>>

(* run_cleanup_once *)

\* Mutant: the job of a worker that died is never taken over.
ClaimableOnce(j) == j.state = "pending"

Claimable(j) == j.state = "pending" \/ (j.state = "running" /\ j.expired)

ClaimJob(w, r) ==
    LET k == job[r].attempt + 1
    IN  /\ pc[w] = "cleanup"
        /\ Claimable(job[r])
        /\ job' = [job EXCEPT ![r] = [state |-> "running", attempt |-> k,
                                      token |-> k, expired |-> FALSE]]
        /\ work' = [work EXCEPT ![w] = [run |-> r, token |-> k]]
        /\ Goto(w, "removing")
        /\ UNCHANGED <<runVars, taskStatus, wsState, checkout, handlerVars>>

ClaimNoJob(w) ==
    /\ \A r \in Runs : ~Claimable(job[r])
    /\ Moves(w, "cleanup", "heartbeat")

RemoveWorkspace(w) ==
    /\ pc[w] = "removing"
    /\ checkout' = [checkout EXCEPT ![work[w].run] = FALSE]
    /\ Goto(w, "retiring")
    /\ UNCHANGED <<runVars, taskStatus, wsState, job, work, handlerVars>>

\* Mutant: the failure is ignored and the workspace retired.
RemoveFailsIgnored(w) ==
    /\ pc[w] = "removing"
    /\ Goto(w, "retiring")
    /\ UNCHANGED <<runVars, taskStatus, workspaceVars, work, handlerVars>>

\* remove_workspace failed: the job is retried 30 seconds later or gives up, if
\* it still carries this worker's token.
RemoveFails(w) ==
    LET r == work[w].run
    IN  /\ pc[w] = "removing"
        /\ job[r].attempt < MaxClaims \/ job[r].attempt >= CleanupAttempts
        /\ job' = [job EXCEPT ![r] =
                     IF @.token # work[w].token THEN @
                     ELSE [state |-> IF @.attempt >= CleanupAttempts THEN "failed" ELSE "delayed",
                           attempt |-> @.attempt, token |-> 0, expired |-> FALSE]]
        /\ Done(w, "heartbeat")
        /\ UNCHANGED <<runVars, taskStatus, wsState, checkout, handlerVars>>

\* The workspace is retired whoever holds the job by now; the job is completed
\* only under this worker's token.
RetireWorkspace(w) ==
    LET r == work[w].run
    IN  /\ pc[w] = "retiring"
        /\ wsState' = [wsState EXCEPT ![r] = "retired"]
        /\ job' = [job EXCEPT ![r] =
                     IF @.token # work[w].token THEN @
                     ELSE [state |-> "completed", attempt |-> @.attempt,
                           token |-> 0, expired |-> FALSE]]
        /\ Done(w, "heartbeat")
        /\ UNCHANGED <<runVars, taskStatus, checkout, handlerVars>>

\* Mutant: a failed claim is taken for a lease.
AfterDbErrorExecutes(l) == IF l = "claim" THEN "hb1" ELSE "cleanup"

\* Where a worker goes on when a database call of the step at `l` fails.
AfterDbError(l) ==
    CASE l = "heartbeat" -> "reap"
      [] l = "reap" -> "claim"
      [] l \in {"claim", "fail"} -> "cleanup"
      [] l \in {"cleanup", "removing", "retiring"} -> "heartbeat"
      [] l \in {"owned", "record"} -> "discard"
      [] OTHER -> "fail"

DbError(w) ==
    /\ DbMayFail
    /\ pc[w] \notin {"dead", "provision", "discard"}
    /\ pc[w] = "start" => ForkOf[work[w].run] # None
    /\ pc[w] \in Cleaning => job[work[w].run].attempt < MaxClaims
    /\ Goto(w, AfterDbError(pc[w]))
    /\ work' = IF pc[w] \in Cleaning \cup {"fail"}
               THEN [work EXCEPT ![w] = NoWork] ELSE work
    /\ UNCHANGED <<runVars, taskStatus, workspaceVars, handlerVars>>

\* A server process dies and with it its worker id; another one is running.
WorkerCrash(w) ==
    /\ pc[w] # "dead"
    /\ \E v \in Workers \ {w} : pc[v] # "dead"
    /\ Done(w, "dead")
    /\ UNCHANGED <<runVars, taskStatus, workspaceVars, handlerVars>>

-----------------------------------------------------------------------------
(* Time. *)

\* Nobody is left to refresh the Run's lease, or to finish the cleanup job.
Abandoned(r) == lease[r].owner # None /\ pc[lease[r].owner] = "dead"
JobAbandoned(r) ==
    \A w \in Workers : pc[w] \in Cleaning => work[w] # [run |-> r, token |-> job[r].token]

\* lease_ttl passes without a heartbeat: the owner is dead, or its loop is held
\* up, in execute_lease for example.
LeaseExpires(r) ==
    /\ lease[r].token # 0 /\ ~lease[r].expired
    /\ lease' = [lease EXCEPT ![r].expired = TRUE]
    /\ UNCHANGED <<status, tokens, attempt, thread, turn, taskStatus,
                   workspaceVars, workerVars, handlerVars>>

\* A cleanup lease lasts one minute and is never refreshed.
JobLeaseExpires(r) ==
    /\ job[r].state = "running" /\ ~job[r].expired
    /\ job[r].attempt < MaxClaims \/ JobAbandoned(r)
    /\ job' = [job EXCEPT ![r].expired = TRUE]
    /\ UNCHANGED <<runVars, taskStatus, wsState, checkout, workerVars, handlerVars>>

JobDue(r) ==
    /\ job[r].state = "delayed"
    /\ job' = [job EXCEPT ![r] = Requeued(@)]
    /\ UNCHANGED <<runVars, taskStatus, wsState, checkout, workerVars, handlerVars>>

-----------------------------------------------------------------------------

Handler(r) ==
    \/ EnqueueRun(r) \/ CancelRun(r) \/ InterruptSucceeds(r) \/ InterruptFails(r)
    \/ RetireBegin(r) \/ RetireCommit(r)
    \/ \E w \in Workers : RecoverRun(w, r)

RuntimeEvent(r) ==
    \/ TurnStarted(r) \/ TurnCompleted(r)
    \/ \E outcome \in {"completed", "failed"} : ThreadEnded(r, outcome)
    \/ ThreadArchived(r) \/ ThreadUnarchived(r)

ExecuteLease(w) ==
    \/ Heartbeat(w, "hb1", "provision") \/ Provision(w) \/ Heartbeat(w, "hb2", "owned")
    \/ CheckOwned(w) \/ RecordWorkspace(w) \/ Discard(w)
    \/ StartThread(w) \/ BindThread(w) \/ RecordDeliveryUncertainty(w)
    \/ QueueCleanup(w) \/ FailLease(w)

CleanupOnce(w) ==
    \/ \E r \in Runs : ClaimJob(w, r)
    \/ ClaimNoJob(w) \/ RemoveWorkspace(w) \/ RemoveFails(w) \/ RetireWorkspace(w)

Worker(w) ==
    \/ HeartbeatOwnedRuns(w) \/ ReapExpired(w)
    \/ \E r \in Runs : ClaimNext(w, r)
    \/ ClaimNothing(w) \/ ExecuteLease(w) \/ CleanupOnce(w)

Time(r) == LeaseExpires(r) \/ JobLeaseExpires(r) \/ JobDue(r)

Next ==
    \/ \E r \in Runs : Handler(r) \/ RuntimeEvent(r) \/ Time(r)
    \/ \E w \in Workers : Worker(w) \/ DbError(w) \/ WorkerCrash(w)

Spec == Init /\ [][Next]_vars

\* Worker loops run on; every lease nobody refreshes any more runs out; a delayed
\* job becomes due.  Users, events, failures and crashes are never forced.
Fairness ==
    /\ \A w \in Workers : WF_vars(Worker(w))
    /\ \A r \in Runs : /\ WF_vars(Abandoned(r) /\ LeaseExpires(r))
                       /\ WF_vars(JobAbandoned(r) /\ JobLeaseExpires(r))
                       /\ WF_vars(JobDue(r))

FairSpec == Spec /\ Fairness

-----------------------------------------------------------------------------
(* Properties. *)

LeaseType == [owner : Workers \cup {None}, token : Nat, expired : BOOLEAN]
JobType == [state : JobState, attempt : Nat, token : Nat, expired : BOOLEAN]
WorkType == [run : Runs \cup {None}, token : Nat]

\* Every column holds a value of its CHECK constraint, and a worker inside
\* execute_lease or run_cleanup_once holds a Run.
TypeOK ==
    /\ status \in [Runs -> Status]
    /\ lease \in [Runs -> LeaseType]
    /\ tokens \in [Runs -> Nat]
    /\ attempt \in [Runs -> Nat]
    /\ thread \in [Runs -> BOOLEAN]
    /\ turn \in [Runs -> BOOLEAN]
    /\ taskStatus \in [Tasks -> TaskStatus]
    /\ wsState \in [Runs -> WorkspaceState]
    /\ job \in [Runs -> JobType]
    /\ checkout \in [Runs -> BOOLEAN]
    /\ pc \in [Workers -> PC]
    /\ work \in [Workers -> WorkType]
    /\ cancels \subseteq Runs
    /\ retires \subseteq Runs
    /\ \A w \in Workers : pc[w] \in Executing \cup Cleaning => work[w].run \in Runs

\* architecture.md: no Run stays 'running' without a lease.  A Run has an owner
\* and a token exactly while it is provisioning or running.
LeaseMatchesStatus ==
    \A r \in Runs : /\ (status[r] \in Leasable) = (lease[r].owner # None)
                    /\ (lease[r].owner # None) = (lease[r].token # 0)

\* claim_next under SKIP LOCKED: a Run is claimed at most once, so no two workers
\* are ever inside execute_lease for the same Run, whatever expired in between.
ExclusiveExecution ==
    /\ \A r \in Runs : attempt[r] <= 1
    /\ \A v, w \in Workers :
          v # w /\ pc[v] \in Executing /\ pc[w] \in Executing
            => work[v].run # work[w].run

\* The final write of execute_lease sets codex_thread_id without COALESCE: when a
\* worker is about to record the Thread it started, the Run has none yet.
ThreadWrittenOnce ==
    \A w \in Workers : pc[w] \in {"bind", "uncertain"} => ~thread[work[w].run]

RetiredIsRemoved ==
    \A r \in Runs : wsState[r] = "retired" => ~checkout[r]

OnlyCleanupRemoves ==
    \A r \in Runs : wsState[r] # "none" /\ ~checkout[r] => job[r].state # "none"

\* run_cleanup_once: 'retired' is only written once the directory is gone, and no
\* worker can bring it back; a recorded workspace loses its directory through its
\* cleanup job only, never through the removals inside execute_lease.
CheckoutsAccounted == RetiredIsRemoved /\ OnlyCleanupRemoves

\* tasks.status follows the Runs: a Task shown as running has an active Run.
RunningTaskHasRun ==
    \A t \in Tasks : taskStatus[t] = "running" =>
        \E r \in Runs : TaskOf[r] = t /\ status[r] \in Leasable \cup {"recovery_pending"}

\* The unique index on active Runs is consulted by enqueue_run and after a failed
\* interrupt only; no other write of a worker or handler, late as it may come,
\* makes a second Run of a Task active.
OneActiveRunPerTask ==
    \A q, r \in Runs : q # r /\ TaskOf[q] = TaskOf[r] =>
        ~(status[q] \in Active /\ status[r] \in Active)

\* 'completed' and 'failed' are final for every caller but the one that retires
\* the workspace, whose transaction marks the Run cancelled; and no late event gives
\* a Run that ended an active Turn to interrupt or steer.
EndedStaysEnded ==
    [][\A r \in Runs :
          /\ status[r] \in {"completed", "failed"} =>
                \/ status'[r] = status[r]
                \/ status'[r] = "cancelled" /\ r \in retires
          /\ status'[r] \in Terminal => ~turn'[r]]_vars

\* A live worker finishes or fails the Run it provisions; a dead one loses it to
\* reap_expired: provisioning always ends.
ProvisioningEnds ==
    \A r \in Runs : status[r] = "provisioning" ~> status[r] # "provisioning"

\* architecture.md: "No Run remains running without a valid lease/heartbeat and
\* recoverable owner": a Run owned by a dead worker is taken from it.
OrphanReleased ==
    \A r \in Runs : Abandoned(r) ~> ~Abandoned(r)

\* Every queued cleanup is eventually completed or given up.
CleanupSettles ==
    \A r \in Runs : job[r].state \in {"pending", "delayed", "running"}
                      ~> job[r].state \in {"completed", "failed"}

\* tests/postgres.rs: "running workspaces are not deleted on lease expiry".
RunningHasCheckout ==
    \A r \in Runs : status[r] = "running" => checkout[r]

=============================================================================
