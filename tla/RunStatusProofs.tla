-------------------------- MODULE RunStatusProofs --------------------------
(* What the status of a Run and of its Task may do, proved for any number of *)
(* Runs, workers and Tasks, on top of ExecutionInv (one worker executes a    *)
(* Run, once).                                                               *)
EXTENDS RunOrchestratorProofs

USE DEF runVars, workspaceVars, workerVars, handlerVars

\* The worker that executes r leaves execute_lease in this step.
HolderLeaves(r) ==
    \E w \in Workers : pc[w] \in Executing /\ work[w].run = r /\ pc'[w] \notin Executing

\* The status graph of a Run: what one step may make of it, and under which guard.
\* record_delivery_uncertainty writes without looking at the status, so that its
\* write follows an edge of the graph has to be proved.
Legal(r) ==
    \/ status'[r] = status[r]
    \/ /\ status[r] = "absent" /\ status'[r] = "pending"
       /\ ~TaskBusy(r) /\ \A q \in Runs \ {r} : status'[q] = status[q]
       /\ UNCHANGED taskStatus
    \/ /\ status[r] = "cancelled" /\ status'[r] = "recovery_pending"
       /\ ~TaskBusy(r) /\ \A q \in Runs \ {r} : status'[q] = status[q]
    \/ /\ status[r] = "pending" /\ status'[r] = "provisioning"
       /\ UNCHANGED taskStatus
    \/ /\ status[r] = "provisioning" /\ status'[r] = "running"
       /\ HolderLeaves(r)
    \/ /\ status[r] = "provisioning" /\ status'[r] = "failed"
       /\ HolderLeaves(r) /\ UNCHANGED taskStatus
    \/ status[r] \in Leasable /\ status'[r] = "recovery_pending"
    \/ status[r] = "recovery_pending" /\ status'[r] = "running" /\ thread[r]
    \/ /\ status[r] = "running" /\ status'[r] \in {"completed", "failed"}
       /\ thread[r] /\ taskStatus'[TaskOf[r]] # "running"
    \/ /\ status[r] \in Active \/ r \in retires
       /\ status'[r] = "cancelled" /\ taskStatus'[TaskOf[r]] # "running"

\* A Task only starts to run with one of its Runs.
TaskMoves ==
    \A t \in Tasks : taskStatus'[t] = "running" =>
        \/ taskStatus[t] = "running"
        \/ \E r \in Runs : /\ TaskOf[r] = t /\ status'[r] = "running"
                           /\ status[r] \in {"provisioning", "recovery_pending"}

\* A Turn begins on a running Run, and a Run that ends or is recovered loses it (the
\* last disjunct is empty by TurnOfRunning).
TurnMoves ==
    \A r \in Runs : turn'[r] =>
        \/ status[r] = "running" /\ status'[r] = "running"
        \/ turn[r] /\ status'[r] \in {status[r], "recovery_pending"}
        \/ turn[r] /\ status[r] \in {"absent", "pending", "provisioning"}

\* Every step follows the graph.
GraphStep == (\A r \in Runs : Legal(r)) /\ TaskMoves /\ TurnMoves

\* A Run that is being executed is provisioning, was lost, or was cancelled.
Held ==
    \A w \in Workers : pc[w] \in Executing \ {"fail"} =>
        status[work[w].run] \in {"provisioning", "recovery_pending", "cancelled"}

\* active_turn_id is set on Runs that run, or ran when their lease expired.
TurnOfRunning ==
    \A r \in Runs : turn[r] => status[r] \in {"running", "recovery_pending"}

\* A Task whose Run waits or is being provisioned is not shown as running.
FreshTask ==
    \A r \in Runs : status[r] \in {"pending", "provisioning"} =>
        taskStatus[TaskOf[r]] # "running"

\* The inductive invariant.
StatusInv ==
    /\ Held
    /\ TurnOfRunning
    /\ FreshTask
    /\ OneActiveRunPerTask
    /\ RunningTaskHasRun

-----------------------------------------------------------------------------
(* Every step follows the status graph. *)

\* A step that leaves status, Turns and Tasks alone.
LEMMA QuietFollows ==
    ASSUME UNCHANGED <<status, turn, taskStatus>>
    PROVE  GraphStep
BY DEF GraphStep, Legal, TaskMoves, TurnMoves

\* enqueue_run, cancel_run, retire_workspace and recover_run.
LEMMA HandlerFollows ==
    ASSUME TypeOK, NEW r \in Runs, Handler(r)
    PROVE  GraphStep
<1> USE RunConstants DEF GraphStep, TypeOK, Legal, TaskMoves, TurnMoves
<1>1. CASE EnqueueRun(r)
  BY <1>1 DEF EnqueueRun
<1>2. CASE CancelRun(r)
  BY <1>2 DEF CancelRun
<1>3. CASE InterruptSucceeds(r) \/ RetireBegin(r)
  BY <1>3 DEF InterruptSucceeds, RetireBegin
<1>4. CASE InterruptFails(r)
  BY <1>4 DEF InterruptFails
<1>5. CASE RetireCommit(r)
  BY <1>5 DEF RetireCommit
<1>6. CASE \E w \in Workers : RecoverRun(w, r)
  BY <1>6 DEF RecoverRun
<1> QED
  BY <1>1, <1>2, <1>3, <1>4, <1>5, <1>6 DEF Handler

\* Runtime events end and start Turns on running Runs and end running Runs.
LEMMA EventFollows ==
    ASSUME TypeOK, NEW r \in Runs, RuntimeEvent(r)
    PROVE  GraphStep
<1> USE RunConstants DEF GraphStep, TypeOK, Legal, TaskMoves, TurnMoves
<1>1. CASE TurnStarted(r)
  BY <1>1 DEF TurnStarted, Projected
<1>2. CASE TurnCompleted(r)
  BY <1>2 DEF TurnCompleted
<1>3. ASSUME NEW outcome \in {"completed", "failed"}, ThreadEnded(r, outcome)
      PROVE  GraphStep
  <2>1. TaskAfter(taskStatus[TaskOf[r]], outcome) # "running"
    BY DEF TaskAfter, TaskStatus
  <2> QED
    BY <1>3, <2>1 DEF ThreadEnded, Projected
<1>4. CASE ThreadArchived(r) \/ ThreadUnarchived(r)
  BY <1>4 DEF ThreadArchived, ThreadUnarchived
<1> QED
  BY <1>1, <1>2, <1>3, <1>4 DEF RuntimeEvent

\* The worker's writes, of which record_delivery_uncertainty needs Held.
LEMMA WorkerFollows ==
    ASSUME TypeOK, Held, NEW w \in Workers, Worker(w) \/ DbError(w) \/ WorkerCrash(w)
    PROVE  GraphStep
<1> DEFINE r == work[w].run
<1>1. CASE ReapExpired(w)
  BY <1>1 DEF ReapExpired, Expired, GraphStep, TypeOK, Legal, TaskMoves, TurnMoves
<1>2. ASSUME NEW q \in Runs, ClaimNext(w, q)
      PROVE  GraphStep
  BY <1>2 DEF ClaimNext, MayClaim, GraphStep, TypeOK, Legal, TaskMoves, TurnMoves
<1>3. CASE BindThread(w)
  <2>1. r \in Runs /\ pc[w] \in Executing
    BY <1>3 DEF BindThread, TypeOK, Executing
  <2>2. CASE Owned(w, {"provisioning"})
    <3>1. /\ status' = [status EXCEPT ![r] = "running"] /\ status[r] = "provisioning"
          /\ taskStatus' = [taskStatus EXCEPT ![TaskOf[r]] = "running"]
          /\ turn' = turn
          /\ pc'[w] = "cleanup"
      BY <1>3, <2>2 DEF BindThread, Owned, Done, Goto, TypeOK
    <3>2. HolderLeaves(r)
      BY <2>1, <3>1 DEF HolderLeaves, Executing
    <3> QED
      BY <2>1, <3>1, <3>2, RunConstants DEF GraphStep, TypeOK, Legal, TaskMoves, TurnMoves
  <2> QED
    BY <1>3, <2>2, QuietFollows DEF BindThread
<1>4. CASE RecordDeliveryUncertainty(w)
  <2>1. r \in Runs /\ pc[w] \in Executing \ {"fail"}
    BY <1>4 DEF RecordDeliveryUncertainty, TypeOK, Executing
  <2>2. status[r] \in {"provisioning", "recovery_pending", "cancelled"}
    BY <2>1 DEF Held
  <2> QED
    BY <1>4, <2>1, <2>2 DEF RecordDeliveryUncertainty, GraphStep, TypeOK, Legal, TaskMoves,
       TurnMoves, Leasable
<1>5. CASE FailLease(w)
  <2>1. r \in Runs /\ pc[w] \in Executing /\ pc'[w] = "cleanup"
    BY <1>5 DEF FailLease, TypeOK, Executing, Done, Goto
  <2>2. HolderLeaves(r)
    BY <2>1 DEF HolderLeaves, Executing
  <2>3. CASE Owned(w, {"provisioning"})
    <3>1. /\ status' = [status EXCEPT ![r] = "failed"] /\ status[r] = "provisioning"
          /\ UNCHANGED <<turn, taskStatus>>
      BY <1>5, <2>3 DEF FailLease, Owned
    <3> QED
      BY <2>1, <2>2, <3>1 DEF GraphStep, TypeOK, Legal, TaskMoves, TurnMoves
  <2> QED
    BY <1>5, <2>3, QuietFollows DEF FailLease
<1>6. CASE ExecuteLease(w)
  BY <1>3, <1>4, <1>5, <1>6, QuietFollows DEF ExecuteLease, Heartbeat, Provision, CheckOwned,
     RecordWorkspace, Discard, StartThread, QueueCleanup
<1>7. CASE CleanupOnce(w)
  BY <1>7, QuietFollows DEF CleanupOnce, ClaimJob, ClaimNoJob, Moves, RemoveWorkspace,
     RemoveFails, RetireWorkspace
<1> QED
  BY <1>1, <1>2, <1>6, <1>7, QuietFollows
     DEF Worker, HeartbeatOwnedRuns, ClaimNothing, Moves, DbError, WorkerCrash

\* All of them.
LEMMA StepsFollow ==
    ASSUME TypeOK, Held, [Next]_vars
    PROVE  GraphStep
<1>1. ASSUME NEW r \in Runs, Time(r)
      PROVE  GraphStep
  BY <1>1, QuietFollows DEF Time, LeaseExpires, JobLeaseExpires, JobDue
<1>2. CASE UNCHANGED vars
  BY <1>2, QuietFollows DEF vars
<1> QED
  BY <1>1, <1>2, HandlerFollows, EventFollows, WorkerFollows DEF Next

-----------------------------------------------------------------------------
(* What follows from the graph. *)

\* No step activates a second Run of a Task.
LEMMA OneActiveStep ==
    ASSUME TypeOK, GraphStep, OneActiveRunPerTask
    PROVE  OneActiveRunPerTask'
<1> SUFFICES ASSUME NEW q \in Runs, NEW r \in Runs, q # r, TaskOf[q] = TaskOf[r],
                    status'[q] \in Active, status'[r] \in Active
             PROVE  FALSE
  BY DEF OneActiveRunPerTask
<1>1. ASSUME NEW x \in Runs, NEW y \in Runs, x # y, TaskOf[x] = TaskOf[y],
             status'[x] \in Active, status'[y] \in Active, status[x] \notin Active
      PROVE  FALSE
  <2>1. ~TaskBusy(x) /\ status'[y] = status[y]
    BY <1>1 DEF GraphStep, Legal, Active, Leasable, TypeOK
  <2> QED
    BY <1>1, <2>1 DEF TaskBusy
<1> QED
  BY <1>1 DEF OneActiveRunPerTask

\* A Turn outlives its Run's lease, never its Run.
LEMMA TurnStep ==
    ASSUME TypeOK, GraphStep, TurnOfRunning
    PROVE  TurnOfRunning'
BY DEF GraphStep, TurnMoves, TurnOfRunning, TypeOK

\* A Task that runs has a Run that keeps it busy; the one that waits or is being
\* provisioned is its only active Run.
LEMMA TaskStep ==
    ASSUME TypeOK, TypeOK', GraphStep, OneActiveRunPerTask, OneActiveRunPerTask', FreshTask,
           RunningTaskHasRun
    PROVE  FreshTask' /\ RunningTaskHasRun'
<1> DEFINE Engaged == Leasable \cup {"recovery_pending"}
<1>1. FreshTask'
  <2> SUFFICES ASSUME NEW r \in Runs, status'[r] \in {"pending", "provisioning"},
                      taskStatus'[TaskOf[r]] = "running"
               PROVE  FALSE
    BY DEF FreshTask
  <2>0. TaskOf[r] \in Tasks
    BY RunConstants
  <2>1. CASE taskStatus[TaskOf[r]] = "running"
    <3>1. PICK q \in Runs : TaskOf[q] = TaskOf[r] /\ status[q] \in Engaged
      BY <2>0, <2>1 DEF RunningTaskHasRun
    <3>2. status[r] \notin {"pending", "provisioning"}
      BY <2>1 DEF FreshTask
    <3>3. ~TaskBusy(r) /\ status[r] = "absent"
      BY <3>2 DEF GraphStep, Legal, Leasable
    <3> QED
      BY <3>1, <3>3 DEF TaskBusy, Active, Leasable
  <2>2. CASE taskStatus[TaskOf[r]] # "running"
    <3>1. PICK q \in Runs : TaskOf[q] = TaskOf[r] /\ status'[q] = "running"
      BY <2>0, <2>2 DEF GraphStep, TaskMoves
    <3> QED
      BY <3>1 DEF OneActiveRunPerTask, Active, Leasable
  <2> QED
    BY <2>1, <2>2
<1>2. RunningTaskHasRun'
  <2> SUFFICES ASSUME NEW t \in Tasks, taskStatus'[t] = "running"
               PROVE  \E r \in Runs : TaskOf[r] = t /\ status'[r] \in Engaged
    BY DEF RunningTaskHasRun
  <2>1. CASE taskStatus[t] = "running"
    <3>1. PICK r \in Runs : TaskOf[r] = t /\ status[r] \in Engaged
      BY <2>1 DEF RunningTaskHasRun
    <3>2. status[r] # "provisioning"
      BY <2>1, <3>1 DEF FreshTask
    <3>3. status'[r] \in Engaged
      BY <3>1, <3>2 DEF GraphStep, Legal, Leasable
    <3> QED
      BY <3>1, <3>3
  <2>2. CASE taskStatus[t] # "running"
    BY <2>2 DEF GraphStep, TaskMoves, Leasable
  <2> QED
    BY <2>1, <2>2
<1> QED
  BY <1>1, <1>2

\* The Run a worker executes has no Thread, so that no event ends it, nobody recovers
\* it, and only this worker could bind or fail it.
LEMMA HeldStep ==
    ASSUME TypeOK, TypeOK', ExecutionInv, GraphStep, Held, [Next]_vars
    PROVE  Held'
<1>1. ASSUME NEW w \in Workers, pc'[w] \in Executing \ {"fail"},
             pc[w] \in Executing \ {"fail"}, work'[w].run = work[w].run
      PROVE  status'[work'[w].run] \in {"provisioning", "recovery_pending", "cancelled"}
  <2> DEFINE r == work[w].run
  <2>1. r \in Runs /\ ~thread[r]
    BY <1>1 DEF TypeOK, ExecutionInv, NoThreadYet
  <2>2. ~HolderLeaves(r)
    BY <1>1 DEF HolderLeaves, ExecutionInv, ExclusiveExecution
  <2>3. status[r] \in {"provisioning", "recovery_pending", "cancelled"}
    BY <1>1 DEF Held
  <2> QED
    BY <1>1, <2>1, <2>2, <2>3 DEF GraphStep, Legal, Leasable
<1>2. CASE Routine
  BY <1>1, <1>2 DEF Routine, Held
<1>3. ASSUME NEW w \in Workers, NEW r \in Runs, ClaimNext(w, r)
      PROVE  Held'
  <2>1. /\ \A v \in Workers \ {w} : pc'[v] = pc[v] /\ work'[v] = work[v]
        /\ work'[w].run = r /\ status'[r] = "provisioning"
    BY <1>3 DEF ClaimNext, Goto, TypeOK
  <2> QED
    BY <1>1, <2>1 DEF Held
<1>4. ASSUME NEW w \in Workers, BindThread(w) \/ RecordDeliveryUncertainty(w)
      PROVE  Held'
  <2>1. /\ \A v \in Workers \ {w} : pc'[v] = pc[v] /\ work'[v] = work[v]
        /\ pc'[w] \in {"cleanup", "uncertain", "fail"}
        /\ pc'[w] # "cleanup" => work'[w] = work[w]
        /\ pc[w] \in Executing \ {"fail"}
    BY <1>4 DEF BindThread, RecordDeliveryUncertainty, TypeOK, Goto, Done, Executing
  <2>2. "cleanup" \notin Executing
    BY DEF Executing
  <2> QED
    BY <1>1, <2>1, <2>2 DEF Held
<1>5. CASE UNCHANGED vars
  BY <1>5 DEF vars, Held
<1> QED
  BY <1>2, <1>3, <1>4, <1>5, OthersAreRoutine, WorkersAreRoutine DEF Next

\* StatusInv is inductive, given ExecutionInv.
LEMMA StatusStep ==
    ASSUME TypeOK, TypeOK', ExecutionInv, StatusInv, [Next]_vars
    PROVE  StatusInv' /\ GraphStep
<1>1. GraphStep
  BY StepsFollow DEF StatusInv
<1>2. Held'
  BY <1>1, HeldStep DEF StatusInv
<1>3. OneActiveRunPerTask'
  BY <1>1, OneActiveStep DEF StatusInv
<1>4. TurnOfRunning'
  BY <1>1, TurnStep DEF StatusInv
<1>5. FreshTask' /\ RunningTaskHasRun'
  BY <1>1, <1>3, TaskStep DEF StatusInv
<1> QED
  BY <1>1, <1>2, <1>3, <1>4, <1>5 DEF StatusInv

\* No Run exists, no Task runs.
LEMMA StatusInit ==
    ASSUME Init
    PROVE  StatusInv
<1>1. TypeOK
  BY InitTyped
<1> QED
  BY <1>1, RunConstants DEF Init, StatusInv, Held, TurnOfRunning, FreshTask, OneActiveRunPerTask,
     RunningTaskHasRun, Executing, Active, Leasable

\* It holds in every reachable state.
LEMMA StatusHolds == Spec => []StatusInv
BY StatusInit, StatusStep, TypeCorrect, ExecutionHolds, PTL DEF Spec

-----------------------------------------------------------------------------

\* The unique index on active Runs holds although only enqueue_run and a failed
\* interrupt consult it: no late write of a worker activates a second Run of a Task.
THEOREM OneActiveRun == Spec => []OneActiveRunPerTask
<1>1. StatusInv => OneActiveRunPerTask
  BY DEF StatusInv
<1> QED
  BY <1>1, StatusHolds, PTL

\* tasks.status: a Task shown as running has a Run that is provisioned, runs or is to
\* be recovered, whichever Run failed, ended, was cancelled or retired before.
THEOREM RunningTaskIsServed == Spec => []RunningTaskHasRun
<1>1. StatusInv => RunningTaskHasRun
  BY DEF StatusInv
<1> QED
  BY <1>1, StatusHolds, PTL

\* 'completed' and 'failed' are final but for retire_workspace, and a Run that ended
\* has no active Turn, whatever late event or late write of a worker arrives.
THEOREM EndIsFinal == Spec => EndedStaysEnded
<1> DEFINE Final(r) ==
      /\ status[r] \in {"completed", "failed"} =>
            \/ status'[r] = status[r]
            \/ status'[r] = "cancelled" /\ r \in retires
      /\ status'[r] \in Terminal => ~turn'[r]
<1>1. ASSUME TypeOK, TypeOK', ExecutionInv, StatusInv, [Next]_vars
      PROVE  \A r \in Runs : Final(r)
  <2>1. GraphStep /\ TurnOfRunning'
    BY <1>1, StatusStep DEF StatusInv
  <2> SUFFICES ASSUME NEW r \in Runs PROVE Final(r)
    OBVIOUS
  <2>2. Legal(r)
    BY <2>1 DEF GraphStep
  <2>3. status[r] \in {"completed", "failed"} =>
            \/ status'[r] = status[r]
            \/ status'[r] = "cancelled" /\ r \in retires
    BY <2>2 DEF Legal, Active, Leasable
  <2>4. status'[r] \in Terminal => ~turn'[r]
    BY <2>1 DEF TurnOfRunning, Terminal
  <2> QED
    BY <2>3, <2>4
<1>2. Spec => [][\A r \in Runs : Final(r)]_vars
  BY <1>1, TypeCorrect, ExecutionHolds, StatusHolds, PTL DEF Spec
<1> QED
  BY <1>2 DEF EndedStaysEnded

=============================================================================
