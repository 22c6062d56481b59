----------------------- MODULE RunOrchestratorProofs -----------------------
(* Proofs about RunOrchestrator, for any number of Runs, workers and Tasks.  *)
EXTENDS RunOrchestrator, TLAPS

USE DEF runVars, workspaceVars, workerVars, handlerVars

-----------------------------------------------------------------------------
(* Type correctness. *)

\* The lease columns a write leaves behind: refreshed, expired, cleared or issued.
LEMMA LeaseRows ==
    /\ NoLease \in LeaseType
    /\ \A l \in LeaseType, e \in BOOLEAN : [l EXCEPT !.expired = e] \in LeaseType
    /\ \A w \in Workers, k \in Nat : Lease(w, k) \in LeaseType
BY DEF LeaseType, NoLease, Lease

\* The runner_jobs columns a write leaves behind.
LEMMA JobRows ==
    /\ NoJob \in JobType
    /\ \A j \in JobType : /\ j.attempt \in Nat /\ j.token \in Nat
                          /\ Requeued(j) \in JobType
                          /\ [j EXCEPT !.expired = TRUE] \in JobType
    /\ \A s \in JobState, n \in Nat, k \in Nat :
          [state |-> s, attempt |-> n, token |-> k, expired |-> FALSE] \in JobType
BY DEF JobType, JobState, NoJob, Requeued

\* The worker part of TypeOK.
WorkersOK ==
    /\ pc \in [Workers -> PC]
    /\ work \in [Workers -> WorkType]
    /\ \A w \in Workers : pc[w] \in Executing \cup Cleaning => work[w].run \in Runs

\* A worker that goes on to another step keeps the Run it holds.
LEMMA GotoTyped ==
    ASSUME WorkersOK, NEW w \in Workers, NEW l \in PC, Goto(w, l), UNCHANGED work,
           l \in Executing \cup Cleaning => work[w].run \in Runs
    PROVE  WorkersOK'
BY DEF WorkersOK, Goto

\* A worker that is done gives the Run up and is outside both procedures.
LEMMA DoneTyped ==
    ASSUME WorkersOK, NEW w \in Workers, NEW l \in {"cleanup", "heartbeat", "dead"}, Done(w, l)
    PROVE  WorkersOK'
BY DEF WorkersOK, Done, Goto, PC, Executing, Cleaning, WorkType, NoWork

\* enqueue_run, cancel_run, retire_workspace and recover_run write well-typed rows.
LEMMA HandlerTyped ==
    ASSUME TypeOK, NEW r \in Runs, Handler(r)
    PROVE  TypeOK'
<1> USE RunConstants, LeaseRows, JobRows DEF TypeOK, Status, Active, Leasable, Terminal,
                         TaskStatus, WorkspaceState, JobState, Release
<1>1. CASE EnqueueRun(r)
  BY <1>1 DEF EnqueueRun
<1>2. CASE CancelRun(r)
  BY <1>2 DEF CancelRun
<1>3. CASE InterruptSucceeds(r)
  BY <1>3 DEF InterruptSucceeds
<1>4. CASE InterruptFails(r)
  BY <1>4 DEF InterruptFails
<1>5. CASE RetireBegin(r)
  BY <1>5 DEF RetireBegin
<1>6. CASE RetireCommit(r)
  <2>1. CASE wsState[r] = "retired"
    BY <1>6, <2>1 DEF RetireCommit
  <2>2. CASE wsState[r] # "retired"
    <3> DEFINE j == [state |-> "pending", attempt |-> job[r].attempt,
                     token |-> 0, expired |-> FALSE]
    <3>1. job' \in [Runs -> JobType]
      <4>1. j \in JobType
        OBVIOUS
      <4>2. job' = [job EXCEPT ![r] = j]
        BY <1>6, <2>2 DEF RetireCommit
      <4> HIDE DEF j
      <4> QED
        BY <4>1, <4>2
    <3>2. /\ status' \in [Runs -> Status] /\ lease' \in [Runs -> LeaseType]
          /\ turn' \in [Runs -> BOOLEAN] /\ wsState' \in [Runs -> WorkspaceState]
          /\ taskStatus' \in [Tasks -> TaskStatus] /\ retires' \subseteq Runs
      <4>1. /\ status' = [status EXCEPT ![r] = "cancelled"]
            /\ lease' = [lease EXCEPT ![r] = NoLease]
            /\ turn' = [turn EXCEPT ![r] = FALSE]
            /\ wsState' = [wsState EXCEPT ![r] = "cleanup_pending"]
            /\ taskStatus' = [taskStatus EXCEPT ![TaskOf[r]] = "archived"]
            /\ retires' = retires \ {r}
        BY <1>6, <2>2 DEF RetireCommit
      <4> QED
        BY <4>1
    <3> QED
      BY <1>6, <3>1, <3>2 DEF RetireCommit
  <2> QED
    BY <2>1, <2>2
<1>7. CASE \E w \in Workers : RecoverRun(w, r)
  BY <1>7 DEF RecoverRun
<1> QED
  BY <1>1, <1>2, <1>3, <1>4, <1>5, <1>6, <1>7 DEF Handler

\* Runtime events applied to the Run and its Task write well-typed rows.
LEMMA RuntimeEventTyped ==
    ASSUME TypeOK, NEW r \in Runs, RuntimeEvent(r)
    PROVE  TypeOK'
<1> USE RunConstants, LeaseRows, JobRows DEF TypeOK, Status, Active, Leasable, Terminal,
                         TaskStatus, WorkspaceState, JobState, Release
<1>1. CASE TurnStarted(r)
  BY <1>1 DEF TurnStarted
<1>2. CASE TurnCompleted(r)
  BY <1>2 DEF TurnCompleted
<1>3. ASSUME NEW outcome \in {"completed", "failed"}, ThreadEnded(r, outcome)
      PROVE  TypeOK'
  BY <1>3 DEF ThreadEnded, TaskAfter
<1>4. CASE ThreadArchived(r)
  BY <1>4 DEF ThreadArchived
<1>5. CASE ThreadUnarchived(r)
  BY <1>5 DEF ThreadUnarchived
<1> QED
  BY <1>1, <1>2, <1>3, <1>4, <1>5 DEF RuntimeEvent

\* The worker loop outside execute_lease and run_cleanup_once.
LEMMA LoopTyped ==
    ASSUME TypeOK, NEW w \in Workers,
           \/ HeartbeatOwnedRuns(w) \/ ReapExpired(w) \/ ClaimNothing(w)
           \/ \E r \in Runs : ClaimNext(w, r)
    PROVE  TypeOK'
<1> USE RunConstants, LeaseRows, JobRows DEF TypeOK, WorkType, Status, Active, Leasable,
                         WorkspaceState, JobState, PC, Executing, Cleaning, Goto
<1>1. CASE HeartbeatOwnedRuns(w)
  BY <1>1 DEF HeartbeatOwnedRuns
<1>2. CASE ReapExpired(w)
  BY <1>2 DEF ReapExpired
<1>3. CASE ClaimNothing(w)
  BY <1>3 DEF ClaimNothing, Moves
<1>4. ASSUME NEW r \in Runs, ClaimNext(w, r)
      PROVE  TypeOK'
  BY <1>4 DEF ClaimNext
<1> QED
  BY <1>1, <1>2, <1>3, <1>4

\* execute_lease holds a Run from the claim to its last write.
LEMMA ExecuteLeaseTyped ==
    ASSUME TypeOK, NEW w \in Workers, ExecuteLease(w)
    PROVE  TypeOK'
<1> DEFINE r == work[w].run
<1> USE RunConstants
<1>a. /\ pc[w] \in Executing => r \in Runs
      /\ WorkersOK
  BY DEF TypeOK, WorkersOK
<1>b. {"fail", "provision", "owned", "hb2", "record", "discard", "start", "bind", "queue",
       "uncertain", "cleanup"} \subseteq PC
  BY DEF PC, Executing, Cleaning
<1>c. {"hb1", "fail", "provision", "owned", "hb2", "record", "discard", "start", "bind",
       "queue", "uncertain"} \subseteq Executing
  BY DEF Executing
<1>1. ASSUME NEW from \in Executing, NEW to \in Executing, to \in PC, Heartbeat(w, from, to)
      PROVE  TypeOK'
  <2>1. r \in Runs
    BY <1>1, <1>a DEF Heartbeat
  <2>2. WorkersOK'
    <3>1. (Goto(w, to) \/ Goto(w, "fail")) /\ UNCHANGED work
      BY <1>1 DEF Heartbeat
    <3> QED
      BY <1>1, <3>1, <2>1, <1>a, <1>b, GotoTyped
  <2>3. lease' \in [Runs -> LeaseType]
    <3>1. UNCHANGED lease \/ lease' = [lease EXCEPT ![r] = [lease[r] EXCEPT !.expired = FALSE]]
      BY <1>1 DEF Heartbeat
    <3>2. lease[r] \in LeaseType
      BY <2>1 DEF TypeOK
    <3>3. [lease[r] EXCEPT !.expired = FALSE] \in LeaseType
      BY <3>2, LeaseRows
    <3> QED
      BY <3>1, <3>3, <2>1 DEF TypeOK
  <2> QED
    BY <1>1, <2>2, <2>3 DEF Heartbeat, TypeOK, WorkersOK
<1>2. CASE Provision(w)
  <2>1. r \in Runs /\ UNCHANGED work /\ (Goto(w, "hb2") \/ Goto(w, "fail"))
    BY <1>2, <1>a, <1>c DEF Provision
  <2>2. WorkersOK'
    BY <2>1, <1>a, <1>b, GotoTyped
  <2>3. checkout' \in [Runs -> BOOLEAN]
    <3>1. \E left \in BOOLEAN : checkout' = [checkout EXCEPT ![r] = left]
      BY <1>2 DEF Provision
    <3> QED
      BY <3>1, <2>1 DEF TypeOK
  <2> QED
    BY <1>2, <2>2, <2>3 DEF Provision, TypeOK, WorkersOK
<1>3. CASE CheckOwned(w)
  <2>1. r \in Runs /\ UNCHANGED work /\ (Goto(w, "record") \/ Goto(w, "discard"))
    BY <1>3, <1>a, <1>c DEF CheckOwned
  <2>2. WorkersOK'
    BY <2>1, <1>a, <1>b, GotoTyped
  <2> QED
    BY <1>3, <2>2 DEF CheckOwned, TypeOK, WorkersOK
<1>4. CASE RecordWorkspace(w)
  <2>1. r \in Runs
    BY <1>4, <1>a, <1>c DEF RecordWorkspace
  <2>2. WorkersOK'
    BY <1>4, <2>1, <1>a, <1>b, GotoTyped DEF RecordWorkspace
  <2> QED
    BY <1>4, <2>1, <2>2 DEF RecordWorkspace, TypeOK, WorkersOK, WorkspaceState
<1>5. CASE Discard(w)
  <2>1. r \in Runs
    BY <1>5, <1>a, <1>c DEF Discard
  <2>2. WorkersOK'
    BY <1>5, <2>1, <1>a, <1>b, GotoTyped DEF Discard
  <2> QED
    BY <1>5, <2>1, <2>2 DEF Discard, TypeOK, WorkersOK
<1>6. CASE StartThread(w)
  <2>1. r \in Runs /\ UNCHANGED work /\ \E l \in {"bind", "queue", "fail"} : Goto(w, l)
    BY <1>6, <1>a, <1>c DEF StartThread
  <2>2. WorkersOK'
    BY <2>1, <1>a, <1>b, GotoTyped
  <2> QED
    BY <1>6, <2>2 DEF StartThread, TypeOK, WorkersOK
<1>7. CASE BindThread(w)
  <2>1. r \in Runs
    BY <1>7, <1>a, <1>c DEF BindThread
  <2>2. CASE Owned(w, {"provisioning"})
    <3>1. WorkersOK'
      BY <1>7, <2>2, <1>a, DoneTyped DEF BindThread
    <3>2. lease' = [lease EXCEPT ![r] = [lease[r] EXCEPT !.expired = FALSE]]
      BY <1>7, <2>2 DEF BindThread
    <3>3. lease' \in [Runs -> LeaseType]
      <4>1. lease[r] \in LeaseType
        BY <2>1 DEF TypeOK
      <4>2. [lease[r] EXCEPT !.expired = FALSE] \in LeaseType
        BY <4>1, LeaseRows
      <4> QED
        BY <3>2, <2>1, <4>2 DEF TypeOK
    <3>4. /\ status' \in [Runs -> Status] /\ thread' \in [Runs -> BOOLEAN]
          /\ wsState' \in [Runs -> WorkspaceState] /\ taskStatus' \in [Tasks -> TaskStatus]
      BY <1>7, <2>1, <2>2 DEF BindThread, TypeOK, Status, Active, Leasable, WorkspaceState,
         TaskStatus
    <3> QED
      BY <1>7, <2>2, <3>1, <3>3, <3>4 DEF BindThread, TypeOK, WorkersOK
  <2>3. CASE ~Owned(w, {"provisioning"})
    <3>1. WorkersOK'
      BY <1>7, <2>1, <2>3, <1>a, <1>b, GotoTyped DEF BindThread
    <3> QED
      BY <1>7, <2>3, <3>1 DEF BindThread, TypeOK, WorkersOK
  <2> QED
    BY <2>2, <2>3
<1>8. CASE RecordDeliveryUncertainty(w)
  <2>1. r \in Runs
    BY <1>8, <1>a, <1>c DEF RecordDeliveryUncertainty
  <2>2. WorkersOK'
    BY <1>8, <2>1, <1>a, <1>b, GotoTyped DEF RecordDeliveryUncertainty
  <2> QED
    BY <1>8, <2>1, <2>2, LeaseRows DEF RecordDeliveryUncertainty, Release, TypeOK, WorkersOK, Status,
       Active, WorkspaceState
<1>9. CASE QueueCleanup(w)
  <2>1. r \in Runs
    BY <1>9, <1>a, <1>c DEF QueueCleanup
  <2>2. WorkersOK'
    BY <1>9, <2>1, <1>a, <1>b, GotoTyped DEF QueueCleanup
  <2> QED
    BY <1>9, <2>1, <2>2, JobRows DEF QueueCleanup, TypeOK, WorkersOK, WorkspaceState
<1>10. CASE FailLease(w)
  <2>1. r \in Runs
    BY <1>10, <1>a, <1>c DEF FailLease
  <2>2. WorkersOK'
    BY <1>10, <1>a, DoneTyped DEF FailLease
  <2>3. status' \in [Runs -> Status] /\ lease' \in [Runs -> LeaseType]
    <3>1. CASE Owned(w, {"provisioning"})
      <4>1. /\ status' = [status EXCEPT ![r] = "failed"]
            /\ lease' = [lease EXCEPT ![r] = NoLease]
        BY <1>10, <3>1 DEF FailLease, Release
      <4> QED
        BY <2>1, <4>1, LeaseRows DEF TypeOK, Status, Terminal
    <3>2. CASE ~Owned(w, {"provisioning"})
      BY <1>10, <3>2 DEF FailLease, TypeOK
    <3> QED
      BY <3>1, <3>2
  <2> QED
    BY <1>10, <2>2, <2>3 DEF FailLease, TypeOK, WorkersOK
<1> QED
  BY <1>1, <1>2, <1>3, <1>4, <1>5, <1>6, <1>7, <1>8, <1>9, <1>10, <1>b, <1>c DEF ExecuteLease

\* run_cleanup_once holds the Run whose workspace it removes.
LEMMA CleanupTyped ==
    ASSUME TypeOK, NEW w \in Workers, CleanupOnce(w)
    PROVE  TypeOK'
<1> USE RunConstants, LeaseRows, JobRows DEF TypeOK, WorkType, WorkspaceState, JobState,
                         NoWork, PC, Executing, Cleaning, Goto, Done
<1>1. ASSUME NEW r \in Runs, ClaimJob(w, r)
      PROVE  TypeOK'
  <2> DEFINE k == job[r].attempt + 1
             j == [state |-> "running", attempt |-> k, token |-> k, expired |-> FALSE]
  <2>a. job[r] \in JobType
    OBVIOUS
  <2>b. job[r].attempt \in Nat
    BY <2>a, JobRows
  <2>c. k \in Nat
    BY <2>b
  <2> HIDE DEF k
  <2>1. j \in JobType /\ k \in Nat
    BY <2>c, JobRows DEF JobState
  <2> USE DEF k
  <2>2. /\ job' = [job EXCEPT ![r] = j]
        /\ work' = [work EXCEPT ![w] = [run |-> r, token |-> k]]
        /\ pc' = [pc EXCEPT ![w] = "removing"]
    BY <1>1 DEF ClaimJob
  <2> HIDE DEF k, j
  <2>3. job' \in [Runs -> JobType]
    BY <2>1, <2>2
  <2>4. WorkersOK'
    BY <2>1, <2>2 DEF WorkersOK
  <2> QED
    BY <1>1, <2>3, <2>4 DEF ClaimJob, WorkersOK
<1>2. CASE ClaimNoJob(w)
  BY <1>2 DEF ClaimNoJob, Moves
<1>3. CASE RemoveWorkspace(w)
  BY <1>3 DEF RemoveWorkspace
<1>4. CASE RemoveFails(w)
  BY <1>4 DEF RemoveFails
<1>5. CASE RetireWorkspace(w)
  BY <1>5 DEF RetireWorkspace
<1> QED
  BY <1>1, <1>2, <1>3, <1>4, <1>5 DEF CleanupOnce

\* Failures, crashes and the passage of time.
LEMMA EnvironmentTyped ==
    ASSUME TypeOK,
           \/ \E w \in Workers : DbError(w) \/ WorkerCrash(w)
           \/ \E r \in Runs : Time(r)
    PROVE  TypeOK'
<1> USE RunConstants, LeaseRows, JobRows DEF TypeOK, WorkType, JobState, NoWork, PC,
                         Executing, Cleaning, Goto, Done
<1>1. ASSUME NEW w \in Workers, DbError(w)
      PROVE  TypeOK'
  BY <1>1 DEF DbError, AfterDbError
<1>2. ASSUME NEW w \in Workers, WorkerCrash(w)
      PROVE  TypeOK'
  BY <1>2 DEF WorkerCrash
<1>3. ASSUME NEW r \in Runs, LeaseExpires(r)
      PROVE  TypeOK'
  BY <1>3 DEF LeaseExpires
<1>4. ASSUME NEW r \in Runs, JobLeaseExpires(r) \/ JobDue(r)
      PROVE  TypeOK'
  <2>1. \/ job' = [job EXCEPT ![r] = [job[r] EXCEPT !.expired = TRUE]]
        \/ job' = [job EXCEPT ![r] = Requeued(job[r])]
    BY <1>4 DEF JobLeaseExpires, JobDue
  <2>a. job[r] \in JobType
    OBVIOUS
  <2>b. Requeued(job[r]) \in JobType /\ [job[r] EXCEPT !.expired = TRUE] \in JobType
    BY <2>a, JobRows
  <2>2. job' \in [Runs -> JobType]
    <3>1. CASE job' = [job EXCEPT ![r] = [job[r] EXCEPT !.expired = TRUE]]
      BY <2>b, <3>1
    <3>2. CASE job' = [job EXCEPT ![r] = Requeued(job[r])]
      BY <2>b, <3>2
    <3> QED
      BY <2>1, <3>1, <3>2
  <2> QED
    BY <1>4, <2>2 DEF JobLeaseExpires, JobDue
<1> QED
  BY <1>1, <1>2, <1>3, <1>4 DEF Time

\* No row exists and every worker is at the top of its loop.
LEMMA InitTyped ==
    ASSUME Init
    PROVE  TypeOK
BY RunConstants, LeaseRows, JobRows DEF Init, TypeOK, WorkType, Status, TaskStatus,
   WorkspaceState, JobState, PC, Executing, Cleaning, NoWork

\* TypeOK is an invariant: every write of the orchestrator respects the CHECK
\* constraints of the tables, and no worker executes without a Run.
THEOREM TypeCorrect == Spec => []TypeOK
<1>1. Init => TypeOK
  BY InitTyped
<1>2. TypeOK /\ [Next]_vars => TypeOK'
  <2> SUFFICES ASSUME TypeOK, [Next]_vars PROVE TypeOK'
    OBVIOUS
  <2>1. CASE UNCHANGED vars
    BY <2>1 DEF vars, TypeOK
  <2>2. CASE Next
    BY <2>2, HandlerTyped, RuntimeEventTyped, LoopTyped, ExecuteLeaseTyped, CleanupTyped,
       EnvironmentTyped DEF Next, Worker
  <2> QED
    BY <2>1, <2>2
<1> QED
  BY <1>1, <1>2, PTL DEF Spec

-----------------------------------------------------------------------------
(* A Run has a lease exactly while it is provisioning or running. *)

\* A step that releases r's lease leaves it outside 'provisioning' and 'running'.
LEMMA ReleaseKeepsLeases ==
    ASSUME TypeOK, LeaseMatchesStatus, NEW r \in Runs, NEW s \in Status \ Leasable,
           lease' = [lease EXCEPT ![r] = NoLease], status' = [status EXCEPT ![r] = s]
    PROVE  LeaseMatchesStatus'
BY DEF LeaseMatchesStatus, TypeOK, NoLease

\* A step that issues a token to a worker makes the Run 'provisioning' or 'running'.
LEMMA IssueKeepsLeases ==
    ASSUME TypeOK, LeaseMatchesStatus, NEW r \in Runs, NEW w \in Workers, NEW s \in Leasable,
           lease' = [lease EXCEPT ![r] = Lease(w, tokens[r] + 1)],
           status' = [status EXCEPT ![r] = s]
    PROVE  LeaseMatchesStatus'
<1>1. Lease(w, tokens[r] + 1).owner # None /\ Lease(w, tokens[r] + 1).token # 0
  BY RunConstants DEF TypeOK, Lease
<1> QED
  BY <1>1 DEF LeaseMatchesStatus, TypeOK

\* A step that only refreshes or expires leases.
LEMMA RefreshKeepsLeases ==
    ASSUME TypeOK, LeaseMatchesStatus, UNCHANGED status,
           lease' \in [Runs -> LeaseType],
           \A r \in Runs : lease'[r].owner = lease[r].owner /\ lease'[r].token = lease[r].token
    PROVE  LeaseMatchesStatus'
BY DEF LeaseMatchesStatus, TypeOK

\* LeaseMatchesStatus is preserved by every step, whoever lost which lease when.
LEMMA LeaseStep ==
    ASSUME TypeOK, TypeOK', LeaseMatchesStatus, [Next]_vars
    PROVE  LeaseMatchesStatus'
<1>0. CASE UNCHANGED <<status, lease>>
  BY <1>0 DEF LeaseMatchesStatus
<1>1. ASSUME NEW r \in Runs, Handler(r)
      PROVE  LeaseMatchesStatus'
  <2>1. CASE EnqueueRun(r)
    BY <1>1, <2>1 DEF EnqueueRun, LeaseMatchesStatus, TypeOK, Leasable
  <2>2. CASE CancelRun(r)
    BY <2>2, ReleaseKeepsLeases DEF CancelRun, Release, Status, Terminal, Leasable
  <2>3. CASE InterruptFails(r)
    BY <1>1, <2>3 DEF InterruptFails, LeaseMatchesStatus, TypeOK, Leasable
  <2>4. CASE RetireCommit(r)
    BY <2>4, <1>0, ReleaseKeepsLeases DEF RetireCommit, Release, Status, Terminal, Leasable
  <2>5. ASSUME NEW w \in Workers, RecoverRun(w, r)
        PROVE  LeaseMatchesStatus'
    BY <2>5, IssueKeepsLeases DEF RecoverRun, Leasable
  <2> QED
    BY <1>0, <1>1, <2>1, <2>2, <2>3, <2>4, <2>5
       DEF Handler, InterruptSucceeds, RetireBegin
<1>2. ASSUME NEW r \in Runs, RuntimeEvent(r)
      PROVE  LeaseMatchesStatus'
  <2>1. ASSUME NEW outcome \in {"completed", "failed"}, ThreadEnded(r, outcome)
        PROVE  LeaseMatchesStatus'
    BY <2>1, ReleaseKeepsLeases DEF ThreadEnded, Release, Status, Terminal, Leasable
  <2> QED
    BY <1>0, <1>2, <2>1
       DEF RuntimeEvent, TurnStarted, TurnCompleted, ThreadArchived, ThreadUnarchived
<1>3. ASSUME NEW w \in Workers, Worker(w)
      PROVE  LeaseMatchesStatus'
  <2> DEFINE r == work[w].run
  <2>a. pc[w] \in Executing => r \in Runs
    BY DEF TypeOK
  <2>1. CASE HeartbeatOwnedRuns(w)
    <3>1. \A q \in Runs : lease'[q] = lease[q] \/ lease'[q] = [lease[q] EXCEPT !.expired = FALSE]
      BY <2>1 DEF HeartbeatOwnedRuns
    <3>2. \A q \in Runs : lease[q] \in LeaseType
      BY DEF TypeOK
    <3>3. \A q \in Runs : lease'[q].owner = lease[q].owner /\ lease'[q].token = lease[q].token
      BY <3>1, <3>2 DEF LeaseType
    <3> QED
      BY <2>1, <3>3, RefreshKeepsLeases DEF HeartbeatOwnedRuns, TypeOK
  <2>2. CASE ReapExpired(w)
    BY <2>2 DEF ReapExpired, LeaseMatchesStatus, TypeOK, NoLease, Leasable
  <2>3. ASSUME NEW q \in Runs, ClaimNext(w, q)
        PROVE  LeaseMatchesStatus'
    BY <2>3, IssueKeepsLeases DEF ClaimNext, Leasable
  <2>4. ASSUME NEW from \in Executing, NEW to, Heartbeat(w, from, to)
        PROVE  LeaseMatchesStatus'
    <3>1. r \in Runs /\ lease[r] \in LeaseType
      BY <2>4, <2>a DEF Heartbeat, TypeOK
    <3> DEFINE l == [lease[r] EXCEPT !.expired = FALSE]
    <3>2. lease' = lease \/ lease' = [lease EXCEPT ![r] = l]
      BY <2>4 DEF Heartbeat
    <3>a. l.owner = lease[r].owner /\ l.token = lease[r].token
      BY <3>1 DEF LeaseType
    <3> HIDE DEF l
    <3>3. \A q \in Runs : lease'[q].owner = lease[q].owner /\ lease'[q].token = lease[q].token
      BY <3>1, <3>2, <3>a DEF TypeOK
    <3> QED
      BY <2>4, <3>3, RefreshKeepsLeases DEF Heartbeat, TypeOK
  <2>5. CASE BindThread(w)
    <3>1. r \in Runs
      BY <2>5, <2>a DEF BindThread, Executing
    <3>2. CASE Owned(w, {"provisioning"})
      <4>1. /\ status' = [status EXCEPT ![r] = "running"]
            /\ lease' = [lease EXCEPT ![r] = [lease[r] EXCEPT !.expired = FALSE]]
            /\ status[r] = "provisioning"
        BY <2>5, <3>2 DEF BindThread, Owned
      <4>2. lease[r] \in LeaseType
        BY <3>1 DEF TypeOK
      <4>3. lease'[r].owner = lease[r].owner /\ lease'[r].token = lease[r].token
        BY <3>1, <4>1, <4>2 DEF LeaseType, TypeOK
      <4> QED
        BY <3>1, <4>1, <4>3 DEF LeaseMatchesStatus, TypeOK, Leasable
    <3>3. CASE ~Owned(w, {"provisioning"})
      BY <1>0, <2>5, <3>3 DEF BindThread
    <3> QED
      BY <3>2, <3>3
  <2>6. CASE RecordDeliveryUncertainty(w)
    <3>1. r \in Runs
      BY <2>6, <2>a DEF RecordDeliveryUncertainty, Executing
    <3> DEFINE s == IF status[r] = "cancelled" THEN "cancelled" ELSE "recovery_pending"
    <3>2. s \in Status \ Leasable
      BY DEF Status, Active, Terminal, Leasable
    <3>3. /\ status' = [status EXCEPT ![r] = s]
          /\ lease' = [lease EXCEPT ![r] = NoLease]
      BY <2>6 DEF RecordDeliveryUncertainty, Release
    <3> HIDE DEF s
    <3> QED
      BY <3>1, <3>2, <3>3, ReleaseKeepsLeases
  <2>7. CASE FailLease(w)
    <3>1. r \in Runs
      BY <2>7, <2>a DEF FailLease, Executing
    <3> QED
      BY <1>0, <2>7, <3>1, ReleaseKeepsLeases DEF FailLease, Release, Status, Terminal, Leasable
  <2>8. {"hb1", "hb2"} \subseteq Executing
    BY DEF Executing
  <2>9. CASE ExecuteLease(w)
    BY <1>0, <2>4, <2>5, <2>6, <2>7, <2>8, <2>9 DEF ExecuteLease, Provision, CheckOwned,
       RecordWorkspace, Discard, StartThread, QueueCleanup
  <2>10. CASE CleanupOnce(w)
    BY <1>0, <2>10 DEF CleanupOnce, ClaimJob, ClaimNoJob, Moves, RemoveWorkspace, RemoveFails,
       RetireWorkspace
  <2> QED
    BY <1>0, <1>3, <2>1, <2>2, <2>3, <2>9, <2>10 DEF Worker, ClaimNothing, Moves
<1>4. ASSUME NEW r \in Runs, Time(r)
      PROVE  LeaseMatchesStatus'
  <2>1. CASE LeaseExpires(r)
    <3>1. lease[r] \in LeaseType
      BY <1>4 DEF TypeOK
    <3>2. \A q \in Runs : lease'[q].owner = lease[q].owner /\ lease'[q].token = lease[q].token
      BY <1>4, <2>1, <3>1 DEF LeaseExpires, LeaseType, TypeOK
    <3> QED
      BY <2>1, <3>2, RefreshKeepsLeases DEF LeaseExpires, TypeOK
  <2> QED
    BY <1>0, <1>4, <2>1 DEF Time, JobLeaseExpires, JobDue
<1>5. ASSUME NEW w \in Workers, DbError(w) \/ WorkerCrash(w)
      PROVE  LeaseMatchesStatus'
  BY <1>0, <1>5 DEF DbError, WorkerCrash
<1> QED
  BY <1>0, <1>1, <1>2, <1>3, <1>4, <1>5 DEF Next, vars

\* architecture.md: no Run remains running without a lease.  No cancellation,
\* expiry, late write or failure separates the lease columns from the status.
THEOREM LeasesMatch == Spec => []LeaseMatchesStatus
<1>1. Init => LeaseMatchesStatus
  BY DEF Init, LeaseMatchesStatus, NoLease, Leasable
<1> QED
  BY <1>1, TypeCorrect, LeaseStep, PTL DEF Spec

-----------------------------------------------------------------------------
(* A Run is executed once, by one worker, and gets one Thread. *)

\* Why it holds: a Run nobody has claimed yet is in nobody's hands, and a claimed
\* Run never becomes claimable again.
Unclaimed ==
    \A r \in Runs : status[r] \in {"absent", "pending"} =>
        /\ attempt[r] = 0
        /\ ~thread[r]
        /\ \A w \in Workers : pc[w] \in Executing => work[w].run # r

\* Until the worker that provisions a Run has written its Thread or given up, the
\* Run has none.
NoThreadYet ==
    \A w \in Workers : pc[w] \in Executing \ {"fail"} => ~thread[work[w].run]

\* The inductive invariant behind ExclusiveExecution and ThreadWrittenOnce.
ExecutionInv == Unclaimed /\ ExclusiveExecution /\ NoThreadYet

\* Steps that claim no Run, bind no Thread, and let a worker go on only with the
\* Run it already executes.
Routine ==
    /\ UNCHANGED attempt
    /\ UNCHANGED thread
    /\ \A r \in Runs : status'[r] \in {"absent", "pending"} =>
                          status[r] \in {"absent", "pending"}
    /\ \A w \in Workers : pc'[w] \in Executing =>
          /\ pc[w] \in Executing /\ work'[w].run = work[w].run
          /\ pc'[w] # "fail" => pc[w] # "fail"

\* A routine step preserves the three parts of ExecutionInv.
LEMMA RoutineKeepsExecution ==
    ASSUME TypeOK, TypeOK', ExecutionInv, Routine
    PROVE  ExecutionInv'
<1>1. Unclaimed'
  BY DEF ExecutionInv, Unclaimed, Routine
<1>2. ExclusiveExecution'
  BY DEF ExecutionInv, ExclusiveExecution, Routine
<1>3. NoThreadYet'
  BY DEF ExecutionInv, NoThreadYet, Routine
<1> QED
  BY <1>1, <1>2, <1>3 DEF ExecutionInv

\* Handlers, runtime events and time touch no worker and make no Run claimable
\* that was not.
LEMMA OthersAreRoutine ==
    ASSUME TypeOK, NEW r \in Runs, Handler(r) \/ RuntimeEvent(r) \/ Time(r)
    PROVE  Routine
<1> USE DEF TypeOK, Routine
<1>1. CASE Handler(r)
  <2>1. CASE EnqueueRun(r)
    BY <2>1 DEF EnqueueRun
  <2>2. CASE CancelRun(r)
    BY <2>2 DEF CancelRun
  <2>3. CASE InterruptSucceeds(r) \/ RetireBegin(r)
    BY <2>3 DEF InterruptSucceeds, RetireBegin
  <2>4. CASE InterruptFails(r)
    BY <2>4 DEF InterruptFails
  <2>5. CASE RetireCommit(r)
    BY <2>5 DEF RetireCommit
  <2>6. CASE \E w \in Workers : RecoverRun(w, r)
    BY <2>6 DEF RecoverRun
  <2> QED
    BY <1>1, <2>1, <2>2, <2>3, <2>4, <2>5, <2>6 DEF Handler
<1>2. CASE RuntimeEvent(r)
  BY <1>2 DEF RuntimeEvent, TurnStarted, TurnCompleted, ThreadEnded, ThreadArchived,
     ThreadUnarchived
<1>3. CASE Time(r)
  BY <1>3 DEF Time, LeaseExpires, JobLeaseExpires, JobDue
<1> QED
  BY <1>1, <1>2, <1>3

\* So are all worker steps but the claim and the two writes of the Thread.
LEMMA WorkersAreRoutine ==
    ASSUME TypeOK, NEW w \in Workers,
           Worker(w) \/ DbError(w) \/ WorkerCrash(w),
           ~BindThread(w), ~RecordDeliveryUncertainty(w),
           \A r \in Runs : ~ClaimNext(w, r)
    PROVE  Routine
<1> USE DEF TypeOK, Routine, Executing, Goto
<1>1. CASE HeartbeatOwnedRuns(w) \/ ClaimNothing(w)
  BY <1>1 DEF HeartbeatOwnedRuns, ClaimNothing, Moves
<1>2. CASE ReapExpired(w)
  BY <1>2 DEF ReapExpired
<1>3. CASE Heartbeat(w, "hb1", "provision") \/ Heartbeat(w, "hb2", "owned")
  BY <1>3 DEF Heartbeat
<1>4. CASE Provision(w) \/ CheckOwned(w) \/ RecordWorkspace(w) \/ Discard(w)
  BY <1>4 DEF Provision, CheckOwned, RecordWorkspace, Discard
<1>5. CASE StartThread(w) \/ QueueCleanup(w)
  BY <1>5 DEF StartThread, QueueCleanup
<1>6. CASE FailLease(w)
  BY <1>6 DEF FailLease, Done
<1>7. CASE CleanupOnce(w)
  BY <1>7 DEF CleanupOnce, ClaimJob, ClaimNoJob, Moves, RemoveWorkspace, RemoveFails,
     RetireWorkspace, Done
<1>8. CASE DbError(w)
  BY <1>8 DEF DbError, AfterDbError, PC, Cleaning
<1>9. CASE WorkerCrash(w)
  BY <1>9 DEF WorkerCrash, Done
<1> QED
  BY <1>1, <1>2, <1>3, <1>4, <1>5, <1>6, <1>7, <1>8, <1>9 DEF Worker, ExecuteLease

\* The claim takes a Run nobody holds; the Thread is written by the only holder.
LEMMA ExecutionStep ==
    ASSUME TypeOK, TypeOK', ExecutionInv, [Next]_vars
    PROVE  ExecutionInv'
<1>0. CASE UNCHANGED vars
  BY <1>0 DEF vars, ExecutionInv, Unclaimed, ExclusiveExecution, NoThreadYet
<1>1. ASSUME NEW w \in Workers, NEW r \in Runs, ClaimNext(w, r)
      PROVE  ExecutionInv'
  <2>1. /\ status[r] = "pending" /\ pc[w] = "claim"
        /\ status' = [status EXCEPT ![r] = "provisioning"]
        /\ attempt' = [attempt EXCEPT ![r] = attempt[r] + 1]
        /\ thread' = thread
        /\ pc' = [pc EXCEPT ![w] = "hb1"]
        /\ work' = [work EXCEPT ![w] = [run |-> r, token |-> tokens[r] + 1]]
    BY <1>1 DEF ClaimNext, MayClaim, Goto
  <2>2. attempt[r] = 0 /\ ~thread[r] /\ \A v \in Workers : pc[v] \in Executing => work[v].run # r
    BY <1>1, <2>1 DEF ExecutionInv, Unclaimed
  <2>3. work'[w].run = r /\ \A v \in Workers \ {w} : work'[v] = work[v] /\ pc'[v] = pc[v]
    BY <1>1, <2>1 DEF TypeOK
  <2>4. Unclaimed'
    BY <1>1, <2>1, <2>3 DEF ExecutionInv, Unclaimed, TypeOK
  <2>5. ExclusiveExecution'
    <3>1. \A q \in Runs : attempt'[q] <= 1
      BY <1>1, <2>1, <2>2 DEF ExecutionInv, ExclusiveExecution, TypeOK
    <3> QED
      BY <1>1, <3>1, <2>2, <2>3 DEF ExecutionInv, ExclusiveExecution
  <2>6. NoThreadYet'
    BY <1>1, <2>1, <2>2, <2>3 DEF ExecutionInv, NoThreadYet
  <2> QED
    BY <2>4, <2>5, <2>6 DEF ExecutionInv
<1>2. ASSUME NEW w \in Workers, BindThread(w) \/ RecordDeliveryUncertainty(w)
      PROVE  ExecutionInv'
  <2> DEFINE r == work[w].run
  <2>1. r \in Runs /\ pc[w] \in Executing
    BY <1>2 DEF BindThread, RecordDeliveryUncertainty, TypeOK, Executing
  <2>2. /\ UNCHANGED attempt
        /\ \A q \in Runs : status'[q] \in {"absent", "pending"} => status'[q] = status[q]
        /\ \A q \in Runs : thread'[q] => thread[q] \/ q = r
    BY <1>2, <2>1 DEF BindThread, RecordDeliveryUncertainty, TypeOK
  <2>3. /\ \A v \in Workers \ {w} : pc'[v] = pc[v] /\ work'[v] = work[v]
        /\ pc'[w] \in {"cleanup", "uncertain", "fail"}
        /\ pc'[w] # "cleanup" => work'[w] = work[w]
        /\ pc'[w] = "uncertain" => thread' = thread /\ pc[w] = "bind"
    BY <1>2 DEF BindThread, RecordDeliveryUncertainty, TypeOK, Goto, Done
  <2>4. status[r] \notin {"absent", "pending"}
    BY <2>1 DEF ExecutionInv, Unclaimed
  <2>5. "cleanup" \notin Executing
    BY DEF Executing
  <2>6. status'[r] \notin {"absent", "pending"}
    BY <2>1, <2>2, <2>4
  <2>7. Unclaimed'
    BY <2>1, <2>2, <2>3, <2>5, <2>6 DEF ExecutionInv, Unclaimed
  <2>8. ExclusiveExecution'
    BY <2>1, <2>2, <2>3, <2>5 DEF ExecutionInv, ExclusiveExecution
  <2>9. NoThreadYet'
    <3>1. ASSUME NEW v \in Workers \ {w}, pc'[v] \in Executing \ {"fail"}
          PROVE  ~thread'[work'[v].run]
      <4>1. work'[v].run = work[v].run /\ work[v].run \in Runs /\ work[v].run # r
        BY <2>1, <2>3, <3>1 DEF ExecutionInv, ExclusiveExecution, TypeOK
      <4> QED
        BY <2>2, <2>3, <3>1, <4>1 DEF ExecutionInv, NoThreadYet
    <3>2. pc'[w] \in Executing \ {"fail"} => ~thread'[work'[w].run]
      BY <2>1, <2>3, <2>5 DEF ExecutionInv, NoThreadYet
    <3> QED
      BY <3>1, <3>2 DEF NoThreadYet
  <2> QED
    BY <2>7, <2>8, <2>9 DEF ExecutionInv
<1> QED
  BY <1>0, <1>1, <1>2, OthersAreRoutine, WorkersAreRoutine, RoutineKeepsExecution DEF Next

\* ExecutionInv holds in every reachable state.
LEMMA ExecutionHolds == Spec => []ExecutionInv
<1>1. Init => ExecutionInv
  BY DEF Init, ExecutionInv, Unclaimed, ExclusiveExecution, NoThreadYet, Executing
<1> QED
  BY <1>1, TypeCorrect, ExecutionStep, PTL DEF Spec

\* claim_next and run_once: a Run is claimed at most once and no two workers are
\* ever inside execute_lease for it, however often leases expire or servers die.
THEOREM ExecutedOnce == Spec => []ExclusiveExecution
<1>1. ExecutionInv => ExclusiveExecution
  BY DEF ExecutionInv
<1> QED
  BY <1>1, ExecutionHolds, PTL

\* execute_lease and record_delivery_uncertainty: a worker about to write the Thread
\* it started overwrites no other.
THEOREM OneThread == Spec => []ThreadWrittenOnce
<1>1. ExecutionInv => ThreadWrittenOnce
  BY DEF ExecutionInv, NoThreadYet, ThreadWrittenOnce, Executing
<1> QED
  BY <1>1, ExecutionHolds, PTL

=============================================================================
