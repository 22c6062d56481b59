------------------------- MODULE RunCheckoutProofs -------------------------
(* The workspace row, the directory on disk and the cleanup job of a Run     *)
(* agree, proved for any number of Runs, workers and Tasks.                  *)
EXTENDS RunOrchestratorProofs

USE DEF runVars, workspaceVars, workerVars, handlerVars

\* execute_lease before record_workspace has committed, the part of it after provision
\* has succeeded, and the part after record_workspace.
Building == {"hb1", "provision", "hb2", "owned", "record", "discard"}
Built == {"hb2", "owned", "record"}
Recorded == {"start", "queue", "bind", "uncertain"}

\* A Run nobody has claimed has no workspace, and without a workspace there is no
\* Thread, no cleanup job and no request to retire it.
RowsAppear ==
    \A r \in Runs :
        /\ status[r] \in {"absent", "pending"} => wsState[r] = "none"
        /\ thread[r] => wsState[r] # "none"
        /\ wsState[r] = "none" => job[r].state = "none" /\ r \notin retires

\* The worker that executes a Run records its workspace, and only once the directory
\* exists.
BuilderKnows ==
    \A w \in Workers :
        /\ pc[w] \in Building => wsState[work[w].run] = "none"
        /\ pc[w] \in Built => checkout[work[w].run]
        /\ pc[w] \in Recorded => wsState[work[w].run] # "none"

\* A worker cleans up for a queued job, and is about to write 'retired' only once the
\* directory is gone.
CleanerKnows ==
    \A w \in Workers :
        /\ pc[w] \in Cleaning => job[work[w].run].state # "none"
        /\ pc[w] = "retiring" => ~checkout[work[w].run]

\* The inductive invariant.
CheckoutInv == RowsAppear /\ BuilderKnows /\ CleanerKnows /\ CheckoutsAccounted

\* A step that leaves the directories alone, gives no Run its first workspace row and
\* moves the workers along without skipping a check.
Tidy ==
    /\ \A r \in Runs :
          /\ status'[r] \in {"absent", "pending"} => status[r] \in {"absent", "pending"}
          /\ wsState'[r] = "none" <=> wsState[r] = "none"
          /\ wsState'[r] = "retired" => wsState[r] = "retired"
          /\ job'[r].state = "none" => job[r].state = "none"
          /\ wsState[r] = "none" => job'[r].state = job[r].state /\ (r \in retires' => r \in retires)
    /\ UNCHANGED <<checkout, thread>>
    /\ \A w \in Workers :
          /\ pc'[w] \in Building \cup Recorded \cup Cleaning => work'[w].run = work[w].run
          /\ pc'[w] \in Building => pc[w] \in Building
          /\ pc'[w] \in Built => pc[w] \in Built
          /\ pc'[w] \in Recorded => pc[w] \in Recorded
          /\ pc'[w] \in Cleaning => pc[w] \in Cleaning
          /\ pc'[w] = "retiring" => pc[w] = "retiring"

-----------------------------------------------------------------------------

\* A tidy step preserves the invariant.
LEMMA TidyKeeps ==
    ASSUME TypeOK, TypeOK', CheckoutInv, Tidy
    PROVE  CheckoutInv'
<1> USE DEF CheckoutInv, Tidy
<1>0. \A w \in Workers : pc[w] \in Building \cup Recorded \cup Cleaning => work[w].run \in Runs
  BY DEF TypeOK, Building, Recorded, Executing
<1>a. Built \subseteq Building
  BY DEF Built, Building
<1>1. RowsAppear'
  BY DEF RowsAppear
<1>2. BuilderKnows'
  BY <1>0, <1>a DEF BuilderKnows
<1>3. CleanerKnows'
  BY <1>0 DEF CleanerKnows, Cleaning
<1>4. CheckoutsAccounted'
  BY DEF CheckoutsAccounted, RetiredIsRemoved, OnlyCleanupRemoves
<1> QED
  BY <1>1, <1>2, <1>3, <1>4

\* Requests, events and time never touch a directory or create a workspace row.
LEMMA OthersAreTidy ==
    ASSUME TypeOK, TypeOK', CheckoutInv, NEW r \in Runs, Handler(r) \/ RuntimeEvent(r) \/ Time(r)
    PROVE  Tidy
<1> USE DEF TypeOK, Tidy
<1>1. CASE Handler(r)
  <2>1. CASE EnqueueRun(r)
    BY <2>1 DEF EnqueueRun
  <2>2. CASE CancelRun(r)
    BY <2>2 DEF CancelRun
  <2>3. CASE InterruptSucceeds(r) \/ InterruptFails(r)
    BY <2>3 DEF InterruptSucceeds, InterruptFails
  <2>4. CASE RetireBegin(r)
    BY <2>4 DEF RetireBegin
  <2>5. CASE RetireCommit(r)
    <3>1. wsState[r] # "none"
      BY <2>5 DEF RetireCommit, CheckoutInv, RowsAppear
    <3> QED
      BY <2>5, <3>1 DEF RetireCommit
  <2>6. CASE \E w \in Workers : RecoverRun(w, r)
    BY <2>6 DEF RecoverRun
  <2> QED
    BY <1>1, <2>1, <2>2, <2>3, <2>4, <2>5, <2>6 DEF Handler
<1>2. CASE RuntimeEvent(r)
  <2>1. ASSUME NEW outcome \in {"completed", "failed"}, ThreadEnded(r, outcome)
        PROVE  Tidy
    <3>1. wsState[r] # "none"
      BY <2>1 DEF ThreadEnded, Projected, CheckoutInv, RowsAppear
    <3> QED
      BY <2>1, <3>1 DEF ThreadEnded
  <2> QED
    BY <1>2, <2>1 DEF RuntimeEvent, TurnStarted, TurnCompleted, ThreadArchived, ThreadUnarchived
<1>3. CASE Time(r)
  <2>1. \A e \in BOOLEAN : [job[r] EXCEPT !.expired = e].state = job[r].state
    BY DEF JobType
  <2>2. job[r].state = "delayed" => Requeued(job[r]).state # "none" /\ wsState[r] # "none"
    BY DEF JobType, Requeued, CheckoutInv, RowsAppear
  <2>3. CASE LeaseExpires(r)
    BY <2>3 DEF LeaseExpires
  <2>4. CASE JobLeaseExpires(r)
    BY <2>1, <2>4 DEF JobLeaseExpires
  <2>5. CASE JobDue(r)
    BY <2>2, <2>5 DEF JobDue
  <2> QED
    BY <1>3, <2>3, <2>4, <2>5 DEF Time
<1> QED
  BY <1>1, <1>2, <1>3

\* Among the worker's steps those that move it on inside execute_lease, and those
\* that queue a cleanup for a recorded workspace.
LEMMA WorkersAreTidy ==
    ASSUME TypeOK, TypeOK', CheckoutInv, NEW w \in Workers,
           Worker(w) \/ DbError(w) \/ WorkerCrash(w),
           ~Provision(w), ~Discard(w), ~RecordWorkspace(w), ~BindThread(w),
           ~RecordDeliveryUncertainty(w), ~RemoveWorkspace(w), ~RetireWorkspace(w),
           \A r \in Runs : ~ClaimNext(w, r) /\ ~ClaimJob(w, r)
    PROVE  Tidy
<1> DEFINE r == work[w].run
<1> USE DEF TypeOK, Tidy, Building, Built, Recorded, Cleaning, Goto
<1>1. CASE HeartbeatOwnedRuns(w) \/ ClaimNothing(w) \/ ClaimNoJob(w)
  BY <1>1 DEF HeartbeatOwnedRuns, ClaimNothing, ClaimNoJob, Moves
<1>2. CASE ReapExpired(w)
  <2>1. \A q \in Runs : Requeued(job[q]).state = "pending"
    BY DEF Requeued, JobType
  <2>2. \A q \in Runs : job'[q].state \in {job[q].state, "pending"}
    BY <1>2, <2>1 DEF ReapExpired
  <2>3. \A q \in Runs : /\ wsState'[q] \in {wsState[q], "cleanup_pending"}
                        /\ wsState[q] = "none" => wsState'[q] = "none" /\ job'[q] = job[q]
    BY <1>2 DEF ReapExpired
  <2>4. \A q \in Runs : status'[q] \in {status[q], "recovery_pending"}
    BY <1>2 DEF ReapExpired
  <2> QED
    BY <1>2, <2>2, <2>3, <2>4 DEF ReapExpired
<1>3. CASE Heartbeat(w, "hb1", "provision") \/ Heartbeat(w, "hb2", "owned")
  BY <1>3 DEF Heartbeat
<1>4. CASE CheckOwned(w) \/ StartThread(w)
  BY <1>4 DEF CheckOwned, StartThread
<1>5. CASE QueueCleanup(w)
  <2>1. r \in Runs /\ wsState[r] # "none"
    BY <1>5 DEF QueueCleanup, Executing, CheckoutInv, BuilderKnows
  <2>2. Requeued(job[r]).state = "pending"
    BY <2>1 DEF Requeued, JobType
  <2> QED
    BY <1>5, <2>1, <2>2 DEF QueueCleanup
<1>6. CASE FailLease(w)
  BY <1>6 DEF FailLease, Done
<1>7. CASE RemoveFails(w)
  <2>1. r \in Runs /\ job[r].state # "none" /\ wsState[r] # "none"
    BY <1>7 DEF RemoveFails, CheckoutInv, CleanerKnows, RowsAppear
  <2>2. job'[r].state # "none"
    BY <1>7, <2>1 DEF RemoveFails
  <2>3. \A q \in Runs \ {r} : job'[q] = job[q]
    BY <1>7, <2>1 DEF RemoveFails
  <2> QED
    BY <1>7, <2>1, <2>2, <2>3 DEF RemoveFails, Done
<1>8. CASE DbError(w)
  BY <1>8 DEF DbError, AfterDbError, PC, Executing
<1>9. CASE WorkerCrash(w)
  BY <1>9 DEF WorkerCrash, Done
<1> QED
  BY <1>1, <1>2, <1>3, <1>4, <1>5, <1>6, <1>7, <1>8, <1>9 DEF Worker, ExecuteLease, CleanupOnce

\* claim_next: the Run it takes has no workspace yet.
LEMMA ClaimKeeps ==
    ASSUME TypeOK, TypeOK', CheckoutInv, NEW w \in Workers, NEW r \in Runs, ClaimNext(w, r)
    PROVE  CheckoutInv'
<1>1. /\ status[r] = "pending" /\ status' = [status EXCEPT ![r] = "provisioning"]
      /\ UNCHANGED <<thread, workspaceVars, retires>>
  BY DEF ClaimNext, MayClaim
<1>2. /\ pc'[w] = "hb1" /\ work'[w].run = r
      /\ \A v \in Workers \ {w} : pc'[v] = pc[v] /\ work'[v] = work[v]
  BY DEF ClaimNext, Goto, TypeOK
<1>3. wsState[r] = "none"
  BY <1>1 DEF CheckoutInv, RowsAppear
<1>4. RowsAppear'
  BY <1>1 DEF CheckoutInv, RowsAppear, TypeOK
<1>5. BuilderKnows'
  BY <1>1, <1>2, <1>3 DEF CheckoutInv, BuilderKnows, Building, Built, Recorded
<1>6. CleanerKnows'
  BY <1>1, <1>2 DEF CheckoutInv, CleanerKnows, Cleaning
<1>7. CheckoutsAccounted'
  BY <1>1 DEF CheckoutInv, CheckoutsAccounted, RetiredIsRemoved, OnlyCleanupRemoves
<1> QED
  BY <1>4, <1>5, <1>6, <1>7 DEF CheckoutInv

\* provision and the removal after a failed record_workspace touch the directory of a
\* Run that has no workspace row, and only its executor looks at it.
LEMMA BuildKeeps ==
    ASSUME TypeOK, TypeOK', ExecutionInv, CheckoutInv, NEW w \in Workers,
           Provision(w) \/ Discard(w)
    PROVE  CheckoutInv'
<1> DEFINE r == work[w].run
<1>1. /\ r \in Runs /\ wsState[r] = "none" /\ pc[w] \in Executing
      /\ job[r].state = "none"
  BY DEF Provision, Discard, TypeOK, Executing, CheckoutInv, BuilderKnows, Building, RowsAppear
<1>2. /\ UNCHANGED <<runVars, wsState, job, work, retires>>
      /\ \A q \in Runs \ {r} : checkout'[q] = checkout[q]
      /\ pc'[w] = "fail" \/ (pc'[w] = "hb2" /\ checkout'[r])
      /\ \A v \in Workers \ {w} : pc'[v] = pc[v]
  BY <1>1 DEF Provision, Discard, TypeOK, Goto
<1>3. ASSUME NEW v \in Workers \ {w}, pc[v] \in Executing
      PROVE  work[v].run # r
  BY <1>1, <1>3 DEF ExecutionInv, ExclusiveExecution
<1>4. RowsAppear'
  BY <1>2 DEF CheckoutInv, RowsAppear
<1>5. BuilderKnows'
  <2>1. ASSUME NEW v \in Workers \ {w}
        PROVE  /\ pc'[v] \in Building => wsState'[work'[v].run] = "none"
               /\ pc'[v] \in Built => checkout'[work'[v].run]
               /\ pc'[v] \in Recorded => wsState'[work'[v].run] # "none"
    <3>1. pc[v] \in Built => work[v].run \in Runs \ {r}
      BY <1>3, <2>1 DEF Built, Executing, TypeOK
    <3> QED
      BY <1>2, <3>1, <2>1 DEF CheckoutInv, BuilderKnows
  <2>2. /\ pc'[w] \in Building => wsState'[work'[w].run] = "none"
        /\ pc'[w] \in Built => checkout'[work'[w].run]
        /\ pc'[w] \notin Recorded
    BY <1>1, <1>2 DEF Building, Built, Recorded
  <2> QED
    BY <2>1, <2>2 DEF BuilderKnows
<1>6. CleanerKnows'
  <2>1. pc'[w] \notin Cleaning /\ "retiring" \in Cleaning
    BY <1>2 DEF Cleaning
  <2>2. ASSUME NEW v \in Workers \ {w}, pc[v] \in Cleaning
        PROVE  work[v].run \in Runs \ {r}
    BY <1>1, <2>2 DEF CheckoutInv, CleanerKnows, TypeOK
  <2> QED
    BY <1>2, <2>1, <2>2 DEF CheckoutInv, CleanerKnows
<1>7. CheckoutsAccounted'
  BY <1>1, <1>2 DEF CheckoutInv, CheckoutsAccounted, RetiredIsRemoved, OnlyCleanupRemoves
<1> QED
  BY <1>4, <1>5, <1>6, <1>7 DEF CheckoutInv

\* record_workspace: the row appears while its directory exists.
LEMMA RecordKeeps ==
    ASSUME TypeOK, TypeOK', ExecutionInv, CheckoutInv, NEW w \in Workers, RecordWorkspace(w)
    PROVE  CheckoutInv'
<1> DEFINE r == work[w].run
<1>1. /\ r \in Runs /\ pc[w] \in Executing /\ checkout[r]
      /\ status[r] \notin {"absent", "pending"}
  BY DEF RecordWorkspace, TypeOK, Executing, CheckoutInv, BuilderKnows, Built, ExecutionInv,
     Unclaimed
<1>2. /\ UNCHANGED <<runVars, job, checkout, work, retires>>
      /\ wsState' = [wsState EXCEPT ![r] = "ready"]
      /\ pc'[w] = "start"
      /\ \A v \in Workers \ {w} : pc'[v] = pc[v]
  BY DEF RecordWorkspace, TypeOK, Goto
<1>3. ASSUME NEW v \in Workers \ {w}, pc[v] \in Executing
      PROVE  work[v].run # r
  BY <1>1, <1>3 DEF ExecutionInv, ExclusiveExecution
<1>4. RowsAppear'
  BY <1>1, <1>2 DEF CheckoutInv, RowsAppear, TypeOK
<1>5. BuilderKnows'
  <2>1. ASSUME NEW v \in Workers \ {w}
        PROVE  /\ pc'[v] \in Building => wsState'[work'[v].run] = "none"
               /\ pc'[v] \in Built => checkout'[work'[v].run]
               /\ pc'[v] \in Recorded => wsState'[work'[v].run] # "none"
    <3>1. pc[v] \in Building \cup Built \cup Recorded => work[v].run \in Runs \ {r}
      BY <1>3, <2>1 DEF Building, Built, Recorded, Executing, TypeOK
    <3> QED
      BY <1>2, <3>1, <2>1 DEF CheckoutInv, BuilderKnows, TypeOK
  <2>2. pc'[w] \notin Building \cup Built /\ wsState'[work'[w].run] # "none"
    BY <1>1, <1>2 DEF Building, Built, TypeOK
  <2> QED
    BY <2>1, <2>2 DEF BuilderKnows
<1>6. CleanerKnows'
  BY <1>2 DEF CheckoutInv, CleanerKnows, Cleaning
<1>7. CheckoutsAccounted'
  BY <1>1, <1>2 DEF CheckoutInv, CheckoutsAccounted, RetiredIsRemoved, OnlyCleanupRemoves, TypeOK
<1> QED
  BY <1>4, <1>5, <1>6, <1>7 DEF CheckoutInv

\* The two writes of the Thread: they may bring a retired workspace back to 'busy' or
\* 'ready', but its cleanup job is on record by then.
LEMMA ThreadKeeps ==
    ASSUME TypeOK, TypeOK', CheckoutInv, NEW w \in Workers,
           BindThread(w) \/ RecordDeliveryUncertainty(w)
    PROVE  CheckoutInv'
<1> DEFINE r == work[w].run
<1>1. r \in Runs /\ wsState[r] # "none"
  BY DEF BindThread, RecordDeliveryUncertainty, TypeOK, Executing, CheckoutInv, BuilderKnows,
     Recorded
<1>2. /\ UNCHANGED <<job, checkout, retires>>
      /\ \A q \in Runs : status'[q] \in {"absent", "pending"} => status[q] \in {"absent", "pending"}
      /\ \A q \in Runs : thread'[q] => thread[q] \/ q = r
      /\ \A q \in Runs \ {r} : wsState'[q] = wsState[q]
      /\ wsState'[r] \in {wsState[r], "busy", "ready"}
  BY <1>1 DEF BindThread, RecordDeliveryUncertainty, TypeOK
<1>3. /\ \A v \in Workers \ {w} : pc'[v] = pc[v] /\ work'[v] = work[v]
      /\ pc'[w] \in {"cleanup", "uncertain", "fail"}
      /\ pc'[w] # "cleanup" => work'[w] = work[w]
  BY DEF BindThread, RecordDeliveryUncertainty, TypeOK, Goto, Done
<1>4. \A q \in Runs : wsState'[q] = "none" <=> wsState[q] = "none"
  BY <1>1, <1>2
<1>5. RowsAppear'
  <2> SUFFICES ASSUME NEW q \in Runs
               PROVE  /\ status'[q] \in {"absent", "pending"} => wsState'[q] = "none"
                      /\ thread'[q] => wsState'[q] # "none"
                      /\ wsState'[q] = "none" => job'[q].state = "none" /\ q \notin retires'
    BY DEF RowsAppear
  <2> QED
    BY <1>1, <1>2, <1>4 DEF CheckoutInv, RowsAppear
<1>6. BuilderKnows'
  <2>1. ASSUME NEW v \in Workers \ {w}
        PROVE  /\ pc'[v] \in Building => wsState'[work'[v].run] = "none"
               /\ pc'[v] \in Built => checkout'[work'[v].run]
               /\ pc'[v] \in Recorded => wsState'[work'[v].run] # "none"
    <3>1. pc[v] \in Building \cup Recorded => work[v].run \in Runs
      BY <2>1 DEF Building, Recorded, Executing, TypeOK
    <3> QED
      BY <1>2, <1>3, <1>4, <3>1, <2>1 DEF CheckoutInv, BuilderKnows
  <2>2. /\ pc'[w] \notin Building \cup Built
        /\ pc'[w] \in Recorded => wsState'[work'[w].run] # "none"
    BY <1>1, <1>3, <1>4 DEF Building, Built, Recorded
  <2> QED
    BY <2>1, <2>2 DEF BuilderKnows
<1>7. CleanerKnows'
  BY <1>2, <1>3 DEF CheckoutInv, CleanerKnows, Cleaning
<1>8. CheckoutsAccounted'
  <2> SUFFICES ASSUME NEW q \in Runs
               PROVE  /\ wsState'[q] = "retired" => ~checkout'[q]
                      /\ wsState'[q] # "none" /\ ~checkout'[q] => job'[q].state # "none"
    BY DEF CheckoutsAccounted, RetiredIsRemoved, OnlyCleanupRemoves
  <2> QED
    BY <1>1, <1>2, <1>4 DEF CheckoutInv, CheckoutsAccounted, RetiredIsRemoved, OnlyCleanupRemoves
<1> QED
  BY <1>5, <1>6, <1>7, <1>8 DEF CheckoutInv

\* A step of run_cleanup_once by w for the job of r.
CleanupOf(w, r) ==
    /\ job[r].state # "none" /\ job'[r].state # "none"
    /\ \A q \in Runs \ {r} : /\ job'[q] = job[q] /\ checkout'[q] = checkout[q]
                             /\ wsState'[q] = wsState[q]
    /\ wsState'[r] \in {wsState[r], "retired"}
    /\ checkout'[r] => checkout[r]
    /\ pc'[w] \in Cleaning => work'[w].run = r
    /\ wsState'[r] # wsState[r] \/ pc'[w] = "retiring" => ~checkout'[r]

\* run_cleanup_once: the claim of a job, the removal, and 'retired' after it.
LEMMA CleanupKeeps ==
    ASSUME TypeOK, TypeOK', CheckoutInv, NEW w \in Workers,
           \/ \E r \in Runs : ClaimJob(w, r)
           \/ RemoveWorkspace(w) \/ RetireWorkspace(w)
    PROVE  CheckoutInv'
<1>1. PICK r \in Runs : CleanupOf(w, r)
  <2>1. ASSUME NEW q \in Runs, ClaimJob(w, q)
        PROVE  CleanupOf(w, q)
    <3>1. /\ job[q].state # "none" /\ UNCHANGED <<wsState, checkout>>
          /\ pc'[w] = "removing"
      BY <2>1 DEF ClaimJob, Claimable, Goto, TypeOK
    <3>2. job'[q].state # "none" /\ \A p \in Runs \ {q} : job'[p] = job[p]
      BY <2>1 DEF ClaimJob, TypeOK
    <3>3. work'[w].run = q
      BY <2>1 DEF ClaimJob, TypeOK
    <3> QED
      BY <2>1, <3>1, <3>2, <3>3 DEF CleanupOf
  <2> DEFINE q == work[w].run
  <2>2. CASE RemoveWorkspace(w)
    <3>1. q \in Runs /\ job[q].state # "none"
      BY <2>2 DEF RemoveWorkspace, TypeOK, Cleaning, CheckoutInv, CleanerKnows
    <3>2. CleanupOf(w, q)
      BY <2>2, <3>1 DEF CleanupOf, RemoveWorkspace, TypeOK, Goto
    <3> QED
      BY <3>1, <3>2
  <2>3. CASE RetireWorkspace(w)
    <3>1. q \in Runs /\ job[q].state # "none" /\ ~checkout[q]
      BY <2>3 DEF RetireWorkspace, TypeOK, Cleaning, CheckoutInv, CleanerKnows
    <3>2. job'[q].state # "none" /\ \A p \in Runs \ {q} : job'[p] = job[p]
      BY <2>3, <3>1 DEF RetireWorkspace, TypeOK
    <3>3. CleanupOf(w, q)
      BY <2>3, <3>1, <3>2 DEF CleanupOf, RetireWorkspace, TypeOK, Goto, Done, Cleaning
    <3> QED
      BY <3>1, <3>3
  <2> QED
    BY <2>1, <2>2, <2>3
<1>2. /\ UNCHANGED <<runVars, retires>>
      /\ \A v \in Workers \ {w} : pc'[v] = pc[v] /\ work'[v] = work[v]
      /\ pc'[w] \in {"removing", "retiring", "heartbeat"}
  BY DEF ClaimJob, RemoveWorkspace, RetireWorkspace, TypeOK, Goto, Done
<1>3. wsState[r] # "none" /\ wsState'[r] # "none"
  BY <1>1 DEF CleanupOf, CheckoutInv, RowsAppear
<1>4. RowsAppear'
  BY <1>1, <1>2, <1>3 DEF CleanupOf, CheckoutInv, RowsAppear
<1>5. BuilderKnows'
  <2>1. ASSUME NEW v \in Workers \ {w}
        PROVE  /\ pc'[v] \in Building => wsState'[work'[v].run] = "none"
               /\ pc'[v] \in Built => checkout'[work'[v].run]
               /\ pc'[v] \in Recorded => wsState'[work'[v].run] # "none"
    <3>1. /\ pc[v] \in Building \cup Recorded => work[v].run \in Runs
          /\ Built \subseteq Building
      BY <2>1 DEF Building, Built, Recorded, Executing, TypeOK
    <3> QED
      BY <1>1, <1>2, <1>3, <3>1, <2>1 DEF CleanupOf, CheckoutInv, BuilderKnows
  <2>2. pc'[w] \notin Building \cup Built \cup Recorded
    BY <1>2 DEF Building, Built, Recorded
  <2> QED
    BY <2>1, <2>2 DEF BuilderKnows
<1>6. CleanerKnows'
  <2>1. ASSUME NEW v \in Workers \ {w}, pc'[v] \in Cleaning
        PROVE  /\ job'[work'[v].run].state # "none"
               /\ pc'[v] = "retiring" => ~checkout'[work'[v].run]
    <3>1. work[v].run \in Runs
      BY <1>2, <2>1 DEF TypeOK
    <3> QED
      BY <1>1, <1>2, <2>1, <3>1 DEF CleanupOf, CheckoutInv, CleanerKnows
  <2> QED
    BY <1>1, <2>1 DEF CleanupOf, CleanerKnows, Cleaning
<1>7. CheckoutsAccounted'
  BY <1>1, <1>3 DEF CleanupOf, CheckoutInv, CheckoutsAccounted, RetiredIsRemoved, OnlyCleanupRemoves
<1> QED
  BY <1>4, <1>5, <1>6, <1>7 DEF CheckoutInv

\* CheckoutInv is inductive, given ExecutionInv.
LEMMA CheckoutStep ==
    ASSUME TypeOK, TypeOK', ExecutionInv, CheckoutInv, [Next]_vars
    PROVE  CheckoutInv'
<1>1. CASE UNCHANGED vars
  <2>1. Tidy
    BY <1>1 DEF vars, Tidy
  <2> QED
    BY <2>1, TidyKeeps
<1>2. ASSUME NEW w \in Workers, Worker(w) \/ DbError(w) \/ WorkerCrash(w)
      PROVE  CheckoutInv'
  BY <1>2, WorkersAreTidy, TidyKeeps, ClaimKeeps, BuildKeeps, RecordKeeps, ThreadKeeps, CleanupKeeps
<1>3. ASSUME NEW r \in Runs, Handler(r) \/ RuntimeEvent(r) \/ Time(r)
      PROVE  CheckoutInv'
  BY <1>3, OthersAreTidy, TidyKeeps
<1> QED
  BY <1>1, <1>2, <1>3 DEF Next

\* run_cleanup_once and execute_lease: 'retired' is only written once the directory is
\* gone and no worker brings it back, and a recorded workspace loses its directory
\* through its cleanup job only, however the leases of both expire and are taken over.
THEOREM CheckoutsAgree == Spec => []CheckoutsAccounted
<1>1. Init => CheckoutInv
  <2> SUFFICES ASSUME Init PROVE CheckoutInv
    OBVIOUS
  <2>1. RowsAppear /\ CheckoutsAccounted
    BY DEF Init, RowsAppear, CheckoutsAccounted, RetiredIsRemoved, OnlyCleanupRemoves, NoJob
  <2>2. BuilderKnows /\ CleanerKnows
    BY DEF Init, BuilderKnows, CleanerKnows, Building, Built, Recorded, Cleaning
  <2> QED
    BY <2>1, <2>2 DEF CheckoutInv
<1>2. CheckoutInv => CheckoutsAccounted
  BY DEF CheckoutInv
<1> QED
  BY <1>1, <1>2, TypeCorrect, ExecutionHolds, CheckoutStep, PTL DEF Spec

=============================================================================
