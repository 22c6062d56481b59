-------------------------- MODULE EventStreamProofs --------------------------
(***************************************************************************)
(* Proofs about EventStream, for any number of Tasks, frames, losses and   *)
(* failures and any size of bus and page: what the page shows is durable,  *)
(* in order and not repeated, and every gap has a known cause.             *)
(***************************************************************************)
EXTENDS EventStream, SequenceTheorems, FiniteSetTheorems, TLAPS

USE DEF serverVars, connVars, pageVars

Frames == [task : Tasks, kind : Kinds]
Numbers == 1..Len(frame)
Delivery == [op : {"deliver"}, seq : log]
Recovery == [op : {"online", "resync"}, seq : {0}]
Labels == {"idle", "baseline", "replay", "approvals", "reindex", "replayApprovals"}

\* The number of a frame is used once, in order.
ServerOK ==
    /\ threads \subseteq Tasks /\ known \subseteq threads
    /\ frame \in Seq(Frames) /\ Len(frame) <= MaxFrames
    /\ bridge \in [seq : 0..Len(frame), at : {"idle", "taken", "persisted"}]
    /\ bridge.at # "idle" => bridge.seq \in Numbers
    /\ bridge.at = "taken" => \A e \in log : e < bridge.seq
    /\ bridge.at = "persisted" => bridge.seq \in log
    /\ log \subseteq Numbers /\ pending \subseteq Numbers
    /\ expected \subseteq log
    /\ \A e \in expected : TaskOf(e) \in known

\* Only what is durable is on its way to the page.
WayOK ==
    /\ conn \in {"down", "subscribed", "ready"}
    /\ bus \in Seq(log) /\ (conn = "down" => bus = <<>>)
    /\ ops \in Seq(Delivery \cup Recovery)

\* An operation that runs has read only events of the Task it is at.
WorkOK ==
    /\ work \in [pc : Labels, todo : SUBSET Tasks, task : SUBSET Tasks, at : log \cup {0},
                 batch : SUBSET log, read : {work.read}, ask : SUBSET Numbers]
    /\ work.pc # "idle" => ops # <<>> /\ ops[1] \in Recovery
    /\ \A t \in work.task : work.task = {t} /\ work.batch \subseteq EventsOf(t)
    /\ work.pc = "baseline" =>
          /\ work.todo \subseteq DOMAIN work.read /\ DOMAIN work.read \subseteq Tasks
          /\ work.read = [t \in DOMAIN work.read |-> work.read[t]]
          /\ \A t \in DOMAIN work.read : work.read[t] \in EventsOf(t) \cup {0}

\* A cursor is at an event of its Task, and what was shown is behind it.
PageOK ==
    /\ online \in BOOLEAN
    /\ cursor \in [Tasks -> Nat] /\ base \in [Tasks -> Nat] /\ shown \in [Seqs -> 0..2]
    /\ \A t \in Tasks : cursor[t] \in EventsOf(t) \cup {0} /\ base[t] \in EventsOf(t) \cup {0}
    /\ \A t \in Tasks : base[t] <= cursor[t]
    /\ \A e \in Seqs : shown[e] > 0 => e \in log /\ e <= cursor[TaskOf(e)]
    /\ overtaken \subseteq log
    /\ drops \in 0..MaxDrops /\ failures \in 0..MaxFailures

Typed == ServerOK /\ WayOK /\ WorkOK /\ PageOK

\* A replay has all events between the cursor of its Task and the page it is at.
BatchInv ==
    work.pc = "replay" => \A t \in work.task : \A e \in EventsOf(t) :
        cursor[t] < e /\ e <= work.at => e \in work.batch

\* Events the page should have been shown, and has not.
Missing(e) ==
    /\ e \in expected /\ Visible(e) /\ shown[e] = 0 /\ e \notin overtaken
    /\ base[TaskOf(e)] < e

\* The operation that runs is still going to read event e, or to set the baseline
\* behind it.
Covers(e) ==
    \/ work.pc = "idle"
    \/ /\ work.pc = "baseline"
       /\ TaskOf(e) \in work.todo \/ (TaskOf(e) \in DOMAIN work.read /\ e <= work.read[TaskOf(e)])
    \/ /\ work.pc = "replay"
       /\ \/ TaskOf(e) \in work.todo
          \/ TaskOf(e) \in work.task /\ (e \in work.batch \/ work.at < e)

\* Operation j of the chain brings event e to the page.
Brings(j, e) ==
    \/ ops[j] = [op |-> "deliver", seq |-> e]
    \/ ops[j] \in Recovery /\ (j = 1 => Covers(e))

Saved(e, i) == \E j \in 1..Len(ops) : j < i /\ Brings(j, e)
Queued(e) == \E j \in 1..Len(ops) : Brings(j, e)
OnBus(e, k) == \E j \in 1..Len(bus) : j < k /\ bus[j] = e
InBus(e) == \E j \in 1..Len(bus) : bus[j] = e
Follows(d, e) == e < d /\ TaskOf(d) = TaskOf(e)

\* A missing event is ahead of the cursor, and comes to the page before any later
\* event of its Task does.
Coming(e) ==
    /\ cursor[TaskOf(e)] < e
    /\ \A i \in 1..Len(ops), d \in log :
          ops[i] = [op |-> "deliver", seq |-> d] /\ Follows(d, e) => Saved(e, i)
    /\ \A k \in 1..Len(bus), d \in log :
          bus[k] = d /\ Follows(d, e) => OnBus(e, k) \/ Queued(e) \/ conn = "subscribed"
    /\ \/ bridge = [seq |-> e, at |-> "persisted"]
       \/ InBus(e) \/ Queued(e) \/ conn # "ready"

GapInv == failures = 0 => \A e \in log : Missing(e) => Coming(e)

-----------------------------------------------------------------------------
(* Numbers and sets of numbers. *)

\* A set of numbers up to n that is not empty has a greatest element.
LEMMA MaxIs ==
    ASSUME NEW n \in Nat, NEW S, S \subseteq 0..n, S # {}
    PROVE  Max(S) \in S /\ \A x \in S : x <= Max(S)
<1> DEFINE R == {p \in Nat \X Nat : p[1] < p[2]}
           T == {n - x : x \in S}
<1>1. IsWellFoundedOn(R, Nat)
  BY NatLessThanWellFounded DEF OpToRel
<1>2. T \subseteq Nat /\ T # {}
  <2>1. \A x \in S : n - x \in Nat
    OBVIOUS
  <2>2. PICK x : x \in S
    OBVIOUS
  <2>3. n - x \in T
    BY <2>2
  <2> QED
    BY <2>1, <2>3
<1>3. PICK y \in T : \A z \in T : <<z, y>> \notin R
  <2> HIDE DEF R, T
  <2> QED
    BY <1>1, <1>2, WFMin
<1>4. PICK x \in S : y = n - x
  OBVIOUS
<1>5. ASSUME NEW w \in S
      PROVE  w <= x
  <2>1. n - w \in T /\ n - w \in Nat /\ y \in Nat
    BY <1>2
  <2>2. ~(n - w < y)
    BY <1>3, <2>1
  <2> QED
    BY <1>4, <2>1, <2>2
<1>6. \E m \in S : \A w \in S : m >= w
  BY <1>5
<1>7. Max(S) \in S /\ \A w \in S : Max(S) >= w
  BY <1>6 DEF Max
<1> QED
  BY <1>7

\* A number is durable only if its frame was taken.
LEMMA NumbersAre ==
    ASSUME ServerOK
    PROVE  /\ Len(frame) \in Nat /\ Numbers \subseteq Nat /\ Numbers \subseteq Seqs
           /\ Numbers = DOMAIN frame /\ log \subseteq Nat /\ log \subseteq Seqs
           /\ \A e \in Numbers : frame[e] \in Frames /\ TaskOf(e) \in Tasks
           /\ \A t : EventsOf(t) \subseteq log /\ IsFiniteSet(EventsOf(t))
<1>1. /\ Len(frame) \in Nat /\ DOMAIN frame = 1..Len(frame) /\ Len(frame) <= MaxFrames
      /\ \A e \in 1..Len(frame) : frame[e] \in Frames
  BY LenProperties, ElementOfSeq DEF ServerOK
<1>2. Numbers \subseteq Nat /\ Numbers \subseteq Seqs
  BY <1>1, StreamConstants DEF Numbers, Seqs
<1>3. log \subseteq Numbers
  BY DEF ServerOK
<1>4. ASSUME NEW t
      PROVE  EventsOf(t) \subseteq log /\ IsFiniteSet(EventsOf(t))
  <2>1. EventsOf(t) \subseteq log
    BY DEF EventsOf
  <2>2. IsFiniteSet(Numbers)
    BY <1>1, FS_Interval DEF Numbers
  <2> QED
    BY <1>3, <2>1, <2>2, FS_Subset
<1>5. \A e \in Numbers : TaskOf(e) \in Tasks
  BY <1>1 DEF TaskOf, Frames, Numbers
<1> QED
  BY <1>1, <1>2, <1>3, <1>4, <1>5 DEF Numbers

\* The greatest event of a set of durable ones, or the number it is compared with.
LEMMA MaxOf ==
    ASSUME ServerOK, NEW S, S \subseteq log \cup {0}, S # {}
    PROVE  Max(S) \in S /\ Max(S) \in Nat /\ \A x \in S : x <= Max(S)
<1>1. Len(frame) \in Nat /\ S \subseteq 0..Len(frame)
  BY NumbersAre DEF ServerOK, Numbers
<1>2. Max(S) \in S /\ \A x \in S : x <= Max(S)
  BY <1>1, MaxIs
<1>3. 0..Len(frame) \subseteq Nat
  BY <1>1
<1> QED
  BY <1>1, <1>2, <1>3

\* Of a finite set of numbers, k are among the first k.
LEMMA FirstOnes ==
    ASSUME NEW Y, Y \subseteq Nat, IsFiniteSet(Y), NEW k \in Nat, k < Cardinality(Y)
    PROVE  Cardinality({x \in Y : Cardinality({d \in Y : d <= x}) <= k}) = k
<1> DEFINE Below(x) == {d \in Y : d <= x}
           m == Cardinality(Y)
           r == [x \in Y |-> Cardinality(Below(x))]
           F == {x \in Y : r[x] <= k}
<1>0. m \in Nat
  BY FS_CardinalityType
<1>1. ASSUME NEW x \in Y
      PROVE  /\ IsFiniteSet(Below(x)) /\ r[x] = Cardinality(Below(x)) /\ r[x] \in 1..m
  <2>1. IsFiniteSet(Below(x)) /\ Cardinality(Below(x)) <= m
    BY FS_Subset
  <2>2. Cardinality(Below(x)) \in Nat
    BY <2>1, FS_CardinalityType
  <2>3. x \in Below(x)
    OBVIOUS
  <2>4. Cardinality(Below(x)) # 0
    BY <2>1, <2>3, FS_EmptySet
  <2> QED
    BY <1>0, <2>1, <2>2, <2>4
<1>2. ASSUME NEW x \in Y, NEW y \in Y, x < y
      PROVE  r[x] < r[y]
  <2>0. x \in Nat /\ y \in Nat /\ ~(y <= x) /\ \A d \in Y : d \in Nat /\ (d <= x => d <= y)
    BY <1>2
  <2>a. y <= y
    BY <2>0
  <2>1. Below(x) \subseteq Below(y) /\ y \in Below(y) /\ y \notin Below(x)
    BY <2>0, <2>a, Zenon
  <2>2. Cardinality(Below(x)) <= Cardinality(Below(y)) /\ Cardinality(Below(y)) # Cardinality(Below(x))
    BY <1>1, <2>1, FS_Subset
  <2> QED
    BY <1>1, <2>2
<1>3. r \in [Y -> 1..m]
  BY <1>1
<1> HIDE DEF Below, r
<1>4. ASSUME NEW x \in Y, NEW y \in Y, r[x] = r[y]
      PROVE  x = y
  BY <1>1, <1>2, <1>4
<1>5. r \in Injection(Y, 1..m)
  BY <1>3, <1>4 DEF Injection, IsInjective
<1>6. IsFiniteSet(1..m) /\ Cardinality(1..m) = m
  BY <1>0, FS_Interval
<1>7. r \in Surjection(Y, 1..m)
  BY <1>5, <1>6, FS_Injection
<1>8. \A i \in 1..m : \E x \in Y : r[x] = i
  BY <1>7 DEF Surjection
<1> DEFINE f == [x \in F |-> r[x]]
<1>9. f \in Bijection(F, 1..k)
  <2>1. \A x \in F : r[x] \in 1..k
    BY <1>0, <1>1
  <2>2. f \in [F -> 1..k]
    BY <2>1
  <2>3. f \in Injection(F, 1..k)
    BY <1>4, <2>2 DEF Injection, IsInjective
  <2>4. ASSUME NEW i \in 1..k
        PROVE  \E x \in F : f[x] = i
    <3>1. i \in 1..m /\ i <= k
      BY <1>0
    <3>2. PICK x \in Y : r[x] = i
      BY <1>8, <3>1
    <3> QED
      BY <3>1, <3>2
  <2> QED
    BY <2>2, <2>3, <2>4 DEF Bijection, Surjection
<1>10. IsFiniteSet(F)
  BY FS_Subset
<1>11. Cardinality(1..k) = Cardinality(F)
  BY <1>9, <1>10, FS_Bijection DEF ExistsBijection
<1>12. Cardinality(1..k) = k
  BY FS_Interval
<1>13. F = {x \in Y : Cardinality({d \in Y : d <= x}) <= k}
  BY <1>1 DEF Below
<1> QED
  BY <1>11, <1>12, <1>13

\* One page of GET /tasks/:id/events: what it leaves out comes after it, and it
\* leaves out nothing unless it is full.
LEMMA PageIs ==
    ASSUME ServerOK, NEW t, NEW a \in Nat
    PROVE  /\ Page(t, a) \subseteq EventsOf(t)
           /\ \A e \in Page(t, a) : a < e
           /\ \A e \in EventsOf(t) : a < e /\ e \notin Page(t, a) =>
                 Cardinality(Page(t, a)) = PageSize /\ \A x \in Page(t, a) : x < e
<1> DEFINE Upto(x) == {d \in EventsOf(t) : a < d /\ d <= x}
<1>0. EventsOf(t) \subseteq Nat /\ IsFiniteSet(EventsOf(t))
  BY NumbersAre
<1>1. ASSUME NEW x
      PROVE  IsFiniteSet(Upto(x)) /\ Cardinality(Upto(x)) \in Nat
  <2>1. IsFiniteSet(Upto(x))
    BY <1>0, FS_Subset
  <2> QED
    BY <2>1, FS_CardinalityType
<1>2. \A e \in EventsOf(t) : e \in Page(t, a) <=> a < e /\ Cardinality(Upto(e)) <= PageSize
  BY DEF Page
<1>3. Page(t, a) \subseteq EventsOf(t) /\ \A e \in Page(t, a) : a < e
  BY DEF Page
<1>4. ASSUME NEW e \in EventsOf(t), a < e, e \notin Page(t, a)
      PROVE  Cardinality(Page(t, a)) = PageSize /\ \A x \in Page(t, a) : x < e
  <2>0. PageSize \in Nat /\ PageSize < Cardinality(Upto(e))
    BY <1>1, <1>2, <1>4, StreamConstants
  <2>1. ASSUME NEW x \in Page(t, a), ~(x < e)
        PROVE  FALSE
    <3>1. x \in Nat /\ e \in Nat /\ Cardinality(Upto(x)) <= PageSize
      BY <1>0, <1>2, <1>3
    <3>2. Upto(e) \in SUBSET Upto(x)
      BY <1>0, <2>1, <3>1
    <3>3. Cardinality(Upto(e)) <= Cardinality(Upto(x))
      BY <1>1, <3>2, FS_Subset
    <3> QED
      BY <1>1, <2>0, <3>1, <3>3
  <2> DEFINE Y == Upto(e)
  <2>2. Y \subseteq Nat /\ IsFiniteSet(Y)
    BY <1>0, <1>1
  <2>3. \A x \in Y : Upto(x) = {d \in Y : d <= x}
    BY <1>0
  <2>4. Page(t, a) \subseteq Y
    BY <1>0, <1>3, <2>1
  <2>5. Page(t, a) = {x \in Y : Cardinality(Upto(x)) <= PageSize}
    BY <1>2, <2>4
  <2>6. Page(t, a) = {x \in Y : Cardinality({d \in Y : d <= x}) <= PageSize}
    BY <2>3, <2>5
  <2>7. Cardinality({x \in Y : Cardinality({d \in Y : d <= x}) <= PageSize}) = PageSize
    <3> HIDE DEF Y
    <3> QED
      BY <2>0, <2>2, FirstOnes DEF Y
  <2> QED
    BY <2>1, <2>6, <2>7
<1> QED
  BY <1>3, <1>4

-----------------------------------------------------------------------------
(* The server. *)

\* What is durable stays, and is not renumbered.
Grown ==
    /\ log \subseteq log' /\ threads \subseteq threads' /\ known \subseteq known'
    /\ Len(frame) <= Len(frame') /\ Numbers \subseteq Numbers'
    /\ \A e \in Numbers : frame'[e] = frame[e]

\* The browser's steps leave the server alone.
BrowserStep == Browser \/ RequestFails \/ (\E t \in Tasks : WaitForThread(t))

\* They read, and find out about Threads.
LEMMA BrowserReads ==
    ASSUME ServerOK, BrowserStep
    PROVE  /\ UNCHANGED <<serverVars, expected, connVars, drops>>
           /\ known \subseteq known' /\ known' \subseteq threads
<1>1. UNCHANGED <<serverVars, expected, connVars, drops>>
  BY DEF BrowserStep, Browser, RequestFails, WaitForThread, Deliver, IndexProject, EstablishBaseline,
     StartReplay, ReadOn, ListApprovals, Reindex, ReadLatest, ReplayEvents, ReplayApprovals
<1>2. known' \in {known, threads, known \cup threads} \/ \E t \in threads : known' = known \cup {t}
  BY DEF BrowserStep, Browser, RequestFails, WaitForThread, Deliver, IndexProject, EstablishBaseline,
     StartReplay, ReadOn, ListApprovals, Reindex, ReadLatest, ReplayEvents, ReplayApprovals
<1> QED
  BY <1>1, <1>2 DEF ServerOK

\* Every step keeps ServerOK, and what is durable.
LEMMA ServerStep ==
    ASSUME ServerOK, [Next]_vars
    PROVE  ServerOK' /\ Grown
<1>0. /\ frame \in Seq(Frames) /\ Len(frame) \in Nat /\ Numbers \subseteq Nat
      /\ Len(frame) <= MaxFrames /\ log \subseteq Numbers
      /\ bridge \in [seq : 0..Len(frame), at : {"idle", "taken", "persisted"}]
  BY NumbersAre DEF ServerOK
<1>1. ASSUME UNCHANGED <<frame, log, threads, expected>>, bridge' \in {bridge, NoFrame},
             pending' \subseteq pending, known \subseteq known', known' \subseteq threads
      PROVE  ServerOK' /\ Grown
  <2>1. Numbers' = Numbers /\ \A e : TaskOf(e)' = TaskOf(e)
    BY <1>1 DEF Numbers, TaskOf
  <2>2. NoFrame \in [seq : 0..Len(frame), at : {"idle", "taken", "persisted"}] /\ NoFrame.at = "idle"
    BY <1>0 DEF NoFrame
  <2>3. Grown
    BY <1>0, <1>1, <2>1 DEF Grown
  <2>4. ServerOK'
    BY <1>1, <2>1, <2>2 DEF ServerOK
  <2> QED
    BY <2>3, <2>4
<1>2. ASSUME NEW t \in Tasks, ThreadBound(t)
      PROVE  ServerOK' /\ Grown
  <2>1. threads' = threads \cup {t} /\ UNCHANGED <<frame, bridge, log, pending, known, expected>>
    BY <1>2 DEF ThreadBound
  <2>2. Numbers' = Numbers /\ \A e : TaskOf(e)' = TaskOf(e)
    BY <2>1 DEF Numbers, TaskOf
  <2> QED
    BY <1>0, <2>1, <2>2 DEF ServerOK, Grown
<1>3. ASSUME NEW t \in Tasks, NEW k \in Kinds, TakeFrame(t, k)
      PROVE  ServerOK' /\ Grown
  <2> DEFINE f == [task |-> t, kind |-> k]
             n == Len(frame) + 1
  <2>1. /\ frame' = Append(frame, f) /\ f \in Frames /\ Len(frame) < MaxFrames
        /\ UNCHANGED <<threads, log, known, expected>>
    BY <1>3 DEF TakeFrame, Frames
  <2>2. /\ frame' \in Seq(Frames) /\ Len(frame') = n /\ \A e \in Numbers : frame'[e] = frame[e]
    BY <1>0, <2>1, AppendProperties DEF Numbers
  <2>3. bridge' = [seq |-> n, at |-> "taken"] /\ pending' \subseteq pending \cup {n}
    BY <1>3, <2>2 DEF TakeFrame
  <2>4. n <= MaxFrames /\ n \in Nat
    BY <1>0, <2>1, StreamConstants
  <2>5. Numbers' = Numbers \cup {n} /\ n \notin Numbers
    BY <1>0, <2>2 DEF Numbers
  <2>6. \A e \in Numbers : e < n /\ TaskOf(e)' = TaskOf(e)
    BY <1>0, <2>2 DEF Numbers, TaskOf
  <2>a. Len(frame) <= n
    BY <1>0
  <2> HIDE DEF f, n
  <2>7. Grown
    BY <2>1, <2>2, <2>5, <2>a DEF Grown
  <2>8. /\ bridge' \in [seq : 0..Len(frame'), at : {"idle", "taken", "persisted"}]
        /\ bridge'.at = "taken" /\ bridge'.seq = n
    BY <2>2, <2>3, <2>4
  <2>9. ServerOK'
    BY <1>0, <2>1, <2>2, <2>3, <2>4, <2>5, <2>6, <2>8 DEF ServerOK
  <2> QED
    BY <2>7, <2>9
<1>4. CASE PersistFrame
  <2>1. /\ bridge.at = "taken" /\ log' = log \cup {bridge.seq}
        /\ expected' \subseteq expected \cup {bridge.seq}
        /\ bridge.seq \in expected' => bridge.seq \in expected \/ TaskOf(bridge.seq) \in known
        /\ bridge' = [bridge EXCEPT !.at = "persisted"]
        /\ UNCHANGED <<threads, frame, pending, known>>
    BY <1>4 DEF PersistFrame
  <2>2. bridge.seq \in Numbers
    BY <2>1 DEF ServerOK
  <2>3. Numbers' = Numbers /\ \A e : TaskOf(e)' = TaskOf(e)
    BY <2>1 DEF Numbers, TaskOf
  <2>4. /\ bridge' \in [seq : 0..Len(frame'), at : {"idle", "taken", "persisted"}]
        /\ bridge'.at = "persisted" /\ bridge'.seq = bridge.seq
    BY <1>0, <2>1
  <2>5. \A e \in expected' : TaskOf(e) \in known
    BY <2>1 DEF ServerOK
  <2>6. ServerOK'
    BY <1>0, <2>1, <2>2, <2>3, <2>4, <2>5 DEF ServerOK
  <2> QED
    BY <1>0, <2>1, <2>3, <2>6 DEF Grown
<1>5. CASE UNCHANGED vars \/ Disconnect \/ ServerRestart \/ Connection \/ PersistFails \/ Broadcast
  BY <1>1, <1>5 DEF vars, Disconnect, ServerRestart, Connection, Connect, Ready, Forward, Lagged,
     PersistFails, Broadcast, ServerOK
<1>6. ASSUME NEW e \in Seqs, ResolveApproval(e)
      PROVE  ServerOK' /\ Grown
  BY <1>1, <1>6 DEF ResolveApproval, ServerOK
<1>7. CASE BrowserStep
  BY <1>1, <1>7, BrowserReads
<1> QED
  BY <1>2, <1>3, <1>4, <1>5, <1>6, <1>7 DEF Next, Bridge, BrowserStep

-----------------------------------------------------------------------------
(* The way to the page, and the operation that runs. *)

\* The chain after its first operation is over.
LEMMA Over ==
    ASSUME NEW X, NEW s \in Seq(X), s # <<>>, NEW r, r = Tail(s)
    PROVE  /\ r \in Seq(X) /\ s[1] = Head(s) /\ s[1] \in X /\ 1 \in 1..Len(s)
           /\ Len(s) \in Nat /\ Len(r) = Len(s) - 1
           /\ \A i \in 1..Len(r) : i + 1 \in 1..Len(s) /\ r[i] = s[i + 1]
           /\ \A i \in 1..Len(s) : i # 1 => i - 1 \in 1..Len(r) /\ r[i - 1] = s[i]
<1>1. /\ Len(s) \in Nat \ {0} /\ Len(r) = Len(s) - 1 /\ s[1] = Head(s) /\ r \in Seq(X) /\ Head(s) \in X
      /\ \A i \in 1..Len(r) : r[i] = s[i + 1]
  BY HeadTailProperties, EmptySeq
<1>2. 1 \in 1..Len(s) /\ \A i \in 1..Len(r) : i + 1 \in 1..Len(s)
  BY <1>1
<1>3. ASSUME NEW i \in 1..Len(s), i # 1
      PROVE  i - 1 \in 1..Len(r) /\ r[i - 1] = s[i]
  <2>1. i - 1 \in 1..Len(r) /\ (i - 1) + 1 = i
    BY <1>1, <1>3
  <2> QED
    BY <1>1, <2>1
<1> QED
  BY <1>1, <1>2, <1>3

\* The chain, or the bus, with one more at its end.
LEMMA Longer ==
    ASSUME NEW X, NEW s \in Seq(X), NEW x \in X, NEW r, r = Append(s, x)
    PROVE  /\ r \in Seq(X) /\ r # <<>> /\ Len(s) \in Nat /\ Len(r) = Len(s) + 1 /\ r[Len(s) + 1] = x
           /\ \A i \in 1..Len(s) : i \in 1..Len(r) /\ r[i] = s[i]
           /\ \A i \in 1..Len(r) : i \in 1..Len(s) \/ i = Len(s) + 1
<1>1. /\ r \in Seq(X) /\ Len(s) \in Nat /\ Len(r) = Len(s) + 1 /\ r[Len(s) + 1] = x
      /\ \A i \in 1..Len(s) : r[i] = s[i]
  BY AppendProperties, LenProperties
<1> QED
  BY <1>1, EmptySeq

\* Operations are queued by the connection and end one by one.
LEMMA OpsMove ==
    ASSUME ServerOK, WayOK, WorkOK, [Next]_vars
    PROVE  \/ ops' = ops
           \/ /\ Connection /\ \E o \in Delivery \cup Recovery : ops' = Append(ops, o)
              /\ work' = work
           \/ BrowserStep /\ ops # <<>> /\ ops' = Tail(ops) /\ work' = NoWork
<1>1. CASE Browser
  <2>1. ops' = ops \/ (Finish /\ ops # <<>>)
    BY <1>1 DEF Browser, Deliver, IndexProject, EstablishBaseline, StartReplay, ReadOn,
       ListApprovals, Reindex, ReadLatest, ReplayEvents, ReplayApprovals, ReplayOver, NextTask,
       Running, Current, WorkOK
  <2> QED
    BY <1>1, <2>1 DEF Finish, BrowserStep
<1>2. CASE RequestFails
  <2>1. Finish /\ ops # <<>>
    BY <1>2 DEF RequestFails, Running, Current, WorkOK
  <2> QED
    BY <1>2, <2>1 DEF Finish, BrowserStep
<1>3. CASE Connection
  <2>1. CASE Forward
    <3>1. ops' = Append(ops, [op |-> "deliver", seq |-> Head(bus)]) /\ work' = work /\ bus # <<>>
      BY <2>1 DEF Forward
    <3>2. Head(bus) \in log
      BY <3>1, HeadTailProperties DEF WayOK
    <3> QED
      BY <1>3, <3>1, <3>2 DEF Delivery
  <2>2. CASE Ready
    BY <1>3, <2>2 DEF Ready, Recovery
  <2>3. CASE Lagged
    BY <1>3, <2>3 DEF Lagged, Recovery
  <2>4. CASE Connect
    BY <2>4 DEF Connect
  <2> QED
    BY <1>3, <2>1, <2>2, <2>3, <2>4 DEF Connection
<1>4. CASE Bridge \/ Disconnect \/ ServerRestart \/ UNCHANGED vars
  BY <1>4 DEF Bridge, PersistFrame, PersistFails, Broadcast, Disconnect, ServerRestart, vars
<1>5. ASSUME NEW t \in Tasks,
             ThreadBound(t) \/ WaitForThread(t) \/ \E k \in Kinds : TakeFrame(t, k)
      PROVE  ops' = ops
  BY <1>5 DEF ThreadBound, WaitForThread, TakeFrame
<1>6. ASSUME NEW e \in Seqs, ResolveApproval(e)
      PROVE  ops' = ops
  BY <1>6 DEF ResolveApproval
<1> QED
  BY <1>1, <1>2, <1>3, <1>4, <1>5, <1>6 DEF Next

\* What the bus holds moves to the chain, or is lost from its front.
LEMMA BusMoves ==
    ASSUME ServerOK, WayOK, [Next]_vars
    PROVE  \/ bus' = bus /\ conn' = conn
           \/ bus' = bus /\ (Connect \/ Ready)
           \/ /\ Broadcast /\ conn' = conn /\ conn # "down"
              /\ bridge.seq \in log /\ bus' = Append(bus, bridge.seq)
           \/ Forward /\ conn' = conn /\ conn = "ready" /\ bus # <<>> /\ bus' = Tail(bus)
           \/ /\ Lagged /\ conn' = conn /\ conn = "ready"
              /\ bus' = Retained /\ Len(bus) > Capacity
           \/ bus' = <<>> /\ conn' = "down"
<1>1. CASE BrowserStep
  BY <1>1, BrowserReads
<1>2. CASE Bridge
  BY <1>2 DEF Bridge, PersistFrame, PersistFails, Broadcast, Sent, ServerOK
<1>3. CASE Connection
  <2>1. CASE Forward
    BY <2>1, EmptySeq DEF Forward
  <2>2. CASE Connect \/ Ready \/ Lagged
    BY <2>2 DEF Connect, Ready, Lagged
  <2> QED
    BY <1>3, <2>1, <2>2 DEF Connection
<1>4. CASE Disconnect \/ ServerRestart
  BY <1>4 DEF Disconnect, ServerRestart
<1>5. CASE UNCHANGED vars
  BY <1>5 DEF vars
<1>6. ASSUME NEW t \in Tasks, ThreadBound(t) \/ \E k \in Kinds : TakeFrame(t, k)
      PROVE  bus' = bus /\ conn' = conn
  BY <1>6 DEF ThreadBound, TakeFrame
<1>7. ASSUME NEW e \in Seqs, ResolveApproval(e)
      PROVE  bus' = bus /\ conn' = conn
  BY <1>7 DEF ResolveApproval
<1> QED
  BY <1>1, <1>2, <1>3, <1>4, <1>5, <1>6, <1>7 DEF Next, BrowserStep

\* Nothing gets on its way to the page before it is durable.
LEMMA WayNext ==
    ASSUME ServerOK, WayOK, WorkOK, [Next]_vars
    PROVE  bus' \in Seq(log) /\ ops' \in Seq(Delivery \cup Recovery)
<1>1. bus' \in Seq(log)
  <2>0. bus \in Seq(log) /\ Len(bus) \in Nat /\ <<>> \in Seq(log)
    BY LenProperties, EmptySeq DEF WayOK
  <2>1. CASE Len(bus) > Capacity /\ bus' = Retained
    <3>1. Capacity \in Nat /\ Len(bus) - Capacity + 1 \in 1..(Len(bus) + 1) /\ Len(bus) \in 0..Len(bus)
      BY <2>0, <2>1, StreamConstants
    <3> QED
      BY <2>0, <2>1, <3>1, SubSeqProperties DEF Retained
  <2>2. CASE bus # <<>> /\ bus' = Tail(bus)
    BY <2>0, <2>2, Over
  <2>3. CASE bridge.seq \in log /\ bus' = Append(bus, bridge.seq)
    BY <2>0, <2>3, Longer
  <2> QED
    BY <2>0, <2>1, <2>2, <2>3, BusMoves
<1>2. ops' \in Seq(Delivery \cup Recovery)
  <2>0. ops \in Seq(Delivery \cup Recovery)
    BY DEF WayOK
  <2> QED
    BY <2>0, OpsMove, Longer, Over
<1> QED
  BY <1>1, <1>2

\* Every step keeps WayOK.
LEMMA WayStep ==
    ASSUME ServerOK, WayOK, WorkOK, [Next]_vars
    PROVE  WayOK'
<1>0. log \subseteq log'
  BY ServerStep DEF Grown
<1>1. bus' \in Seq(log) /\ ops' \in Seq(Delivery \cup Recovery)
  BY WayNext
<1>2. bus' \in Seq(log')
  BY <1>0, <1>1, SeqMonotonic
<1>3. conn' \in {"down", "subscribed", "ready"} /\ (conn' = "down" => bus' = <<>>)
  BY BusMoves DEF WayOK, Connect, Ready
<1>5. Delivery \cup Recovery \subseteq (Delivery \cup Recovery)'
  BY <1>0 DEF Delivery, Recovery
<1>6. ops' \in Seq(Delivery \cup Recovery)'
  BY <1>1, <1>5, SeqMonotonic
<1> QED
  BY <1>2, <1>3, <1>6 DEF WayOK

\* Events of a Task stay its events.
LEMMA EventsGrow ==
    ASSUME ServerOK, Grown, NEW t
    PROVE  EventsOf(t) \subseteq EventsOf(t)'
<1>1. \A e \in log : e \in log' /\ frame'[e] = frame[e]
  BY DEF ServerOK, Grown
<1> QED
  BY <1>1 DEF EventsOf, TaskOf

\* The page that the running operation reads next.
LEMMA ThePageIs ==
    ASSUME ServerOK, WorkOK
    PROVE  /\ work.at \in Nat
           /\ \A t \in work.task : ThePage = Page(t, work.at) /\ ThePage \subseteq EventsOf(t)
           /\ ThePage \subseteq log /\ (FullPage => ThePage # {})
<1>1. work.at \in Nat
  <2>1. work.at \in log \cup {0}
    BY DEF WorkOK
  <2> QED
    BY <2>1, NumbersAre
<1>2. ASSUME NEW t \in work.task
      PROVE  ThePage = Page(t, work.at) /\ ThePage \subseteq EventsOf(t)
  <2>1. work.task = {t}
    BY DEF WorkOK
  <2>2. ThePage = Page(t, work.at)
    BY <2>1 DEF ThePage
  <2> QED
    BY <1>1, <2>2, PageIs
<1>3. ThePage \subseteq log
  <2>1. \A e \in ThePage : \E t \in work.task : e \in Page(t, work.at)
    BY DEF ThePage
  <2> QED
    BY <1>2, <2>1, NumbersAre
<1>4. FullPage => ThePage # {}
  BY FS_EmptySet, StreamConstants DEF FullPage
<1> QED
  BY <1>1, <1>2, <1>3, <1>4

\* Work that is given these fields and has read nothing yet.
Fresh(l, T, S, n, k) ==
    [pc |-> l, todo |-> T, task |-> S, at |-> n, batch |-> {}, read |-> <<>>, ask |-> k]

\* Such work is well formed.
LEMMA FreshOK ==
    ASSUME NEW l \in Labels \ {"baseline"}, NEW k \in SUBSET Numbers', NEW T \in SUBSET Tasks,
           NEW S \in SUBSET Tasks, \A t \in S : S = {t}, NEW n \in (log \cup {0})',
           work' = Fresh(l, T, S, n, k), l # "idle" => ops' # <<>> /\ ops'[1] \in Recovery
    PROVE  WorkOK'
<1>1. /\ work'.pc = l /\ work'.todo = T /\ work'.task = S /\ work'.at = n /\ work'.batch = {}
      /\ work'.ask = k
  BY DEF Fresh
<1>2. work' \in [pc : Labels, todo : SUBSET Tasks, task : SUBSET Tasks, at : (log \cup {0})',
                 batch : SUBSET log', read : {work'.read}, ask : SUBSET Numbers']
  BY DEF Fresh
<1>3. Recovery' = Recovery
  BY DEF Recovery
<1>4. \A t \in work'.task : work'.task = {t} /\ work'.batch \subseteq EventsOf(t)'
  BY <1>1
<1>5. work'.pc # "baseline"
  BY <1>1
<1> QED
  BY <1>1, <1>2, <1>3, <1>4, <1>5 DEF WorkOK

\* Every step keeps WorkOK.
LEMMA WorkStep ==
    ASSUME Typed, [Next]_vars
    PROVE  WorkOK'
<1>0. ServerOK /\ WayOK /\ WorkOK /\ PageOK /\ ServerOK' /\ Grown
  BY ServerStep DEF Typed
<1>a. /\ \A t : EventsOf(t) \subseteq EventsOf(t)'
      /\ log \subseteq log' /\ Numbers \subseteq Numbers' /\ 0 \in (log \cup {0})'
  BY <1>0, EventsGrow DEF Grown
<1>b. /\ work \in [pc : Labels, todo : SUBSET Tasks, task : SUBSET Tasks, at : log \cup {0},
                   batch : SUBSET log, read : {work.read}, ask : SUBSET Numbers]
      /\ ops \in Seq(Delivery \cup Recovery)
  BY <1>0 DEF WorkOK, WayOK
<1>c. /\ "idle" \in Labels \ {"baseline"} /\ {} \in SUBSET Numbers' /\ {} \in SUBSET Tasks
      /\ "approvals" \in Labels \ {"baseline"} /\ "reindex" \in Labels \ {"baseline"}
      /\ "replay" \in Labels \ {"baseline"} /\ "replayApprovals" \in Labels \ {"baseline"}
      /\ "baseline" \in Labels
  BY DEF Labels
<1>d. threads \subseteq Tasks /\ known' \subseteq Tasks /\ pending \subseteq Numbers
  BY <1>0 DEF ServerOK
<1>1. CASE work' = NoWork
  <2>1. work' = Fresh("idle", {}, {}, 0, {})
    BY <1>1 DEF NoWork, Fresh
  <2> QED
    BY <1>a, <1>c, <2>1, FreshOK
<1>2. CASE work' = work
  <2>1. work.pc # "idle" => ops' # <<>> /\ ops'[1] \in Recovery
    <3>1. CASE ops' = ops
      BY <1>0, <3>1 DEF WorkOK
    <3>2. ASSUME NEW o \in Delivery \cup Recovery, ops' = Append(ops, o)
          PROVE  work.pc # "idle" => ops' # <<>> /\ ops'[1] \in Recovery
      <4>1. ops # <<>> => 1 \in 1..Len(ops)
        BY <1>b, EmptySeq
      <4> QED
        BY <1>0, <1>b, <3>2, <4>1, Longer DEF WorkOK
    <3>3. CASE work' = NoWork
      BY <1>2, <3>3 DEF NoWork
    <3> QED
      BY <1>0, <3>1, <3>2, <3>3, OpsMove
  <2>2. work' \in [pc : Labels, todo : SUBSET Tasks, task : SUBSET Tasks, at : (log \cup {0})',
                   batch : SUBSET log', read : {work'.read}, ask : SUBSET Numbers']
    BY <1>2, <1>a, <1>b
  <2>3. \A t \in work'.task : work'.task = {t} /\ work'.batch \subseteq EventsOf(t)'
    BY <1>0, <1>2, <1>a DEF WorkOK
  <2>4. work'.pc = "baseline" =>
          /\ work'.todo \subseteq DOMAIN work'.read /\ DOMAIN work'.read \subseteq Tasks
          /\ work'.read = [t \in DOMAIN work'.read |-> work'.read[t]]
          /\ \A t \in DOMAIN work'.read : work'.read[t] \in EventsOf(t)' \cup {0}
    BY <1>0, <1>2, <1>a DEF WorkOK
  <2> QED
    BY <1>2, <2>1, <2>2, <2>3, <2>4 DEF WorkOK
<1>3. ASSUME ops' = ops, ops # <<>>, ops[1] \in Recovery
      PROVE  ops' # <<>> /\ ops'[1] \in Recovery
  BY <1>3
<1>4. ASSUME NEW o \in {"online", "resync"}, Current(o)
      PROVE  ops # <<>> /\ ops[1] \in Recovery
  <2>1. ops # <<>> /\ ops[1].op = o /\ ops[1] \in Delivery \cup Recovery
    BY <1>4, <1>b, HeadTailProperties, Over DEF Current
  <2> QED
    BY <2>1 DEF Delivery, Recovery
<1>5. ASSUME NEW loop \in {"replay", "replayApprovals"}, NEW T \in SUBSET Tasks, NEW k \in SUBSET Numbers,
             NextTask(loop, T, k), ops # <<>>, ops[1] \in Recovery,
             \A t \in T : cursor'[t] \in (log \cup {0})'
      PROVE  WorkOK'
  <2>1. PICK t \in T :
          /\ work' = [NoWork EXCEPT !.pc = loop, !.todo = T \ {t}, !.task = {t},
                                    !.at = IF loop = "replay" THEN cursor'[t] ELSE 0, !.ask = k]
          /\ ops' = ops
    BY <1>5 DEF NextTask
  <2> DEFINE n == IF loop = "replay" THEN cursor'[t] ELSE 0
  <2>2. n \in (log \cup {0})'
    BY <1>5
  <2>3. k \in SUBSET Numbers' /\ T \ {t} \in SUBSET Tasks /\ {t} \in SUBSET Tasks
    BY <1>5, <1>a
  <2>4. loop \in Labels \ {"baseline"} /\ \A u \in {t} : {t} = {u}
    BY <1>c
  <2>5. work' = Fresh(loop, T \ {t}, {t}, n, k)
    <3>1. work' = [NoWork EXCEPT !.pc = loop, !.todo = T \ {t}, !.task = {t}, !.at = n, !.ask = k]
      BY <2>1
    <3> HIDE DEF n
    <3> QED
      BY <3>1 DEF NoWork, Fresh
  <2>6. ops' # <<>> /\ ops'[1] \in Recovery
    BY <1>5, <2>1
  <2> HIDE DEF n
  <2> QED
    BY <2>2, <2>3, <2>4, <2>5, <2>6, FreshOK
<1>6. ASSUME NEW l \in {"approvals", "reindex"}, NEW k \in SUBSET Numbers,
             work' = [NoWork EXCEPT !.pc = l, !.ask = k], ops' = ops, ops # <<>>, ops[1] \in Recovery
      PROVE  WorkOK'
  <2>1. work' = Fresh(l, {}, {}, 0, k)
    BY <1>6 DEF NoWork, Fresh
  <2>2. k \in SUBSET Numbers' /\ l \in Labels \ {"baseline"}
    BY <1>6, <1>a, <1>c
  <2> QED
    BY <1>6, <1>a, <1>c, <2>1, <2>2, FreshOK
<1>7. ASSUME work' = [NoWork EXCEPT !.pc = "approvals"], ops' = ops, ops # <<>>, ops[1] \in Recovery
      PROVE  WorkOK'
  <2>1. work' = Fresh("approvals", {}, {}, 0, {})
    BY <1>7 DEF NoWork, Fresh
  <2> QED
    BY <1>7, <1>a, <1>c, <2>1, FreshOK
<1>8. work.pc # "idle" => ops # <<>> /\ ops[1] \in Recovery
  BY <1>0 DEF WorkOK
<1>9. ASSUME ReplayOver, ops # <<>>, ops[1] \in Recovery
      PROVE  WorkOK'
  BY <1>1, <1>7, <1>9 DEF ReplayOver, Finish
<1>10. CASE BrowserStep
  <2>0. UNCHANGED <<log, frame>> /\ log' \cup {0} = log \cup {0} /\ Numbers' = Numbers
    BY <1>0, <1>10, BrowserReads DEF Numbers
  <2>1. CASE IndexProject
    <3>1. /\ Current("online") /\ ops' = ops
          /\ work' = [NoWork EXCEPT !.pc = "baseline", !.todo = known', !.read = [t \in known' |-> 0]]
      BY <2>1 DEF IndexProject
    <3>2. ops # <<>> /\ ops[1] \in Recovery
      BY <1>4, <3>1
    <3>3. work' = [pc |-> "baseline", todo |-> known', task |-> {}, at |-> 0, batch |-> {},
                   read |-> [t \in known' |-> 0], ask |-> {}]
      BY <3>1 DEF NoWork
    <3>4. DOMAIN work'.read = known' /\ \A t \in known' : work'.read[t] = 0
      BY <3>3
    <3>5. work' \in [pc : Labels, todo : SUBSET Tasks, task : SUBSET Tasks, at : (log \cup {0})',
                     batch : SUBSET log', read : {work'.read}, ask : SUBSET Numbers']
      BY <1>a, <1>c, <1>d, <3>3
    <3>6. /\ work'.pc = "baseline" /\ work'.todo = known' /\ work'.task = {}
          /\ work'.read = [t \in known' |-> 0]
      BY <3>3
    <3>7. Recovery' = Recovery /\ work'.read = [t \in DOMAIN work'.read |-> work'.read[t]]
      BY <3>4, <3>6 DEF Recovery
    <3> QED
      BY <1>d, <3>1, <3>2, <3>4, <3>5, <3>6, <3>7 DEF WorkOK
  <2>2. ASSUME NEW t \in Tasks, ReadLatest(t)
        PROVE  WorkOK'
    <3> DEFINE n == LatestEventSequence(t)
    <3>1. /\ work.pc = "baseline" /\ t \in work.todo /\ ops' = ops
          /\ work' = [work EXCEPT !.todo = work.todo \ {t}, !.read = [work.read EXCEPT ![t] = n]]
      BY <2>2 DEF ReadLatest, Running
    <3>2. n \in EventsOf(t) \cup {0}
      <4>1. EventsOf(t) \cup {0} \subseteq log \cup {0}
        BY <1>0, NumbersAre
      <4> QED
        BY <1>0, <4>1, MaxOf DEF LatestEventSequence
    <3> HIDE DEF n
    <3>3. /\ work'.pc = "baseline" /\ work'.todo = work.todo \ {t} /\ work'.task = work.task
          /\ work'.at = work.at /\ work'.batch = work.batch /\ work'.ask = work.ask
          /\ work'.read = [work.read EXCEPT ![t] = n]
      BY <1>b, <3>1
    <3>4. /\ DOMAIN work'.read = DOMAIN work.read
          /\ work'.read = [u \in DOMAIN work'.read |-> work'.read[u]]
          /\ \A u \in DOMAIN work.read : work'.read[u] = IF u = t THEN n ELSE work.read[u]
      BY <3>3
    <3>5. work' \in [pc : Labels, todo : SUBSET Tasks, task : SUBSET Tasks, at : log \cup {0},
                     batch : SUBSET log, read : {work'.read}, ask : SUBSET Numbers]
      <4>1. work' \in [pc : {work'.pc}, todo : {work'.todo}, task : {work'.task}, at : {work'.at},
                       batch : {work'.batch}, read : {work'.read}, ask : {work'.ask}]
        BY <1>b, <3>1
      <4>2. /\ work.pc \in Labels /\ work.todo \subseteq Tasks /\ work.task \subseteq Tasks
            /\ work.at \in log \cup {0} /\ work.batch \subseteq log /\ work.ask \subseteq Numbers
        BY <1>b
      <4> QED
        BY <1>c, <3>3, <4>1, <4>2
    <3>6. \A u : EventsOf(u)' = EventsOf(u)
      BY <2>0 DEF EventsOf, TaskOf
    <3>7. \A u \in DOMAIN work.read : work'.read[u] \in EventsOf(u) \cup {0}
      BY <1>0, <3>1, <3>2, <3>4 DEF WorkOK
    <3> QED
      BY <1>0, <1>8, <2>0, <3>1, <3>3, <3>4, <3>5, <3>6, <3>7 DEF WorkOK
  <2>3. CASE EstablishBaseline
    <3>1. work' = [NoWork EXCEPT !.pc = "approvals"] /\ ops' = ops /\ work.pc # "idle"
      BY <2>3 DEF EstablishBaseline, Running
    <3> QED
      BY <1>7, <1>8, <3>1
  <2>4. CASE StartReplay
    <3>1. /\ Current("resync") \/ Current("online")
          /\ cursor' = cursor /\ known' = known
          /\ ReplayOver \/ NextTask("replay", known, {})
      BY <2>4 DEF StartReplay
    <3>2. ops # <<>> /\ ops[1] \in Recovery
      BY <1>4, <3>1
    <3>3. \A t \in known : cursor'[t] \in (log \cup {0})'
      BY <1>0, <1>a, <1>d, <3>1, NumbersAre DEF PageOK
    <3> QED
      BY <1>5, <1>9, <1>d, <3>1, <3>2, <3>3
  <2>5. CASE ReadOn
    <3>1. /\ work.pc # "idle" /\ work.pc # "baseline" /\ FullPage /\ ops' = ops
          /\ work' = [work EXCEPT !.batch = work.batch \cup ThePage, !.at = Max(ThePage)]
      BY <2>5 DEF ReadOn
    <3>2. ThePage # {} /\ ThePage \subseteq log /\ \A t \in work.task : ThePage \subseteq EventsOf(t)
      BY <1>0, <3>1, ThePageIs
    <3>3. Max(ThePage) \in log
      BY <1>0, <3>2, MaxOf
    <3> DEFINE P == ThePage
               n == Max(ThePage)
    <3> HIDE DEF P, n
    <3>4. work' = [work EXCEPT !.batch = work.batch \cup P, !.at = n]
      BY <3>1 DEF P, n
    <3>5. /\ work'.pc = work.pc /\ work'.todo = work.todo /\ work'.task = work.task
          /\ work'.at = n /\ work'.batch = work.batch \cup P /\ work'.ask = work.ask
          /\ work' \in [pc : {work'.pc}, todo : {work'.todo}, task : {work'.task}, at : {work'.at},
                        batch : {work'.batch}, read : {work'.read}, ask : {work'.ask}]
      BY <1>b, <3>4
    <3>6. /\ work.pc \in Labels /\ work.todo \subseteq Tasks /\ work.task \subseteq Tasks
          /\ work.batch \subseteq log /\ work.ask \subseteq Numbers
      BY <1>b
    <3>7. work' \in [pc : Labels, todo : SUBSET Tasks, task : SUBSET Tasks, at : log \cup {0},
                     batch : SUBSET log, read : {work'.read}, ask : SUBSET Numbers]
      BY <3>2, <3>3, <3>5, <3>6 DEF P, n
    <3>8. \A u : EventsOf(u)' = EventsOf(u)
      BY <2>0 DEF EventsOf, TaskOf
    <3>9. \A t \in work'.task : work'.task = {t} /\ work'.batch \subseteq EventsOf(t)
      BY <1>0, <3>2, <3>5 DEF WorkOK, P
    <3> QED
      BY <1>8, <2>0, <3>1, <3>5, <3>7, <3>8, <3>9 DEF WorkOK
  <2>6. ASSUME NEW t \in Tasks, ReplayEvents(t) \/ ReplayApprovals(t)
        PROVE  WorkOK'
    <3>1. work.pc # "idle" /\ work.todo \subseteq Tasks /\ work.ask \subseteq Numbers
      BY <1>b, <2>6 DEF ReplayEvents, ReplayApprovals, Running
    <3>2. CASE ReplayEvents(t)
      <4>1. t \in work.task /\ Apply(t, work.batch \cup ThePage) /\ (ReplayOver \/ NextTask("replay", work.todo, {}))
        BY <3>2 DEF ReplayEvents
      <4>2. \A u \in Tasks : cursor'[u] \in (log \cup {0})'
        <5> DEFINE new == {e \in work.batch \cup ThePage : Visible(e) /\ e > cursor[t]}
        <5>1. new \subseteq log
          BY <1>0, <1>b, ThePageIs
        <5>2. cursor' = [cursor EXCEPT ![t] = Max(new \cup {cursor[t]})]
          BY <4>1 DEF Apply
        <5> HIDE DEF new
        <5>3. cursor[t] \in log \cup {0} /\ cursor \in [Tasks -> Nat] /\ \A u \in Tasks : cursor[u] \in log \cup {0}
          BY <1>0, NumbersAre DEF PageOK
        <5>4. Max(new \cup {cursor[t]}) \in log \cup {0}
          <6>1. new \cup {cursor[t]} \subseteq log \cup {0} /\ new \cup {cursor[t]} # {}
            BY <5>1, <5>3
          <6> QED
            BY <1>0, <6>1, MaxOf
        <5> QED
          BY <2>0, <5>2, <5>3, <5>4
      <4> QED
        BY <1>5, <1>8, <1>9, <3>1, <4>1, <4>2
    <3>3. CASE ReplayApprovals(t)
      <4>1. Finish \/ NextTask("replayApprovals", work.todo, work.ask)
        BY <3>3 DEF ReplayApprovals
      <4>2. CASE Finish
        BY <1>1, <4>2 DEF Finish
      <4>3. CASE NextTask("replayApprovals", work.todo, work.ask)
        <5>1. PICK u \in work.todo :
                /\ work' = [NoWork EXCEPT !.pc = "replayApprovals", !.todo = work.todo \ {u}, !.task = {u},
                                          !.at = 0, !.ask = work.ask]
                /\ ops' = ops
          BY <4>3 DEF NextTask
        <5>2. work.todo \ {u} \in SUBSET Tasks /\ {u} \in SUBSET Tasks /\ work.ask \in SUBSET Numbers'
          BY <1>a, <3>1
        <5>3. work' = Fresh("replayApprovals", work.todo \ {u}, {u}, 0, work.ask)
          BY <5>1 DEF NoWork, Fresh
        <5> QED
          BY <1>8, <1>a, <1>c, <3>1, <5>1, <5>2, <5>3, FreshOK
      <4> QED
        BY <4>1, <4>2, <4>3
    <3> QED
      BY <2>6, <3>2, <3>3
  <2>7. CASE ListApprovals
    <3>1. /\ work.pc # "idle"
          /\ Finish \/ (work' = [NoWork EXCEPT !.pc = "reindex", !.ask = pending] /\ ops' = ops)
      BY <2>7 DEF ListApprovals, Running
    <3> QED
      BY <1>1, <1>6, <1>8, <1>d, <3>1 DEF Finish
  <2>8. CASE Reindex
    <3>1. /\ work.pc # "idle" /\ cursor' = cursor
          /\ Finish \/ NextTask("replayApprovals", threads, work.ask)
      BY <2>8 DEF Reindex, Running
    <3>2. \A t \in threads : cursor'[t] \in (log \cup {0})'
      BY <1>0, <1>a, <1>d, <3>1, NumbersAre DEF PageOK
    <3>3. work.ask \subseteq Numbers
      BY <1>b
    <3> QED
      BY <1>1, <1>5, <1>8, <1>d, <3>1, <3>2, <3>3 DEF Finish
  <2>9. CASE Deliver \/ RequestFails \/ (\E t \in Tasks : WaitForThread(t))
    BY <1>1, <1>2, <2>9 DEF Deliver, RequestFails, WaitForThread, Finish
  <2> QED
    BY <1>10, <2>1, <2>2, <2>3, <2>4, <2>5, <2>6, <2>7, <2>8, <2>9 DEF BrowserStep, Browser
<1>11. CASE ~BrowserStep
  <2>1. work' = work
    <3>1. ASSUME NEW t \in Tasks, ThreadBound(t) \/ \E k \in Kinds : TakeFrame(t, k)
          PROVE  work' = work
      BY <3>1 DEF ThreadBound, TakeFrame
    <3>2. ASSUME NEW e \in Seqs, ResolveApproval(e)
          PROVE  work' = work
      BY <3>2 DEF ResolveApproval
    <3>3. CASE Bridge \/ Connection \/ Disconnect \/ ServerRestart \/ UNCHANGED vars
      BY <3>3 DEF Bridge, PersistFrame, PersistFails, Broadcast, Connection, Connect, Ready, Forward,
         Lagged, Disconnect, ServerRestart, vars
    <3> QED
      BY <1>11, <3>1, <3>2, <3>3 DEF Next, BrowserStep
  <2> QED
    BY <1>2, <2>1
<1> QED
  BY <1>10, <1>11


-----------------------------------------------------------------------------
(* The page. *)

\* Events of a Task that are shown move its cursor up to the last of them.
LEMMA Raised ==
    ASSUME ServerOK, PageOK, NEW t \in Tasks, NEW N, N \subseteq EventsOf(t),
           shown' = Bumped(N), cursor' = [cursor EXCEPT ![t] = Max(N \cup {@})]
    PROVE  /\ cursor' \in [Tasks -> Nat] /\ shown' \in [Seqs -> 0..2]
           /\ \A u \in Tasks : u # t => cursor'[u] = cursor[u]
           /\ cursor'[t] \in N \cup {cursor[t]} /\ cursor[t] <= cursor'[t]
           /\ \A e \in N : e <= cursor'[t] /\ shown'[e] > 0
           /\ \A e \in Seqs : shown[e] <= shown'[e] /\ (shown'[e] # shown[e] => e \in N)
<1>0. /\ cursor \in [Tasks -> Nat] /\ shown \in [Seqs -> 0..2]
      /\ cursor[t] \in EventsOf(t) \cup {0}
  BY DEF PageOK
<1>1. N \subseteq log /\ N \subseteq Seqs /\ N \cup {cursor[t]} \subseteq log \cup {0}
  BY <1>0, NumbersAre
<1>2. PICK m : m = Max(N \cup {cursor[t]})
  OBVIOUS
<1>3. m \in N \cup {cursor[t]} /\ m \in Nat /\ cursor[t] <= m /\ \A e \in N : e <= m
  <2>1. N \cup {cursor[t]} # {}
    OBVIOUS
  <2> QED
    BY <1>1, <1>2, <2>1, MaxOf
<1>4. cursor' = [cursor EXCEPT ![t] = m]
  BY <1>2
<1>5. cursor' \in [Tasks -> Nat] /\ cursor'[t] = m /\ \A u \in Tasks : u # t => cursor'[u] = cursor[u]
  BY <1>0, <1>3, <1>4
<1>6. ASSUME NEW e \in Seqs
      PROVE  /\ shown'[e] \in 0..2 /\ shown[e] <= shown'[e] /\ (shown'[e] # shown[e] => e \in N)
             /\ e \in N => shown'[e] > 0
  <2>1. shown[e] \in 0..2
    BY <1>0
  <2>2. shown'[e] = IF e \in N /\ shown[e] < 2 THEN shown[e] + 1 ELSE shown[e]
    BY DEF Bumped
  <2> QED
    BY <2>1, <2>2
<1>7. shown' \in [Seqs -> 0..2]
  BY <1>6 DEF Bumped
<1> QED
  BY <1>1, <1>3, <1>5, <1>6, <1>7

\* What the replay of approvals shows.
Found == {e \in work.batch \cup ThePage : frame[e].kind = "approval" /\ e \in work.ask}

\* The steps that show events: the Task, and the events.
LEMMA Showing ==
    ASSUME ServerOK, WayOK, WorkOK, PageOK
    PROVE  /\ Deliver => \E e \in log :
                 /\ ops # <<>> /\ ops[1] \in Delivery /\ e = ops[1].seq /\ TaskOf(e) \in Tasks
                 /\ {d \in {e} : Visible(d) /\ d > cursor[TaskOf(e)]} \subseteq EventsOf(TaskOf(e))
                 /\ Apply(TaskOf(e), {e})
           /\ \A t \in work.task :
                 /\ work.batch \cup ThePage \subseteq EventsOf(t)
                 /\ {d \in work.batch \cup ThePage : Visible(d) /\ d > cursor[t]} \subseteq EventsOf(t)
                 /\ Found \subseteq EventsOf(t)
<1>1. ASSUME Deliver
      PROVE  \E e \in log :
                 /\ ops # <<>> /\ ops[1] \in Delivery /\ e = ops[1].seq /\ TaskOf(e) \in Tasks
                 /\ {d \in {e} : Visible(d) /\ d > cursor[TaskOf(e)]} \subseteq EventsOf(TaskOf(e))
                 /\ Apply(TaskOf(e), {e})
  <2>1. ops # <<>> /\ Head(ops).op = "deliver" /\ Apply(TaskOf(Head(ops).seq), {Head(ops).seq})
    BY <1>1 DEF Deliver, Current
  <2>2. Head(ops) = ops[1] /\ ops[1] \in Delivery \cup Recovery
    BY <2>1, HeadTailProperties, Over DEF WayOK
  <2>3. ops[1] \in Delivery /\ ops[1].seq \in log
    BY <2>1, <2>2 DEF Delivery, Recovery
  <2>4. PICK e \in log : e = ops[1].seq
    BY <2>3
  <2>5. TaskOf(e) \in Tasks /\ e \in EventsOf(TaskOf(e))
    BY <2>4, NumbersAre DEF ServerOK, EventsOf
  <2> QED
    BY <2>1, <2>2, <2>3, <2>4, <2>5
<1>2. ASSUME NEW t \in work.task
      PROVE  work.batch \cup ThePage \subseteq EventsOf(t)
  BY ThePageIs DEF WorkOK
<1> QED
  BY <1>1, <1>2 DEF Found

\* Every step keeps PageOK.
LEMMA PageStep ==
    ASSUME Typed, [Next]_vars
    PROVE  PageOK'
<1>0. ServerOK /\ WayOK /\ WorkOK /\ PageOK /\ ServerOK' /\ Grown
  BY ServerStep DEF Typed
<1>a. /\ \A t : EventsOf(t) \subseteq EventsOf(t)'
      /\ log \subseteq log' /\ \A e \in log : TaskOf(e)' = TaskOf(e)
  BY <1>0, EventsGrow DEF Grown, ServerOK, TaskOf
<1>b. online' \in BOOLEAN /\ drops' \in 0..MaxDrops /\ failures' \in 0..MaxFailures
  <2>0. online \in BOOLEAN /\ drops \in 0..MaxDrops /\ failures \in 0..MaxFailures
    BY <1>0 DEF PageOK
  <2>1. online' \in {online, TRUE}
    BY DEF Next, Browser, RequestFails, WaitForThread, Deliver, IndexProject, EstablishBaseline,
       StartReplay, ReadOn, ListApprovals, Reindex, ReadLatest, ReplayEvents, ReplayApprovals,
       ThreadBound, TakeFrame, ResolveApproval, Bridge, PersistFrame, PersistFails, Broadcast,
       Connection, Connect, Ready, Forward, Lagged, Disconnect, ServerRestart, vars
  <2>2. drops' = drops \/ (drops < MaxDrops /\ drops' = drops + 1)
    BY DEF Next, Browser, RequestFails, WaitForThread, Deliver, IndexProject, EstablishBaseline,
       StartReplay, ReadOn, ListApprovals, Reindex, ReadLatest, ReplayEvents, ReplayApprovals,
       ThreadBound, TakeFrame, ResolveApproval, Bridge, PersistFrame, PersistFails, Broadcast,
       Connection, Connect, Ready, Forward, Lagged, Disconnect, ServerRestart, vars
  <2>3. failures' = failures \/ (failures < MaxFailures /\ failures' = failures + 1)
    BY DEF Next, Browser, RequestFails, WaitForThread, Deliver, IndexProject, EstablishBaseline,
       StartReplay, ReadOn, ListApprovals, Reindex, ReadLatest, ReplayEvents, ReplayApprovals,
       ThreadBound, TakeFrame, ResolveApproval, Bridge, PersistFrame, PersistFails, Broadcast,
       Connection, Connect, Ready, Forward, Lagged, Disconnect, ServerRestart, vars
  <2>4. online' \in BOOLEAN
    BY <2>0, <2>1, Zenon
  <2>5. drops' \in 0..MaxDrops /\ failures' \in 0..MaxFailures
    BY <2>0, <2>2, <2>3, StreamConstants
  <2> QED
    BY <2>4, <2>5
<1>1. ASSUME UNCHANGED <<cursor, shown, base>>, overtaken' \subseteq log
      PROVE  PageOK'
  BY <1>0, <1>1, <1>a, <1>b DEF PageOK
<1>2. ASSUME NEW t \in Tasks, NEW N, N \subseteq EventsOf(t), shown' = Bumped(N),
             cursor' = [cursor EXCEPT ![t] = Max(N \cup {@})], base' = base, overtaken' \subseteq log
      PROVE  PageOK'
  <2>1. /\ cursor' \in [Tasks -> Nat] /\ shown' \in [Seqs -> 0..2]
        /\ \A u \in Tasks : u # t => cursor'[u] = cursor[u]
        /\ cursor'[t] \in N \cup {cursor[t]} /\ cursor[t] <= cursor'[t]
        /\ \A e \in N : e <= cursor'[t] /\ shown'[e] > 0
        /\ \A e \in Seqs : shown[e] <= shown'[e] /\ (shown'[e] # shown[e] => e \in N)
    BY <1>0, <1>2, Raised
  <2>2. \A u \in Tasks : cursor[u] \in Nat /\ base[u] \in Nat /\ cursor'[u] \in Nat /\ cursor[u] <= cursor'[u]
    BY <1>0, <2>1 DEF PageOK
  <2>3. \A u \in Tasks : cursor'[u] \in EventsOf(u)' \cup {0} /\ base[u] <= cursor'[u]
    BY <1>0, <1>2, <1>a, <2>1, <2>2 DEF PageOK
  <2>4. ASSUME NEW e \in Seqs, shown'[e] > 0
        PROVE  e \in log' /\ e <= cursor'[TaskOf(e)']
    <3>1. CASE e \in N
      <4>1. e \in log /\ TaskOf(e) = t
        BY <1>2, <3>1 DEF EventsOf
      <4> QED
        BY <1>a, <2>1, <3>1, <4>1
    <3>2. CASE e \notin N
      <4>1. e \in log /\ e <= cursor[TaskOf(e)]
        BY <1>0, <2>1, <2>4, <3>2 DEF PageOK
      <4>2. TaskOf(e) \in Tasks /\ e \in Nat
        BY <1>0, <4>1, NumbersAre DEF ServerOK
      <4> QED
        BY <1>a, <2>2, <4>1, <4>2
    <3> QED
      BY <3>1, <3>2
  <2>5. base' \in [Tasks -> Nat] /\ \A u \in Tasks : base'[u] \in EventsOf(u)' \cup {0}
    BY <1>0, <1>2, <1>a DEF PageOK
  <2> QED
    BY <1>2, <1>a, <1>b, <2>1, <2>3, <2>4, <2>5 DEF PageOK
<1>3. overtaken \subseteq log
  BY <1>0 DEF PageOK
<1>4. CASE Deliver
  <2>1. PICK e \in log :
          /\ TaskOf(e) \in Tasks /\ Apply(TaskOf(e), {e})
          /\ {d \in {e} : Visible(d) /\ d > cursor[TaskOf(e)]} \subseteq EventsOf(TaskOf(e))
    BY <1>0, <1>4, Showing
  <2>2. base' = base /\ overtaken' = overtaken
    BY <1>4 DEF Deliver
  <2> QED
    BY <1>2, <1>3, <2>1, <2>2 DEF Apply
<1>5. ASSUME NEW t \in Tasks, ReplayEvents(t)
      PROVE  PageOK'
  <2>1. /\ t \in work.task /\ Apply(t, work.batch \cup ThePage) /\ base' = base
        /\ overtaken' = overtaken
    BY <1>5 DEF ReplayEvents
  <2>2. {d \in work.batch \cup ThePage : Visible(d) /\ d > cursor[t]} \subseteq EventsOf(t)
    BY <1>0, <2>1, Showing
  <2> QED
    BY <1>2, <1>3, <2>1, <2>2 DEF Apply
<1>6. ASSUME NEW t \in Tasks, ReplayApprovals(t)
      PROVE  PageOK'
  <2>1. /\ t \in work.task /\ shown' = Bumped(Found) /\ base' = base
        /\ cursor' = [cursor EXCEPT ![t] = Max(Found \cup {@})]
        /\ overtaken' \subseteq overtaken \cup EventsOf(t)
    BY <1>6 DEF ReplayApprovals, Found
  <2>2. Found \subseteq EventsOf(t) /\ EventsOf(t) \subseteq log
    BY <1>0, <2>1, Showing, NumbersAre
  <2> QED
    BY <1>2, <1>3, <2>1, <2>2
<1>7. CASE EstablishBaseline
  <2>1. /\ work.pc = "baseline" /\ base' = cursor' /\ UNCHANGED <<shown, overtaken>>
        /\ cursor' = [t \in Tasks |-> IF t \in DOMAIN work.read THEN Max({cursor[t], work.read[t]})
                                      ELSE cursor[t]]
    BY <1>7 DEF EstablishBaseline, Running
  <2>2. ASSUME NEW t \in Tasks
        PROVE  /\ cursor'[t] \in EventsOf(t) \cup {0} /\ cursor'[t] \in Nat
               /\ cursor[t] \in Nat /\ cursor[t] <= cursor'[t]
    <3>0. cursor[t] \in EventsOf(t) \cup {0} /\ cursor[t] \in Nat /\ EventsOf(t) \subseteq log
      BY <1>0, NumbersAre DEF PageOK
    <3>1. CASE t \in DOMAIN work.read
      <4>1. work.read[t] \in EventsOf(t) \cup {0}
        BY <1>0, <2>1, <3>1 DEF WorkOK
      <4>2. PICK m : m = Max({cursor[t], work.read[t]})
        OBVIOUS
      <4>3. {cursor[t], work.read[t]} \subseteq log \cup {0} /\ {cursor[t], work.read[t]} # {}
        BY <3>0, <4>1
      <4>4. m \in {cursor[t], work.read[t]} /\ m \in Nat /\ cursor[t] <= m
        BY <1>0, <4>2, <4>3, MaxOf
      <4>5. cursor'[t] = m
        BY <2>1, <3>1, <4>2
      <4> QED
        BY <3>0, <4>1, <4>4, <4>5
    <3>2. CASE t \notin DOMAIN work.read
      BY <2>1, <3>0, <3>2
    <3> QED
      BY <3>1, <3>2
  <2>3. cursor' \in [Tasks -> Nat]
    BY <2>1, <2>2
  <2>4. ASSUME NEW e \in Seqs, shown[e] > 0
        PROVE  e \in log' /\ e <= cursor'[TaskOf(e)']
    <3>1. e \in log /\ e <= cursor[TaskOf(e)]
      BY <1>0, <2>4 DEF PageOK
    <3>2. TaskOf(e) \in Tasks /\ e \in Nat
      BY <1>0, <3>1, NumbersAre DEF ServerOK
    <3> QED
      BY <1>a, <2>2, <3>1, <3>2
  <2>5. \A t \in Tasks : cursor'[t] \in EventsOf(t)' \cup {0} /\ cursor'[t] <= cursor'[t]
    BY <1>a, <2>2
  <2>6. shown' \in [Seqs -> 0..2]
    BY <1>0, <2>1 DEF PageOK
  <2> QED
    BY <1>3, <1>a, <1>b, <2>1, <2>3, <2>4, <2>5, <2>6 DEF PageOK
<1>8. CASE Lagged
  <2>1. /\ UNCHANGED <<cursor, shown, base>> /\ overtaken' \subseteq overtaken \cup Elements(bus)
    BY <1>8 DEF Lagged
  <2>2. Elements(bus) \subseteq log
    <3>1. DOMAIN bus = 1..Len(bus) /\ \A i \in 1..Len(bus) : bus[i] \in log
      BY <1>0, LenProperties, ElementOfSeq DEF WayOK
    <3> QED
      BY <3>1 DEF Elements
  <2> QED
    BY <1>1, <1>3, <2>1, <2>2
<1>9. ASSUME NEW t \in Tasks,
             ThreadBound(t) \/ WaitForThread(t) \/ ReadLatest(t) \/ \E k \in Kinds : TakeFrame(t, k)
      PROVE  PageOK'
  BY <1>1, <1>3, <1>9 DEF ThreadBound, WaitForThread, ReadLatest, TakeFrame
<1>10. ASSUME NEW e \in Seqs, ResolveApproval(e)
       PROVE  PageOK'
  BY <1>1, <1>3, <1>10 DEF ResolveApproval
<1>11. CASE Bridge \/ Connect \/ Ready \/ Forward \/ Disconnect \/ ServerRestart \/ UNCHANGED vars
  BY <1>1, <1>3, <1>11 DEF Bridge, PersistFrame, PersistFails, Broadcast, Connect, Ready, Forward,
     Disconnect, ServerRestart, vars
<1>12. CASE IndexProject \/ StartReplay \/ ReadOn \/ ListApprovals \/ Reindex \/ RequestFails
  BY <1>1, <1>3, <1>12 DEF IndexProject, StartReplay, ReadOn, ListApprovals, Reindex, RequestFails
<1> QED
  BY <1>4, <1>5, <1>6, <1>7, <1>8, <1>9, <1>10, <1>11, <1>12 DEF Next, Browser, Connection


-----------------------------------------------------------------------------
(* Types, durability and order. *)

\* The system starts with nothing taken, sent or shown.
LEMMA InitTyped == Init => Typed
<1> SUFFICES ASSUME Init
             PROVE  Typed
  OBVIOUS
<1>1. Len(frame) = 0 /\ frame \in Seq(Frames)
  BY EmptySeq DEF Init
<1>2. ServerOK
  BY <1>1, StreamConstants DEF Init, ServerOK, NoFrame, Numbers
<1>3. WayOK
  BY EmptySeq DEF Init, WayOK
<1>4. WorkOK
  BY DEF Init, WorkOK, NoWork, Labels
<1>5. PageOK
  <2>1. online \in BOOLEAN
    BY DEF Init
  <2>2. cursor \in [Tasks -> Nat] /\ base \in [Tasks -> Nat] /\ shown \in [Seqs -> 0..2]
    BY DEF Init
  <2>3. /\ \A t \in Tasks : cursor[t] = 0 /\ base[t] = 0
        /\ \A e \in Seqs : shown[e] = 0
    BY DEF Init
  <2>4. overtaken \subseteq log /\ drops \in 0..MaxDrops /\ failures \in 0..MaxFailures
    BY StreamConstants DEF Init
  <2> QED
    BY <2>1, <2>2, <2>3, <2>4 DEF PageOK
<1> QED
  BY <1>2, <1>3, <1>4, <1>5 DEF Typed

\* Every step keeps the types.
LEMMA NextTyped == Typed /\ [Next]_vars => Typed'
<1> SUFFICES ASSUME Typed, [Next]_vars
             PROVE  Typed'
  OBVIOUS
<1> QED
  BY ServerStep, WayStep, WorkStep, PageStep DEF Typed

\* Typed holds in every reachable state.
LEMMA AlwaysTyped == Spec => []Typed
  BY InitTyped, NextTyped, PTL DEF Spec

\* Types, and where each number may point: the bus, the chain of operations, the
\* cursors and the baseline only ever name frames the bridge has taken.
THEOREM TypeCorrect == Spec => []TypeOK
<1>1. ASSUME Typed
      PROVE  TypeOK
  <2>0. ServerOK /\ WayOK /\ WorkOK /\ PageOK
    BY <1>1 DEF Typed
  <2>1. /\ Numbers = DOMAIN frame /\ log \subseteq Numbers /\ Len(frame) \in Nat
        /\ \A e \in DOMAIN frame : frame[e] \in [task : Tasks, kind : Kinds]
    BY <2>0, NumbersAre DEF Frames, ServerOK
  <2>2. \A i \in DOMAIN bus : bus[i] \in log
    BY <2>0, LenProperties, ElementOfSeq DEF WayOK
  <2>3. \A i \in DOMAIN ops : ops[i] \in Delivery \cup Recovery
    BY <2>0, LenProperties, ElementOfSeq DEF WayOK
  <2>4. \A i \in DOMAIN ops : /\ ops[i].op \in {"deliver", "online", "resync"}
                              /\ ops[i].op = "deliver" => ops[i].seq \in DOMAIN frame
    BY <2>1, <2>3 DEF Delivery, Recovery
  <2>5. \A t \in Tasks : cursor[t] \in 0..Len(frame) /\ base[t] \in 0..Len(frame)
    <3>1. log \cup {0} \subseteq 0..Len(frame)
      BY <2>1 DEF Numbers
    <3>2. \A t \in Tasks : cursor[t] \in log \cup {0} /\ base[t] \in log \cup {0}
      BY <2>0, NumbersAre DEF PageOK
    <3> QED
      BY <3>1, <3>2
  <2>6. cursor \in [Tasks -> 0..Len(frame)] /\ base \in [Tasks -> 0..Len(frame)]
    BY <2>0, <2>5 DEF PageOK
  <2>7. threads \subseteq Tasks /\ known \subseteq threads /\ Len(frame) <= MaxFrames
        /\ bridge \in [seq : 0..Len(frame), at : {"idle", "taken", "persisted"}]
        /\ pending \subseteq DOMAIN frame /\ expected \subseteq log
    BY <2>0, <2>1 DEF ServerOK
  <2>8. /\ conn \in {"down", "subscribed", "ready"} /\ (conn = "down" => bus = <<>>)
        /\ work.pc # "idle" => ops # <<>>
    BY <2>0 DEF WayOK, WorkOK
  <2>9. online \in BOOLEAN /\ shown \in [Seqs -> 0..2] /\ overtaken \subseteq log
        /\ drops \in 0..MaxDrops /\ failures \in 0..MaxFailures
    BY <2>0 DEF PageOK
  <2> QED
    BY <2>1, <2>2, <2>4, <2>6, <2>7, <2>8, <2>9 DEF TypeOK
<1> QED
  BY AlwaysTyped, <1>1, PTL

\* Whatever the page was shown, and every cursor it would resume from, is in
\* run_events, wherever bridge, server, connection and requests fail.
THEOREM ShownIsDurable == Spec => []SeenIsDurable
<1>1. ASSUME Typed
      PROVE  SeenIsDurable
  BY <1>1 DEF Typed, PageOK, SeenIsDurable
<1> QED
  BY AlwaysTyped, <1>1, PTL

\* The steps that show something, and what is shown then.
LEMMA ShowsNew ==
    ASSUME Typed, [Next]_vars, NEW e \in Seqs, shown'[e] # shown[e]
    PROVE  /\ e \in log /\ shown'[e] > shown[e]
           /\ frame[e].kind = "approval" \/ cursor[TaskOf(e)] < e
<1>0. ServerOK /\ WayOK /\ WorkOK /\ PageOK
  BY DEF Typed
<1>1. ASSUME NEW t \in Tasks, NEW N, N \subseteq EventsOf(t), shown' = Bumped(N),
             cursor' = [cursor EXCEPT ![t] = Max(N \cup {@})]
      PROVE  e \in N /\ e \in log /\ TaskOf(e) = t /\ shown'[e] > shown[e]
  <2>1. e \in N /\ shown[e] <= shown'[e] /\ shown[e] \in 0..2 /\ shown'[e] \in 0..2
    BY <1>0, <1>1, Raised DEF PageOK
  <2> QED
    BY <1>1, <2>1 DEF EventsOf
<1>2. CASE Deliver
  <2>1. PICK d \in log :
          /\ TaskOf(d) \in Tasks /\ Apply(TaskOf(d), {d})
          /\ {c \in {d} : Visible(c) /\ c > cursor[TaskOf(d)]} \subseteq EventsOf(TaskOf(d))
    BY <1>0, <1>2, Showing
  <2>2. /\ e \in {c \in {d} : Visible(c) /\ c > cursor[TaskOf(d)]}
        /\ e \in log /\ TaskOf(e) = TaskOf(d) /\ shown'[e] > shown[e]
    BY <1>1, <2>1 DEF Apply
  <2> QED
    BY <1>0, <2>1, <2>2, NumbersAre DEF PageOK
<1>3. ASSUME NEW t \in Tasks, ReplayEvents(t)
      PROVE  /\ e \in log /\ shown'[e] > shown[e]
             /\ frame[e].kind = "approval" \/ cursor[TaskOf(e)] < e
  <2>1. t \in work.task /\ Apply(t, work.batch \cup ThePage)
    BY <1>3 DEF ReplayEvents
  <2>2. {d \in work.batch \cup ThePage : Visible(d) /\ d > cursor[t]} \subseteq EventsOf(t)
    BY <1>0, <2>1, Showing
  <2>3. /\ e \in {d \in work.batch \cup ThePage : Visible(d) /\ d > cursor[t]}
        /\ e \in log /\ TaskOf(e) = t /\ shown'[e] > shown[e]
    BY <1>1, <2>1, <2>2 DEF Apply
  <2> QED
    BY <1>0, <2>3, NumbersAre DEF PageOK
<1>4. ASSUME NEW t \in Tasks, ReplayApprovals(t)
      PROVE  e \in log /\ shown'[e] > shown[e] /\ frame[e].kind = "approval"
  <2>1. /\ t \in work.task /\ shown' = Bumped(Found)
        /\ cursor' = [cursor EXCEPT ![t] = Max(Found \cup {@})]
    BY <1>4 DEF ReplayApprovals, Found
  <2>2. Found \subseteq EventsOf(t)
    BY <1>0, <2>1, Showing
  <2>3. e \in Found /\ e \in log /\ shown'[e] > shown[e]
    BY <1>1, <2>1, <2>2
  <2> QED
    BY <2>3 DEF Found
<1>5. ASSUME NEW t \in Tasks,
             ThreadBound(t) \/ WaitForThread(t) \/ ReadLatest(t) \/ \E k \in Kinds : TakeFrame(t, k)
      PROVE  FALSE
  BY <1>5 DEF ThreadBound, WaitForThread, ReadLatest, TakeFrame
<1>6. ASSUME NEW d \in Seqs, ResolveApproval(d)
      PROVE  FALSE
  BY <1>6 DEF ResolveApproval
<1>7. ASSUME Bridge \/ Connection \/ Disconnect \/ ServerRestart \/ UNCHANGED vars
      PROVE  FALSE
  BY <1>7 DEF Bridge, PersistFrame, PersistFails, Broadcast, Connection, Connect, Ready, Forward,
     Lagged, Disconnect, ServerRestart, vars
<1>8. ASSUME IndexProject \/ EstablishBaseline \/ StartReplay \/ ReadOn \/ ListApprovals
             \/ Reindex \/ RequestFails
      PROVE  FALSE
  BY <1>8 DEF IndexProject, EstablishBaseline, StartReplay, ReadOn, ListApprovals, Reindex,
     RequestFails
<1> QED
  BY <1>2, <1>3, <1>4, <1>5, <1>6, <1>7, <1>8 DEF Next, Browser

\* An event that is not an approval is shown at most once and never after a later
\* one of its Task, however live delivery, replay and resync interleave.
THEOREM OrderKept == Spec => ShownInOrder
<1> DEFINE A == \A e \in DOMAIN frame : shown'[e] > shown[e] /\ frame[e].kind = "shown" =>
                   \A d \in DOMAIN frame : d >= e /\ TaskOf(d) = TaskOf(e) => shown[d] = 0
<1>1. ASSUME Typed, [Next]_vars
      PROVE  A
  <2> SUFFICES ASSUME NEW e \in DOMAIN frame, shown'[e] > shown[e], frame[e].kind = "shown",
                      NEW d \in DOMAIN frame, d >= e, TaskOf(d) = TaskOf(e), shown[d] # 0
               PROVE  FALSE
    OBVIOUS
  <2>0. ServerOK /\ PageOK /\ shown \in [Seqs -> 0..2]
    BY <1>1 DEF Typed, PageOK
  <2>1. /\ e \in Seqs /\ d \in Seqs /\ e \in Nat /\ d \in Nat
        /\ TaskOf(e) \in Tasks /\ e \in Numbers
    BY <2>0, NumbersAre
  <2>2. shown[e] \in 0..2 /\ shown[d] \in 0..2 /\ PageOK'
    BY <1>1, <2>0, <2>1, PageStep
  <2>3. shown'[e] \in 0..2
    BY <2>1, <2>2 DEF PageOK
  <2>4. shown'[e] # shown[e]
    BY <2>2, <2>3
  <2>5. cursor[TaskOf(e)] < e
    BY <1>1, <2>1, <2>4, ShowsNew
  <2>6. d <= cursor[TaskOf(d)] /\ cursor[TaskOf(e)] \in Nat
    BY <2>0, <2>1, <2>2 DEF PageOK
  <2> QED
    BY <2>1, <2>5, <2>6
<1>2. ASSUME Typed, Typed', [Next]_vars
      PROVE  [A]_vars
  BY <1>1, <1>2
<1> QED
  BY AlwaysTyped, <1>2, PTL DEF Spec, ShownInOrder


-----------------------------------------------------------------------------
(* Gaps. *)

\* An event that is durable keeps its number, Task and kind.
LEMMA Steady ==
    ASSUME ServerOK, Grown, NEW e \in log
    PROVE  /\ e \in Nat /\ e \in Seqs /\ e \in log' /\ TaskOf(e) \in Tasks
           /\ e \in EventsOf(TaskOf(e)) /\ TaskOf(e)' = TaskOf(e) /\ Visible(e)' = Visible(e)
<1>1. e \in Numbers /\ e \in log'
  BY DEF ServerOK, Grown
<1>2. frame'[e] = frame[e]
  BY <1>1 DEF Grown
<1>3. e \in Nat /\ e \in Seqs /\ TaskOf(e) \in Tasks
  BY <1>1, NumbersAre
<1> QED
  BY <1>1, <1>2, <1>3 DEF TaskOf, Visible, EventsOf

\* Operations behind the chain's end do not disturb what is queued.
LEMMA SavedStays ==
    ASSUME NEW e, \A j \in 1..Len(ops) : j \in 1..Len(ops') /\ ops'[j] = ops[j],
           Covers(e) => Covers(e)'
    PROVE  (\A i : Saved(e, i) => Saved(e, i)') /\ (Queued(e) => Queued(e)')
<1>1. ASSUME NEW j \in 1..Len(ops), Brings(j, e)
      PROVE  j \in 1..Len(ops') /\ Brings(j, e)'
  BY <1>1 DEF Brings, Recovery
<1> QED
  BY <1>1 DEF Saved, Queued

\* The end of an operation that brings nothing moves the others up.
LEMMA SavedShifts ==
    ASSUME WayOK, ops # <<>>, ops' = Tail(ops), work' = NoWork, NEW e, ~Brings(1, e)
    PROVE  /\ \A i \in Nat : Saved(e, i + 1) => Saved(e, i)'
           /\ Queued(e) => Queued(e)'
<1>0. /\ Len(ops) \in Nat /\ Len(ops') \in Nat
      /\ \A j \in 1..Len(ops) : j # 1 => j - 1 \in 1..Len(ops') /\ ops'[j - 1] = ops[j]
  BY Over, LenProperties DEF WayOK
<1>1. ASSUME NEW j \in 1..Len(ops), Brings(j, e)
      PROVE  j - 1 \in 1..Len(ops') /\ Brings(j - 1, e)' /\ j \in Nat
  <2>1. j # 1 /\ j \in Nat
    BY <1>0, <1>1
  <2>2. PICK k : k = j - 1
    OBVIOUS
  <2>3. k \in 1..Len(ops') /\ ops'[k] = ops[j]
    BY <1>0, <2>1, <2>2
  <2>4. Covers(e)'
    BY DEF Covers, NoWork
  <2>5. Brings(k, e)'
    BY <1>1, <2>1, <2>3, <2>4 DEF Brings, Recovery
  <2> QED
    BY <2>1, <2>2, <2>3, <2>5
<1>2. ASSUME NEW i \in Nat, Saved(e, i + 1)
      PROVE  Saved(e, i)'
  <2>1. PICK j \in 1..Len(ops) : j < i + 1 /\ Brings(j, e)
    BY <1>2 DEF Saved
  <2>2. PICK k : k = j - 1
    OBVIOUS
  <2>3. k \in 1..Len(ops') /\ Brings(k, e)' /\ k < i
    BY <1>1, <2>1, <2>2
  <2> QED
    BY <2>3 DEF Saved
<1>3. ASSUME Queued(e)
      PROVE  Queued(e)'
  <2>1. PICK j \in 1..Len(ops) : Brings(j, e)
    BY <1>3 DEF Queued
  <2>2. PICK k : k = j - 1
    OBVIOUS
  <2>3. k \in 1..Len(ops') /\ Brings(k, e)'
    BY <1>1, <2>1, <2>2
  <2> QED
    BY <2>3 DEF Queued
<1> QED
  BY <1>2, <1>3

\* What remains to be shown of a step that queues, or ends, operations.
LEMMA ComingNext ==
    ASSUME ServerOK, WayOK, WorkOK, [Next]_vars, NEW e \in log, cursor'[TaskOf(e)] < e,
           \A i \in 1..Len(ops'), d \in log :
              ops'[i] = [op |-> "deliver", seq |-> d] /\ Follows(d, e) => Saved(e, i)',
           \A k \in 1..Len(bus'), d \in log :
              bus'[k] = d /\ Follows(d, e) => OnBus(e, k)' \/ Queued(e)' \/ conn' = "subscribed",
           \/ bridge' = [seq |-> e, at |-> "persisted"]
           \/ InBus(e)' \/ Queued(e)' \/ conn' # "ready"
    PROVE  Coming(e)'
<1>0. ServerOK' /\ Grown /\ bus' \in Seq(log) /\ ops' \in Seq(Delivery \cup Recovery)
  BY ServerStep, WayNext
<1>1. cursor'[TaskOf(e)'] < e
  BY <1>0, Steady
<1>2. ASSUME NEW d \in log
      PROVE  Follows(d, e)' <=> Follows(d, e)
  BY <1>0, Steady DEF Follows
<1>3. ASSUME NEW i \in 1..Len(ops'), NEW d \in log', ops'[i] = [op |-> "deliver", seq |-> d],
             Follows(d, e)'
      PROVE  Saved(e, i)'
  <2>1. ops'[i] \in Delivery \cup Recovery
    BY <1>0, ElementOfSeq
  <2>2. d \in log
    BY <1>3, <2>1 DEF Delivery, Recovery
  <2> QED
    BY <1>2, <1>3, <2>2
<1>4. ASSUME NEW k \in 1..Len(bus'), NEW d \in log', bus'[k] = d, Follows(d, e)'
      PROVE  OnBus(e, k)' \/ Queued(e)' \/ conn' = "subscribed"
  <2>1. d \in log
    BY <1>0, <1>4, ElementOfSeq
  <2> QED
    BY <1>2, <1>4, <2>1
<1> QED
  BY <1>1, <1>3, <1>4 DEF Coming

\* The browser's steps, as far as they concern the chain.
LEMMA BrowserComes ==
    ASSUME Typed, [Next]_vars, BrowserStep, NEW e \in log, Coming(e), cursor'[TaskOf(e)] < e,
           \/ ops' = ops /\ (Covers(e) => Covers(e)')
           \/ ops # <<>> /\ Finish /\ ~Brings(1, e)
    PROVE  Coming(e)'
<1>0. ServerOK /\ WayOK /\ WorkOK
  BY DEF Typed
<1>1. UNCHANGED <<bus, conn, bridge, log>>
  BY <1>0, BrowserReads
<1>2. CASE ops' = ops /\ (Covers(e) => Covers(e)')
  <2>1. (\A i : Saved(e, i) => Saved(e, i)') /\ (Queued(e) => Queued(e)')
    BY <1>2, SavedStays
  <2>2. (InBus(e) => InBus(e)') /\ \A k : OnBus(e, k) => OnBus(e, k)'
    BY <1>1 DEF InBus, OnBus
  <2> QED
    BY <1>0, <1>1, <1>2, <2>1, <2>2, ComingNext DEF Coming
<1>3. CASE ops # <<>> /\ Finish /\ ~Brings(1, e)
  <2>0. ops' = Tail(ops) /\ work' = NoWork
    BY <1>3 DEF Finish
  <2>1. (\A i \in Nat : Saved(e, i + 1) => Saved(e, i)') /\ (Queued(e) => Queued(e)')
    BY <1>0, <1>3, <2>0, SavedShifts
  <2>2. (InBus(e) => InBus(e)') /\ \A k : OnBus(e, k) => OnBus(e, k)'
    BY <1>1 DEF InBus, OnBus
  <2>3. ASSUME NEW i \in 1..Len(ops'), NEW d \in log, ops'[i] = [op |-> "deliver", seq |-> d],
               Follows(d, e)
        PROVE  Saved(e, i)'
    <3>1. i + 1 \in 1..Len(ops) /\ ops[i + 1] = ops'[i] /\ i \in Nat
      BY <1>0, <1>3, <2>0, Over DEF WayOK
    <3>2. Saved(e, i + 1)
      BY <2>3, <3>1 DEF Coming
    <3> QED
      BY <2>1, <3>1, <3>2
  <2> QED
    BY <1>0, <1>1, <2>1, <2>2, <2>3, ComingNext DEF Coming
<1> QED
  BY <1>2, <1>3


\* A recovery that is queued brings every missing event.
LEMMA RecoveryQueued ==
    ASSUME Typed, [Next]_vars, NEW e \in log, Coming(e), NEW o \in Recovery,
           ops' = Append(ops, o), UNCHANGED <<work, cursor>>
    PROVE  Coming(e)'
<1>0. ServerOK /\ WayOK /\ WorkOK /\ Grown /\ ops \in Seq(Delivery \cup Recovery)
  BY ServerStep DEF Typed, WayOK
<1>1. /\ Len(ops) \in Nat /\ Len(ops') = Len(ops) + 1 /\ ops'[Len(ops) + 1] = o
      /\ \A j \in 1..Len(ops) : j \in 1..Len(ops') /\ ops'[j] = ops[j]
      /\ \A i \in 1..Len(ops') : i \in 1..Len(ops) \/ i = Len(ops) + 1
  BY <1>0, Longer
<1>2. Covers(e)' <=> Covers(e)
  BY <1>0, Steady DEF Covers
<1>3. \A i : Saved(e, i) => Saved(e, i)'
  BY <1>1, <1>2, SavedStays
<1>4. PICK n : n = Len(ops) + 1
  OBVIOUS
<1>5. n \in 1..Len(ops') /\ ops'[n] \in Recovery
  BY <1>1, <1>4
<1>6. n = 1 => Covers(e)
  <2>1. n = 1 => ops = <<>>
    BY <1>0, <1>1, <1>4, EmptySeq
  <2> QED
    BY <1>0, <2>1 DEF WorkOK, Covers
<1>7. Queued(e)'
  BY <1>2, <1>5, <1>6 DEF Queued, Brings, Recovery
<1>8. ASSUME NEW i \in 1..Len(ops'), NEW d \in log, ops'[i] = [op |-> "deliver", seq |-> d],
             Follows(d, e)
      PROVE  Saved(e, i)'
  <2>1. i # n
    BY <1>5, <1>8 DEF Recovery
  <2>2. i \in 1..Len(ops) /\ ops'[i] = ops[i]
    BY <1>1, <1>4, <2>1
  <2> QED
    BY <1>3, <1>8, <2>2 DEF Coming
<1>9. cursor'[TaskOf(e)] < e
  BY DEF Coming
<1> QED
  BY <1>0, <1>7, <1>8, <1>9, ComingNext

\* The steps of server and connection keep a missing event on its way.
LEMMA ServerComes ==
    ASSUME Typed, [Next]_vars, ~BrowserStep, NEW e \in log, Coming(e)
    PROVE  Coming(e)'
<1>0. ServerOK /\ WayOK /\ WorkOK /\ Grown
  BY ServerStep DEF Typed
<1>w. UNCHANGED <<work, cursor>>
  <2>1. ASSUME NEW t \in Tasks, ThreadBound(t) \/ \E k \in Kinds : TakeFrame(t, k)
        PROVE  UNCHANGED <<work, cursor>>
    BY <2>1 DEF ThreadBound, TakeFrame
  <2>2. ASSUME NEW d \in Seqs, ResolveApproval(d)
        PROVE  UNCHANGED <<work, cursor>>
    BY <2>2 DEF ResolveApproval
  <2>3. CASE Bridge \/ Connection \/ Disconnect \/ ServerRestart \/ UNCHANGED vars
    BY <2>3 DEF Bridge, PersistFrame, PersistFails, Broadcast, Connection, Connect, Ready, Forward,
       Lagged, Disconnect, ServerRestart, vars
  <2> QED
    BY <2>1, <2>2, <2>3 DEF Next, BrowserStep
<1>c. cursor'[TaskOf(e)] < e
  BY <1>w DEF Coming
<1>v. Covers(e) => Covers(e)'
  BY <1>0, <1>w, Steady DEF Covers
<1>1. ASSUME ops' = ops
      PROVE  /\ (\A i : Saved(e, i) => Saved(e, i)') /\ (Queued(e) => Queued(e)')
             /\ \A i \in 1..Len(ops'), d \in log :
                   ops'[i] = [op |-> "deliver", seq |-> d] /\ Follows(d, e) => Saved(e, i)'
  <2>1. (\A i : Saved(e, i) => Saved(e, i)') /\ (Queued(e) => Queued(e)')
    BY <1>1, <1>v, SavedStays
  <2> QED
    BY <1>1, <2>1 DEF Coming
<1>2. ASSUME bus' = bus
      PROVE  (InBus(e) => InBus(e)') /\ \A k : OnBus(e, k) => OnBus(e, k)'
  BY <1>2 DEF InBus, OnBus
<1>3. CASE ops' = ops /\ bus' = bus /\ conn' = conn
           /\ (bridge.at = "persisted" => bridge' = bridge \/ conn = "down")
  <2>1. bridge = [seq |-> e, at |-> "persisted"] =>
           bridge' = [seq |-> e, at |-> "persisted"] \/ conn' # "ready"
    BY <1>3
  <2> QED
    BY <1>0, <1>1, <1>2, <1>3, <1>c, <2>1, ComingNext DEF Coming
<1>4. CASE ops' = ops /\ (bus' = <<>> \/ bus' = bus) /\ conn' # "ready" /\ (conn' = "subscribed" \/ bus' = <<>>)
  <2>1. conn' = "subscribed" \/ 1..Len(bus') = {}
    BY <1>4, EmptySeq
  <2> QED
    BY <1>0, <1>1, <1>4, <1>c, <2>1, ComingNext
<1>5. CASE Ready \/ Lagged
  <2>1. PICK o \in Recovery : ops' = Append(ops, o)
    BY <1>5 DEF Ready, Lagged, Recovery
  <2> QED
    BY <1>w, <2>1, RecoveryQueued
<1>6. CASE Forward
  <2>0. bus \in Seq(log) /\ ops \in Seq(Delivery \cup Recovery)
    BY <1>0 DEF WayOK
  <2>1. /\ conn = "ready" /\ UNCHANGED <<conn, bridge>> /\ bus # <<>> /\ bus' = Tail(bus)
        /\ ops' = Append(ops, [op |-> "deliver", seq |-> Head(bus)])
    BY <1>6, EmptySeq DEF Forward
  <2>2. PICK h \in log : h = bus[1] /\ h = Head(bus)
    BY <2>0, <2>1, HeadTailProperties, Over
  <2>3. [op |-> "deliver", seq |-> h] \in Delivery \cup Recovery
    BY DEF Delivery
  <2>4. /\ Len(ops) \in Nat /\ Len(ops') = Len(ops) + 1
        /\ ops'[Len(ops) + 1] = [op |-> "deliver", seq |-> h]
        /\ \A j \in 1..Len(ops) : j \in 1..Len(ops') /\ ops'[j] = ops[j]
        /\ \A i \in 1..Len(ops') : i \in 1..Len(ops) \/ i = Len(ops) + 1
    BY <2>0, <2>1, <2>2, <2>3, Longer
  <2>5. (\A i : Saved(e, i) => Saved(e, i)') /\ (Queued(e) => Queued(e)')
    BY <1>v, <2>4, SavedStays
  <2>6. PICK n : n = Len(ops) + 1
    OBVIOUS
  <2>7. Queued(e) => Saved(e, n)
    BY <2>4, <2>6 DEF Queued, Saved
  <2>8. h = e => Queued(e)'
    BY <2>4 DEF Queued, Brings
  <2>9. /\ Len(bus) \in Nat /\ Len(bus') \in Nat /\ 1 \in 1..Len(bus)
        /\ \A k \in 1..Len(bus') : k + 1 \in 1..Len(bus) /\ bus'[k] = bus[k + 1]
        /\ \A k \in 1..Len(bus) : k # 1 => k - 1 \in 1..Len(bus') /\ bus'[k - 1] = bus[k]
    BY <2>0, <2>1, Over, LenProperties
  <2>10. ASSUME NEW i \in 1..Len(ops'), NEW d \in log, ops'[i] = [op |-> "deliver", seq |-> d],
                Follows(d, e)
         PROVE  Saved(e, i)'
    <3>1. CASE i \in 1..Len(ops)
      BY <2>4, <2>5, <2>10, <3>1 DEF Coming
    <3>2. CASE i = n
      <4>1. d = h
        BY <2>4, <2>6, <2>10, <3>2
      <4>2. ~OnBus(e, 1)
        BY <2>9 DEF OnBus
      <4>3. Queued(e)
        BY <2>1, <2>2, <2>9, <2>10, <4>1, <4>2 DEF Coming
      <4> QED
        BY <2>5, <2>7, <3>2, <4>3
    <3> QED
      BY <2>4, <2>6, <3>1, <3>2
  <2>11. ASSUME NEW j \in 1..Len(bus), bus[j] = e
         PROVE  Queued(e)' \/ (j - 1 \in 1..Len(bus') /\ bus'[j - 1] = e)
    BY <2>2, <2>8, <2>9, <2>11
  <2>12. InBus(e) => InBus(e)' \/ Queued(e)'
    BY <2>11 DEF InBus
  <2>13. ASSUME NEW k \in 1..Len(bus'), NEW d \in log, bus'[k] = d, Follows(d, e)
         PROVE  OnBus(e, k)' \/ Queued(e)'
    <3>1. k + 1 \in 1..Len(bus) /\ bus[k + 1] = d /\ k \in Nat
      BY <2>9, <2>13
    <3>2. OnBus(e, k + 1) \/ Queued(e)
      BY <2>1, <2>13, <3>1 DEF Coming
    <3>3. CASE OnBus(e, k + 1)
      <4>1. PICK j \in 1..Len(bus) : j < k + 1 /\ bus[j] = e
        BY <3>3 DEF OnBus
      <4>2. PICK i : i = j - 1
        OBVIOUS
      <4>3. i < k
        BY <2>9, <3>1, <4>1, <4>2
      <4> QED
        BY <2>11, <4>1, <4>2, <4>3 DEF OnBus
    <3> QED
      BY <2>5, <3>2, <3>3
  <2> QED
    BY <1>0, <1>c, <2>1, <2>5, <2>10, <2>12, <2>13, ComingNext DEF Coming
<1>7. CASE Broadcast /\ conn # "down" /\ bus' = Append(bus, bridge.seq) /\ bridge.seq \in log /\ conn' = conn
  <2>0. bus \in Seq(log) /\ ops' = ops /\ conn \in {"down", "subscribed", "ready"}
    BY <1>0, <1>7 DEF WayOK, Broadcast
  <2>1. PICK h \in log : h = bridge.seq
    BY <1>7
  <2>2. /\ Len(bus) \in Nat /\ Len(bus') = Len(bus) + 1 /\ bus'[Len(bus) + 1] = h
        /\ \A j \in 1..Len(bus) : j \in 1..Len(bus') /\ bus'[j] = bus[j]
        /\ \A k \in 1..Len(bus') : k \in 1..Len(bus) \/ k = Len(bus) + 1
    BY <1>7, <2>0, <2>1, Longer
  <2>3. (InBus(e) => InBus(e)') /\ \A k : OnBus(e, k) => OnBus(e, k)'
    BY <2>2 DEF InBus, OnBus
  <2>4. h = e => InBus(e)'
    BY <2>2 DEF InBus
  <2>5. PICK n : n = Len(bus) + 1
    OBVIOUS
  <2>6. InBus(e) => OnBus(e, n)
    BY <2>2, <2>5 DEF InBus, OnBus
  <2>7. ASSUME NEW k \in 1..Len(bus'), NEW d \in log, bus'[k] = d, Follows(d, e)
        PROVE  OnBus(e, k)' \/ Queued(e)' \/ conn' = "subscribed"
    <3>1. CASE k \in 1..Len(bus)
      BY <1>1, <1>7, <2>0, <2>2, <2>3, <2>7, <3>1 DEF Coming
    <3>2. CASE k = n
      <4>1. d = h /\ d # e
        BY <1>0, <2>2, <2>5, <2>7, <3>2, Steady DEF Follows
      <4>2. bridge # [seq |-> e, at |-> "persisted"]
        BY <2>1, <4>1
      <4>3. InBus(e) \/ Queued(e) \/ conn = "subscribed"
        BY <1>7, <2>0, <4>2 DEF Coming
      <4> QED
        BY <1>1, <1>7, <2>0, <2>3, <2>6, <3>2, <4>3
    <3> QED
      BY <2>2, <2>5, <3>1, <3>2
  <2>8. InBus(e)' \/ Queued(e)' \/ conn' # "ready"
    <3>1. bridge = [seq |-> e, at |-> "persisted"] => h = e
      BY <2>1
    <3> QED
      BY <1>1, <1>7, <2>0, <2>3, <2>4, <3>1 DEF Coming
  <2> QED
    BY <1>0, <1>1, <1>c, <2>0, <2>7, <2>8, ComingNext
<1>8. CASE Broadcast
  <2>1. ops' = ops /\ UNCHANGED conn /\ bridge.at = "persisted" /\ Sent(bridge.seq)
    BY <1>8 DEF Broadcast
  <2>2. bridge.seq \in log
    BY <1>0, <2>1 DEF ServerOK
  <2> QED
    BY <1>3, <1>7, <1>8, <2>1, <2>2 DEF Sent
<1>9. CASE PersistFrame \/ PersistFails
  BY <1>3, <1>9 DEF PersistFrame, PersistFails
<1>10. CASE Connect
  BY <1>4, <1>10 DEF Connect
<1>11. CASE Disconnect \/ ServerRestart
  BY <1>4, <1>11 DEF Disconnect, ServerRestart
<1>12. ASSUME NEW t \in Tasks, ThreadBound(t)
       PROVE  Coming(e)'
  BY <1>3, <1>12 DEF ThreadBound
<1>13. ASSUME NEW t \in Tasks, NEW k \in Kinds, TakeFrame(t, k)
       PROVE  Coming(e)'
  BY <1>3, <1>13 DEF TakeFrame, NoFrame
<1>14. ASSUME NEW d \in Seqs, ResolveApproval(d)
       PROVE  Coming(e)'
  BY <1>3, <1>14 DEF ResolveApproval
<1>15. CASE UNCHANGED vars
  BY <1>3, <1>15 DEF vars
<1> QED
  BY <1>5, <1>6, <1>8, <1>9, <1>10, <1>11, <1>12, <1>13, <1>14, <1>15
     DEF Next, BrowserStep, Bridge, Connection


\* A step makes no durable event missing: it knew of it before, or not at all.
LEMMA MissingBefore ==
    ASSUME Typed, [Next]_vars, NEW e \in log, Missing(e)'
    PROVE  Missing(e)
<1>0. ServerOK /\ WayOK /\ WorkOK /\ PageOK /\ Grown /\ PageOK'
  BY ServerStep, PageStep DEF Typed
<1>1. e \in Seqs /\ e \in Nat /\ TaskOf(e) \in Tasks /\ TaskOf(e)' = TaskOf(e) /\ Visible(e)' = Visible(e)
  BY <1>0, Steady
<1>2. e \in expected
  <2>1. CASE PersistFrame
    <3>1. expected' \subseteq expected \cup {bridge.seq} /\ bridge.at = "taken"
      BY <2>1 DEF PersistFrame
    <3>2. e < bridge.seq /\ e \in expected'
      BY <1>0, <3>1 DEF ServerOK, Missing
    <3> QED
      BY <1>1, <3>1, <3>2
  <2>2. CASE ~PersistFrame
    <3>1. expected' = expected
      BY <2>2 DEF Next, Browser, RequestFails, WaitForThread, Deliver, IndexProject, EstablishBaseline,
         StartReplay, ReadOn, ListApprovals, Reindex, ReadLatest, ReplayEvents, ReplayApprovals,
         ThreadBound, TakeFrame, ResolveApproval, Bridge, PersistFails, Broadcast,
         Connection, Connect, Ready, Forward, Lagged, Disconnect, ServerRestart, vars
    <3> QED
      BY <3>1 DEF Missing
  <2> QED
    BY <2>1, <2>2
<1>3. shown[e] = 0
  <2>1. shown'[e] = 0 /\ shown[e] \in 0..2
    BY <1>0, <1>1 DEF Missing, PageOK
  <2>2. shown'[e] # shown[e] => shown'[e] > shown[e]
    BY <1>1, ShowsNew
  <2> QED
    BY <2>1, <2>2
<1>4. overtaken \subseteq overtaken'
  BY DEF Next, Browser, RequestFails, WaitForThread, Deliver, IndexProject, EstablishBaseline,
     StartReplay, ReadOn, ListApprovals, Reindex, ReadLatest, ReplayEvents, ReplayApprovals,
     ThreadBound, TakeFrame, ResolveApproval, Bridge, PersistFrame, PersistFails, Broadcast,
     Connection, Connect, Ready, Forward, Lagged, Disconnect, ServerRestart, vars
<1>5. base[TaskOf(e)] < e
  <2>0. base'[TaskOf(e)] < e
    BY <1>1 DEF Missing
  <2>1. CASE EstablishBaseline
    <3>1. base' = cursor' /\ work.pc = "baseline"
          /\ cursor' = [t \in Tasks |-> IF t \in DOMAIN work.read THEN Max({cursor[t], work.read[t]})
                                        ELSE cursor[t]]
      BY <2>1 DEF EstablishBaseline, Running
    <3>2. PICK t \in Tasks : t = TaskOf(e)
      BY <1>1
    <3>3. base[t] <= cursor[t] /\ base[t] \in Nat /\ cursor[t] \in Nat /\ cursor'[t] \in Nat
          /\ cursor[t] \in log \cup {0}
      BY <1>0, NumbersAre DEF PageOK
    <3>4. cursor[t] <= cursor'[t]
      <4>1. CASE t \in DOMAIN work.read
        <5>1. work.read[t] \in log \cup {0}
          BY <1>0, <3>1, <4>1, NumbersAre DEF WorkOK
        <5>2. PICK S : S = {cursor[t], work.read[t]}
          OBVIOUS
        <5>3. S \subseteq log \cup {0} /\ S # {} /\ cursor[t] \in S
          BY <3>3, <5>1, <5>2
        <5>4. cursor[t] <= Max(S)
          BY <1>0, <5>3, MaxOf
        <5> QED
          BY <3>1, <4>1, <5>2, <5>4
      <4>2. CASE t \notin DOMAIN work.read
        BY <3>1, <3>3, <4>2
      <4> QED
        BY <4>1, <4>2
    <3> QED
      BY <1>1, <2>0, <3>1, <3>2, <3>3, <3>4
  <2>2. CASE ~EstablishBaseline
    <3>1. base' = base
      BY <2>2 DEF Next, Browser, RequestFails, WaitForThread, Deliver, IndexProject,
         StartReplay, ReadOn, ListApprovals, Reindex, ReadLatest, ReplayEvents, ReplayApprovals,
         ThreadBound, TakeFrame, ResolveApproval, Bridge, PersistFrame, PersistFails, Broadcast,
         Connection, Connect, Ready, Forward, Lagged, Disconnect, ServerRestart, vars
    <3> QED
      BY <2>0, <3>1
  <2> QED
    BY <2>1, <2>2
<1> QED
  BY <1>1, <1>2, <1>3, <1>4, <1>5 DEF Missing

\* Reading on, a replay leaves out nothing up to where it is.
LEMMA BatchStep ==
    ASSUME Typed, BatchInv, [Next]_vars
    PROVE  BatchInv'
<1>0. ServerOK /\ WayOK /\ WorkOK /\ PageOK /\ Grown
  BY ServerStep DEF Typed
<1>1. CASE UNCHANGED <<work, cursor>>
  <2> SUFFICES ASSUME work.pc = "replay", NEW t \in work.task, NEW e \in EventsOf(t)',
                      cursor[t] < e, e <= work.at
               PROVE  e \in work.batch
    BY <1>1 DEF BatchInv
  <2>1. CASE e \in log
    <3>1. e \in EventsOf(t)
      BY <1>0, <2>1, Steady DEF EventsOf
    <3> QED
      BY <3>1 DEF BatchInv
  <2>2. CASE e \notin log
    <3>1. e \in log'
      BY DEF EventsOf
    <3>2. PersistFrame
      BY <2>2, <3>1 DEF Next, Browser, RequestFails, WaitForThread, Deliver, IndexProject,
         EstablishBaseline, StartReplay, ReadOn, ListApprovals, Reindex, ReadLatest, ReplayEvents,
         ReplayApprovals, ThreadBound, TakeFrame, ResolveApproval, Bridge, PersistFails, Broadcast,
         Connection, Connect, Ready, Forward, Lagged, Disconnect, ServerRestart, vars
    <3>3. e = bridge.seq /\ bridge.at = "taken"
      BY <2>2, <3>1, <3>2 DEF PersistFrame
    <3>4. \A d \in log \cup {0} : d \in Nat /\ d < e
      <4>1. e \in Numbers /\ Numbers \subseteq Nat /\ \A d \in Numbers : 0 < d
        BY <1>0, <3>3, NumbersAre DEF ServerOK, Numbers
      <4> QED
        BY <1>0, <3>3, <4>1, NumbersAre DEF ServerOK
    <3>5. work.at < e /\ work.at \in Nat /\ e \in Nat
      <4>1. e \in Numbers /\ Numbers \subseteq Nat
        BY <1>0, <3>3, NumbersAre DEF ServerOK
      <4> QED
        BY <1>0, <3>4, <4>1 DEF WorkOK
    <3> QED
      BY <3>5
  <2> QED
    BY <2>1, <2>2
<1>2. CASE work'.pc # "replay"
  BY <1>2 DEF BatchInv
<1>3. ASSUME NEW T \in SUBSET Tasks, NextTask("replay", T, {}), PageOK'
      PROVE  BatchInv'
  <2>1. PICK t \in T : work' = [NoWork EXCEPT !.pc = "replay", !.todo = T \ {t}, !.task = {t},
                                            !.at = cursor'[t], !.ask = {}]
    BY <1>3 DEF NextTask
  <2>2. work'.task = {t} /\ work'.at = cursor'[t]
    BY <2>1 DEF NoWork
  <2>3. \A e \in EventsOf(t)' : ~(cursor'[t] < e /\ e <= cursor'[t])
    <3>1. cursor'[t] \in Nat
      BY <1>3 DEF PageOK
    <3>2. EventsOf(t)' \subseteq Nat
      <4>1. ServerOK'
        BY <1>0, ServerStep
      <4>2. log' \subseteq Nat
        BY <4>1, NumbersAre, StreamConstants DEF ServerOK, Numbers
      <4> QED
        BY <4>2 DEF EventsOf
    <3> QED
      BY <3>1, <3>2
  <2> QED
    BY <2>2, <2>3 DEF BatchInv
<1>4. CASE ReadOn
  <2>1. /\ FullPage /\ UNCHANGED <<log, frame, cursor>>
        /\ work' = [work EXCEPT !.batch = work.batch \cup ThePage, !.at = Max(ThePage)]
    BY <1>4 DEF ReadOn
  <2>2. PICK P, m : P = ThePage /\ m = Max(P)
    OBVIOUS
  <2>3. work'.batch = work.batch \cup P /\ work'.at = m /\ work'.pc = work.pc /\ work'.task = work.task
    BY <1>0, <2>1, <2>2 DEF WorkOK
  <2>4. \A t : EventsOf(t)' = EventsOf(t)
    BY <2>1 DEF EventsOf, TaskOf
  <2>5. P \subseteq log /\ P # {}
    BY <1>0, <2>1, <2>2, ThePageIs
  <2>6. m \in P /\ m \in Nat
    BY <1>0, <2>2, <2>5, MaxOf
  <2>7. ASSUME work.pc = "replay", NEW t \in work.task, NEW e \in EventsOf(t), cursor[t] < e, e <= m
        PROVE  e \in work.batch \cup P
    <3>1. P = Page(t, work.at) /\ work.at \in Nat /\ e \in Nat
      BY <1>0, <2>2, ThePageIs, NumbersAre
    <3>2. CASE e <= work.at
      BY <2>7, <3>2 DEF BatchInv
    <3>3. CASE work.at < e
      <4>1. e \notin P => m < e
        BY <1>0, <2>6, <3>1, <3>3, PageIs
      <4> QED
        BY <2>6, <2>7, <3>1, <4>1
    <3> QED
      BY <3>1, <3>2, <3>3
  <2> QED
    BY <2>1, <2>3, <2>4, <2>7 DEF BatchInv
<1>5. ASSUME work' \in {NoWork, [NoWork EXCEPT !.pc = "approvals"]}
      PROVE  work'.pc # "replay"
  BY <1>5 DEF NoWork
<1>p. PageOK' /\ known \subseteq Tasks /\ work.todo \subseteq Tasks
  BY <1>0, PageStep DEF WorkOK, ServerOK
<1>6. CASE StartReplay
  BY <1>2, <1>3, <1>5, <1>6, <1>p DEF StartReplay, ReplayOver, Finish
<1>7. ASSUME NEW t \in Tasks, ReplayEvents(t)
      PROVE  BatchInv'
  BY <1>2, <1>3, <1>5, <1>7, <1>p DEF ReplayEvents, ReplayOver, Finish
<1>8. CASE Deliver \/ RequestFails \/ EstablishBaseline
  BY <1>2, <1>5, <1>8 DEF Deliver, RequestFails, EstablishBaseline, Finish
<1>9. CASE IndexProject
  <2>1. work'.pc = "baseline"
    BY <1>9 DEF IndexProject, NoWork
  <2> QED
    BY <1>2, <2>1
<1>10. ASSUME NEW t \in Tasks, ReadLatest(t)
       PROVE  BatchInv'
  <2>1. work'.pc = "baseline"
    BY <1>0, <1>10 DEF ReadLatest, WorkOK, Running
  <2> QED
    BY <1>2, <2>1
<1>11. ASSUME NEW T, NEW k, NextTask("replayApprovals", T, k)
       PROVE  work'.pc # "replay"
  BY <1>11 DEF NextTask, NoWork
<1>12. CASE ListApprovals
  <2>1. work' = NoWork \/ work' = [NoWork EXCEPT !.pc = "reindex", !.ask = pending]
    BY <1>12 DEF ListApprovals, Finish
  <2>2. [NoWork EXCEPT !.pc = "reindex", !.ask = pending].pc = "reindex" /\ NoWork.pc = "idle"
    BY DEF NoWork
  <2>3. work'.pc # "replay"
    BY <2>1, <2>2
  <2> QED
    BY <1>2, <2>3
<1>13. CASE Reindex \/ \E t \in Tasks : ReplayApprovals(t)
  BY <1>2, <1>5, <1>11, <1>13 DEF Reindex, ReplayApprovals, Finish
<1>14. CASE ~Browser /\ ~RequestFails
  <2>1. UNCHANGED <<work, cursor>>
    BY <1>14 DEF Next, WaitForThread,
       ThreadBound, TakeFrame, ResolveApproval, Bridge, PersistFrame, PersistFails, Broadcast,
       Connection, Connect, Ready, Forward, Lagged, Disconnect, ServerRestart, vars
  <2> QED
    BY <1>1, <2>1
<1> QED
  BY <1>4, <1>6, <1>7, <1>8, <1>9, <1>10, <1>12, <1>13, <1>14 DEF Browser


\* What an idle, a listing or an approval-reading operation covers.
LEMMA CoversOnly ==
    ASSUME NEW e, work.pc \in {"approvals", "reindex", "replayApprovals"}
    PROVE  ~Covers(e)
  BY DEF Covers

\* The operation that runs is the first of the chain, a recovery.
LEMMA FirstBrings ==
    ASSUME WorkOK, NEW e, work.pc # "idle", ~Covers(e)
    PROVE  ops # <<>> /\ ~Brings(1, e)
<1>1. ops # <<>> /\ ops[1] \in Recovery
  BY DEF WorkOK
<1> QED
  BY <1>1 DEF Brings, Recovery

\* The next Task of a replay.
LEMMA NextCovers ==
    ASSUME ServerOK, Grown, NEW e \in log, NEW T, NextTask("replay", T, {}), TaskOf(e) \in T,
           cursor'[TaskOf(e)] < e
    PROVE  ops' = ops /\ Covers(e)'
<1>1. PICK t \in T :
        /\ work' = [NoWork EXCEPT !.pc = "replay", !.todo = T \ {t}, !.task = {t},
                                  !.at = cursor'[t], !.ask = {}]
        /\ ops' = ops
  BY DEF NextTask
<1>2. work'.pc = "replay" /\ work'.todo = T \ {t} /\ work'.task = {t} /\ work'.at = cursor'[t]
  BY <1>1 DEF NoWork
<1>3. TaskOf(e)' = TaskOf(e)
  BY Steady
<1> QED
  BY <1>1, <1>2, <1>3 DEF Covers

\* A browser's step that leaves an event missing leaves it on its way.
LEMMA BrowserGap ==
    ASSUME Typed, BatchInv, [Next]_vars, Browser, NEW e \in log,
           Missing(e), Coming(e), Missing(e)'
    PROVE  Coming(e)'
<1>0. ServerOK /\ WayOK /\ WorkOK /\ PageOK /\ Grown /\ BrowserStep
  BY ServerStep DEF Typed, BrowserStep
<1>a. PICK T \in Tasks : T = TaskOf(e)
  BY <1>0, Steady
<1>b. /\ e \in Nat /\ e \in Seqs /\ e \in EventsOf(T) /\ TaskOf(e)' = T /\ T \in known
      /\ cursor[T] < e /\ Visible(e) /\ shown'[e] = 0 /\ e \notin overtaken' /\ base'[T] < e
      /\ UNCHANGED <<log, frame>>
  <2>1. /\ e \in Nat /\ e \in Seqs /\ e \in EventsOf(T) /\ TaskOf(e)' = T /\ Visible(e)' = Visible(e)
    BY <1>0, <1>a, Steady
  <2>2. UNCHANGED <<log, frame>>
    BY <1>0, BrowserReads
  <2>3. T \in known
    BY <1>0, <1>a DEF ServerOK, Missing
  <2> QED
    BY <1>a, <2>1, <2>2, <2>3 DEF Missing, Coming
<1>1. ASSUME cursor' = cursor, ops' = ops, Covers(e) => Covers(e)'
      PROVE  Coming(e)'
  BY <1>0, <1>1, <1>a, <1>b, BrowserComes
<1>2. ASSUME cursor' = cursor, work.pc # "idle", ~Covers(e), ops' = ops \/ Finish
      PROVE  Coming(e)'
  BY <1>0, <1>2, <1>a, <1>b, BrowserComes, FirstBrings
<1>3. CASE Deliver
  <2>1. PICK d \in log :
          /\ ops # <<>> /\ ops[1] \in Delivery /\ d = ops[1].seq /\ TaskOf(d) \in Tasks
          /\ {c \in {d} : Visible(c) /\ c > cursor[TaskOf(d)]} \subseteq EventsOf(TaskOf(d))
          /\ Apply(TaskOf(d), {d})
    BY <1>0, <1>3, Showing
  <2>2. PICK N : N = {c \in {d} : Visible(c) /\ c > cursor[TaskOf(d)]}
    OBVIOUS
  <2>3. /\ \A u \in Tasks : u # TaskOf(d) => cursor'[u] = cursor[u]
        /\ cursor'[TaskOf(d)] \in N \cup {cursor[TaskOf(d)]}
        /\ \A c \in N : shown'[c] > 0
    <3>1. shown' = Bumped(N) /\ cursor' = [cursor EXCEPT ![TaskOf(d)] = Max(N \cup {@})]
      BY <2>1, <2>2 DEF Apply
    <3> QED
      BY <1>0, <2>1, <2>2, <3>1, Raised
  <2>4. d # e
    <3>1. d = e => e \in N
      <4>1. d = e => e > cursor[TaskOf(d)]
        BY <1>0, <1>a, <1>b DEF PageOK
      <4> QED
        BY <1>b, <2>2, <4>1
    <3> QED
      BY <1>b, <2>3, <3>1
  <2>5. ops[1] = [op |-> "deliver", seq |-> d]
    BY <2>1 DEF Delivery
  <2>6. ~Follows(d, e)
    <3>1. 1 \in 1..Len(ops) /\ ~Saved(e, 1)
      <4>1. 1 \in 1..Len(ops) /\ Len(ops) \in Nat
        BY <1>0, <2>1, Over, LenProperties DEF WayOK
      <4> QED
        BY <4>1 DEF Saved
    <3> QED
      BY <2>5, <3>1 DEF Coming
  <2>7. cursor'[T] < e
    <3>1. CASE TaskOf(d) = T
      <4>1. d \in Nat /\ d < e
        BY <1>0, <1>a, <1>b, <2>4, <2>6, <3>1, Steady DEF Follows
      <4> QED
        BY <1>b, <2>2, <2>3, <3>1, <4>1
    <3>2. CASE TaskOf(d) # T
      BY <1>b, <2>3, <3>2
    <3> QED
      BY <3>1, <3>2
  <2>8. ~Brings(1, e) /\ Finish
    BY <1>3, <2>4, <2>5 DEF Brings, Recovery, Deliver
  <2> QED
    BY <1>0, <1>a, <2>1, <2>7, <2>8, BrowserComes
<1>4. CASE IndexProject
  <2>1. /\ cursor' = cursor /\ ops' = ops /\ T \in known'
        /\ work' = [NoWork EXCEPT !.pc = "baseline", !.todo = known', !.read = [t \in known' |-> 0]]
    BY <1>4, <1>b DEF IndexProject
  <2>2. work'.pc = "baseline" /\ T \in work'.todo
    BY <2>1 DEF NoWork
  <2> QED
    BY <1>1, <1>b, <2>1, <2>2 DEF Covers
<1>5. ASSUME NEW t \in Tasks, ReadLatest(t)
      PROVE  Coming(e)'
  <2>1. PICK n : n = LatestEventSequence(t)
    OBVIOUS
  <2>2. /\ work.pc = "baseline" /\ t \in work.todo /\ ops' = ops /\ cursor' = cursor
        /\ work' = [work EXCEPT !.todo = work.todo \ {t}, !.read = [work.read EXCEPT ![t] = n]]
    BY <1>5, <2>1 DEF ReadLatest, Running
  <2>3. t = T => e <= n
    <3>1. EventsOf(t) \cup {0} \subseteq log \cup {0} /\ EventsOf(t) \cup {0} # {}
      BY <1>0, NumbersAre
    <3> QED
      BY <1>0, <1>b, <2>1, <3>1, MaxOf DEF LatestEventSequence
  <2>4. /\ work'.pc = "baseline" /\ work'.todo = work.todo \ {t}
        /\ work'.read = [work.read EXCEPT ![t] = n] /\ t \in DOMAIN work.read
    BY <1>0, <2>2 DEF WorkOK
  <2>5. DOMAIN work'.read = DOMAIN work.read
        /\ \A u \in DOMAIN work.read : work'.read[u] = IF u = t THEN n ELSE work.read[u]
    BY <2>4
  <2>6. Covers(e) => Covers(e)'
    BY <1>a, <1>b, <2>2, <2>3, <2>4, <2>5 DEF Covers
  <2> QED
    BY <1>1, <2>2, <2>6
<1>6. CASE EstablishBaseline
  <2>1. /\ work.pc = "baseline" /\ work.todo = {} /\ base' = cursor' /\ ops' = ops
        /\ cursor' = [t \in Tasks |-> IF t \in DOMAIN work.read THEN Max({cursor[t], work.read[t]})
                                      ELSE cursor[t]]
    BY <1>6 DEF EstablishBaseline, Running
  <2>2. cursor'[T] < e
    BY <1>b, <2>1
  <2>3. ASSUME Covers(e)
        PROVE  FALSE
    <3>1. T \in DOMAIN work.read /\ e <= work.read[T] /\ work.read[T] \in EventsOf(T) \cup {0}
      BY <1>0, <1>a, <2>1, <2>3 DEF Covers, WorkOK
    <3>2. PICK S : S = {cursor[T], work.read[T]}
      OBVIOUS
    <3>3. S \subseteq log \cup {0} /\ S # {} /\ work.read[T] \in S
      BY <1>0, <3>1, <3>2, NumbersAre DEF PageOK
    <3>4. work.read[T] <= Max(S) /\ Max(S) \in Nat /\ work.read[T] \in Nat
      BY <1>0, <3>3, MaxOf, NumbersAre
    <3>5. cursor'[T] = Max(S)
      BY <2>1, <3>1, <3>2
    <3> QED
      BY <1>b, <2>2, <3>1, <3>4, <3>5
  <2> QED
    BY <1>0, <1>a, <2>1, <2>2, <2>3, BrowserComes
<1>7. CASE StartReplay
  <2>1. cursor' = cursor /\ NextTask("replay", known, {})
    BY <1>7, <1>b DEF StartReplay
  <2>2. ops' = ops /\ Covers(e)'
    BY <1>0, <1>a, <1>b, <2>1, NextCovers
  <2> QED
    BY <1>1, <2>1, <2>2
<1>8. CASE ReadOn
  <2>1. /\ FullPage /\ cursor' = cursor /\ ops' = ops /\ work.pc \in {"replay", "replayApprovals"}
        /\ work' = [work EXCEPT !.batch = work.batch \cup ThePage, !.at = Max(ThePage)]
    BY <1>8 DEF ReadOn
  <2>2. PICK P, m : P = ThePage /\ m = Max(P)
    OBVIOUS
  <2>3. /\ work'.batch = work.batch \cup P /\ work'.at = m /\ work'.pc = work.pc
        /\ work'.task = work.task /\ work'.todo = work.todo
    BY <1>0, <2>1, <2>2 DEF WorkOK
  <2>4. m \in P
    <3>1. P \subseteq log \cup {0} /\ P # {}
      BY <1>0, <2>1, <2>2, ThePageIs
    <3> QED
      BY <1>0, <2>2, <3>1, MaxOf
  <2>5. T \in work.task /\ work.at < e => e \in P \/ m < e
    BY <1>0, <1>b, <2>2, <2>4, ThePageIs, PageIs
  <2>6. Covers(e) => Covers(e)'
    BY <1>a, <1>b, <2>1, <2>3, <2>5 DEF Covers
  <2> QED
    BY <1>1, <2>1, <2>6
<1>9. ASSUME NEW t \in Tasks, ReplayEvents(t)
      PROVE  Coming(e)'
  <2>1. /\ work.pc = "replay" /\ t \in work.task /\ ~FullPage /\ Apply(t, work.batch \cup ThePage)
        /\ IF work.todo = {} THEN ReplayOver ELSE NextTask("replay", work.todo, {})
    BY <1>9 DEF ReplayEvents, Running
  <2>2. PICK N : N = {d \in work.batch \cup ThePage : Visible(d) /\ d > cursor[t]}
    OBVIOUS
  <2>3. /\ \A u \in Tasks : u # t => cursor'[u] = cursor[u]
        /\ \A c \in N : shown'[c] > 0
    <3>1. shown' = Bumped(N) /\ cursor' = [cursor EXCEPT ![t] = Max(N \cup {@})]
      BY <2>1, <2>2 DEF Apply
    <3>2. N \subseteq EventsOf(t)
      BY <1>0, <2>1, <2>2, Showing
    <3> QED
      BY <1>0, <3>1, <3>2, Raised
  <2>4. ASSUME t = T
        PROVE  FALSE
    <3>1. work.at \in Nat /\ ThePage = Page(t, work.at)
      BY <1>0, <2>1, ThePageIs
    <3>2. e <= work.at => e \in work.batch
      BY <1>b, <2>1, <2>4 DEF BatchInv
    <3>3. work.at < e => e \in ThePage
      BY <1>0, <1>b, <2>1, <2>4, <3>1, PageIs DEF FullPage
    <3>4. e \in work.batch \cup ThePage
      BY <1>b, <3>1, <3>2, <3>3
    <3>5. e \in N
      BY <1>0, <1>b, <2>2, <2>4, <3>4 DEF PageOK
    <3> QED
      BY <1>b, <2>3, <3>5
  <2>5. cursor'[T] < e
    BY <1>b, <2>3, <2>4
  <2>6. Covers(e) => T \in work.todo
    BY <1>0, <1>a, <2>1, <2>4 DEF Covers, WorkOK
  <2>7. CASE work.todo = {}
    <3>1. ~Covers(e) /\ ops # <<>> /\ ~Brings(1, e)
      BY <1>0, <2>1, <2>6, <2>7, FirstBrings
    <3> QED
      BY <1>0, <1>a, <2>1, <2>5, <2>7, <3>1, BrowserComes DEF ReplayOver
  <2>8. CASE work.todo # {} /\ Covers(e)
    <3>1. ops' = ops /\ Covers(e)'
      BY <1>0, <1>a, <2>1, <2>5, <2>6, <2>8, NextCovers
    <3> QED
      BY <1>0, <1>a, <2>5, <3>1, BrowserComes
  <2>9. CASE work.todo # {} /\ ~Covers(e)
    <3>1. ops' = ops
      BY <2>1, <2>9 DEF NextTask
    <3> QED
      BY <1>0, <1>a, <2>5, <2>9, <3>1, BrowserComes
  <2> QED
    BY <2>7, <2>8, <2>9
<1>10. CASE ListApprovals
  <2>1. cursor' = cursor /\ work.pc = "approvals" /\ (ops' = ops \/ Finish)
    BY <1>10 DEF ListApprovals, Running
  <2> QED
    BY <1>2, <2>1, CoversOnly
<1>11. CASE Reindex
  <2>1. cursor' = cursor /\ work.pc = "reindex" /\ (ops' = ops \/ Finish)
    BY <1>11 DEF Reindex, Running, NextTask
  <2> QED
    BY <1>2, <2>1, CoversOnly
<1>12. ASSUME NEW t \in Tasks, ReplayApprovals(t)
       PROVE  Coming(e)'
  <2>1. /\ work.pc = "replayApprovals" /\ t \in work.task /\ (ops' = ops \/ Finish)
        /\ shown' = Bumped(Found) /\ cursor' = [cursor EXCEPT ![t] = Max(Found \cup {@})]
        /\ overtaken' = overtaken \cup {d \in EventsOf(t) \ Found : cursor[t] < d /\ d < cursor'[t]}
    BY <1>12 DEF ReplayApprovals, Found, Running, NextTask
  <2>2. /\ \A u \in Tasks : u # t => cursor'[u] = cursor[u]
        /\ cursor'[t] \in Found \cup {cursor[t]} /\ cursor'[t] \in Nat
        /\ \A c \in Found : shown'[c] > 0
    <3>1. Found \subseteq EventsOf(t)
      BY <1>0, <2>1, Showing
    <3> QED
      BY <1>0, <2>1, <3>1, Raised
  <2>3. cursor'[T] < e
    <3>1. CASE t = T
      <4>1. e \notin Found
        BY <1>b, <2>2
      <4>2. cursor'[t] # e
        BY <1>0, <1>b, <2>2, <3>1, <4>1 DEF PageOK
      <4>3. ~(e < cursor'[t])
        BY <1>b, <2>1, <3>1, <4>1
      <4> QED
        BY <1>b, <2>2, <3>1, <4>2, <4>3
    <3>2. CASE t # T
      BY <1>b, <2>2, <3>2
    <3> QED
      BY <3>1, <3>2
  <2>4. ~Covers(e) /\ ops # <<>> /\ ~Brings(1, e)
    BY <1>0, <2>1, CoversOnly, FirstBrings
  <2> QED
    BY <1>0, <1>a, <2>1, <2>3, <2>4, BrowserComes
<1> QED
  BY <1>3, <1>4, <1>5, <1>6, <1>7, <1>8, <1>9, <1>10, <1>11, <1>12 DEF Browser

\* Every step keeps GapInv.
LEMMA GapStep ==
    ASSUME Typed, BatchInv, GapInv, [Next]_vars
    PROVE  GapInv'
<1> SUFFICES ASSUME failures' = 0, NEW e \in log', Missing(e)'
             PROVE  Coming(e)'
  BY DEF GapInv
<1>0. ServerOK /\ WayOK /\ WorkOK /\ PageOK /\ Grown /\ ServerOK'
  BY ServerStep DEF Typed
<1>1. failures = 0 /\ ~RequestFails
  <2>1. failures \in Nat
    BY <1>0, StreamConstants DEF PageOK
  <2>2. RequestFails => failures' = failures + 1
    BY DEF RequestFails
  <2>3. ~RequestFails => failures' = failures
    BY DEF Next, Browser, WaitForThread, Deliver, IndexProject, EstablishBaseline,
       StartReplay, ReadOn, ListApprovals, Reindex, ReadLatest, ReplayEvents, ReplayApprovals,
       ThreadBound, TakeFrame, ResolveApproval, Bridge, PersistFrame, PersistFails, Broadcast,
       Connection, Connect, Ready, Forward, Lagged, Disconnect, ServerRestart, vars
  <2> QED
    BY <2>1, <2>2, <2>3
<1>2. CASE e \in log
  <2>1. Missing(e) /\ Coming(e)
    BY <1>1, <1>2, MissingBefore DEF GapInv
  <2>2. CASE Browser
    BY <1>2, <2>1, <2>2, BrowserGap
  <2>3. CASE \E t \in Tasks : WaitForThread(t)
    <3>1. cursor' = cursor /\ ops' = ops /\ work' = work
      BY <2>3 DEF WaitForThread
    <3>2. (Covers(e) => Covers(e)') /\ cursor'[TaskOf(e)] < e /\ BrowserStep
      BY <1>0, <1>2, <2>1, <2>3, <3>1, Steady DEF Covers, Coming, BrowserStep
    <3> QED
      BY <1>2, <2>1, <3>1, <3>2, BrowserComes
  <2>4. CASE ~BrowserStep
    BY <1>2, <2>1, <2>4, ServerComes
  <2> QED
    BY <1>1, <2>2, <2>3, <2>4 DEF BrowserStep
<1>3. CASE e \notin log
  <2>1. PersistFrame
    BY <1>3 DEF Next, Browser, RequestFails, WaitForThread, Deliver, IndexProject,
       EstablishBaseline, StartReplay, ReadOn, ListApprovals, Reindex, ReadLatest, ReplayEvents,
       ReplayApprovals, ThreadBound, TakeFrame, ResolveApproval, Bridge, PersistFails, Broadcast,
       Connection, Connect, Ready, Forward, Lagged, Disconnect, ServerRestart, vars
  <2>2. /\ e = bridge.seq /\ bridge.at = "taken" /\ bridge' = [bridge EXCEPT !.at = "persisted"]
        /\ log' = log \cup {e} /\ UNCHANGED <<frame, ops, bus, cursor>>
    BY <1>3, <2>1 DEF PersistFrame
  <2>3. e \in Numbers /\ \A d \in log : d < e
    BY <1>0, <2>2 DEF ServerOK
  <2>4. e \in Nat /\ e > 0 /\ TaskOf(e) \in Tasks /\ log \subseteq Nat
    BY <1>0, <2>3, NumbersAre DEF Numbers
  <2>5. cursor'[TaskOf(e)'] < e
    <3>1. cursor[TaskOf(e)] \in log \cup {0} /\ TaskOf(e)' = TaskOf(e)
      BY <1>0, <2>2, <2>4, NumbersAre DEF PageOK, TaskOf
    <3> QED
      BY <2>2, <2>3, <2>4, <3>1
  <2>6. \A d \in log' : ~Follows(d, e)'
    BY <2>2, <2>3, <2>4 DEF Follows
  <2>7. bridge' = [seq |-> e, at |-> "persisted"]
    BY <1>0, <2>2 DEF ServerOK
  <2> QED
    BY <2>5, <2>6, <2>7 DEF Coming
<1> QED
  BY <1>2, <1>3

\* BatchInv and GapInv hold in every reachable state.
LEMMA AlwaysGapInv == Spec => [](Typed /\ BatchInv /\ GapInv)
<1>1. ASSUME Init
      PROVE  BatchInv /\ GapInv
  BY <1>1 DEF Init, BatchInv, GapInv, NoWork
<1>2. ASSUME Typed, BatchInv, GapInv, [Next]_vars
      PROVE  Typed' /\ BatchInv' /\ GapInv'
  BY <1>2, NextTyped, BatchStep, GapStep
<1> QED
  BY InitTyped, <1>1, <1>2, PTL DEF Spec

\* An event newer than the baseline that the cursor has passed was shown, unless a
\* request failed or the replay of pending approvals went past it: for any number
\* of Tasks and events, any bus and page size, whatever is lost or lags.
THEOREM GapsAreExplained == Spec => []GapsExplained
<1>1. ASSUME Typed, GapInv
      PROVE  GapsExplained
  <2> SUFFICES ASSUME NEW e \in Seqs, Skipped(e), e \notin overtaken, ~(failures > 0)
               PROVE  FALSE
    BY DEF GapsExplained
  <2>0. ServerOK /\ PageOK
    BY <1>1 DEF Typed
  <2>1. failures = 0
    BY <2>0, StreamConstants DEF PageOK
  <2>2. e \in log /\ Missing(e) /\ e <= cursor[TaskOf(e)]
    BY <2>0 DEF Skipped, Missing, ServerOK
  <2>3. cursor[TaskOf(e)] < e
    BY <1>1, <2>1, <2>2 DEF GapInv, Coming
  <2>4. e \in Nat /\ cursor[TaskOf(e)] \in Nat
    BY <2>0, <2>2, NumbersAre DEF PageOK, ServerOK
  <2> QED
    BY <2>2, <2>3, <2>4
<1> QED
  BY AlwaysGapInv, <1>1, PTL

=============================================================================
