------------------------ MODULE ProviderServiceProofs ------------------------
(***************************************************************************)
(* Proofs about ProviderService, for every set of Providers, clients and   *)
(* keys: type correctness, the agreement of the stored keys with the       *)
(* environment and with the catalog between operations, and the soundness  *)
(* of the catalog by itself.                                               *)
(***************************************************************************)
EXTENDS ProviderService, TLAPS

\* A request from its arrival to its answer.
Labels == {"idle", "key", "env", "list", "activate", "fetch", "write", "relist",
           "restoreStore", "restoreEnv"}
OpType ==
    [pc : Labels, kind : Locked \cup {"none", "select"}, id : All \cup {None},
     cred : Credentials \cup {"preserve"}, key : Keys \cup {None}, prev : Keys \cup {None},
     fetched : All \cup {None}, applied : BOOLEAN, stale : BOOLEAN]

\* What a request may be at each of its steps.
Shape(o) ==
    /\ o.pc = "idle" => o = Idle
    /\ o.pc # "idle" => o.kind # "none" /\ o.id \in All
    /\ o.kind \in Locked => o.id \in Providers
    /\ o.pc \in {"key", "env", "relist", "restoreStore", "restoreEnv"} => Keyed(o)
    /\ o.pc \in {"activate", "fetch"} => o.kind = "refresh_models"
    /\ o.kind = "delete" => o.cred = "preserve"
    /\ o.key # None => o.kind = "upsert" /\ o.cred = "managed"
    /\ o.applied => o.pc \in {"relist", "restoreStore", "restoreEnv"}
    /\ o.pc = "relist" => o.applied

\* The requests and the mutex.
OpsOK ==
    /\ op \in [Clients -> OpType]
    /\ lock \in Clients \cup {None}
    /\ \A c \in Clients : Shape(op[c]) /\ ((op[c].kind \in Locked) = (lock = c))

\* The catalog, the keys and what is noted of them.
RowsOK ==
    /\ catalog \in [Providers -> {"absent"} \cup Credentials]
    /\ models \in [Providers -> All \cup {None}]
    /\ current \in All
    /\ store \in [Providers -> Keys \cup {None}] /\ env \in [Providers -> Keys \cup {None}]
    /\ doubtful \subseteq Providers /\ unrestored \subseteq Providers
    /\ byName \subseteq Providers
    /\ raced \subseteq {"current", "models"}

\* TypeOK and more: the part of the invariant every proof starts from.
Typed == RowsOK /\ OpsOK

\* The two properties, for one Provider.
EnvAgrees(p) == env[p] = store[p] \/ p \in unrestored
CatalogAgrees(p) == ((store[p] # None) = Promised(p)) \/ p \in doubtful

\* How far an operation on a key has come: which key is stored, whether the
\* environment has it, and what the catalog says of the one it replaced.
Phase(o) ==
    LET p == o.id IN
    /\ o.pc = "key" => EnvAgrees(p) /\ CatalogAgrees(p)
    /\ o.pc \in {"env", "list", "write", "relist", "restoreStore"} => store[p] = o.key
    /\ o.pc = "restoreEnv" => store[p] = o.prev
    /\ o.pc \in {"list", "write", "relist"} => EnvAgrees(p)
    /\ o.pc # "key" /\ ~o.applied =>
           ((o.prev # None) = Promised(p)) \/ p \in doubtful
    /\ o.applied => (o.key # None) = Promised(p)

\* The inductive invariant of the keys.
KeyInv ==
    /\ \A c \in Clients : Keyed(op[c]) => Phase(op[c])
    /\ EnvironmentMatchesStore
    /\ CatalogMatchesStore

\* What an operation knows of the catalog it has read: all of it under the mutex,
\* else as long as nobody has written since.
Informed(o) ==
    /\ o.pc \in {"activate", "fetch", "write"} /\ o.kind \in Locked /\ ~Keyed(o)
           => o.id \in Present
    /\ o.pc = "write" /\ o.kind = "select" /\ ~o.stale => o.id \in Present
    /\ o.pc = "write" /\ o.kind = "delete" /\ ~o.stale => current # o.id
    /\ o.pc = "fetch" /\ ~o.stale => current = o.id
    /\ o.pc = "write" /\ o.kind = "refresh_models" /\ ~o.stale => o.fetched = o.id

\* The inductive invariant of the catalog.
CatalogInv == (\A c \in Clients : Informed(op[c])) /\ CatalogSound

-----------------------------------------------------------------------------
(* Type correctness. *)

\* A request that has not arrived, and one that moves on.
LEMMA OpRows ==
    /\ Idle \in OpType /\ Shape(Idle) /\ ~Keyed(Idle)
    /\ \A o \in OpType, l \in Labels : [o EXCEPT !.pc = l] \in OpType
    /\ \A o \in OpType : [o EXCEPT !.stale = TRUE] \in OpType
BY ProviderConstants DEF Idle, OpType, Shape, Keyed, Labels, Locked, Credentials, All

\* Init is well typed.
LEMMA InitTyped == Init => Typed
<1> SUFFICES ASSUME Init PROVE Typed
  OBVIOUS
<1>1. Idle.id = None /\ Idle.kind \notin Locked
  BY DEF Idle, Locked
<1>2. OpsOK
  BY <1>1, OpRows, ProviderConstants DEF Init, OpsOK
<1> QED
  BY <1>2 DEF Init, Typed, RowsOK, Credentials, All

\* TypeOK follows.
LEMMA TypedImplies == Typed => TypeOK
BY DEF Typed, TypeOK, RowsOK, OpsOK, OpType

\* A step that ends the operation of c.
LEMMA EndTyped ==
    ASSUME OpsOK, NEW c \in Clients, End(c)
    PROVE  OpsOK'
<1>1. op' = [op EXCEPT ![c] = Idle] /\ lock' = IF lock = c THEN None ELSE lock
  BY DEF End
<1>2. Idle.kind \notin Locked
  BY DEF Idle, Locked
<1> QED
  BY <1>1, <1>2, OpRows, ProviderConstants DEF OpsOK

\* A step that changes the request of c and leaves its kind and the mutex alone.
LEMMA MoveTyped ==
    ASSUME OpsOK, NEW c \in Clients, NEW o \in OpType, op' = [op EXCEPT ![c] = o],
           UNCHANGED lock, o.kind = op[c].kind, Shape(o)
    PROVE  OpsOK'
BY DEF OpsOK

\* A step that only moves c on, to a label its request may be at.
LEMMA GotoTyped ==
    ASSUME OpsOK, NEW c \in Clients, NEW l \in Labels, Goto(c, l), UNCHANGED lock,
           Shape([op[c] EXCEPT !.pc = l])
    PROVE  OpsOK'
<1> DEFINE o == [op[c] EXCEPT !.pc = l]
<1>1. op' = [op EXCEPT ![c] = o]
  BY DEF Goto
<1>2. op[c] \in OpType
  BY DEF OpsOK
<1>3. o \in OpType /\ o.kind = op[c].kind
  BY <1>2, OpRows DEF OpType
<1>4. Shape(o)
  OBVIOUS
<1> HIDE DEF o
<1> QED
  BY <1>1, <1>3, <1>4, MoveTyped

\* An operation that fails rolls back or ends.
LEMMA FailTyped ==
    ASSUME OpsOK, NEW c \in Clients, ~At(c, "idle"), Fail(c)
    PROVE  OpsOK'
<1>1. op[c] \in OpType /\ Shape(op[c])
  BY DEF OpsOK
<1>2. Keyed(op[c]) => Shape([op[c] EXCEPT !.pc = "restoreStore"])
  BY <1>1 DEF Shape, OpType, Keyed, At
<1> QED
  BY <1>2, EndTyped, GotoTyped DEF Fail, Labels

\* A write that makes what others have read outdated changes nothing else of theirs.
LEMMA OutdatedRows ==
    ASSUME OpsOK, NEW c \in Clients
    PROVE  /\ Outdated(c) \in [Clients -> OpType]
           /\ Outdated(c)[c] = op[c]
           /\ \A d \in Clients : /\ Shape(Outdated(c)[d])
                                 /\ Outdated(c)[d].kind = op[d].kind
<1>1. \A d \in Clients : Outdated(c)[d] \in {op[d], [op[d] EXCEPT !.stale = TRUE]}
  BY DEF Outdated
<1>2. ASSUME NEW d \in Clients, op[d].pc \in {"activate", "fetch", "write"}
      PROVE  /\ Shape([op[d] EXCEPT !.stale = TRUE])
             /\ [op[d] EXCEPT !.stale = TRUE].kind = op[d].kind
  BY <1>2 DEF OpsOK, OpType, Shape, Keyed
<1> QED
  BY <1>1, <1>2, OpRows DEF Outdated, OpsOK

\* Such a write, when the operation of c goes on,
LEMMA WriteTyped ==
    ASSUME OpsOK, NEW c \in Clients, NEW o \in OpType, op' = [Outdated(c) EXCEPT ![c] = o],
           UNCHANGED lock, o.kind = op[c].kind, Shape(o)
    PROVE  OpsOK'
BY OutdatedRows DEF OpsOK

\* and when it ends.
LEMMA WriteEndTyped ==
    ASSUME OpsOK, NEW c \in Clients, op' = [Outdated(c) EXCEPT ![c] = Idle],
           lock' = IF lock = c THEN None ELSE lock
    PROVE  OpsOK'
<1>1. Idle.kind \notin Locked
  BY DEF Idle, Locked
<1> QED
  BY <1>1, OutdatedRows, OpRows, ProviderConstants DEF OpsOK

\* A request arrives at one of its first two steps.
LEMMA BeginTyped ==
    ASSUME OpsOK, NEW c \in Clients, Request(c) \/ Select(c)
    PROVE  OpsOK'
<1>1. PICK kind \in Locked \cup {"select"}, id \in All, cred \in Credentials \cup {"preserve"},
           key \in Keys \cup {None} :
          /\ Begin(c, kind, id, cred, key)
          /\ kind \in Locked => id \in Providers
          /\ kind = "delete" => cred = "preserve"
          /\ key # None => kind = "upsert" /\ cred = "managed"
  BY ProviderConstants DEF Request, Select, Locked, Credentials, All
<1> DEFINE n == [Idle EXCEPT !.kind = kind, !.id = id, !.cred = cred, !.key = key]
           o == [n EXCEPT !.pc = IF Keyed(n) THEN "key" ELSE "list"]
<1>2. op' = [op EXCEPT ![c] = o] /\ lock' = IF kind \in Locked THEN c ELSE lock
  BY <1>1 DEF Begin
<1>3. /\ o.kind = kind /\ o.id = id /\ o.cred = cred /\ o.key = key /\ o.prev = None
      /\ o.fetched = None /\ o.applied = FALSE /\ o.stale = FALSE
      /\ n.kind = kind /\ n.cred = cred
      /\ o.pc = IF Keyed(n) THEN "key" ELSE "list"
  BY DEF Idle
<1>4. o \in OpType
  BY <1>1, <1>3 DEF Idle, OpType, Labels
<1>a. Keyed(o) <=> Keyed(n)
  BY <1>3 DEF Keyed
<1>b. Shape(o)
  <2> HIDE DEF n, o
  <2> QED
    BY <1>1, <1>3, <1>a DEF Shape, Locked
<1>5. /\ kind \in Locked => lock = None
      /\ op[c].kind \notin Locked
  BY <1>1 DEF Begin, At, OpsOK, Shape, Idle, Locked
<1> HIDE DEF n, o
<1> QED
  BY <1>2, <1>3, <1>4, <1>b, <1>5, ProviderConstants DEF OpsOK

\* The request of c and what its label says of it.
LEMMA OpOf ==
    ASSUME OpsOK, NEW c \in Clients
    PROVE  /\ op[c] \in OpType /\ Shape(op[c])
           /\ Keyed(op[c]) => op[c].id \in Providers
           /\ ~At(c, "idle") => op[c].id \in All
BY DEF OpsOK, OpType, Shape, Keyed, Locked, At

\* A write of a key that may have been lost touches the key of its Provider only.
LEMMA PerhapsTyped ==
    ASSUME Typed, NEW c \in Clients, PerhapsWritten(c)
    PROVE  /\ store' \in [Providers -> Keys \cup {None}]
           /\ \A p \in Providers : p # op[c].id => store'[p] = store[p]
<1>1. op[c] \in OpType
  BY OpOf DEF Typed
<1>2. op[c].key \in Keys \cup {None} /\ op[c].prev \in Keys \cup {None}
  BY <1>1 DEF OpType
<1>3. PICK k \in Keys \cup {None} : store' \in {store, [store EXCEPT ![op[c].id] = k]}
  <2>1. Writing(c) \subseteq Keys \cup {None}
    BY <1>2 DEF Writing
  <2> QED
    BY <2>1 DEF PerhapsWritten
<1> QED
  BY <1>3 DEF Typed, RowsOK

\* The steps up to the catalog, and the roll-back.
LEMMA KeyStepTyped ==
    ASSUME Typed, NEW c \in Clients,
           \/ StoreKey(c) \/ StoreKeyFails(c) \/ SetEnvironment(c) \/ SetEnvironmentFails(c)
           \/ Succeed(c) \/ RelistFails(c)
           \/ RestoreStore(c) \/ RestoreEnvironment(c) \/ RestoreFails(c) \/ Dropped(c)
    PROVE  Typed'
<1> DEFINE o == op[c]
<1> USE OpOf DEF Typed
<1>1. CASE StoreKey(c)
  <2> DEFINE l == IF store[o.id] = None /\ o.key = None THEN "list" ELSE "env"
             n == [o EXCEPT !.prev = store[o.id], !.pc = l]
  <2>1. o \in OpType /\ Shape(o) /\ o.pc = "key" /\ Keyed(o) /\ o.id \in Providers
    BY <1>1 DEF StoreKey, At, Shape
  <2>2. store[o.id] \in Keys \cup {None}
    BY <2>1 DEF RowsOK
  <2>a. /\ n \in OpType /\ n.pc \in {"list", "env"}
        /\ n.kind = o.kind /\ n.id = o.id /\ n.cred = o.cred /\ n.key = o.key
        /\ n.applied = o.applied
    <3>1. l \in {"list", "env"}
      OBVIOUS
    <3> HIDE DEF l
    <3> QED
      BY <2>1, <2>2, <3>1 DEF OpType, Labels
  <2>3. n \in OpType /\ n.kind = o.kind /\ Shape(n)
    <3> HIDE DEF n
    <3> QED
      BY <2>1, <2>a DEF Shape, Keyed
  <2>4. op' = [op EXCEPT ![c] = n] /\ UNCHANGED lock
    BY <1>1 DEF StoreKey
  <2>5. OpsOK'
    <3> HIDE DEF n
    <3> QED
      BY <2>3, <2>4, MoveTyped
  <2> QED
    BY <1>1, <2>1, <2>5 DEF StoreKey, RowsOK, OpType
<1>2. CASE StoreKeyFails(c)
  <2>1. Shape(o) /\ Keyed(o) /\ o.id \in Providers
    BY <1>2 DEF StoreKeyFails, At, Shape
  <2> QED
    BY <1>2, <2>1, EndTyped, PerhapsTyped DEF StoreKeyFails, RowsOK
<1>3. CASE SetEnvironment(c)
  <2>1. o \in OpType /\ Shape(o) /\ o.pc = "env" /\ Keyed(o) /\ o.id \in Providers
    BY <1>3 DEF SetEnvironment, At, Shape
  <2>2. Shape([o EXCEPT !.pc = "list"])
    BY <2>1 DEF OpType, Shape, Keyed
  <2>3. OpsOK'
    BY <1>3, <2>2, GotoTyped DEF SetEnvironment, Labels
  <2> QED
    BY <1>3, <2>1, <2>3 DEF SetEnvironment, RowsOK, OpType
<1>4. CASE SetEnvironmentFails(c)
  <2>1. o \in OpType /\ Shape(o) /\ o.pc = "env" /\ Keyed(o)
    BY <1>4 DEF SetEnvironmentFails, At, Shape
  <2>2. Shape([o EXCEPT !.pc = "restoreStore"])
    BY <2>1 DEF OpType, Shape, Keyed
  <2>3. OpsOK'
    BY <1>4, <2>2, GotoTyped DEF SetEnvironmentFails, Labels
  <2> QED
    BY <1>4, <2>3 DEF SetEnvironmentFails, RowsOK
<1>5. CASE Succeed(c)
  BY <1>5, EndTyped DEF Succeed, RowsOK
<1>6. CASE RelistFails(c)
  <2>1. ~At(c, "idle")
    BY <1>6 DEF RelistFails, At
  <2> QED
    BY <1>6, <2>1, FailTyped DEF RelistFails, RowsOK
<1>7. CASE RestoreStore(c)
  <2>1. o \in OpType /\ Shape(o) /\ o.pc = "restoreStore" /\ Keyed(o) /\ o.id \in Providers
    BY <1>7 DEF RestoreStore, At, Shape
  <2>2. Shape([o EXCEPT !.pc = "restoreEnv"])
    BY <2>1 DEF OpType, Shape, Keyed
  <2>3. OpsOK'
    BY <1>7, <2>2, GotoTyped DEF RestoreStore, Labels
  <2> QED
    BY <1>7, <2>1, <2>3 DEF RestoreStore, RowsOK, OpType
<1>8. CASE RestoreEnvironment(c)
  <2>1. o \in OpType /\ Shape(o) /\ o.pc = "restoreEnv" /\ Keyed(o) /\ o.id \in Providers
    BY <1>8 DEF RestoreEnvironment, At, Shape
  <2> QED
    BY <1>8, <2>1, EndTyped DEF RestoreEnvironment, Doubt, RowsOK, OpType
<1>9. CASE RestoreFails(c)
  <2>1. Shape(o) /\ Keyed(o) /\ o.id \in Providers
    BY <1>9 DEF RestoreFails, At, Shape
  <2> QED
    BY <1>9, <2>1, EndTyped, PerhapsTyped DEF RestoreFails, RowsOK
<1>10. CASE Dropped(c)
  <2>1. o \in OpType /\ Shape(o)
    OBVIOUS
  <2>2. env' \in [Providers -> Keys \cup {None}]
    BY <1>10, <2>1 DEF Dropped, RowsOK, OpType, Shape, At
  <2> QED
    BY <1>10, <2>2, EndTyped, PerhapsTyped DEF Dropped, RowsOK
<1> QED
  BY <1>1, <1>2, <1>3, <1>4, <1>5, <1>6, <1>7, <1>8, <1>9, <1>10

\* The steps that read and write the catalog.
LEMMA CatalogStepTyped ==
    ASSUME Typed, NEW c \in Clients,
           \/ ReadCatalog(c) \/ AlreadyCurrent(c) \/ ReadCatalogFails(c)
           \/ Activate(c) \/ FetchModels(c) \/ RefreshFails(c)
           \/ WriteConfig(c) \/ WriteConfigFails(c)
    PROVE  Typed'
<1> DEFINE o == op[c]
<1> USE OpOf DEF Typed
<1>0. o \in OpType /\ Shape(o)
  OBVIOUS
<1>1. CASE ReadCatalog(c)
  <2>1. PICK l \in {"write", "fetch", "activate"} :
            Goto(c, l) /\ (l # "write" => o.kind = "refresh_models")
    <3> DEFINE l == CASE o.kind # "refresh_models" -> "write"
                      [] o.kind = "refresh_models" /\ current = o.id -> "fetch"
                      [] OTHER -> "activate"
    <3>1. Goto(c, l)
      BY <1>1 DEF ReadCatalog
    <3>2. l \in {"write", "fetch", "activate"} /\ (l # "write" => o.kind = "refresh_models")
      OBVIOUS
    <3> QED
      BY <3>1, <3>2
  <2>2. Shape([o EXCEPT !.pc = l])
    BY <1>0, <1>1, <2>1 DEF ReadCatalog, At, OpType, Shape, Keyed
  <2> QED
    BY <1>1, <2>1, <2>2, GotoTyped DEF ReadCatalog, Labels, RowsOK
<1>2. CASE AlreadyCurrent(c)
  BY <1>2, EndTyped DEF AlreadyCurrent, RowsOK
<1>3. CASE ReadCatalogFails(c) \/ WriteConfigFails(c)
  <2>1. ~At(c, "idle")
    BY <1>3 DEF ReadCatalogFails, WriteConfigFails, At
  <2> QED
    BY <1>3, <2>1, FailTyped DEF ReadCatalogFails, WriteConfigFails, RowsOK
<1>4. CASE Activate(c)
  <2> DEFINE n == [o EXCEPT !.pc = "fetch"]
  <2>1. n \in OpType /\ n.kind = o.kind /\ Shape(n)
    BY <1>0, <1>4 DEF Activate, At, OpType, Shape, Keyed, Labels
  <2>2. op' = [Outdated(c) EXCEPT ![c] = n] /\ UNCHANGED lock
    BY <1>4, OutdatedRows DEF Activate
  <2>3. OpsOK'
    <3> HIDE DEF n
    <3> QED
      BY <2>1, <2>2, WriteTyped
  <2>4. ~At(c, "idle")
    BY <1>4 DEF Activate, At
  <2> QED
    BY <1>4, <2>3, <2>4 DEF Activate, RowsOK
<1>5. CASE FetchModels(c)
  <2> DEFINE n == [o EXCEPT !.pc = "write", !.fetched = current]
  <2>1. n \in OpType /\ n.kind = o.kind /\ Shape(n)
    BY <1>0, <1>5 DEF FetchModels, At, OpType, Shape, Keyed, Labels, RowsOK
  <2>2. op' = [op EXCEPT ![c] = n] /\ UNCHANGED lock
    BY <1>5 DEF FetchModels
  <2>3. OpsOK'
    <3> HIDE DEF n
    <3> QED
      BY <2>1, <2>2, MoveTyped
  <2> QED
    BY <1>5, <2>3 DEF FetchModels, RowsOK
<1>6. CASE RefreshFails(c)
  <2>1. ~At(c, "idle")
    BY <1>6 DEF RefreshFails, At
  <2> QED
    BY <1>6, <2>1, EndTyped DEF RefreshFails, RowsOK
<1>7. CASE WriteConfig(c)
  <2>1. o.pc = "write" /\ o.id \in All /\ (o.kind \in Locked => o.id \in Providers)
    BY <1>0, <1>7 DEF WriteConfig, At, Shape
  <2>2. OpsOK'
    <3>1. CASE Keyed(o)
      <4>1. PICK l \in {"relist", "restoreStore"} :
                op' = [Outdated(c) EXCEPT ![c] = [o EXCEPT !.pc = l, !.applied = TRUE]]
        BY <1>7, <3>1, OutdatedRows DEF WriteConfig
      <4> DEFINE n == [o EXCEPT !.pc = l, !.applied = TRUE]
      <4>2. n \in OpType /\ n.kind = o.kind /\ Shape(n)
        BY <1>0, <2>1, <3>1 DEF OpType, Shape, Keyed, Labels
      <4> HIDE DEF n
      <4> QED
        BY <1>7, <3>1, <4>1, <4>2, WriteTyped DEF WriteConfig, n
    <3>2. CASE ~Keyed(o)
      BY <1>7, <3>2, WriteEndTyped DEF WriteConfig
    <3> QED
      BY <3>1, <3>2
  <2>3. PICK chosen \in BOOLEAN : Edits(o, chosen)
    BY <1>7 DEF WriteConfig
  <2>4. catalog' \in [Providers -> {"absent"} \cup Credentials]
    BY <1>0, <2>1, <2>3 DEF Edits, RowsOK, OpType, Locked
  <2>5. models' \in [Providers -> All \cup {None}]
    BY <1>0, <2>1, <2>3 DEF Edits, RowsOK, OpType, Locked, All
  <2>6. current' \in All
    BY <2>1, <2>3 DEF Edits, RowsOK
  <2>7. raced' \subseteq {"current", "models"}
    BY <1>7 DEF WriteConfig, Broken, RowsOK
  <2> QED
    BY <1>7, <2>2, <2>4, <2>5, <2>6, <2>7 DEF WriteConfig, RowsOK
<1> QED
  BY <1>1, <1>2, <1>3, <1>4, <1>5, <1>6, <1>7

\* The server stops.
LEMMA RestartTyped ==
    ASSUME Typed, ServerRestart
    PROVE  Typed'
<1>1. Idle.kind \notin Locked
  BY DEF Idle, Locked
<1>2. OpsOK'
  BY <1>1, OpRows, ProviderConstants DEF ServerRestart, OpsOK
<1>3. doubtful' \subseteq Providers
  BY OpOf DEF ServerRestart, Typed, RowsOK
<1> QED
  BY <1>2, <1>3 DEF ServerRestart, Typed, RowsOK

\* The rows, the requests and the mutex keep their types.
LEMMA StepTyped == Typed /\ [Next]_vars => Typed'
<1> SUFFICES ASSUME Typed, [Next]_vars PROVE Typed'
  OBVIOUS
<1>1. CASE UNCHANGED vars
  BY <1>1 DEF vars, Typed, RowsOK, OpsOK
<1>2. ASSUME NEW c \in Clients, Request(c) \/ Select(c) PROVE Typed'
  <2>1. RowsOK'
    BY <1>2 DEF Request, Select, Begin, Typed, RowsOK
  <2> QED
    BY <1>2, <2>1, BeginTyped DEF Typed
<1> QED
  BY <1>1, <1>2, KeyStepTyped, CatalogStepTyped, RestartTyped DEF Next, Step

\* Requests, keys and the catalog are well formed, and whoever changes them holds
\* the operation mutex.
THEOREM TypeCorrect == Spec => []TypeOK
<1>1. Spec => []Typed
  BY InitTyped, StepTyped, PTL DEF Spec
<1> QED
  BY <1>1, TypedImplies, PTL

-----------------------------------------------------------------------------
(* The keys: who holds the mutex is the only one at work on a key. *)

USE DEF Promised

\* At most one operation on a key is under way.
LEMMA OneAtWork ==
    ASSUME Typed, NEW c \in Clients, NEW d \in Clients, Keyed(op[c]), Keyed(op[d])
    PROVE  c = d
BY DEF Typed, OpsOK, Keyed, Locked

\* A step of c that leaves the keys, the catalog and what is noted of them alone,
\* or changes them for its own Provider only, disturbs no other Provider.
Elsewhere(p) ==
    /\ \A q \in Providers \ {p} : /\ store'[q] = store[q] /\ env'[q] = env[q]
                                  /\ catalog'[q] = catalog[q]
                                  /\ q \in byName' <=> q \in byName
                                  /\ q \in doubtful => q \in doubtful'
                                  /\ q \in unrestored => q \in unrestored'

\* An operation on a key goes on: its phase is all there is to show.
LEMMA KeyedGoesOn ==
    ASSUME Typed, Typed', KeyInv, NEW c \in Clients, Keyed(op[c]), Keyed(op'[c]),
           NEW q \in Providers, q = op[c].id, op'[c].id = q, Elsewhere(q),
           \A d \in Clients \ {c} : Keyed(op'[d]) => Keyed(op[d]),
           Phase(op[c])'
    PROVE  KeyInv'
<1>1. \A d \in Clients : Keyed(op'[d]) => d = c
  BY OneAtWork
<1>2. \A p \in Providers : Settled(p)' => p # q /\ Settled(p)
  BY <1>1, OneAtWork DEF Settled
<1>3. \A d \in Clients : Keyed(op'[d]) => Phase(op[d])'
  BY <1>1
<1>4. EnvironmentMatchesStore' /\ CatalogMatchesStore'
  BY <1>2 DEF KeyInv, EnvironmentMatchesStore, CatalogMatchesStore, Elsewhere
<1> QED
  BY <1>3, <1>4 DEF KeyInv

\* An operation on a key ends: its Provider must be in order.
LEMMA KeyedEnds ==
    ASSUME Typed, Typed', KeyInv, NEW c \in Clients, Keyed(op[c]), ~Keyed(op'[c]),
           NEW q \in Providers, q = op[c].id, Elsewhere(q),
           \A d \in Clients \ {c} : Keyed(op'[d]) => Keyed(op[d]),
           EnvAgrees(q)', CatalogAgrees(q)'
    PROVE  KeyInv'
<1>1. \A d \in Clients : ~Keyed(op'[d])
  BY OneAtWork
<1>2. \A p \in Providers \ {q} : Settled(p)
  BY OneAtWork DEF Settled
<1>3. \A p \in Providers \ {q} : EnvAgrees(p)' /\ CatalogAgrees(p)'
  BY <1>2 DEF KeyInv, EnvironmentMatchesStore, CatalogMatchesStore, EnvAgrees, CatalogAgrees,
     Elsewhere
<1> QED
  BY <1>1, <1>3 DEF KeyInv, EnvironmentMatchesStore, CatalogMatchesStore, EnvAgrees, CatalogAgrees

\* Two requests that differ in what they know of the catalog only.
SameKey(o, n) ==
    /\ n.pc = o.pc /\ n.kind = o.kind /\ n.id = o.id /\ n.cred = o.cred /\ n.key = o.key
    /\ n.prev = o.prev /\ n.applied = o.applied

\* A step that touches no key: whoever is at work on one is where it was.
LEMMA KeysUntouched ==
    ASSUME Typed, KeyInv, UNCHANGED <<catalog, store, env, doubtful, unrestored, byName>>,
           \A d \in Clients : SameKey(op[d], op'[d]) \/ (~Keyed(op[d]) /\ ~Keyed(op'[d]))
    PROVE  KeyInv'
<1>1. \A d \in Clients : Keyed(op'[d]) <=> Keyed(op[d])
  BY DEF SameKey, Keyed
<1>2. \A d \in Clients : Keyed(op'[d]) => Phase(op[d])' /\ op'[d].id = op[d].id
  BY <1>1 DEF KeyInv, Phase, EnvAgrees, CatalogAgrees, SameKey
<1>3. \A p \in Providers : Settled(p)' => Settled(p)
  BY <1>1, <1>2 DEF Settled
<1> QED
  BY <1>2, <1>3 DEF KeyInv, EnvironmentMatchesStore, CatalogMatchesStore

\* What a write tells the others does not concern their keys.
LEMMA OutdatedSameKey ==
    ASSUME Typed, NEW c \in Clients, NEW d \in Clients
    PROVE  SameKey(op[d], Outdated(c)[d])
<1>1. op[d] \in OpType
  BY DEF Typed, OpsOK
<1> QED
  BY <1>1 DEF Outdated, SameKey, OpType

\* A request arrives: it finds the mutex free, so no key is being changed.
LEMMA BeginKeys ==
    ASSUME Typed, Typed', KeyInv, NEW c \in Clients, Request(c) \/ Select(c)
    PROVE  KeyInv'
<1>1. /\ UNCHANGED <<catalog, store, env, doubtful, unrestored, byName>>
      /\ op[c].pc = "idle"
      /\ op'[c].kind \in Locked => lock = None
      /\ Keyed(op'[c]) => op'[c].pc = "key" /\ ~op'[c].applied
      /\ \A d \in Clients \ {c} : op'[d] = op[d]
  <2>1. PICK kind, id, cred, key : Begin(c, kind, id, cred, key)
    BY DEF Request, Select
  <2> DEFINE n == [Idle EXCEPT !.kind = kind, !.id = id, !.cred = cred, !.key = key]
             l == IF Keyed(n) THEN "key" ELSE "list"
             o == [n EXCEPT !.pc = l]
  <2>2. op'[c] = o /\ \A d \in Clients \ {c} : op'[d] = op[d]
    BY <2>1 DEF Begin, Typed, OpsOK
  <2>3. o.pc = l /\ o.kind = kind /\ o.cred = n.cred /\ n.kind = kind /\ o.applied = FALSE
    BY DEF Idle
  <2>4. Keyed(o) => l = "key"
    <3> HIDE DEF o, l
    <3>1. Keyed(o) => Keyed(n)
      BY <2>3 DEF Keyed
    <3> QED
      BY <3>1 DEF l
  <2> QED
    BY <2>1, <2>2, <2>3, <2>4 DEF Begin, At
<1>2. ~Keyed(op[c])
  BY <1>1, OpRows DEF Typed, OpsOK, Shape
<1>3. CASE ~Keyed(op'[c])
  BY <1>1, <1>2, <1>3, KeysUntouched DEF SameKey
<1>4. CASE Keyed(op'[c])
  <2>1. \A d \in Clients : ~Keyed(op[d])
    BY <1>1, <1>4, ProviderConstants DEF Keyed, Locked, Typed, OpsOK
  <2>2. \A p \in Providers : EnvAgrees(p) /\ CatalogAgrees(p)
    BY <2>1 DEF KeyInv, EnvironmentMatchesStore, CatalogMatchesStore, Settled, EnvAgrees,
       CatalogAgrees
  <2>3. \A d \in Clients : Keyed(op'[d]) => d = c
    BY <1>1, <2>1
  <2>4. \A p \in Providers : EnvAgrees(p)' /\ CatalogAgrees(p)'
    BY <1>1, <2>2 DEF EnvAgrees, CatalogAgrees
  <2>5. op'[c].id \in Providers
    BY <1>4, OpOf DEF Typed, OpsOK, Shape, Keyed, Locked
  <2>6. Phase(op[c])'
    BY <1>1, <1>4, <2>4, <2>5 DEF Phase
  <2> QED
    BY <2>3, <2>4, <2>6 DEF KeyInv, EnvironmentMatchesStore, CatalogMatchesStore, EnvAgrees,
       CatalogAgrees
<1> QED
  BY <1>3, <1>4

\* The operation that ends is c's; the others stay as they are.
LEMMA EndOps ==
    ASSUME Typed, NEW c \in Clients, End(c)
    PROVE  op'[c] = Idle /\ ~Keyed(op'[c]) /\ \A d \in Clients \ {c} : op'[d] = op[d]
BY OpRows DEF Typed, OpsOK, End

\* The operation that moves on is c's.
LEMMA GotoOps ==
    ASSUME Typed, NEW c \in Clients, NEW l, Goto(c, l)
    PROVE  /\ op'[c].pc = l /\ op'[c].kind = op[c].kind /\ op'[c].id = op[c].id
           /\ op'[c].cred = op[c].cred /\ op'[c].key = op[c].key /\ op'[c].prev = op[c].prev
           /\ op'[c].applied = op[c].applied
           /\ Keyed(op'[c]) <=> Keyed(op[c])
           /\ \A d \in Clients \ {c} : op'[d] = op[d]
<1>1. op[c] \in OpType
  BY DEF Typed, OpsOK
<1> QED
  BY <1>1 DEF Typed, OpsOK, OpType, Goto, Keyed

\* Every step of an operation on a key leads from its phase to the next, or ends
\* with the Provider in order.
LEMMA KeyedStep ==
    ASSUME Typed, Typed', KeyInv, NEW c \in Clients, Step(c), Keyed(op[c])
    PROVE  KeyInv'
<1> DEFINE o == op[c]
<1>1. PICK q \in Providers : q = o.id
  BY OpOf DEF Typed
<1>2. o \in OpType /\ Shape(o) /\ Phase(o)
  BY OpOf DEF Typed, KeyInv
<1>3. CASE StoreKey(c)
  <2>1. /\ op'[c].pc \in {"env", "list"} /\ (op'[c].pc = "list" => store[q] = None /\ o.key = None)
        /\ op'[c].id = q /\ op'[c].key = o.key /\ op'[c].prev = store[q] /\ ~op'[c].applied
        /\ Keyed(op'[c]) /\ \A d \in Clients \ {c} : op'[d] = op[d]
    <3> DEFINE l == IF store[q] = None /\ o.key = None THEN "list" ELSE "env"
               n == [o EXCEPT !.prev = store[q], !.pc = l]
    <3>1. op'[c] = n /\ \A d \in Clients \ {c} : op'[d] = op[d]
      BY <1>1, <1>3 DEF StoreKey, Typed, OpsOK
    <3>2. ~o.applied
      BY <1>2, <1>3 DEF StoreKey, At, Shape
    <3>3. l \in {"env", "list"} /\ (l = "list" => store[q] = None /\ o.key = None)
      OBVIOUS
    <3> HIDE DEF l
    <3>4. /\ n.pc = l /\ n.id = q /\ n.key = o.key /\ n.prev = store[q] /\ n.applied = o.applied
          /\ n.kind = o.kind /\ n.cred = o.cred
      BY <1>1, <1>2 DEF OpType
    <3> HIDE DEF n
    <3> QED
      BY <3>1, <3>2, <3>3, <3>4 DEF Keyed
  <2>2. EnvAgrees(q) /\ CatalogAgrees(q)
    BY <1>1, <1>2, <1>3 DEF StoreKey, At, Phase
  <2>3. /\ store'[q] = o.key /\ Elsewhere(q)
        /\ UNCHANGED <<catalog, byName, env, unrestored, doubtful>>
    BY <1>1, <1>3 DEF StoreKey, Typed, RowsOK, Elsewhere
  <2>4. Phase(op[c])'
    BY <2>1, <2>2, <2>3 DEF Phase, EnvAgrees, CatalogAgrees
  <2> QED
    BY <1>1, <2>1, <2>3, <2>4, KeyedGoesOn
<1>4. CASE StoreKeyFails(c)
  <2>1. UNCHANGED <<catalog, env, byName>> /\ PerhapsWritten(c) /\ EnvAgrees(q) /\ CatalogAgrees(q)
    BY <1>1, <1>2, <1>4 DEF StoreKeyFails, At, Phase
  <2>2. Elsewhere(q)
    BY <1>1, <1>4, <2>1, PerhapsTyped DEF StoreKeyFails, Elsewhere
  <2>3. EnvAgrees(q)' /\ CatalogAgrees(q)'
    <3>1. CASE store' = store
      BY <1>4, <2>1, <3>1 DEF StoreKeyFails, EnvAgrees, CatalogAgrees
    <3>2. CASE store' # store
      BY <1>1, <1>4, <3>2 DEF StoreKeyFails, EnvAgrees, CatalogAgrees
    <3> QED
      BY <3>1, <3>2
  <2> QED
    BY <1>1, <1>4, <2>2, <2>3, EndOps, KeyedEnds DEF StoreKeyFails
<1>5. CASE SetEnvironment(c)
  <2>1. Goto(c, "list") /\ o.pc = "env"
    BY <1>5 DEF SetEnvironment, At
  <2>2. Phase(op[c])' /\ Elsewhere(q)
    BY <1>1, <1>2, <1>5, <2>1, GotoOps DEF SetEnvironment, Phase, EnvAgrees, CatalogAgrees,
       Elsewhere, Typed, RowsOK, Shape
  <2> QED
    BY <1>1, <2>1, <2>2, GotoOps, KeyedGoesOn
<1>6. CASE SetEnvironmentFails(c)
  <2>1. Goto(c, "restoreStore") /\ o.pc = "env"
    BY <1>6 DEF SetEnvironmentFails, At
  <2>2. Phase(op[c])' /\ Elsewhere(q)
    BY <1>1, <1>2, <1>6, <2>1, GotoOps DEF SetEnvironmentFails, Phase, Elsewhere
  <2> QED
    BY <1>1, <2>1, <2>2, GotoOps, KeyedGoesOn
<1>7. CASE ReadCatalog(c)
  <2>2. o.kind # "refresh_models"
    BY DEF Keyed
  <2>3. Goto(c, "write") /\ o.pc = "list"
    BY <1>7, <2>2 DEF ReadCatalog, At
  <2>4. Phase(op[c])' /\ Elsewhere(q)
    BY <1>1, <1>2, <1>7, <2>3, GotoOps DEF ReadCatalog, Phase, EnvAgrees, Elsewhere
  <2> QED
    BY <1>1, <2>3, <2>4, GotoOps, KeyedGoesOn
<1>8. CASE ReadCatalogFails(c) \/ WriteConfigFails(c) \/ RelistFails(c)
  <2>1. /\ Goto(c, "restoreStore") /\ o.pc \in {"list", "write", "relist"}
        /\ UNCHANGED <<catalog, store, env, doubtful, unrestored, byName>>
    BY <1>8 DEF ReadCatalogFails, WriteConfigFails, RelistFails, Fail, At
  <2>2. Phase(op[c])' /\ Elsewhere(q)
    BY <1>1, <1>2, <2>1, GotoOps DEF Phase, Elsewhere
  <2> QED
    BY <1>1, <2>1, <2>2, GotoOps, KeyedGoesOn
<1>9. CASE WriteConfig(c)
  <2>1. /\ op'[c].pc \in {"relist", "restoreStore"} /\ op'[c].applied
        /\ op'[c].id = q /\ op'[c].key = o.key
        /\ Keyed(op'[c])
        /\ \A d \in Clients \ {c} : op'[d] = Outdated(c)[d]
    <3>1. PICK l \in {"relist", "restoreStore"} :
              op' = [Outdated(c) EXCEPT ![c] = [o EXCEPT !.pc = l, !.applied = TRUE]]
      BY <1>9, OutdatedRows DEF WriteConfig, Typed
    <3>2. op'[c] = [o EXCEPT !.pc = l, !.applied = TRUE]
      BY <3>1, OutdatedRows DEF Typed
    <3> QED
      BY <1>1, <1>2, <3>1, <3>2 DEF OpType, Keyed, Outdated
  <2>2. \A d \in Clients \ {c} : Keyed(op'[d]) => Keyed(op[d])
    BY <2>1, OutdatedSameKey DEF SameKey, Keyed
  <2>3. PICK chosen \in BOOLEAN : Edits(o, chosen)
    BY <1>9 DEF WriteConfig
  <2>a. byName' = IF ByName(o) THEN byName \cup {q} ELSE byName \ {q}
    BY <1>1, <1>9 DEF WriteConfig
  <2>b. catalog' = [catalog EXCEPT ![q] = IF o.kind = "delete" THEN "absent" ELSE o.cred]
    BY <1>1, <2>3 DEF Edits, Keyed
  <2>4. /\ (o.key # None) = Promised(q)'
        /\ \A p \in Providers \ {q} : catalog'[p] = catalog[p]
    BY <1>1, <1>2, <2>a, <2>b DEF ByName, Keyed, Shape, Typed, RowsOK, OpType
  <2>5. o.pc = "write" /\ UNCHANGED <<store, env, doubtful, unrestored>>
    BY <1>9 DEF WriteConfig, At
  <2>6. Elsewhere(q)
    BY <2>4, <2>5, <2>a DEF Elsewhere
  <2>7. Phase(op[c])'
    BY <1>1, <1>2, <2>1, <2>4, <2>5 DEF Phase, EnvAgrees
  <2> QED
    BY <1>1, <2>1, <2>2, <2>6, <2>7, KeyedGoesOn
<1>10. CASE Succeed(c)
  <2>1. EnvAgrees(q)' /\ CatalogAgrees(q)' /\ Elsewhere(q)
    BY <1>1, <1>2, <1>10 DEF Succeed, At, Shape, Phase, EnvAgrees, CatalogAgrees, Elsewhere
  <2> QED
    BY <1>1, <1>10, <2>1, EndOps, KeyedEnds DEF Succeed
<1>11. CASE RestoreStore(c)
  <2>1. Goto(c, "restoreEnv") /\ o.pc = "restoreStore"
    BY <1>11 DEF RestoreStore, At
  <2>2. Phase(op[c])' /\ Elsewhere(q)
    BY <1>1, <1>2, <1>11, <2>1, GotoOps DEF RestoreStore, Phase, Elsewhere, Typed, RowsOK
  <2> QED
    BY <1>1, <2>1, <2>2, GotoOps, KeyedGoesOn
<1>12. CASE RestoreEnvironment(c)
  <2>1. EnvAgrees(q)' /\ CatalogAgrees(q)' /\ Elsewhere(q)
    BY <1>1, <1>2, <1>12 DEF RestoreEnvironment, Doubt, At, Phase, EnvAgrees, CatalogAgrees,
       Elsewhere, Typed, RowsOK
  <2> QED
    BY <1>1, <1>12, <2>1, EndOps, KeyedEnds DEF RestoreEnvironment
<1>13. CASE RestoreFails(c)
  <2>1. EnvAgrees(q)' /\ CatalogAgrees(q)' /\ Elsewhere(q)
    BY <1>1, <1>13, PerhapsTyped DEF RestoreFails, EnvAgrees, CatalogAgrees, Elsewhere
  <2> QED
    BY <1>1, <1>13, <2>1, EndOps, KeyedEnds DEF RestoreFails
<1>14. CASE Dropped(c)
  <2>1. /\ UNCHANGED <<catalog, byName>> /\ PerhapsWritten(c)
        /\ env' = env \/ \E k : env' = [env EXCEPT ![q] = k]
        /\ unrestored' = unrestored \cup {q} /\ doubtful' = doubtful \cup {q}
        /\ End(c)
    BY <1>1, <1>14 DEF Dropped
  <2>2. EnvAgrees(q)' /\ CatalogAgrees(q)' /\ Elsewhere(q)
    BY <1>1, <2>1, PerhapsTyped DEF EnvAgrees, CatalogAgrees, Elsewhere, Typed, RowsOK
  <2> QED
    BY <1>1, <2>1, <2>2, EndOps, KeyedEnds
<1>15. ~AlreadyCurrent(c) /\ ~Activate(c) /\ ~FetchModels(c) /\ ~RefreshFails(c)
  BY <1>2 DEF AlreadyCurrent, Activate, FetchModels, RefreshFails, At, Shape, Keyed
<1> QED
  BY <1>3, <1>4, <1>5, <1>6, <1>7, <1>8, <1>9, <1>10, <1>11, <1>12, <1>13, <1>14, <1>15 DEF Step

\* The steps of the other operations touch no key.
LEMMA UnkeyedStep ==
    ASSUME Typed, Typed', KeyInv, NEW c \in Clients, Step(c), ~Keyed(op[c])
    PROVE  KeyInv'
<1> DEFINE o == op[c]
<1>1. o \in OpType /\ Shape(o)
  BY OpOf DEF Typed
<1>2. o.pc \notin {"key", "env", "relist", "restoreStore", "restoreEnv"}
  BY <1>1 DEF Shape
<1>3. CASE \/ AlreadyCurrent(c) \/ ReadCatalogFails(c) \/ RefreshFails(c) \/ WriteConfigFails(c)
           \/ Dropped(c)
  <2>1. End(c) /\ UNCHANGED <<catalog, store, env, doubtful, unrestored, byName>>
    BY <1>2, <1>3 DEF AlreadyCurrent, ReadCatalogFails, RefreshFails, WriteConfigFails, Dropped,
       PerhapsWritten, Writing, Fail, At
  <2> QED
    BY <2>1, EndOps, KeysUntouched DEF SameKey
<1>4. CASE ReadCatalog(c)
  <2>1. \E l : Goto(c, l)
    BY <1>4 DEF ReadCatalog
  <2> QED
    BY <1>4, <2>1, GotoOps, KeysUntouched DEF ReadCatalog, SameKey
<1>5. CASE FetchModels(c)
  <2>1. /\ op'[c] = [o EXCEPT !.pc = "write", !.fetched = current]
        /\ \A d \in Clients \ {c} : op'[d] = op[d]
    BY <1>5 DEF FetchModels, Typed, OpsOK
  <2>2. ~Keyed(op'[c])
    BY <1>1, <2>1 DEF Keyed, OpType
  <2> QED
    BY <1>5, <2>1, <2>2, KeysUntouched DEF FetchModels, SameKey
<1>6. CASE Activate(c)
  <2>1. /\ op'[c] = [o EXCEPT !.pc = "fetch"]
        /\ \A d \in Clients \ {c} : op'[d] = Outdated(c)[d]
    BY <1>6, OutdatedRows DEF Activate, Typed, Outdated
  <2>2. ~Keyed(op'[c])
    BY <1>1, <2>1 DEF Keyed, OpType
  <2> QED
    BY <1>6, <2>1, <2>2, OutdatedSameKey, KeysUntouched DEF Activate
<1>7. CASE WriteConfig(c)
  <2>1. op'[c] = Idle /\ \A d \in Clients \ {c} : op'[d] = Outdated(c)[d]
    BY <1>7 DEF WriteConfig, Outdated
  <2>2. UNCHANGED <<catalog, store, env, doubtful, unrestored, byName>>
    BY <1>7 DEF WriteConfig, Edits, Keyed
  <2> QED
    BY <2>1, <2>2, OpRows, OutdatedSameKey, KeysUntouched
<1> QED
  BY <1>2, <1>3, <1>4, <1>5, <1>6, <1>7 DEF Step, StoreKey, StoreKeyFails, SetEnvironment,
     SetEnvironmentFails, Succeed, RelistFails, RestoreStore, RestoreEnvironment, RestoreFails, At

\* Every step preserves the invariant of the keys.
LEMMA KeyInvStep ==
    ASSUME Typed, Typed', KeyInv, [Next]_vars
    PROVE  KeyInv'
<1>1. CASE UNCHANGED vars
  BY <1>1, KeysUntouched DEF vars, SameKey
<1>2. CASE ServerRestart
  <2>1. \A d \in Clients : ~Keyed(op'[d])
    BY <1>2, OpRows DEF ServerRestart
  <2>2. \A p \in Providers : p \notin doubtful' => Settled(p)
    BY <1>2 DEF ServerRestart, Settled
  <2> QED
    BY <1>2, <2>1, <2>2 DEF ServerRestart, KeyInv, EnvironmentMatchesStore, CatalogMatchesStore
<1> QED
  BY <1>1, <1>2, BeginKeys, KeyedStep, UnkeyedStep DEF Next

\* Initially no key is stored and nothing is under way.
LEMMA KeyInvInit == Init => KeyInv
BY OpRows DEF Init, KeyInv, EnvironmentMatchesStore, CatalogMatchesStore

\* set_secret_environment and its roll-back: between operations the Profile's
\* environment holds exactly the stored keys, whatever failed and whenever the
\* server stopped, but for the Providers whose roll-back failed, was not tried or was
\* dropped.
THEOREM EnvironmentAgrees == Spec => []EnvironmentMatchesStore
<1>1. Spec => []Typed
  BY InitTyped, StepTyped, PTL DEF Spec
<1>2. Spec => []KeyInv
  BY <1>1, KeyInvInit, KeyInvStep, PTL DEF Spec
<1>3. KeyInv => EnvironmentMatchesStore
  BY DEF KeyInv
<1> QED
  BY <1>2, <1>3, PTL

\* upsert and delete: between operations a key is stored exactly for the Providers
\* the catalog promises one for, but for those left in doubt.  An entry an upsert
\* wrote with the managed variable given by name promises none: upsert has deleted
\* the key.
THEOREM CatalogAgreesWithStore == Spec => []CatalogMatchesStore
<1>1. Spec => []Typed
  BY InitTyped, StepTyped, PTL DEF Spec
<1>2. Spec => []KeyInv
  BY <1>1, KeyInvInit, KeyInvStep, PTL DEF Spec
<1>3. KeyInv => CatalogMatchesStore
  BY DEF KeyInv
<1> QED
  BY <1>2, <1>3, PTL

-----------------------------------------------------------------------------
(* The catalog: what an operation has read holds until it writes, under the  *)
(* mutex or because nobody has written since.                                *)

\* A step of c that leaves the catalog alone.
LEMMA CatalogUntouched ==
    ASSUME CatalogInv, NEW c \in Clients, UNCHANGED <<catalog, models, current, raced>>,
           \A d \in Clients \ {c} : op'[d] = op[d], Informed(op[c])'
    PROVE  CatalogInv'
BY DEF CatalogInv, CatalogSound, CurrentExists, ModelsBelong, Informed, Present, Keyed

\* Away from the reads and writes of the catalog there is nothing to know.
LEMMA NothingToKnow ==
    ASSUME NEW o, o.pc \notin {"activate", "fetch", "write"}
    PROVE  Informed(o)
BY DEF Informed

\* A write by c: who has read the catalog without the mutex is outdated.
LEMMA OthersOutdated ==
    ASSUME Typed, CatalogInv, NEW c \in Clients,
           \A d \in Clients \ {c} : op'[d] = Outdated(c)[d],
           op[c].kind \in Locked \/ UNCHANGED catalog
    PROVE  \A d \in Clients \ {c} : Informed(op[d])'
<1> SUFFICES ASSUME NEW d \in Clients \ {c} PROVE Informed(op[d])'
  OBVIOUS
<1>1. op[d] \in OpType /\ op'[d] = Outdated(c)[d]
  BY DEF Typed, OpsOK
<1>2. CASE op[d].pc \notin {"activate", "fetch", "write"}
  BY <1>1, <1>2 DEF Outdated, Informed
<1>3. CASE op[d].pc \in {"activate", "fetch", "write"}
  <2>1. /\ op'[d].stale /\ op'[d].pc = op[d].pc /\ op'[d].kind = op[d].kind
        /\ op'[d].id = op[d].id /\ op'[d].cred = op[d].cred
    BY <1>1, <1>3 DEF Outdated, OpType
  <2>2. op[d].kind \in Locked => op[c].kind \notin Locked
    BY DEF Typed, OpsOK
  <2>3. Informed(op[d])
    BY DEF CatalogInv
  <2> QED
    BY <2>1, <2>2, <2>3 DEF Informed, Keyed, Present
<1> QED
  BY <1>2, <1>3

\* The steps that write the catalog or select a Provider.
LEMMA CatalogWrite ==
    ASSUME Typed, Typed', CatalogInv, NEW c \in Clients,
           Activate(c) \/ RefreshFails(c) \/ WriteConfig(c)
    PROVE  CatalogInv'
<1> DEFINE o == op[c]
<1>1. o \in OpType /\ Shape(o) /\ Informed(o)
  BY OpOf DEF Typed, CatalogInv
<1>2. CASE Activate(c)
  <2>1. /\ op'[c].pc = "fetch" /\ op'[c].kind = "refresh_models" /\ op'[c].id = o.id
        /\ \A d \in Clients \ {c} : op'[d] = Outdated(c)[d]
    <3>1. op'[c] = [o EXCEPT !.pc = "fetch"] /\ \A d \in Clients \ {c} : op'[d] = Outdated(c)[d]
      BY <1>2, OutdatedRows DEF Activate, Typed, Outdated
    <3> QED
      BY <1>1, <1>2, <3>1 DEF Activate, At, Shape, OpType
  <2>2. o.id \in Present /\ o.kind \in Locked
    BY <1>1, <1>2 DEF Activate, At, Informed, Shape, Keyed, Locked
  <2>3. \A d \in Clients : Informed(op[d])'
    BY <1>2, <2>1, <2>2, OthersOutdated DEF Activate, Informed, Present
  <2> QED
    BY <1>2, <2>2, <2>3 DEF Activate, CatalogInv, CatalogSound, CurrentExists, ModelsBelong,
       Present
<1>3. CASE RefreshFails(c)
  <2>1. o.id \in Present /\ o.kind \in Locked
    BY <1>1, <1>3 DEF RefreshFails, Informed, Shape, Keyed, Locked
  <2>2. End(c) /\ UNCHANGED <<catalog, models, raced>> /\ current' \in {current, o.id}
    BY <1>3 DEF RefreshFails
  <2>3. op'[c].pc = "idle" /\ \A d \in Clients \ {c} : op'[d] = op[d] /\ op[d].kind \notin Locked
    BY <2>1, <2>2, EndOps DEF Idle, Typed, OpsOK
  <2>4. ASSUME NEW d \in Clients PROVE Informed(op[d])'
    <3>1. CASE d = c
      BY <2>3, <3>1 DEF Informed
    <3>2. CASE d # c
      <4>1. Informed(op[d]) /\ Shape(op[d])
        BY OpOf DEF CatalogInv, Typed
      <4> QED
        BY <2>2, <2>3, <3>2, <4>1 DEF Informed, Present, Shape, Locked
    <3> QED
      BY <3>1, <3>2
  <2> QED
    BY <2>1, <2>2, <2>4 DEF CatalogInv, CatalogSound, CurrentExists, ModelsBelong, Present
<1>4. CASE WriteConfig(c)
  <2>1. /\ op'[c].pc \in {"idle", "relist", "restoreStore"}
        /\ \A d \in Clients \ {c} : op'[d] = Outdated(c)[d]
    <3>1. CASE Keyed(o)
      <4>1. PICK l \in {"relist", "restoreStore"} :
                op' = [Outdated(c) EXCEPT ![c] = [o EXCEPT !.pc = l, !.applied = TRUE]]
        BY <1>4, <3>1, OutdatedRows DEF WriteConfig, Typed
      <4> QED
        BY <1>1, <4>1 DEF Outdated, OpType
    <3>2. CASE ~Keyed(o)
      <4>1. op'[c] = Idle /\ \A d \in Clients \ {c} : op'[d] = Outdated(c)[d]
        BY <1>4, <3>2 DEF WriteConfig, Outdated
      <4> QED
        BY <4>1 DEF Idle
    <3> QED
      BY <3>1, <3>2
  <2>2. PICK chosen \in BOOLEAN : Edits(o, chosen)
    BY <1>4 DEF WriteConfig
  <2>3. o.kind \in Locked \/ UNCHANGED catalog
    BY <2>2 DEF Edits, Locked
  <2>4. \A d \in Clients : Informed(op[d])'
    BY <2>1, <2>3, OthersOutdated DEF Informed
  <2>5. o.pc = "write" /\ raced' = raced \cup Broken(o)
    BY <1>4 DEF WriteConfig, At
  <2>6. CurrentExists'
    <3>1. CASE o.stale
      BY <2>5, <3>1 DEF Broken, CurrentExists
    <3>2. CASE ~o.stale /\ o.kind = "delete"
      BY <1>1, <2>2, <2>5, <3>2 DEF Edits, Informed, CatalogInv, CatalogSound, CurrentExists,
         Present, Typed, RowsOK, Shape, Locked
    <3>3. CASE ~o.stale /\ o.kind = "upsert" /\ o.cred # "preserve"
      BY <1>1, <2>2, <2>5, <3>3 DEF Edits, CatalogInv, CatalogSound, CurrentExists, Present,
         Typed, RowsOK, Shape, Locked, OpType, Credentials
    <3>4. CASE ~o.stale /\ ~Keyed(o)
      <4>1. UNCHANGED catalog /\ (current' = current \/ current' = o.id)
        BY <2>2, <3>4 DEF Edits, Keyed
      <4>2. o.id \in Present
        BY <1>1, <2>5, <3>4 DEF Informed, Shape, OpType
      <4> QED
        BY <2>5, <4>1, <4>2 DEF CatalogInv, CatalogSound, CurrentExists, Present
    <3> QED
      BY <3>1, <3>2, <3>3, <3>4 DEF Keyed
  <2>7. ModelsBelong'
    <3>1. CASE o.kind = "refresh_models"
      <4>1. o.fetched = o.id \/ "models" \in raced'
        BY <1>1, <2>5, <3>1 DEF Informed, Broken
      <4>2. models' = [models EXCEPT ![o.id] = o.fetched] /\ o.id \in Providers
        BY <1>1, <2>2, <3>1 DEF Edits, Shape, Locked
      <4> QED
        BY <2>5, <4>1, <4>2 DEF CatalogInv, CatalogSound, ModelsBelong, Typed, RowsOK
    <3>2. CASE o.kind # "refresh_models"
      BY <1>1, <2>2, <2>5, <3>2 DEF Edits, CatalogInv, CatalogSound, ModelsBelong, Typed, RowsOK,
         Shape, Locked
    <3> QED
      BY <3>1, <3>2
  <2> QED
    BY <2>4, <2>6, <2>7 DEF CatalogInv, CatalogSound
<1> QED
  BY <1>2, <1>3, <1>4

\* The reads of the catalog, and the steps away from it.
LEMMA CatalogRead ==
    ASSUME Typed, Typed', CatalogInv, NEW c \in Clients, Step(c),
           ~Activate(c), ~RefreshFails(c), ~WriteConfig(c)
    PROVE  CatalogInv'
<1> DEFINE o == op[c]
<1>1. o \in OpType /\ Shape(o) /\ Informed(o)
  BY OpOf DEF Typed, CatalogInv
<1>2. CASE ReadCatalog(c)
  <2>1. PICK l \in {"write", "fetch", "activate"} :
            /\ Goto(c, l) /\ o.pc = "list"
            /\ l = "fetch" => current = o.id
            /\ o.kind = "refresh_models" => l # "write"
    <3> DEFINE l == CASE o.kind # "refresh_models" -> "write"
                      [] o.kind = "refresh_models" /\ current = o.id -> "fetch"
                      [] OTHER -> "activate"
    <3>1. Goto(c, l) /\ o.pc = "list"
      BY <1>2 DEF ReadCatalog, At
    <3>2. /\ l \in {"write", "fetch", "activate"} /\ (l = "fetch" => current = o.id)
          /\ o.kind = "refresh_models" => l # "write"
      OBVIOUS
    <3> QED
      BY <3>1, <3>2
  <2>2. ~Keyed(o) => o.id \in Present
    BY <1>1, <1>2 DEF ReadCatalog, Accepts, Keyed
  <2>3. o.kind = "delete" => current # o.id
    BY <1>2 DEF ReadCatalog, Accepts
  <2>4. Informed(op[c])'
    BY <1>2, <2>1, <2>2, <2>3, GotoOps DEF ReadCatalog, Informed, Present, Keyed
  <2> QED
    BY <1>2, <2>1, <2>4, GotoOps, CatalogUntouched DEF ReadCatalog
<1>3. CASE FetchModels(c)
  <2>1. /\ op'[c] = [o EXCEPT !.pc = "write", !.fetched = current]
        /\ \A d \in Clients \ {c} : op'[d] = op[d]
        /\ UNCHANGED <<catalog, models, current, raced>> /\ o.pc = "fetch"
    BY <1>3 DEF FetchModels, Typed, OpsOK, At
  <2>2. /\ op'[c].kind = o.kind /\ op'[c].id = o.id /\ op'[c].cred = o.cred
        /\ op'[c].stale = o.stale /\ op'[c].fetched = current /\ o.kind = "refresh_models"
    BY <1>1, <2>1 DEF OpType, Shape
  <2>3. Informed(op[c])'
    BY <1>1, <2>1, <2>2 DEF Informed, Present, Keyed, Locked
  <2> QED
    BY <2>1, <2>3, CatalogUntouched
<1>4. CASE StoreKey(c)
  <2> DEFINE l == IF store[o.id] = None /\ o.key = None THEN "list" ELSE "env"
  <2>1. /\ op'[c] = [o EXCEPT !.prev = store[o.id], !.pc = l]
        /\ \A d \in Clients \ {c} : op'[d] = op[d]
    BY <1>4 DEF StoreKey, Typed, OpsOK
  <2>2. op'[c].pc = l /\ l \notin {"activate", "fetch", "write"}
    BY <1>1, <2>1 DEF OpType
  <2>3. Informed(op[c])'
    BY <2>2 DEF Informed
  <2> QED
    BY <1>4, <2>1, <2>3, CatalogUntouched DEF StoreKey
<1>5. ASSUME End(c), UNCHANGED <<catalog, models, current, raced>> PROVE CatalogInv'
  <2>1. op'[c].pc = "idle"
    BY <1>5, EndOps DEF Idle
  <2>2. Informed(op[c])'
    BY <2>1 DEF Informed
  <2> QED
    BY <1>5, <2>2, EndOps, CatalogUntouched
<1>6. ASSUME NEW l \in {"list", "restoreStore", "restoreEnv"}, Goto(c, l),
             UNCHANGED <<catalog, models, current, raced>>
      PROVE  CatalogInv'
  <2>1. Informed(op[c])'
    BY <1>6, GotoOps DEF Informed
  <2> QED
    BY <1>6, <2>1, GotoOps, CatalogUntouched
<1> QED
  BY <1>2, <1>3, <1>4, <1>5, <1>6 DEF Step, StoreKeyFails, SetEnvironment, SetEnvironmentFails,
     AlreadyCurrent, ReadCatalogFails, WriteConfigFails, Succeed, RelistFails, RestoreStore,
     RestoreEnvironment, RestoreFails, Dropped, Fail

\* Every step preserves the invariant of the catalog.
LEMMA CatalogInvStep ==
    ASSUME Typed, Typed', CatalogInv, [Next]_vars
    PROVE  CatalogInv'
<1>1. CASE UNCHANGED vars
  BY <1>1 DEF vars, CatalogInv, CatalogSound, CurrentExists, ModelsBelong, Informed, Present,
     Keyed
<1>2. CASE ServerRestart
  <2>1. \A d \in Clients : op'[d].pc = "idle"
    BY <1>2 DEF ServerRestart, Idle
  <2>2. \A d \in Clients : Informed(op[d])'
    BY <2>1 DEF Informed
  <2> QED
    BY <1>2, <2>2 DEF ServerRestart, CatalogInv, CatalogSound, CurrentExists, ModelsBelong, Present
<1>3. ASSUME NEW c \in Clients, Request(c) \/ Select(c) PROVE CatalogInv'
  <2>1. PICK kind, id, cred, key : Begin(c, kind, id, cred, key)
    BY <1>3 DEF Request, Select
  <2> DEFINE n == [Idle EXCEPT !.kind = kind, !.id = id, !.cred = cred, !.key = key]
             l == IF Keyed(n) THEN "key" ELSE "list"
             o == [n EXCEPT !.pc = l]
  <2>2. op'[c] = o /\ \A d \in Clients \ {c} : op'[d] = op[d]
    BY <2>1 DEF Begin, Typed, OpsOK
  <2>3. o.pc \in {"key", "list"}
    BY DEF Idle
  <2>4. Informed(op[c])'
    <3> HIDE DEF o
    <3> QED
      BY <2>2, <2>3 DEF Informed
  <2> QED
    BY <2>1, <2>2, <2>4, CatalogUntouched DEF Begin
<1> QED
  BY <1>1, <1>2, <1>3, CatalogWrite, CatalogRead DEF Next

\* The catalog makes sense by itself: the current Provider is in it and stored models
\* are their Provider's own, unless a select crossed an operation under the mutex.
THEOREM CatalogIsSound == Spec => []CatalogSound
<1>1. Spec => []Typed
  BY InitTyped, StepTyped, PTL DEF Spec
<1>2. Init => CatalogInv
  <2>1. Idle.pc = "idle"
    BY DEF Idle
  <2> QED
    BY <2>1 DEF Init, CatalogInv, CatalogSound, CurrentExists, ModelsBelong, Informed, Present
<1>3. Spec => []CatalogInv
  BY <1>1, <1>2, CatalogInvStep, PTL DEF Spec
<1>4. CatalogInv => CatalogSound
  BY DEF CatalogInv
<1> QED
  BY <1>3, <1>4, PTL

=============================================================================
