--------------------------- MODULE ProviderService ---------------------------
(***************************************************************************)
(* The Provider service (apps/web/crates/provider-service): every request  *)
(* that changes the Provider catalog of a Profile, the encrypted keys in   *)
(* profile_secrets (crates/secret-store) and the Profile's secret          *)
(* environment (ProfileRegistry::set_secret_environment), with the         *)
(* roll-back of the last two when a later step fails.                      *)
(*                                                                         *)
(* upsert, delete, refresh_models and update_model hold the operation      *)
(* mutex from their first step to their last; select and select_model do   *)
(* not.  The catalog lives in the app-server's config.toml, which every    *)
(* operation reads and writes by separate requests.                        *)
(*                                                                         *)
(* set_secret_environment is taken at its contract, which ProfileHost      *)
(* models: it succeeds, or fails and leaves the environment as it was.     *)
(***************************************************************************)
EXTENDS Naturals, FiniteSets

CONSTANTS
    Providers,   \* the custom Providers
    BuiltIn,     \* the built-in one, which is always there
    Clients,     \* requests that are served concurrently
    Keys,        \* API keys
    None         \* no key, no models, no holder

ASSUME ProviderConstants ==
    /\ BuiltIn \notin Providers
    /\ None \notin Providers \cup {BuiltIn} \cup Clients \cup Keys

VARIABLES
    catalog,     \* the credential each Provider is configured with
    models,      \* the Provider whose model list is stored for it
    current,     \* model_provider
    store,       \* profile_secrets
    env,         \* the Profile's secret environment, by Provider
    lock,        \* the holder of the operation mutex
    op,          \* what each client is doing
    doubtful,    \* Providers whose last operation failed with its write applied,
                 \* was not rolled back, or was cut off by a crash
    unrestored,  \* Providers whose roll-back failed, was not tried or was dropped, no
                 \* update of their environment since
    byName,      \* Providers whose entry in the catalog was last written by a request
                 \* that named the managed variable as one of the user's
    raced        \* what a write based on an outdated catalog has broken

vars == <<catalog, models, current, store, env, lock, op, doubtful, unrestored, byName,
          raced>>

-----------------------------------------------------------------------------

All == Providers \cup {BuiltIn}

\* A Provider needs no key, names an environment variable of the user's, or the one
\* the Secret store's key is put in.
Credentials == {"none", "own", "managed"}

Locked == {"upsert", "delete", "refresh_models", "update_model"}
\* The operations that may touch the stored key.
Keyed(o) == o.kind = "delete" \/ (o.kind = "upsert" /\ o.cred # "preserve")

Idle == [pc |-> "idle", kind |-> "none", id |-> None, cred |-> "preserve", key |-> None,
         prev |-> None, fetched |-> None, applied |-> FALSE, stale |-> FALSE]

At(c, l) == op[c].pc = l
Goto(c, l) == op' = [op EXCEPT ![c].pc = l]

Init ==
    /\ catalog \in [Providers -> {"absent", "none", "own"}]
    /\ models = [p \in Providers |-> None]
    /\ current = BuiltIn
    /\ store = [p \in Providers |-> None] /\ env = [p \in Providers |-> None]
    /\ lock = None /\ op = [c \in Clients |-> Idle]
    /\ doubtful = {} /\ unrestored = {} /\ byName = {} /\ raced = {}

\* Mutant: the mutex stays locked.
EndKeepsLock(c) ==
    /\ op' = [op EXCEPT ![c] = Idle]
    /\ UNCHANGED lock

\* The operation is over and the mutex, if it held it, is free.
End(c) ==
    /\ op' = [op EXCEPT ![c] = Idle]
    /\ lock' = IF lock = c THEN None ELSE lock

\* An operation fails: one that changed the key rolls it back first.
Fail(c) ==
    IF Keyed(op[c])
    THEN Goto(c, "restoreStore") /\ UNCHANGED lock
    ELSE End(c)

-----------------------------------------------------------------------------

\* A request arrives; the mutating ones wait for the operation mutex.
Begin(c, kind, id, cred, key) ==
    /\ At(c, "idle")
    /\ kind \in Locked => lock = None
    /\ lock' = IF kind \in Locked THEN c ELSE lock
    /\ LET o == [Idle EXCEPT !.kind = kind, !.id = id, !.cred = cred, !.key = key] IN
       op' = [op EXCEPT ![c] = [o EXCEPT !.pc = IF Keyed(o) THEN "key" ELSE "list"]]
    /\ UNCHANGED <<catalog, models, current, store, env, doubtful, unrestored, byName, raced>>

\* An upsert brings a key, keeps what there is, or names no variable or any one.  The
\* managed one is as good as the user's own to validate_credentials, and the form that
\* edits a Provider fills it in.
Request(c) ==
    \E id \in Providers :
        \/ \E key \in Keys : Begin(c, "upsert", id, "managed", key)
        \/ \E cred \in {"preserve"} \cup Credentials : Begin(c, "upsert", id, cred, None)
        \/ \E kind \in {"delete", "refresh_models", "update_model"} :
               Begin(c, kind, id, "preserve", None)
\* select and select_model, of any Provider
Select(c) == \E id \in All : Begin(c, "select", id, "preserve", None)

\* The previous key is read and the new one put, or it is deleted if there is one.
StoreKey(c) ==
    LET p == op[c].id IN
    /\ At(c, "key")
    /\ store' = [store EXCEPT ![p] = op[c].key]
    /\ op' = [op EXCEPT ![c].prev = store[p],
                        ![c].pc = IF store[p] = None /\ op[c].key = None THEN "list" ELSE "env"]
    /\ UNCHANGED <<catalog, models, current, env, lock, doubtful, unrestored, byName, raced>>

\* The key an operation is about to write, if it is.
Writing(c) ==
    CASE At(c, "key") -> {op[c].key} [] At(c, "restoreStore") -> {op[c].prev} [] OTHER -> {}
\* A write of the key whose answer is lost has been applied or not.
PerhapsWritten(c) ==
    store' \in {store} \cup {[store EXCEPT ![op[c].id] = k] : k \in Writing(c)}

\* The error is returned as it is: nothing is restored, although the write may have
\* been applied.
StoreKeyFails(c) ==
    /\ At(c, "key")
    /\ PerhapsWritten(c)
    /\ LET written == IF store' # store THEN {op[c].id} ELSE {} IN
       unrestored' = unrestored \cup written /\ doubtful' = doubtful \cup written
    /\ End(c)
    /\ UNCHANGED <<catalog, models, current, env, byName, raced>>

SetEnvironment(c) ==
    /\ At(c, "env")
    /\ env' = [env EXCEPT ![op[c].id] = op[c].key]
    /\ unrestored' = unrestored \ {op[c].id}
    /\ Goto(c, "list")
    /\ UNCHANGED <<catalog, models, current, store, lock, doubtful, byName, raced>>

\* Mutant: the error is returned without restoring the stored key.
ReturnWithoutRestore(c) ==
    /\ At(c, "env") /\ env[op[c].id] # op[c].key
    /\ End(c)
    /\ UNCHANGED <<catalog, models, current, store, env, doubtful, unrestored, byName, raced>>

\* The Runtime is busy or does not come up; an unchanged value needs no restart.
SetEnvironmentFails(c) ==
    /\ At(c, "env") /\ env[op[c].id] # op[c].key
    /\ Goto(c, "restoreStore")
    /\ UNCHANGED <<catalog, models, current, store, env, lock, doubtful, unrestored, byName, raced>>

Present == {BuiltIn} \cup {p \in Providers : catalog[p] # "absent"}

\* What the catalog just read must say for the operation to go on.
Accepts(o) ==
    \/ o.id \in Present /\ (o.kind = "delete" => current # o.id)
    \/ o.kind = "upsert" /\ o.cred # "preserve"

\* modelProvider/list, and the checks on it.
ReadCatalog(c) ==
    /\ At(c, "list") /\ Accepts(op[c])
    /\ Goto(c, CASE op[c].kind # "refresh_models" -> "write"
                [] op[c].kind = "refresh_models" /\ current = op[c].id -> "fetch"
                [] OTHER -> "activate")
    /\ UNCHANGED <<catalog, models, current, store, env, lock, doubtful, unrestored, byName, raced>>

\* select has nothing to write for the current Provider; select_model writes both
\* the Provider and the model in any case.
AlreadyCurrent(c) ==
    /\ At(c, "list") /\ op[c].kind = "select" /\ current = op[c].id
    /\ End(c)
    /\ UNCHANGED <<catalog, models, current, store, env, doubtful, unrestored, byName, raced>>

\* The request fails, or the catalog rules the operation out.
ReadCatalogFails(c) ==
    /\ At(c, "list")
    /\ Fail(c)
    /\ UNCHANGED <<catalog, models, current, store, env, doubtful, unrestored, byName, raced>>

\* A write by c makes what the others have read outdated.
Outdated(c) ==
    [d \in Clients |-> IF d # c /\ op[d].pc \in {"activate", "fetch", "write"}
                       THEN [op[d] EXCEPT !.stale = TRUE] ELSE op[d]]

\* Mutant: refresh_models asks for the models without selecting the Provider.
FetchUnselected(c) ==
    /\ At(c, "activate")
    /\ Goto(c, "fetch")
    /\ UNCHANGED <<catalog, models, current, store, env, lock, doubtful, unrestored, byName, raced>>

\* refresh_models makes its Provider the current one.
Activate(c) ==
    /\ At(c, "activate")
    /\ current' = op[c].id
    /\ op' = [Outdated(c) EXCEPT ![c].pc = "fetch"]
    /\ UNCHANGED <<catalog, models, store, env, lock, doubtful, unrestored, byName, raced>>

\* model/list answers for the Provider that is current now.
FetchModels(c) ==
    /\ At(c, "fetch")
    /\ op' = [op EXCEPT ![c].pc = "write", ![c].fetched = current]
    /\ UNCHANGED <<catalog, models, current, store, env, lock, doubtful, unrestored, byName, raced>>

\* Either request of refresh_models fails; the selection may have been made.
RefreshFails(c) ==
    /\ op[c].pc \in {"activate", "fetch"}
    /\ current' \in (IF At(c, "activate") THEN {current, op[c].id} ELSE {current})
    /\ End(c)
    /\ UNCHANGED <<catalog, models, store, env, doubtful, unrestored, byName, raced>>

\* The edits of config/batchWrite.  A new Provider becomes the current one, an
\* existing one if the request says so; a deleted one takes its models along.
Edits(o, chosen) ==
    LET p == o.id IN
    /\ catalog' = CASE o.kind = "delete" -> [catalog EXCEPT ![p] = "absent"]
                    [] o.kind = "upsert" /\ o.cred # "preserve" ->
                           [catalog EXCEPT ![p] = o.cred]
                    [] OTHER -> catalog
    /\ models' = CASE o.kind = "delete" -> [models EXCEPT ![p] = None]
                   [] o.kind = "refresh_models" -> [models EXCEPT ![p] = o.fetched]
                   [] o.kind = "update_model" ->
                          [models EXCEPT ![p] = IF @ = None THEN p ELSE @]
                   [] OTHER -> models
    /\ current' = IF o.kind = "select" \/ (o.kind = "upsert" /\ chosen) THEN p ELSE current

\* What is no longer as it should be after a write that relied on an outdated read.
Broken(o) ==
    IF ~o.stale THEN {}
    ELSE (IF current' \notin Present' THEN {"current"} ELSE {})
         \cup (IF o.kind = "refresh_models" /\ o.fetched # o.id THEN {"models"} ELSE {})

\* The request names the managed variable and brings no key for it.
ByName(o) == o.cred = "managed" /\ o.key = None

\* config/batchWrite is applied; the client may still be told it failed.  The
\* catalog read for the answer decides nothing unless there is a key to restore.
WriteConfig(c) ==
    /\ At(c, "write")
    /\ \E chosen \in BOOLEAN :
           /\ op[c].id \notin Present => chosen
           /\ Edits(op[c], chosen)
    /\ raced' = raced \cup Broken(op[c])
    /\ byName' = CASE ~Keyed(op[c]) -> byName
                   [] Keyed(op[c]) /\ ByName(op[c]) -> byName \cup {op[c].id}
                   [] OTHER -> byName \ {op[c].id}
    /\ IF Keyed(op[c])
       THEN /\ \E l \in {"relist", "restoreStore"} :
                   op' = [Outdated(c) EXCEPT ![c].pc = l, ![c].applied = TRUE]
            /\ UNCHANGED lock
       ELSE /\ op' = [Outdated(c) EXCEPT ![c] = Idle]
            /\ lock' = IF lock = c THEN None ELSE lock
    /\ UNCHANGED <<store, env, doubtful, unrestored>>

\* Mutant: a failed write keeps the key that was stored for it.
WriteFailsKeepsKey(c) ==
    /\ At(c, "write")
    /\ End(c)
    /\ UNCHANGED <<catalog, models, current, store, env, doubtful, unrestored, byName, raced>>

WriteConfigFails(c) ==
    /\ At(c, "write")
    /\ Fail(c)
    /\ UNCHANGED <<catalog, models, current, store, env, doubtful, unrestored, byName, raced>>

\* The catalog is read again for the answer, and the operation has succeeded.
Succeed(c) ==
    /\ At(c, "relist")
    /\ doubtful' = doubtful \ {op[c].id}
    /\ End(c)
    /\ UNCHANGED <<catalog, models, current, store, env, unrestored, byName, raced>>

RelistFails(c) ==
    /\ At(c, "relist")
    /\ Fail(c)
    /\ UNCHANGED <<catalog, models, current, store, env, doubtful, unrestored, byName, raced>>

Doubt(c) == doubtful' = IF op[c].applied THEN doubtful \cup {op[c].id} ELSE doubtful

\* restore_secret: the previous key is put back, or the new one deleted,
RestoreStore(c) ==
    /\ At(c, "restoreStore")
    /\ store' = [store EXCEPT ![op[c].id] = op[c].prev]
    /\ Goto(c, "restoreEnv")
    /\ UNCHANGED <<catalog, models, current, env, lock, doubtful, unrestored, byName, raced>>

\* and the environment set to it.
RestoreEnvironment(c) ==
    /\ At(c, "restoreEnv")
    /\ env' = [env EXCEPT ![op[c].id] = op[c].prev]
    /\ unrestored' = unrestored \ {op[c].id}
    /\ Doubt(c)
    /\ End(c)
    /\ UNCHANGED <<catalog, models, current, store, byName, raced>>

\* Either step fails: the error is returned and nothing is tried again.
RestoreFails(c) ==
    /\ \/ At(c, "restoreStore")
       \/ At(c, "restoreEnv") /\ env[op[c].id] # op[c].prev
    /\ PerhapsWritten(c)
    /\ unrestored' = unrestored \cup {op[c].id}
    /\ doubtful' = doubtful \cup {op[c].id}
    /\ End(c)
    /\ UNCHANGED <<catalog, models, current, env, byName, raced>>

\* The client goes away and the server drops its handler at an await: the mutex is
\* freed, the rest is not done, and what it was about to do may be done or not.
Dropped(c) ==
    LET p == op[c].id
        half == CASE At(c, "env") -> {op[c].key}
                  [] At(c, "restoreEnv") -> {op[c].prev}
                  [] OTHER -> {}
        keyed == IF Keyed(op[c]) THEN {p} ELSE {} IN
    /\ ~At(c, "idle")
    /\ PerhapsWritten(c)
    /\ env' \in {env} \cup {[env EXCEPT ![p] = k] : k \in half}
    /\ unrestored' = unrestored \cup keyed /\ doubtful' = doubtful \cup keyed
    /\ End(c)
    /\ UNCHANGED <<catalog, models, current, byName, raced>>

\* The server stops at any point; startup_secret_environment loads the stored
\* keys before the Profile is started again.
ServerRestart ==
    /\ env' = store
    /\ op' = [c \in Clients |-> Idle] /\ lock' = None
    /\ doubtful' = doubtful \cup {op[c].id : c \in {d \in Clients : Keyed(op[d])}}
    /\ unrestored' = {}
    /\ UNCHANGED <<catalog, models, current, store, byName, raced>>

-----------------------------------------------------------------------------

Step(c) ==
    \/ StoreKey(c) \/ StoreKeyFails(c) \/ SetEnvironment(c) \/ SetEnvironmentFails(c)
    \/ ReadCatalog(c) \/ AlreadyCurrent(c) \/ ReadCatalogFails(c)
    \/ Activate(c) \/ FetchModels(c) \/ RefreshFails(c)
    \/ WriteConfig(c) \/ WriteConfigFails(c) \/ Succeed(c) \/ RelistFails(c)
    \/ RestoreStore(c) \/ RestoreEnvironment(c) \/ RestoreFails(c) \/ Dropped(c)

Next ==
    \/ \E c \in Clients : Request(c) \/ Select(c) \/ Step(c)
    \/ ServerRestart

Spec == Init /\ [][Next]_vars

-----------------------------------------------------------------------------

TypeOK ==
    /\ catalog \in [Providers -> {"absent"} \cup Credentials]
    /\ models \in [Providers -> All \cup {None}]
    /\ current \in All
    /\ store \in [Providers -> Keys \cup {None}] /\ env \in [Providers -> Keys \cup {None}]
    /\ lock \in Clients \cup {None}
    /\ \A c \in Clients : /\ op[c].id \in All \cup {None}
                          /\ (op[c].kind \in Locked) = (lock = c)
    /\ doubtful \subseteq Providers /\ unrestored \subseteq Providers
    /\ byName \subseteq Providers
    /\ raced \subseteq {"current", "models"}

\* No operation is at work on the Provider's key.
Settled(p) == \A c \in Clients : Keyed(op[c]) => op[c].id # p

\* Between operations the Profile's environment holds exactly the stored keys,
\* whatever failed and whenever the server stopped, unless the roll-back itself
\* failed, the request was dropped with its client, or a write of the key was applied
\* and reported as failed.
EnvironmentMatchesStore ==
    \A p \in Providers : Settled(p) => env[p] = store[p] \/ p \in unrestored

\* The catalog promises a stored key for the Provider: it names the managed variable,
\* and not because a request gave that name for one of the user's.
Promised(p) == catalog[p] = "managed" /\ p \notin byName

\* Between operations a key is stored for a Provider exactly when the catalog promises
\* one: no key outlives the entry that names it, and no entry the key it was written
\* with.  Excepted are Providers whose last operation failed after its write, could
\* not be rolled back or was cut off half-way; and upsert itself, given the name of
\* the managed variable, deletes the key and writes an entry without one (byName).
CatalogMatchesStore ==
    \A p \in Providers : Settled(p) => ((store[p] # None) = Promised(p)) \/ p \in doubtful

\* The current Provider is in the catalog, unless a select and a delete crossed:
\* delete refuses the current Provider, but select does not take the mutex.
CurrentExists ==
    current \in Present \/ "current" \in raced

\* The models stored for a Provider are its own, unless a select came between the
\* two requests of refresh_models.
ModelsBelong ==
    \A p \in Providers : models[p] \in {p, None} \/ "models" \in raced

\* The catalog makes sense by itself, whatever requests crossed, but for these two.
CatalogSound == CurrentExists /\ ModelsBelong
=============================================================================
