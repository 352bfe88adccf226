----------------------------- MODULE ModuleCache -----------------------------
(***************************************************************************)
(* The modules a worker keeps loaded (module.c, worker.c) against the rows  *)
(* they were loaded from: deployments notify their names when they commit,  *)
(* the worker frees what was notified between two jobs, and loads what is   *)
(* missing within a job, from the snapshot of the job's transaction.        *)
(***************************************************************************)
EXTENDS Integers, FiniteSets

CONSTANTS
    Modules,
    Entry,        \* "main"
    Imports,      \* what each module links to
    Deployments,  \* the sets of modules that one transaction may change
    MaxVersion    \* bound: deployments

ASSUME CacheAssumption ==
    /\ Entry \in Modules
    /\ Imports \in [Modules -> SUBSET Modules]
    /\ Deployments \subseteq SUBSET Modules
    /\ MaxVersion \in Nat

VARIABLES
    version,   \* the last deployment
    db,        \* the deployment each row is from, 0 for no row
    notices,   \* names in the notification queue that the worker has not read
    pending,   \* notifyInterruptPending
    cache,     \* the deployment each registered module was loaded from, or 0
    dangling,  \* registered modules linked to a module that was freed
    snapshot,  \* the rows the running job's transaction sees
    pc,        \* "idle", "begun", "running" or "dead"
    floor      \* the rows when the notifications were last read

vars == <<version, db, notices, pending, cache, dangling, snapshot, pc, floor>>

None == [m \in Modules |-> 0]

\* A worker starts with nothing loaded and listens before its first job.
Init ==
    /\ version = 1
    /\ db = [m \in Modules |-> 1]
    /\ notices = {} /\ pending = FALSE
    /\ cache = None /\ dangling = {}
    /\ snapshot = None /\ pc = "idle" /\ floor = db

-----------------------------------------------------------------------------
(* Deployments                                                              *)

\* The trigger fires once per row inserted, updated or deleted.
\* Slip: deletions are not notified.
NotifiesChanges(changed, rows) == {m \in changed : rows[m] # 0}

Notifies(changed, rows) == changed

\* AFTER INSERT OR UPDATE OR DELETE; the notification goes out with the commit.
invalidate_module_cache(changed) ==
    /\ version < MaxVersion
    /\ version' = version + 1
    /\ \E rows \in [changed -> {0, version + 1}] :
          /\ db' = [m \in Modules |-> IF m \in changed THEN rows[m] ELSE db[m]]
          /\ notices' = notices \cup Notifies(changed, rows)
    /\ UNCHANGED <<pending, cache, dangling, snapshot, pc, floor>>

Signal ==
    /\ notices # {} /\ ~ pending
    /\ pending' = TRUE
    /\ UNCHANGED <<version, db, notices, cache, dangling, snapshot, pc, floor>>

-----------------------------------------------------------------------------
(* The worker                                                               *)

Loaded == {m \in Modules : cache[m] # 0}

\* rst_free_module unregisters a module and frees it; its importers remain.
rst_free_module(freed) ==
    /\ cache' = [m \in Modules |-> IF m \in freed THEN 0 ELSE cache[m]]
    /\ dangling' = (dangling \ freed)
                     \cup {m \in Loaded \ freed : Imports[m] \cap Loaded \cap freed # {}}

\* Slip: of several notifications only one is read.
Listed == {CHOOSE m \in notices : TRUE}

\* Slip: the entry module is kept while its imports are freed.
KeepsEntry == notices \ {Entry}

Notified == notices

\* The flag is looked at after every batch, whether a job ran in it or not.
on_notification_received ==
    /\ pc = "idle" /\ pending
    /\ pending' = FALSE
    /\ rst_free_module(Notified)
    /\ notices' = {} /\ floor' = db
    /\ UNCHANGED <<version, db, snapshot, pc>>

\* A job may come first, in the wake-up that also brings notifications.
BeginJob ==
    /\ pc = "idle" /\ pc' = "begun"
    /\ snapshot' = db
    /\ UNCHANGED <<version, db, notices, pending, cache, dangling, floor>>

\* A set of modules that has with each one what it links to and is not loaded.
Closed(S) == \A k \in S : Imports[k] \ Loaded \subseteq S

(* What has to be loaded to have m: imports registered already are reused,   *)
(* modules that import each other are loaded once.                          *)
Needs(m) ==
    {k \in Modules : \A S \in SUBSET Modules : {m} \ Loaded \subseteq S /\ Closed(S) => k \in S}

\* rst_prepare_module for "main", the reader and the completer for the rest.
Load ==
    /\ pc = "begun"
    /\ \A m \in Needs(Entry) : snapshot[m] # 0
    /\ cache' = [m \in Modules |-> IF m \in Needs(Entry) THEN snapshot[m] ELSE cache[m]]
    /\ pc' = "running"
    /\ UNCHANGED <<version, db, notices, pending, dangling, snapshot, floor>>

\* Loading fails, as it does if a module is not there: the worker dies with its
\* cache.
LoadFails ==
    /\ pc = "begun"
    /\ pc' = "dead" /\ cache' = None /\ dangling' = {}
    /\ UNCHANGED <<version, db, notices, pending, snapshot, floor>>

EndJob ==
    /\ pc = "running" /\ pc' = "idle"
    /\ snapshot' = None
    /\ UNCHANGED <<version, db, notices, pending, cache, dangling, floor>>

\* The next worker listens from its start on: it never hears what came before.
rst_module_worker_startup ==
    /\ pc = "dead" /\ pc' = "idle"
    /\ notices' = {} /\ pending' = FALSE
    /\ floor' = db /\ snapshot' = None
    /\ UNCHANGED <<version, db, cache, dangling>>

-----------------------------------------------------------------------------
(* Properties                                                               *)

(* A job runs with modules at least as new as the rows were when the worker *)
(* last read its notifications: staleness ends with the wake-up.            *)
JobsRunFresh == pc = "running" => \A m \in Loaded : cache[m] >= floor[m]

(* A module is linked to one that was freed only if that one was deployed    *)
(* after it, or taken away: invalidation frees the notified names and        *)
(* nothing else (worker.c:741), so it is for a deployment to change with a   *)
(* module whatever imports it.                                              *)
ImportsAlive ==
    \A m \in dangling : \E k \in Imports[m] : floor[k] = 0 \/ floor[k] > floor[m]

(* Every change of a row reaches the cache: what is stale is freed.         *)
StaleIsFreed ==
    \A m \in Modules : (m \in Loaded /\ cache[m] # db[m]) ~> (cache[m] \in {0, db[m]})
=============================================================================
