---------------------------- MODULE ModuleStore ----------------------------
(***************************************************************************)
(* The cache of modules (ModuleCache) with the loader that fills it           *)
(* (ModuleLoad): a job loads what is missing statement by statement, from     *)
(* the snapshot of its transaction, while rows go on changing.                *)
(***************************************************************************)
EXTENDS ModuleCache, Sequences

CONSTANTS NumQueries, MaxFailures, StaleLocals

ASSUME LoadAssumption == {NumQueries, MaxFailures} \subseteq Nat /\ StaleLocals \in BOOLEAN

VARIABLES stack, held, complete, result, failures, abandoned, lost

load_vars == <<stack, held, complete, result, failures, abandoned, lost>>

store_vars == <<vars, load_vars>>

Loader == INSTANCE ModuleLoad

StoreInit == Init /\ Loader!Init

\* rst_lookup_module finds no entry module.
StartsLoading == pc = "begun" /\ Loader!rst_prepare_module /\ UNCHANGED vars

LoadsOn ==
    /\ \/ Loader!Statement /\ (Loader!Now[1] = "found" => snapshot[Loader!Top.module] # 0)
       \/ Loader!NotFound /\ snapshot[Loader!Top.module] = 0
       \/ Loader!Import \/ Loader!Fail \/ Loader!Propagate
    /\ UNCHANGED vars

\* The entry module is there, or has been all the time.
Loads ==
    /\ stack = <<>> /\ result = "none" /\ Entry \in Loader!Registered
    /\ Load /\ UNCHANGED load_vars

LoadThrows == stack = <<>> /\ result = "error" /\ LoadFails /\ UNCHANGED load_vars

Invalidates == on_notification_received /\ Loader!rst_free_module(Notified)

Restarts == rst_module_worker_startup /\ Loader!NewProcess

EndsJob == EndJob /\ UNCHANGED load_vars

StoreWorker ==
    StartsLoading \/ LoadsOn \/ Loads \/ LoadThrows \/ Invalidates \/ Restarts \/ EndsJob

Around ==
    /\ BeginJob \/ Signal \/ \E d \in Deployments : invalidate_module_cache(d)
    /\ UNCHANGED load_vars

StoreNext == StoreWorker \/ Around

(* The worker gets to the end of its batch again and again: the connections *)
(* a batch may bring are finite in number.                                  *)
Spec ==
    /\ StoreInit /\ [][StoreNext]_store_vars
    /\ WF_store_vars(Signal /\ UNCHANGED load_vars)
    /\ WF_store_vars(StoreWorker) /\ SF_store_vars(Invalidates)

-----------------------------------------------------------------------------
(* Properties                                                               *)

(* A module that can be looked up is whole: its queries are planned, their  *)
(* converters in place and its code loaded, even while others are loading.  *)
(* What the loader registered for a job is what the cache needed for it, no  *)
(* more and no less, each from the one snapshot.                             *)
RegisteredIsWhole ==
    /\ Loader!RegisteredIsWhole
    /\ pc \in {"idle", "running"} => Loader!Registered = Loaded
    /\ pc = "begun" => \A m \in Loader!Registered \ Loaded : m \in Needs(Entry) /\ snapshot[m] # 0

(* When loading has ended, well or badly, every module is whole or leaves   *)
(* nothing behind in the long-lived memory, but for an import the reader    *)
(* prepared and the loader rejected, and what PG_CATCH no longer knows of   *)
(* when the build keeps locals that are not volatile in registers.  Between  *)
(* two jobs there is not even that: the worker of a failed load has died.    *)
NothingHalfLoaded ==
    /\ Loader!NothingHalfLoaded
    /\ pc = "idle" => \A m \in Modules : held[m] = IF m \in Loaded THEN Loader!Permanent ELSE {}
=============================================================================
