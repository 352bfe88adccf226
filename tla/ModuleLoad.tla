----------------------------- MODULE ModuleLoad -----------------------------
(***************************************************************************)
(* Loading a module (module.c, and the callbacks of worker.c that load what *)
(* it imports): what is allocated when, and what the nested PG_TRY blocks   *)
(* free when a statement fails.  The module is composed with ModuleCache in  *)
(* ModuleStore.                                                             *)
(***************************************************************************)
EXTENDS Integers, Sequences, SequencesExt

CONSTANTS
    Modules,
    Entry,         \* the module asked for
    Imports,       \* what each module links to
    NumQueries,    \* queries of a module
    MaxFailures,   \* bound: statements that fail
    StaleLocals    \* the build keeps the locals of PG_TRY in registers

Queries == 1 .. NumQueries
Plans == {"plan"} \X Queries        \* kept SPI plans
Funcs == {"funcs"} \X Queries       \* converter tables

\* What outlives the transaction, and what SPI_finish frees at the latest.
One(kinds) == kinds \X {0}
Permanent == One({"pmod", "aot", "registered"}) \cup Plans \cup Funcs
Temporary == One({"queries", "unkept", "tuptable"})

VARIABLES
    stack,      \* the modules being loaded, the innermost last, and where each is
    held,       \* what is allocated for each module
    complete,   \* pmod->module is set
    result,     \* what the last statement returned to its caller
    failures,
    abandoned,  \* imports the reader prepared and the loader then rejected
    lost        \* modules whose locals read as before PG_TRY when they were caught

(* The statements that allocate or may fail, in order.  A query is prepared *)
(* in three: SPI_prepare, SPI_keepplan with the plan recorded, the tables.  *)
PlanSteps == [i \in 1 .. 3 * NumQueries |->
                 <<(<<"prepare", "keep", "convert">>)[1 + ((i - 1) % 3)], 1 + ((i - 1) \div 3)>>]

Prepare == << <<"length", 0>>, <<"queries", 0>>, <<"alloc", 0>> >> \o PlanSteps
           \o << <<"created", 0>>, <<"row", 0>>, <<"found", 0>>, <<"heap_types", 0>> >>

\* The reader hands the code to WAMR, which calls the completer in the end.
AsImport == Prepare \o << <<"import", 0>>, <<"load", 0>>, <<"complete", 0>>, <<"register", 0>> >>
AsEntry == Prepare \o << <<"import", 0>>, <<"load", 0>>, <<"rtt", 0>>, <<"register", 0>>, <<"assign", 0>> >>

Init ==
    /\ stack = <<>>
    /\ held = [m \in Modules |-> {}]
    /\ complete = {} /\ result = "none"
    /\ failures = 0 /\ abandoned = {} /\ lost = {}

Top == Last(stack)
Now == Top.program[Top.at]
Loading == {stack[i].module : i \in 1 .. Len(stack)}
Registered == {m \in Modules : <<"registered", 0>> \in held[m]}

Advance ==
    stack' = IF Top.at = Len(Top.program) THEN Front(stack)
             ELSE [stack EXCEPT ![Len(stack)].at = @ + 1]

\* What a statement that succeeds leaves allocated and gives back.
Allocates(s) ==
    CASE s[1] = "prepare" -> One({"unkept"})
      [] s[1] = "keep" -> {<<"plan", s[2]>>}
      [] s[1] = "convert" -> {<<"funcs", s[2]>>}
      [] s[1] = "alloc" -> One({"pmod"})
      [] s[1] = "row" -> One({"tuptable"})
      [] s[1] = "load" -> One({"aot"})
      [] s[1] = "register" -> One({"registered"})
      [] OTHER -> {s} \cap Temporary

\* Slip: the completer keeps the row the code was loaded from.
KeepsRow(s) ==
    CASE s[1] = "keep" -> One({"unkept"})
      [] s[1] = "created" -> One({"queries"})
      [] s[1] = "assign" -> One({"tuptable"})
      [] OTHER -> {}

Releases(s) ==
    CASE s[1] = "keep" -> One({"unkept"})
      [] s[1] = "created" -> One({"queries"})
      [] s[1] \in {"complete", "assign"} -> One({"tuptable"})
      [] OTHER -> {}

Free(m, things) == held' = [held EXCEPT ![m] = @ \ things]

Statement ==
    /\ stack # <<>> /\ result = "none" /\ Now[1] # "import"
    /\ LET m == Top.module  s == Now IN
       /\ held' = [held EXCEPT ![m] = (@ \ Releases(s)) \cup Allocates(s)]
       /\ complete' = IF s[1] \in {"complete", "assign"} THEN complete \cup {m} ELSE complete
    /\ Advance
    /\ UNCHANGED <<result, failures, abandoned, lost>>

\* wasm_runtime_load_ex asks the reader for every import neither registered
\* nor being loaded, and goes on when all are there.
Import ==
    /\ stack # <<>> /\ result = "none" /\ Now[1] = "import"
    /\ LET missing == Imports[Top.module] \ (Registered \cup Loading) IN
       IF missing = {} THEN Advance
       ELSE \E m \in missing :
               stack' = Append(stack, [module |-> m, at |-> 1, program |-> AsImport])
    /\ UNCHANGED <<held, complete, result, failures, abandoned, lost>>

-----------------------------------------------------------------------------
(* Failures                                                                 *)

\* Slip: the plans are left to the memory context.
PlansForgotten(m) ==
    (held[m] \cap One({"pmod"})) \cup (IF m \in complete THEN One({"aot", "registered"}) ELSE {})

\* rst_free_module: what its fields say it has.
FieldsOf(m) ==
    (held[m] \cap (Plans \cup Funcs \cup One({"pmod"})))
      \cup (IF m \in complete THEN One({"aot", "registered"}) ELSE {})

(* create_module_with_queries frees what it made and its tuple table, the   *)
(* caller the finished module and the row: the caller's own variable is not *)
(* set before the callee returns.  load_aot_module unloads on its own.      *)
Catch(m) == FieldsOf(m) \cup (One({"queries", "tuptable"}) \cap held[m])
              \cup (IF Now[1] \in {"rtt", "register"} THEN One({"aot"}) ELSE {})

\* Locals set in PG_TRY may read as NULL again: nothing is freed by them.
CatchStale(m) == IF Now[1] \in {"rtt", "register"} THEN One({"aot"}) ELSE {}

CallerCatches(m) == held[m] \cap One({"queries", "pmod"}) = One({"pmod"})

\* In the reader, or in the code that loads the entry.
InPrepare == Now[1] \notin {"load", "complete", "register", "rtt", "assign"}
             \/ Top.program = AsEntry

MayFail == Now[1] \notin {"import", "created", "complete", "assign"}

Fails ==
    /\ stack # <<>> /\ result = "none" /\ MayFail
    /\ result' = "error"
    /\ LET m == Top.module IN
       IF InPrepare
       THEN /\ \/ Free(m, Catch(m)) /\ UNCHANGED lost
               \/ StaleLocals /\ CallerCatches(m) /\ Free(m, CatchStale(m)) /\ lost' = lost \cup {m}
            /\ UNCHANGED abandoned
       ELSE \* wasm_module_destroyer_callback is empty
            /\ abandoned' = abandoned \cup {m}
            /\ Free(m, One({"aot"})) /\ UNCHANGED lost
    /\ stack' = Front(stack)
    /\ UNCHANGED complete

Fail == failures < MaxFailures /\ failures' = failures + 1 /\ Fails

\* There is no row for the module.
NotFound == stack # <<>> /\ Now[1] = "found" /\ Fails /\ UNCHANGED failures

\* A failed import fails the load of its importer.
Propagate ==
    /\ result = "error" /\ stack # <<>>
    /\ LET m == Top.module IN
       IF Top.program = AsEntry
       THEN /\ \/ Free(m, Catch(m)) /\ UNCHANGED lost
               \/ StaleLocals /\ Free(m, CatchStale(m)) /\ lost' = lost \cup {m}
            /\ UNCHANGED abandoned
       ELSE abandoned' = abandoned \cup {m} /\ UNCHANGED <<held, lost>>
    /\ stack' = Front(stack)
    /\ UNCHANGED <<complete, result, failures>>

\* A job asks for the entry.
rst_prepare_module ==
    /\ stack = <<>> /\ result = "none" /\ Entry \notin Registered
    /\ stack' = <<[module |-> Entry, at |-> 1, program |-> AsEntry]>>
    /\ UNCHANGED <<held, complete, result, failures, abandoned, lost>>

rst_free_module(freed) ==
    /\ held' = [m \in Modules |-> IF m \in freed \cap Registered THEN held[m] \ FieldsOf(m) ELSE held[m]]
    /\ complete' = complete \ freed
    /\ UNCHANGED <<stack, result, failures, abandoned, lost>>

\* Another process takes over.
NewProcess ==
    /\ stack' = <<>> /\ held' = [m \in Modules |-> {}]
    /\ complete' = {} /\ result' = "none" /\ abandoned' = {} /\ lost' = {}
    /\ UNCHANGED failures

-----------------------------------------------------------------------------
(* Properties                                                               *)

(* A module that can be looked up is whole: its queries are planned, their  *)
(* converters in place and its code loaded; between loads, rst_lookup_module*)
(* never finds one whose tuple table is still there.                        *)
RegisteredIsWhole ==
    \A m \in Registered :
       /\ Permanent \subseteq held[m]
       /\ stack = <<>> => m \in complete /\ held[m] = Permanent

(* When loading has ended, well or badly, every module is whole or leaves   *)
(* nothing behind in the long-lived memory: except an import the reader     *)
(* prepared and the loader rejected, and what PG_CATCH no longer knows of   *)
(* when the build keeps locals that are not volatile in registers.          *)
NothingHalfLoaded ==
    stack = <<>> =>
       \A m \in Modules :
          \/ held[m] \cap Permanent \in {{}, Permanent}
          \/ m \in abandoned \cup lost
=============================================================================
