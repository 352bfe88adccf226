------------------------------- MODULE Compile -------------------------------
(***************************************************************************)
(* rustica.compile_wasm (compiler.c): what a call takes, in which order, and  *)
(* what it leaves when one of its steps fails.  The map of type ids is a     *)
(* global of the process; with the SQL backdoor built in, the guest's        *)
(* get_queries may itself have another module compiled.                      *)
(***************************************************************************)
EXTENDS Integers, Sequences, SequencesExt

CONSTANTS
    Backdoor,      \* the guest may run SQL
    StaleLocals,   \* the build keeps the locals of PG_TRY in registers
    Caller,        \* the execution environment of the thread before: 0 is none
    MaxCalls,      \* bound: calls in one process
    MaxDepth       \* bound: calls under way at once

ASSUME CompileAssumption ==
    /\ Backdoor \in BOOLEAN /\ StaleLocals \in BOOLEAN
    /\ MaxCalls \in Nat /\ MaxDepth \in Nat \ {0}
    /\ Caller \in Int \ (1 .. MaxDepth)

Null == 0
Freed == -1       \* points into memory that is gone

VARIABLES
    stack,        \* the calls under way, each with the step it is at
    tid_map, tid_map_len,
    env_tls,      \* the execution environment WAMR believes the thread is in
    held,         \* what the calls hold, each with the depth of its call, 0 if lost
    calls,
    crashed

vars == <<stack, tid_map, tid_map_len, env_tls, held, calls, crashed>>

(* The steps of a call.  The first is before PG_TRY, the last is PG_FINALLY. *)
Steps == <<"map", "load", "comp_data", "comp_ctx", "compile", "obj_data", "emit",
           "signature", "instance", "exec_env", "get_queries", "tupdesc", "queries",
           "release", "heap_types", "finally">>

Aot == {"comp_data", "comp_ctx", "obj_data"}

Depth == Len(stack)
Now == Steps[Last(stack).at]
Mine(things) == things \X {Depth}

Init ==
    /\ stack = <<>>
    /\ tid_map = Null /\ tid_map_len = 0
    /\ env_tls = Caller
    /\ held = {} /\ calls = 0 /\ crashed = FALSE

Frame(at, empty, prev, nested) == [at |-> at, empty |-> empty, prev |-> prev, nested |-> nested]
Goto(at) == stack' = [stack EXCEPT ![Depth] = Frame(at, @.empty, @.prev, @.nested)]
Step == Goto(Last(stack).at + 1)

\* Slip: an empty map leaves the length alone, as it does the pointer.
LengthKept(empty) == IF empty THEN tid_map_len ELSE 1

\* deconstruct_array always sets the length, palloc only what is not empty.
MapLength(empty) == IF empty THEN 0 ELSE 1

\* Slip: memory is taken only when there is none yet.
PointerKept(empty) == IF empty \/ tid_map # Null THEN tid_map ELSE Depth + 1

MapPointer(empty) == IF empty THEN tid_map ELSE Depth + 1

\* compile_wasm is called, or the guest of a call has it called.
Call ==
    /\ ~ crashed /\ calls < MaxCalls
    /\ stack # <<>> => Backdoor /\ Now = "get_queries" /\ Depth < MaxDepth
    /\ calls' = calls + 1
    /\ \E empty \in BOOLEAN :
          /\ stack' = Append([i \in 1 .. Depth |->
                                Frame(stack[i].at, stack[i].empty, stack[i].prev, TRUE)],
                             Frame(1, empty, Null, FALSE))
          /\ tid_map_len' = MapLength(empty)
          /\ tid_map' = MapPointer(empty)
    /\ UNCHANGED <<env_tls, held, crashed>>

(* The types of the map are looked up; then the environment of the thread   *)
(* is put aside, for WAMR to start another runtime.                         *)
MapMade ==
    /\ Depth > 0 /\ ~ crashed /\ Now = "map"
    /\ stack' = [stack EXCEPT ![Depth] = Frame(2, @.empty, env_tls, @.nested)]
    /\ env_tls' = Null
    /\ UNCHANGED <<tid_map, tid_map_len, held, calls, crashed>>

Makes == {"comp_data", "comp_ctx", "obj_data", "instance", "exec_env", "tupdesc"}
Takes(step) == IF step = "load" THEN {"module"} ELSE {step} \cap Makes

Gives(step) ==
    {thing \in {"obj_data"} : step = "emit"}
      \cup {thing \in {"tupdesc", "exec_env", "instance"} : step = "release"}

\* The steps inside PG_TRY.  The guest runs in an environment of its own.
Works ==
    /\ Depth > 0 /\ ~ crashed /\ Now \notin {"map", "signature", "finally"}
    /\ held' = (held \ Mine(Gives(Now))) \cup Mine(Takes(Now))
    /\ env_tls' = IF Now = "exec_env" THEN Depth
                  ELSE IF Now = "get_queries" THEN Null ELSE env_tls
    /\ Step
    /\ UNCHANGED <<tid_map, tid_map_len, calls, crashed>>

NoQueries(at) == at + 7

\* Without get_queries, or with one that returns no query, nothing is run.
HasQueries ==
    /\ Depth > 0 /\ ~ crashed /\ Now = "signature"
    /\ \/ Step
       \/ Goto(NoQueries(Last(stack).at))
    /\ UNCHANGED <<tid_map, tid_map_len, env_tls, held, calls, crashed>>

\* Slip: the inner PG_FINALLY runs only when get_queries succeeds.
OnlyModule == {"module"}

\* What the two PG_FINALLY blocks free.
FinallyFrees == {"module", "instance", "exec_env", "tupdesc"}

\* Slip: the environment of the thread is not put back.
EnvForgotten(frame) == Null

PutsBack(frame) == frame.prev

(* pfree(tid_map), whether or not a map was made: a null pointer brings the *)
(* process down, one into freed memory does whatever it finds there.        *)
FreesMap ==
    \/ /\ tid_map # Null /\ tid_map' = Null /\ tid_map_len' = 0 /\ crashed' = FALSE
    \/ /\ tid_map \in {Null, Freed} /\ crashed' = TRUE /\ UNCHANGED <<tid_map, tid_map_len>>

Finally ==
    /\ Depth > 0 /\ ~ crashed /\ Now = "finally"
    /\ held' = held \ Mine(FinallyFrees)
    /\ FreesMap
    /\ env_tls' = PutsBack(Last(stack))
    /\ stack' = Front(stack)
    /\ UNCHANGED calls

(* An error inside PG_TRY ends up in the same blocks.  The pointers they    *)
(* test are locals that were set after sigsetjmp.                           *)
Fails ==
    /\ Depth > 0 /\ ~ crashed /\ Now \notin {"map", "release", "finally"}
    /\ \E lost \in IF StaleLocals THEN SUBSET FinallyFrees ELSE {{}} :
          held' = (held \ Mine(FinallyFrees)) \cup {<<h[1], 0>> : h \in held \cap Mine(lost)}
    /\ FreesMap
    /\ env_tls' = PutsBack(Last(stack))
    /\ stack' = Front(stack)
    /\ UNCHANGED calls

(* Looking up the types of the map may fail, before PG_TRY: the globals     *)
(* stay, and when the transaction is aborted what they point to is freed.   *)
(* The guest of another call catches the error (worker.c:238) and goes on,   *)
(* with that map until PostgreSQL frees it behind a later statement.         *)
MapFails ==
    /\ Depth > 0 /\ ~ crashed /\ Now = "map" /\ ~ Last(stack).empty
    /\ stack' = Front(stack)
    /\ tid_map' \in {Freed} \cup {map \in {tid_map} : Depth > 1}
    /\ UNCHANGED <<tid_map_len, env_tls, held, calls, crashed>>

Next == Call \/ MapMade \/ Works \/ HasQueries \/ Finally \/ Fails \/ MapFails

Spec == Init /\ [][Next]_vars

-----------------------------------------------------------------------------
(* Properties                                                               *)

(* When a call has ended, well or badly, neither its module nor its instance *)
(* nor its environment nor its descriptor is left; only a build that keeps     *)
(* locals in registers may lose them to PG_FINALLY.  What a call made to       *)
(* generate code is left whenever it fails in between, and not promised here.  *)
NothingLeft ==
    \A h \in held : /\ h[2] > Depth => h[1] \in Aot
                    /\ h[2] = 0 => StaleLocals

(* Whatever fails, and however the calls are nested, the thread is again in  *)
(* the environment it was in: a job that had a module compiled goes on.      *)
EnvironmentBack ==
    /\ stack = <<>> /\ ~ crashed => env_tls = Caller
    /\ \A i \in DOMAIN stack : stack[i].at > 1 =>
          stack[i].prev = IF i = 1 THEN Caller ELSE i - 1

(* A guest that asks for an OID while its queries are taken is answered from *)
(* the map of its own call, never from one an earlier call left behind, as    *)
(* long as it has had no other module compiled.  Once it has, its own map is   *)
(* gone for good: there is none, or what is left of the one of the call it     *)
(* had made, where that failed before PG_TRY and the guest went on.          *)
AnsweredFromOwnMap ==
    stack # <<>> /\ ~ crashed =>
       LET call == Last(stack) IN
       /\ call.at > 1 /\ ~ call.nested =>
             IF call.empty THEN tid_map_len = 0 ELSE tid_map = Depth /\ tid_map_len = 1
       /\ call.nested => tid_map \in {Null, Freed, Depth + 1}

(* The process is brought down only by a call whose map is empty, or by one  *)
(* whose guest had another module compiled and so lost its map.              *)
CrashesWithoutMap ==
    [][crashed' /\ ~ crashed => Last(stack).empty \/ Last(stack).nested]_vars
=============================================================================
