-------------------------- MODULE ModuleStoreProofs --------------------------
(***************************************************************************)
(* Proofs about the modules a worker keeps loaded (module.c, worker.c): how *)
(* old they may be and what they may be linked to, for any modules, imports *)
(* and deployments, while jobs load and fail statement by statement.        *)
(***************************************************************************)
EXTENDS ModuleStore, SequenceTheorems, TLAPS

TypeInv ==
    /\ version \in Nat
    /\ db \in [Modules -> Nat] /\ floor \in [Modules -> Nat]
    /\ cache \in [Modules -> Nat] /\ snapshot \in [Modules -> Nat]
    /\ notices \subseteq Modules /\ dangling \subseteq Modules

\* Rows change with a notification only, and what the worker has not been
\* told of is newer than everything it has been told of.
ToldOrNoticed ==
    \A m \in Modules :
       /\ db[m] <= version /\ floor[m] <= version
       /\ m \notin notices => db[m] = floor[m]
       /\ m \in notices => db[m] = 0 \/ \A k \in Modules : floor[k] < db[m]

\* What a job's transaction sees is what was told or is being notified.
SnapshotKnown ==
    pc \in {"begun", "running"} =>
       \A m \in Modules :
          /\ m \notin notices => snapshot[m] = db[m]
          /\ snapshot[m] # 0 => snapshot[m] >= floor[m]

CacheKnown ==
    \A m \in Modules :
       cache[m] # 0 => /\ m \notin notices => cache[m] = db[m]
                       /\ cache[m] >= floor[m]

DeadIsEmpty == pc = "dead" => dangling = {} /\ \A m \in Modules : cache[m] = 0

IInv ==
    TypeInv /\ ToldOrNoticed /\ SnapshotKnown /\ CacheKnown /\ DeadIsEmpty /\ ImportsAlive

-----------------------------------------------------------------------------
(* Each step keeps the invariant                                            *)

\* The steps of the cache, as StoreNext takes them.
CacheNext ==
    \/ Load \/ LoadFails \/ on_notification_received \/ rst_module_worker_startup
    \/ EndJob \/ BeginJob \/ Signal
    \/ \E d \in Deployments : invalidate_module_cache(d)

LEMMA StoreTakesCacheSteps == [StoreNext]_store_vars => [CacheNext]_vars
<1> SUFFICES ASSUME [StoreNext]_store_vars PROVE CacheNext \/ UNCHANGED vars
  OBVIOUS
<1>1. CASE StoreWorker
  BY <1>1 DEF StoreWorker, StartsLoading, LoadsOn, Loads, LoadThrows, Invalidates,
              Restarts, EndsJob, CacheNext
<1>2. CASE Around
  BY <1>2 DEF Around, CacheNext
<1>3. CASE UNCHANGED store_vars
  BY <1>3 DEF store_vars
<1> QED
  BY <1>1, <1>2, <1>3 DEF StoreNext

LEMMA CacheInit == StoreInit => IInv
<1> SUFFICES ASSUME StoreInit PROVE IInv
  OBVIOUS
<1>1. /\ version = 1 /\ db = [m \in Modules |-> 1] /\ floor = db
      /\ cache = [m \in Modules |-> 0] /\ snapshot = cache
      /\ notices = {} /\ dangling = {} /\ pc = "idle"
  BY DEF StoreInit, Init, None
<1>2. \A m \in Modules : db[m] = 1 /\ floor[m] = 1 /\ cache[m] = 0
  BY <1>1
<1>3. TypeInv
  BY <1>1 DEF TypeInv
<1>4. ToldOrNoticed
  <2>1. ASSUME NEW m \in Modules
        PROVE  db[m] <= version /\ floor[m] <= version /\ db[m] = floor[m]
    <3>1. db[m] = 1 /\ floor[m] = 1 /\ version = 1
      BY <1>1, <1>2
    <3> QED
      BY <3>1
  <2> QED
    BY <1>1, <2>1 DEF ToldOrNoticed
<1> QED
  BY <1>1, <1>2, <1>3, <1>4 DEF IInv, SnapshotKnown, CacheKnown, DeadIsEmpty, ImportsAlive

(* A deployment's rows are newer than all there were, or gone, and are       *)
(* notified with it.                                                         *)
LEMMA DeployKeeps ==
    ASSUME IInv, NEW d \in Deployments, invalidate_module_cache(d)
    PROVE  IInv'
<1>1. d \subseteq Modules
  BY CacheAssumption DEF CacheAssumption
<1>2. PICK rows \in [d -> {0, version + 1}] :
         /\ db' = [m \in Modules |-> IF m \in d THEN rows[m] ELSE db[m]]
         /\ notices' = notices \cup d
  BY DEF invalidate_module_cache, Notifies
<1>3. version' = version + 1 /\ UNCHANGED <<pending, cache, dangling, snapshot, pc, floor>>
  BY DEF invalidate_module_cache
<1>4. TypeInv /\ ToldOrNoticed
  BY DEF IInv
<1>5. ASSUME NEW m \in Modules
      PROVE  /\ m \in d => db'[m] \in {0, version + 1}
             /\ m \notin d => db'[m] = db[m]
             /\ db[m] \in Nat /\ floor[m] \in Nat /\ version \in Nat
             /\ db[m] <= version /\ floor[m] <= version
  BY <1>2, <1>4 DEF TypeInv, ToldOrNoticed
<1>6. TypeInv'
  <2>1. db' \in [Modules -> Nat] /\ version' \in Nat
    <3>1. version \in Nat /\ version + 1 \in Nat
      BY <1>4 DEF TypeInv
    <3>2. \A m \in Modules : (IF m \in d THEN rows[m] ELSE db[m]) \in Nat
      BY <1>2, <1>4, <3>1 DEF TypeInv
    <3> QED
      BY <1>2, <1>3, <3>1, <3>2
  <2>2. notices' \subseteq Modules
    BY <1>1, <1>2, <1>4 DEF TypeInv
  <2> QED
    BY <1>3, <1>4, <2>1, <2>2 DEF TypeInv
<1>7. ToldOrNoticed'
  <2> SUFFICES ASSUME NEW m \in Modules
               PROVE  /\ db'[m] <= version + 1 /\ floor[m] <= version + 1
                      /\ m \notin notices' => db'[m] = floor[m]
                      /\ m \in notices' => db'[m] = 0 \/ \A k \in Modules : floor[k] < db'[m]
    BY <1>3 DEF ToldOrNoticed
  <2>1. db'[m] <= version + 1 /\ floor[m] <= version + 1
    BY <1>5
  <2>2. CASE m \in d
    <3>1. m \in notices' /\ db'[m] \in {0, version + 1}
      BY <1>2, <1>5, <2>2
    <3>2. \A k \in Modules : floor[k] < version + 1
      BY <1>5
    <3> QED
      BY <2>1, <3>1, <3>2
  <2>3. CASE m \notin d
    BY <1>2, <1>4, <1>5, <2>1, <2>3 DEF ToldOrNoticed
  <2> QED
    BY <2>2, <2>3
<1>8. \A m \in Modules : m \notin notices' => m \notin notices /\ db'[m] = db[m]
  BY <1>2, <1>5
<1>9. SnapshotKnown' /\ CacheKnown' /\ DeadIsEmpty' /\ ImportsAlive'
  BY <1>3, <1>8 DEF IInv, SnapshotKnown, CacheKnown, DeadIsEmpty, ImportsAlive
<1> QED
  BY <1>6, <1>7, <1>9 DEF IInv

(* Reading the notifications frees what is stale; what is left of the cache  *)
(* is as the rows are, and linked to what is left or to something newer.     *)
LEMMA NotifiedKeeps == ASSUME IInv, on_notification_received PROVE IInv'
<1>1. /\ pc = "idle" /\ notices' = {} /\ floor' = db
      /\ cache' = [m \in Modules |-> IF m \in notices THEN 0 ELSE cache[m]]
      /\ dangling' = (dangling \ notices)
            \cup {m \in Loaded \ notices : Imports[m] \cap Loaded \cap notices # {}}
      /\ UNCHANGED <<version, db, snapshot, pc>>
  BY DEF on_notification_received, rst_free_module, Notified
<1>2. TypeInv /\ ToldOrNoticed /\ CacheKnown
  BY DEF IInv
<1>3. TypeInv'
  BY <1>1, <1>2 DEF TypeInv, Loaded
<1>4. ToldOrNoticed'
  BY <1>1, <1>2 DEF ToldOrNoticed
<1>5. CacheKnown'
  <2> SUFFICES ASSUME NEW m \in Modules, cache'[m] # 0
               PROVE  cache'[m] = db[m] /\ cache'[m] >= db[m]
    BY <1>1 DEF CacheKnown
  <2>1. m \notin notices /\ cache'[m] = cache[m] /\ cache[m] # 0
    BY <1>1
  <2>2. cache[m] = db[m] /\ db[m] \in Nat
    BY <1>2, <2>1 DEF CacheKnown, TypeInv
  <2> QED
    BY <2>1, <2>2
<1>6. ImportsAlive'
  <2> SUFFICES ASSUME NEW m \in dangling'
               PROVE  \E k \in Imports[m] : db[k] = 0 \/ db[k] > db[m]
    BY <1>1 DEF ImportsAlive
  <2>1. m \in Modules /\ m \notin notices
    BY <1>1, <1>2 DEF TypeInv, Loaded
  <2>2. db[m] = floor[m] /\ db[m] \in Nat
    BY <1>2, <2>1 DEF ToldOrNoticed, TypeInv
  <2>3. Imports[m] \subseteq Modules
    BY <2>1, CacheAssumption DEF CacheAssumption
  <2>4. ASSUME NEW k \in Modules \cap notices
        PROVE  db[k] = 0 \/ db[k] > db[m]
    <3>1. db[k] \in Nat /\ (db[k] = 0 \/ floor[m] < db[k])
      BY <1>2, <2>1 DEF ToldOrNoticed, TypeInv
    <3> QED
      BY <2>2, <3>1
  <2>5. CASE m \in dangling
    <3>1. PICK k \in Imports[m] : floor[k] = 0 \/ floor[k] > floor[m]
      BY <2>5 DEF IInv, ImportsAlive
    <3>2. k \notin notices => db[k] = floor[k]
      BY <1>2, <2>3 DEF ToldOrNoticed
    <3> QED
      BY <2>2, <2>3, <2>4, <3>1, <3>2
  <2>6. CASE m \notin dangling
    <3>1. PICK k \in Imports[m] : k \in notices
      BY <1>1, <2>6
    <3> QED
      BY <2>3, <2>4, <3>1
  <2> QED
    BY <2>5, <2>6
<1>7. SnapshotKnown' /\ DeadIsEmpty'
  BY <1>1 DEF SnapshotKnown, DeadIsEmpty
<1> QED
  BY <1>3, <1>4, <1>5, <1>6, <1>7 DEF IInv

(* A job loads from rows it saw when it began: none older than was told.    *)
LEMMA LoadKeeps == ASSUME IInv, Load PROVE IInv'
<1>1. /\ pc = "begun" /\ pc' = "running"
      /\ \A m \in Needs(Entry) : snapshot[m] # 0
      /\ cache' = [m \in Modules |-> IF m \in Needs(Entry) THEN snapshot[m] ELSE cache[m]]
      /\ UNCHANGED <<version, db, notices, pending, dangling, snapshot, floor>>
  BY DEF Load
<1>2. TypeInv'
  <2>1. \A m \in Modules : (IF m \in Needs(Entry) THEN snapshot[m] ELSE cache[m]) \in Nat
    BY DEF IInv, TypeInv
  <2>2. cache' \in [Modules -> Nat]
    BY <1>1, <2>1
  <2> QED
    BY <1>1, <2>2 DEF IInv, TypeInv
<1>3. ToldOrNoticed' /\ ImportsAlive' /\ DeadIsEmpty'
  BY <1>1 DEF IInv, ToldOrNoticed, ImportsAlive, DeadIsEmpty
<1>4. SnapshotKnown'
  BY <1>1 DEF IInv, SnapshotKnown
<1>5. CacheKnown'
  <2> SUFFICES ASSUME NEW m \in Modules, cache'[m] # 0
               PROVE  /\ m \notin notices => cache'[m] = db[m]
                      /\ cache'[m] >= floor[m]
    BY <1>1 DEF CacheKnown
  <2>1. cache'[m] = snapshot[m] \/ cache'[m] = cache[m]
    BY <1>1
  <2> QED
    BY <1>1, <2>1 DEF IInv, SnapshotKnown, CacheKnown
<1> QED
  BY <1>2, <1>3, <1>4, <1>5 DEF IInv

LEMMA BeginKeeps == ASSUME IInv, BeginJob PROVE IInv'
<1>1. /\ pc = "idle" /\ pc' = "begun" /\ snapshot' = db
      /\ UNCHANGED <<version, db, notices, pending, cache, dangling, floor>>
  BY DEF BeginJob
<1>2. ASSUME NEW m \in Modules, db[m] # 0
      PROVE  db[m] >= floor[m]
  <2>1. db[m] \in Nat /\ (db[m] = floor[m] \/ floor[m] < db[m]) /\ floor[m] \in Nat
    BY <1>2 DEF IInv, TypeInv, ToldOrNoticed
  <2> QED
    BY <2>1
<1>3. SnapshotKnown'
  BY <1>1, <1>2 DEF SnapshotKnown
<1>4. TypeInv' /\ ToldOrNoticed' /\ CacheKnown' /\ DeadIsEmpty' /\ ImportsAlive'
  BY <1>1 DEF IInv, TypeInv, ToldOrNoticed, CacheKnown, DeadIsEmpty, ImportsAlive
<1> QED
  BY <1>3, <1>4 DEF IInv

(* A worker that failed to load dies with its cache; the next one starts     *)
(* with none, and knows every row.                                           *)
LEMMA DeathKeeps == ASSUME IInv, LoadFails \/ rst_module_worker_startup PROVE IInv'
<1>1. CASE LoadFails
  <2>1. /\ pc' = "dead" /\ cache' = [m \in Modules |-> 0] /\ dangling' = {}
        /\ UNCHANGED <<version, db, notices, pending, snapshot, floor>>
    BY <1>1 DEF LoadFails, None
  <2>2. TypeInv' /\ ToldOrNoticed'
    BY <2>1 DEF IInv, TypeInv, ToldOrNoticed
  <2>3. SnapshotKnown' /\ CacheKnown' /\ DeadIsEmpty' /\ ImportsAlive'
    BY <2>1 DEF SnapshotKnown, CacheKnown, DeadIsEmpty, ImportsAlive
  <2> QED
    BY <2>2, <2>3 DEF IInv
<1>2. CASE rst_module_worker_startup
  <2>1. /\ pc = "dead" /\ pc' = "idle" /\ notices' = {} /\ floor' = db
        /\ snapshot' = [m \in Modules |-> 0]
        /\ UNCHANGED <<version, db, cache, dangling>>
    BY <1>2 DEF rst_module_worker_startup, None
  <2>2. dangling = {} /\ \A m \in Modules : cache[m] = 0
    BY <2>1 DEF IInv, DeadIsEmpty
  <2>3. TypeInv' /\ ToldOrNoticed'
    BY <2>1 DEF IInv, TypeInv, ToldOrNoticed
  <2>4. SnapshotKnown' /\ CacheKnown' /\ DeadIsEmpty' /\ ImportsAlive'
    BY <2>1, <2>2 DEF SnapshotKnown, CacheKnown, DeadIsEmpty, ImportsAlive
  <2> QED
    BY <2>3, <2>4 DEF IInv
<1> QED
  BY <1>1, <1>2

LEMMA QuietKeeps == ASSUME IInv, EndJob \/ Signal \/ UNCHANGED vars PROVE IInv'
<1>1. /\ UNCHANGED <<version, db, notices, cache, dangling, floor>>
      /\ \/ pc' = "idle" /\ snapshot' = [m \in Modules |-> 0]
         \/ UNCHANGED <<snapshot, pc>>
  BY DEF EndJob, Signal, vars, None
<1>2. TypeInv' /\ ToldOrNoticed'
  BY <1>1 DEF IInv, TypeInv, ToldOrNoticed
<1>3. SnapshotKnown' /\ CacheKnown' /\ DeadIsEmpty' /\ ImportsAlive'
  BY <1>1 DEF IInv, SnapshotKnown, CacheKnown, DeadIsEmpty, ImportsAlive
<1> QED
  BY <1>2, <1>3 DEF IInv

LEMMA CacheStep == IInv /\ [StoreNext]_store_vars => IInv'
<1> SUFFICES ASSUME IInv, [CacheNext]_vars PROVE IInv'
  BY StoreTakesCacheSteps
<1> QED
  BY DeployKeeps, NotifiedKeeps, LoadKeeps, BeginKeeps, DeathKeeps, QuietKeeps
     DEF CacheNext

-----------------------------------------------------------------------------
(* The properties of the cache, for every value of its constants             *)

(* A job never runs with a module older than what the worker was told of:    *)
(* what is stale was freed before, what is missing is loaded from a snapshot *)
(* taken since.                                                              *)
THEOREM JobsAreFresh == Spec => []JobsRunFresh
<1>1. IInv => JobsRunFresh
  BY DEF IInv, CacheKnown, JobsRunFresh, Loaded
<1> QED
  BY CacheInit, CacheStep, <1>1, PTL DEF Spec

(* rst_free_module leaves a module linked to freed memory only if a later    *)
(* deployment changed what it imports, and not it.                           *)
THEOREM FreedImportsAreNewer == Spec => []ImportsAlive
<1>1. IInv => ImportsAlive
  BY DEF IInv
<1> QED
  BY CacheInit, CacheStep, <1>1, PTL DEF Spec
-----------------------------------------------------------------------------
(* Where the loader stands                                                  *)

P == 3 * NumQueries

Programs == {Loader!AsEntry, Loader!AsImport}

Things == Loader!Permanent \cup Loader!Temporary

(* What is allocated for a module whose next statement is number n: the      *)
(* statements of query q are 3q + 1 to 3q + 3, and P + 8 loads the imports.   *)
Present(x, program, n) ==
    \/ x = <<"queries", 0>> /\ n \in 3 .. P + 4
    \/ x = <<"pmod", 0>> /\ 4 <= n
    \/ \E q \in Loader!Queries :
          \/ x = <<"unkept", 0>> /\ n = 3 * q + 2
          \/ x = <<"plan", q>> /\ 3 * q + 3 <= n
          \/ x = <<"funcs", q>> /\ 3 * q + 4 <= n
    \/ x = <<"tuptable", 0>> /\ P + 6 <= n /\ n <= (IF program = Loader!AsEntry THEN P + 12 ELSE P + 10)
    \/ x = <<"aot", 0>> /\ P + 10 <= n
    \/ x = <<"registered", 0>> /\ P + 12 <= n

HeldAt(program, n) == {x \in Things : Present(x, program, n)}

Frames == [module : Modules, at : Nat \ {0}, program : Programs]

(* Each module being loaded has what its statements have allocated so far,   *)
(* and waits for the one above it where its imports are loaded.              *)
StackInv ==
    /\ stack \in Seq(Frames)
    /\ \A i \in 1 .. Len(stack) :
          LET f == stack[i] IN
          /\ f.program = IF i = 1 THEN Loader!AsEntry ELSE Loader!AsImport
          /\ i = 1 => f.module = Entry
          /\ f.at <= Len(f.program)
          /\ i < Len(stack) \/ result = "error" => f.at = P + 8
          /\ held[f.module] = HeldAt(f.program, f.at)
          /\ f.module \in complete <=> i > 1 /\ f.at = P + 11
    /\ \A i, j \in 1 .. Len(stack) : stack[i].module = stack[j].module => i = j

(* A module that is not being loaded is whole, or has nothing that outlives  *)
(* the transaction, or is one that a failure has left behind.                   *)
HeldInv ==
    /\ held \in [Modules -> SUBSET Things] /\ complete \subseteq Modules
    /\ \A m \in Modules \ Loader!Loading :
          \/ m \in complete /\ held[m] = Loader!Permanent
          \/ m \notin complete /\ held[m] \cap Loader!Permanent = {}
          \/ m \in abandoned \cup lost /\ m \notin Loader!Registered
    /\ result = "none" =>
          /\ abandoned = {} /\ lost = {}
          /\ \A m \in Modules \ Loader!Loading : held[m] \in {{}, Loader!Permanent}

(* What is loaded for a job is what the job needs, each with its row seen and *)
(* with what it links to.                                                   *)
JobInv ==
    /\ pc \in {"idle", "begun", "running", "dead"} /\ result \in {"none", "error"}
    /\ stack # <<>> => pc = "begun"
    /\ result = "error" => pc \in {"begun", "dead"}
    /\ pc \in {"idle", "running"} => Loader!Registered = Loaded
    /\ pc = "begun" =>
          /\ Loaded \subseteq Loader!Registered
          /\ \A m \in Loader!Loading : m \in Needs(Entry) \ Loaded
          /\ \A m \in Loader!Registered \ Loaded : m \in Needs(Entry) /\ snapshot[m] # 0
          /\ \A i \in 1 .. Len(stack) : stack[i].at > P + 6 => snapshot[stack[i].module] # 0
          /\ result = "none" =>
                /\ \A m \in Loader!Registered \ Loaded :
                      Imports[m] \subseteq Loader!Registered \cup Loader!Loading
                /\ \A i \in 1 .. Len(stack) : stack[i].at > P + 8 =>
                      Imports[stack[i].module] \subseteq Loader!Registered \cup Loader!Loading

LoaderInv == StackInv /\ HeldInv /\ JobInv

-----------------------------------------------------------------------------
(* The programs of the loader                                               *)

\* The names of statements.
Names == {"length", "queries", "alloc", "prepare", "keep", "convert", "created", "row", "found",
          "heap_types", "import", "load", "complete", "rtt", "register", "assign"}

Steps == Names \X Int

LEMMA CountFacts == NumQueries \in Nat /\ P \in Nat /\ P = 3 * NumQueries
BY LoadAssumption DEF LoadAssumption, P

LEMMA PlanFacts ==
    /\ Len(Loader!PlanSteps) = P /\ Loader!PlanSteps \in Seq(Steps)
    /\ \A q \in Loader!Queries : /\ Loader!PlanSteps[3 * q - 2] = <<"prepare", q>>
                                 /\ Loader!PlanSteps[3 * q - 1] = <<"keep", q>>
                                 /\ Loader!PlanSteps[3 * q] = <<"convert", q>>
<1> DEFINE kind(i) == (<<"prepare", "keep", "convert">>)[1 + ((i - 1) % 3)]
           step(i) == <<kind(i), 1 + ((i - 1) \div 3)>>
<1>1. Loader!PlanSteps = [i \in 1 .. P |-> step(i)]
  BY DEF Loader!PlanSteps, P
<1>2. ASSUME NEW i \in 1 .. P PROVE step(i) \in Steps
  <2>1. (i - 1) % 3 \in 0 .. 2 /\ (i - 1) \div 3 \in Int
    BY CountFacts
  <2>2. kind(i) \in {"prepare", "keep", "convert"}
    BY <2>1
  <2> HIDE DEF kind
  <2>3. 1 + ((i - 1) \div 3) \in Int
    BY <2>1
  <2> QED
    BY <2>2, <2>3 DEF Steps, Names
<1>3. ASSUME NEW q \in Loader!Queries
      PROVE  /\ step(3 * q - 2) = <<"prepare", q>>
             /\ step(3 * q - 1) = <<"keep", q>>
             /\ step(3 * q) = <<"convert", q>>
             /\ 3 * q - 2 \in 1 .. P /\ 3 * q - 1 \in 1 .. P /\ 3 * q \in 1 .. P
  <2>1. q \in Int /\ 1 <= q /\ q <= NumQueries
    BY CountFacts DEF Loader!Queries
  <2>2. /\ (3 * q - 2 - 1) % 3 = 0 /\ (3 * q - 2 - 1) \div 3 = q - 1
        /\ (3 * q - 1 - 1) % 3 = 1 /\ (3 * q - 1 - 1) \div 3 = q - 1
        /\ (3 * q - 1) % 3 = 2 /\ (3 * q - 1) \div 3 = q - 1
    BY <2>1
  <2>3. 3 * q - 2 \in 1 .. P /\ 3 * q - 1 \in 1 .. P /\ 3 * q \in 1 .. P
    BY <2>1, CountFacts
  <2> QED
    BY <2>1, <2>2, <2>3
<1>4. Len(Loader!PlanSteps) = P /\ Loader!PlanSteps \in Seq(Steps)
  <2> HIDE DEF step
  <2> QED
    BY <1>1, <1>2, CountFacts
<1> QED
  BY <1>1, <1>3, <1>4

LEMMA Joined ==
    ASSUME NEW s \in Seq(Steps), NEW e \in Seq(Steps)
    PROVE  /\ s \o e \in Seq(Steps) /\ Len(s \o e) = Len(s) + Len(e)
           /\ \A i \in 1 .. Len(s) : (s \o e)[i] = s[i]
           /\ \A i \in 1 .. Len(e) : (s \o e)[Len(s) + i] = e[i]
<1> DEFINE t == s \o e
<1>1. /\ t \in Seq(Steps) /\ Len(t) = Len(s) + Len(e)
      /\ \A i \in 1 .. Len(s) + Len(e) : t[i] = IF i <= Len(s) THEN s[i] ELSE e[i - Len(s)]
  BY ConcatProperties, Zenon
<1>2. Len(s) \in Nat /\ Len(e) \in Nat
  OBVIOUS
<1> HIDE DEF t
<1>3. ASSUME NEW i \in 1 .. Len(s) PROVE t[i] = s[i]
  <2>1. i \in 1 .. Len(s) + Len(e) /\ i <= Len(s)
    BY <1>2
  <2> QED
    BY <1>1, <2>1, Zenon
<1>4. ASSUME NEW i \in 1 .. Len(e) PROVE t[Len(s) + i] = e[i]
  <2>1. /\ Len(s) + i \in 1 .. Len(s) + Len(e) /\ ~ (Len(s) + i <= Len(s))
        /\ Len(s) + i - Len(s) = i
    BY <1>2
  <2>2. t[Len(s) + i] = e[Len(s) + i - Len(s)]
    BY <1>1, <2>1
  <2> QED
    BY <2>1, <2>2, Zenon
<1> QED
  BY <1>1, <1>3, <1>4 DEF t

LEMMA ProgramFacts ==
    /\ Loader!AsImport \in Seq(Steps) /\ Len(Loader!AsImport) = P + 11
    /\ Loader!AsEntry \in Seq(Steps) /\ Len(Loader!AsEntry) = P + 12
    /\ \A a \in Programs :
          /\ a[1] = <<"length", 0>> /\ a[2] = <<"queries", 0>> /\ a[3] = <<"alloc", 0>>
          /\ \A i \in 1 .. P : a[i + 3] = Loader!PlanSteps[i]
          /\ a[P + 4] = <<"created", 0>> /\ a[P + 5] = <<"row", 0>>
          /\ a[P + 6] = <<"found", 0>> /\ a[P + 7] = <<"heap_types", 0>>
          /\ a[P + 8] = <<"import", 0>> /\ a[P + 9] = <<"load", 0>>
          /\ a[P + 11] = <<"register", 0>>
    /\ Loader!AsImport[P + 10] = <<"complete", 0>>
    /\ Loader!AsEntry[P + 10] = <<"rtt", 0>> /\ Loader!AsEntry[P + 12] = <<"assign", 0>>
<1> DEFINE head == << <<"length", 0>>, <<"queries", 0>>, <<"alloc", 0>> >>
           tail == << <<"created", 0>>, <<"row", 0>>, <<"found", 0>>, <<"heap_types", 0>> >>
           import == << <<"import", 0>>, <<"load", 0>>, <<"complete", 0>>, <<"register", 0>> >>
           entry == << <<"import", 0>>, <<"load", 0>>, <<"rtt", 0>>, <<"register", 0>>, <<"assign", 0>> >>
           plans == Loader!PlanSteps
           begin == head \o plans
           prepare == begin \o tail
           asImport == prepare \o import
           asEntry == prepare \o entry
<1>1. Loader!AsImport = asImport /\ Loader!AsEntry = asEntry
  BY DEF Loader!Prepare, Loader!AsImport, Loader!AsEntry
<1>2. \A name \in Names : <<name, 0>> \in Steps
  BY DEF Steps
<1>3. head \in Seq(Steps) /\ Len(head) = 3 /\ head[1] = <<"length", 0>>
      /\ head[2] = <<"queries", 0>> /\ head[3] = <<"alloc", 0>>
  BY <1>2 DEF Names
<1>4. /\ tail \in Seq(Steps) /\ Len(tail) = 4
      /\ tail[1] = <<"created", 0>> /\ tail[2] = <<"row", 0>>
      /\ tail[3] = <<"found", 0>> /\ tail[4] = <<"heap_types", 0>>
  BY <1>2 DEF Names
<1>5. /\ import \in Seq(Steps) /\ Len(import) = 4
      /\ import[1] = <<"import", 0>> /\ import[2] = <<"load", 0>>
      /\ import[3] = <<"complete", 0>> /\ import[4] = <<"register", 0>>
  BY <1>2 DEF Names
<1>6. /\ entry \in Seq(Steps) /\ Len(entry) = 5
      /\ entry[1] = <<"import", 0>> /\ entry[2] = <<"load", 0>> /\ entry[3] = <<"rtt", 0>>
      /\ entry[4] = <<"register", 0>> /\ entry[5] = <<"assign", 0>>
  <2>1. \A n \in {"import", "load", "rtt", "register", "assign"} : <<n, 0>> \in Steps
    BY <1>2 DEF Names
  <2> QED
    BY <2>1
<1>7. plans \in Seq(Steps) /\ Len(plans) = P /\ P \in Nat
  BY PlanFacts, CountFacts
<1> HIDE DEF head, tail, import, entry, plans
<1>8. P + 3 \in Nat /\ P + 7 \in Nat /\ 3 \in Nat /\ 4 \in Nat /\ 5 \in Nat
  BY <1>7
<1>9. /\ begin \in Seq(Steps) /\ Len(begin) = 3 + P
      /\ \A i \in 1 .. 3 : begin[i] = head[i]
      /\ \A i \in 1 .. P : begin[3 + i] = plans[i]
  <2>1. /\ begin \in Seq(Steps) /\ Len(begin) = Len(head) + Len(plans)
        /\ \A i \in 1 .. Len(head) : begin[i] = head[i]
        /\ \A i \in 1 .. Len(plans) : begin[Len(head) + i] = plans[i]
    BY <1>3, <1>7, Joined, Zenon
  <2> HIDE DEF begin
  <2> QED
    BY <1>3, <1>7, <1>8, <2>1
<1> HIDE DEF begin
<1>10. begin \in Seq(Steps) /\ Len(begin) = P + 3
  BY <1>7, <1>9
<1>11. /\ prepare \in Seq(Steps) /\ Len(prepare) = P + 3 + 4
       /\ \A i \in 1 .. P + 3 : prepare[i] = begin[i]
       /\ \A i \in 1 .. 4 : prepare[P + 3 + i] = tail[i]
  <2>1. /\ prepare \in Seq(Steps) /\ Len(prepare) = Len(begin) + Len(tail)
        /\ \A i \in 1 .. Len(begin) : prepare[i] = begin[i]
        /\ \A i \in 1 .. Len(tail) : prepare[Len(begin) + i] = tail[i]
    BY <1>4, <1>10, Joined, Zenon
  <2> HIDE DEF prepare
  <2> QED
    BY <1>4, <1>10, <1>8, <2>1
<1> HIDE DEF prepare
<1>12. /\ prepare \in Seq(Steps) /\ Len(prepare) = P + 7
       /\ prepare[P + 4] = tail[1] /\ prepare[P + 5] = tail[2]
       /\ prepare[P + 6] = tail[3] /\ prepare[P + 7] = tail[4]
  BY <1>7, <1>11
<1>13. /\ prepare[1] = head[1] /\ prepare[2] = head[2] /\ prepare[3] = head[3]
       /\ \A i \in 1 .. P : prepare[i + 3] = plans[i]
  BY <1>7, <1>9, <1>11
<1>14. /\ asImport \in Seq(Steps) /\ Len(asImport) = P + 7 + 4
       /\ \A i \in 1 .. P + 7 : asImport[i] = prepare[i]
       /\ \A i \in 1 .. 4 : asImport[P + 7 + i] = import[i]
  <2>1. /\ asImport \in Seq(Steps) /\ Len(asImport) = Len(prepare) + Len(import)
        /\ \A i \in 1 .. Len(prepare) : asImport[i] = prepare[i]
        /\ \A i \in 1 .. Len(import) : asImport[Len(prepare) + i] = import[i]
    BY <1>5, <1>12, Joined, Zenon
  <2> HIDE DEF asImport
  <2> QED
    BY <1>5, <1>12, <1>8, <2>1
<1>15. /\ asEntry \in Seq(Steps) /\ Len(asEntry) = P + 7 + 5
       /\ \A i \in 1 .. P + 7 : asEntry[i] = prepare[i]
       /\ \A i \in 1 .. 5 : asEntry[P + 7 + i] = entry[i]
  <2>1. /\ asEntry \in Seq(Steps) /\ Len(asEntry) = Len(prepare) + Len(entry)
        /\ \A i \in 1 .. Len(prepare) : asEntry[i] = prepare[i]
        /\ \A i \in 1 .. Len(entry) : asEntry[Len(prepare) + i] = entry[i]
    BY <1>6, <1>12, Joined, Zenon
  <2> HIDE DEF asEntry
  <2> QED
    BY <1>6, <1>12, <1>8, <2>1
<1> HIDE DEF asImport, asEntry
<1>16. /\ Len(asImport) = P + 11 /\ asImport[P + 8] = import[1] /\ asImport[P + 9] = import[2]
       /\ asImport[P + 10] = import[3] /\ asImport[P + 11] = import[4]
  BY <1>7, <1>14
<1>17. /\ Len(asEntry) = P + 12 /\ asEntry[P + 8] = entry[1] /\ asEntry[P + 9] = entry[2]
       /\ asEntry[P + 10] = entry[3] /\ asEntry[P + 11] = entry[4] /\ asEntry[P + 12] = entry[5]
  <2>1. \A i \in 1 .. 5 : asEntry[P + 7 + i] = entry[i]
    BY <1>15, Zenon
  <2>2. Len(asEntry) = P + 7 + 5
    BY <1>15, Zenon
  <2>3. /\ P + 7 + 5 = P + 12 /\ P + 7 + 1 = P + 8 /\ P + 7 + 2 = P + 9
        /\ P + 7 + 3 = P + 10 /\ P + 7 + 4 = P + 11
    BY <1>7
  <2> QED
    BY <2>1, <2>2, <2>3
<1>18. ASSUME NEW a \in Programs
       PROVE  /\ \A i \in 1 .. P + 7 : a[i] = prepare[i]
              /\ a[P + 8] = <<"import", 0>> /\ a[P + 9] = <<"load", 0>>
              /\ a[P + 11] = <<"register", 0>>
  BY <1>1, <1>5, <1>6, <1>14, <1>15, <1>16, <1>17, Zenon DEF Programs
<1>19. ASSUME NEW a \in Programs
       PROVE  /\ a[1] = <<"length", 0>> /\ a[2] = <<"queries", 0>> /\ a[3] = <<"alloc", 0>>
              /\ \A i \in 1 .. P : a[i + 3] = plans[i]
              /\ a[P + 4] = <<"created", 0>> /\ a[P + 5] = <<"row", 0>>
              /\ a[P + 6] = <<"found", 0>> /\ a[P + 7] = <<"heap_types", 0>>
  BY <1>3, <1>4, <1>7, <1>12, <1>13, <1>18
<1> QED
  BY <1>1, <1>5, <1>6, <1>14, <1>15, <1>16, <1>17, <1>18, <1>19, Zenon DEF plans

\* Statement n is one of those that plan a query.
QueryStep(a, n) ==
    \E q \in Loader!Queries :
       \/ n = 3 * q + 1 /\ a[n] = <<"prepare", q>>
       \/ n = 3 * q + 2 /\ a[n] = <<"keep", q>>
       \/ n = 3 * q + 3 /\ a[n] = <<"convert", q>>

\* Statement n is one of the others.
OwnStep(a, n) ==
    \/ n = 1 /\ a[n] = <<"length", 0>>
    \/ n = 2 /\ a[n] = <<"queries", 0>>
    \/ n = 3 /\ a[n] = <<"alloc", 0>>
    \/ n = P + 4 /\ a[n] = <<"created", 0>>
    \/ n = P + 5 /\ a[n] = <<"row", 0>>
    \/ n = P + 6 /\ a[n] = <<"found", 0>>
    \/ n = P + 7 /\ a[n] = <<"heap_types", 0>>
    \/ n = P + 9 /\ a[n] = <<"load", 0>>
    \/ n = P + 10 /\ a = Loader!AsImport /\ a[n] = <<"complete", 0>>
    \/ n = P + 10 /\ a = Loader!AsEntry /\ a[n] = <<"rtt", 0>>
    \/ n = P + 11 /\ a[n] = <<"register", 0>>
    \/ n = P + 12 /\ a = Loader!AsEntry /\ a[n] = <<"assign", 0>>

(* Every statement of a program, by its number.                             *)
LEMMA StatementIs ==
    ASSUME NEW a \in Programs, NEW n \in 1 .. Len(a)
    PROVE  \/ QueryStep(a, n)
           \/ OwnStep(a, n)
           \/ n = P + 8 /\ a[n] = <<"import", 0>>
<1>1. /\ P \in Nat /\ P = 3 * NumQueries /\ NumQueries \in Nat
      /\ \/ a = Loader!AsImport /\ Len(a) = P + 11
         \/ a = Loader!AsEntry /\ Len(a) = P + 12
  <2>1. Len(Loader!AsImport) = P + 11 /\ Len(Loader!AsEntry) = P + 12
    BY ProgramFacts, Zenon
  <2>2. a = Loader!AsImport \/ a = Loader!AsEntry
    BY DEF Programs
  <2> QED
    BY CountFacts, <2>1, <2>2, Zenon
<1>2. n \in Int /\ 1 <= n /\ n <= Len(a) /\ Len(a) \in Nat
  <2>1. Len(a) \in Nat
    BY <1>1
  <2> QED
    BY <2>1
<1>3. CASE n \in 4 .. P + 3
  <2>1. n - 3 \in 1 .. P /\ n = n - 3 + 3
    BY <1>1, <1>2, <1>3
  <2>2. a[n] = Loader!PlanSteps[n - 3]
    BY <2>1, ProgramFacts
  <2> DEFINE q == (n - 1) \div 3
  <2>3. q \in Int /\ (n - 1 = 3 * q \/ n - 1 = 3 * q + 1 \/ n - 1 = 3 * q + 2)
    BY <1>2
  <2> HIDE DEF q
  <2>4. q \in Loader!Queries
    BY <1>1, <1>2, <1>3, <2>3 DEF Loader!Queries
  <2>5. n - 3 = 3 * q - 2 \/ n - 3 = 3 * q - 1 \/ n - 3 = 3 * q
    BY <1>2, <2>3
  <2>6. \/ n = 3 * q + 1 /\ a[n] = <<"prepare", q>>
        \/ n = 3 * q + 2 /\ a[n] = <<"keep", q>>
        \/ n = 3 * q + 3 /\ a[n] = <<"convert", q>>
    <3>1. CASE n - 3 = 3 * q - 2
      <4>1. n = 3 * q + 1
        BY <1>2, <2>3, <3>1
      <4>2. a[n] = <<"prepare", q>>
        BY <2>2, <2>4, <3>1, PlanFacts, Zenon
      <4> QED
        BY <4>1, <4>2
    <3>2. CASE n - 3 = 3 * q - 1
      <4>1. n = 3 * q + 2
        BY <1>2, <2>3, <3>2
      <4>2. a[n] = <<"keep", q>>
        BY <2>2, <2>4, <3>2, PlanFacts, Zenon
      <4> QED
        BY <4>1, <4>2
    <3>3. CASE n - 3 = 3 * q
      <4>1. n = 3 * q + 3
        BY <1>2, <2>3, <3>3
      <4>2. a[n] = <<"convert", q>>
        BY <2>2, <2>4, <3>3, PlanFacts, Zenon
      <4> QED
        BY <4>1, <4>2
    <3> QED
      BY <2>5, <3>1, <3>2, <3>3
  <2>7. QueryStep(a, n)
    BY <2>4, <2>6 DEF QueryStep
  <2> QED
    BY <2>7
<1>4. CASE n \notin 4 .. P + 3
  <2>1. n \in {1, 2, 3, P + 4, P + 5, P + 6, P + 7, P + 8, P + 9, P + 10, P + 11, P + 12}
    BY <1>1, <1>2, <1>4
  <2>2. n = P + 12 => a = Loader!AsEntry
    BY <1>1, <1>2
  <2>3. /\ a[1] = <<"length", 0>> /\ a[2] = <<"queries", 0>> /\ a[3] = <<"alloc", 0>>
        /\ a[P + 4] = <<"created", 0>> /\ a[P + 5] = <<"row", 0>>
        /\ a[P + 6] = <<"found", 0>> /\ a[P + 7] = <<"heap_types", 0>>
        /\ a[P + 8] = <<"import", 0>> /\ a[P + 9] = <<"load", 0>>
        /\ a[P + 11] = <<"register", 0>>
    BY ProgramFacts, Zenon
  <2>4. /\ Loader!AsImport[P + 10] = <<"complete", 0>>
        /\ Loader!AsEntry[P + 10] = <<"rtt", 0>> /\ Loader!AsEntry[P + 12] = <<"assign", 0>>
    BY ProgramFacts, Zenon
  <2>6. n = P + 10 => \/ a = Loader!AsImport /\ a[n] = <<"complete", 0>>
                      \/ a = Loader!AsEntry /\ a[n] = <<"rtt", 0>>
    BY <1>1, <2>4, Zenon
  <2>7. n = P + 12 => a = Loader!AsEntry /\ a[n] = <<"assign", 0>>
    BY <2>2, <2>4, Zenon
  <2>8. CASE n = 1 \/ n = 2 \/ n = 3
    BY <2>3, <2>8, Zenon DEF OwnStep
  <2>9. CASE n = P + 4 \/ n = P + 5 \/ n = P + 6 \/ n = P + 7
    BY <2>3, <2>9, Zenon DEF OwnStep
  <2>10. CASE n = P + 8 \/ n = P + 9 \/ n = P + 11
    BY <2>3, <2>10, Zenon DEF OwnStep
  <2>11. CASE n = P + 10
    BY <2>6, <2>11, Zenon DEF OwnStep
  <2>12. CASE n = P + 12
    BY <2>7, <2>12, Zenon DEF OwnStep
  <2>13. \/ n = 1 \/ n = 2 \/ n = 3
         \/ n = P + 4 \/ n = P + 5 \/ n = P + 6 \/ n = P + 7
         \/ n = P + 8 \/ n = P + 9 \/ n = P + 11
         \/ n = P + 10 \/ n = P + 12
    BY <2>1
  <2> QED
    BY <2>8, <2>9, <2>10, <2>11, <2>12, <2>13, Zenon
<1> QED
  BY <1>3, <1>4

\* What each statement allocates and what it releases.
LEMMA Effects ==
    /\ \A name \in {"length", "created", "found", "heap_types", "complete", "rtt", "assign"} :
          Loader!Allocates(<<name, 0>>) = {}
    /\ Loader!Allocates(<<"queries", 0>>) = {<<"queries", 0>>}
    /\ Loader!Allocates(<<"alloc", 0>>) = {<<"pmod", 0>>}
    /\ \A q \in Loader!Queries :
          /\ Loader!Allocates(<<"prepare", q>>) = {<<"unkept", 0>>}
          /\ Loader!Allocates(<<"keep", q>>) = {<<"plan", q>>}
          /\ Loader!Allocates(<<"convert", q>>) = {<<"funcs", q>>}
          /\ Loader!Releases(<<"prepare", q>>) = {}
          /\ Loader!Releases(<<"keep", q>>) = {<<"unkept", 0>>}
          /\ Loader!Releases(<<"convert", q>>) = {}
    /\ Loader!Allocates(<<"row", 0>>) = {<<"tuptable", 0>>}
    /\ Loader!Allocates(<<"load", 0>>) = {<<"aot", 0>>}
    /\ Loader!Allocates(<<"register", 0>>) = {<<"registered", 0>>}
    /\ \A name \in {"length", "queries", "alloc", "row", "found", "heap_types", "load", "rtt", "register"} :
          Loader!Releases(<<name, 0>>) = {}
    /\ Loader!Releases(<<"created", 0>>) = {<<"queries", 0>>}
    /\ \A name \in {"complete", "assign"} : Loader!Releases(<<name, 0>>) = {<<"tuptable", 0>>}
<1>1. ASSUME NEW kind PROVE Loader!One({kind}) = {<<kind, 0>>}
  BY DEF Loader!One
<1>2. Loader!Temporary = {<<"queries", 0>>, <<"unkept", 0>>, <<"tuptable", 0>>}
  BY DEF Loader!Temporary, Loader!One
<1>3. /\ \A name \in {"length", "created", "found", "heap_types", "complete", "rtt", "assign"} :
             Loader!Allocates(<<name, 0>>) = {}
      /\ Loader!Allocates(<<"queries", 0>>) = {<<"queries", 0>>}
  BY <1>2 DEF Loader!Allocates
<1>4. /\ Loader!Allocates(<<"alloc", 0>>) = {<<"pmod", 0>>}
      /\ Loader!Allocates(<<"row", 0>>) = {<<"tuptable", 0>>}
      /\ Loader!Allocates(<<"load", 0>>) = {<<"aot", 0>>}
      /\ Loader!Allocates(<<"register", 0>>) = {<<"registered", 0>>}
  BY <1>1 DEF Loader!Allocates
<1>5. ASSUME NEW q \in Loader!Queries
      PROVE  /\ Loader!Allocates(<<"prepare", q>>) = {<<"unkept", 0>>}
             /\ Loader!Allocates(<<"keep", q>>) = {<<"plan", q>>}
             /\ Loader!Allocates(<<"convert", q>>) = {<<"funcs", q>>}
             /\ Loader!Releases(<<"prepare", q>>) = {}
             /\ Loader!Releases(<<"keep", q>>) = {<<"unkept", 0>>}
             /\ Loader!Releases(<<"convert", q>>) = {}
  BY <1>1 DEF Loader!Allocates, Loader!Releases
<1>6. /\ \A name \in {"length", "queries", "alloc", "row", "found", "heap_types", "load", "rtt", "register"} :
             Loader!Releases(<<name, 0>>) = {}
      /\ Loader!Releases(<<"created", 0>>) = {<<"queries", 0>>}
      /\ \A name \in {"complete", "assign"} : Loader!Releases(<<name, 0>>) = {<<"tuptable", 0>>}
  BY <1>1 DEF Loader!Releases
<1> QED
  BY <1>3, <1>4, <1>5, <1>6

LEMMA ThingsAre ==
    /\ \A x : x \in Loader!Permanent <=>
             \/ x \in {<<"pmod", 0>>, <<"aot", 0>>, <<"registered", 0>>}
             \/ \E q \in Loader!Queries : x = <<"plan", q>> \/ x = <<"funcs", q>>
    /\ \A x : x \in Loader!Temporary <=> x \in {<<"queries", 0>>, <<"unkept", 0>>, <<"tuptable", 0>>}
BY DEF Loader!Permanent, Loader!Temporary, Loader!One, Loader!Plans, Loader!Funcs

LEMMA PresentIs ==
    ASSUME NEW a, NEW n \in Int
    PROVE  /\ Present(<<"queries", 0>>, a, n) <=> n \in 3 .. P + 4
           /\ Present(<<"pmod", 0>>, a, n) <=> 4 <= n
           /\ Present(<<"unkept", 0>>, a, n) <=> \E q \in Loader!Queries : n = 3 * q + 2
           /\ Present(<<"tuptable", 0>>, a, n)
                 <=> P + 6 <= n /\ n <= (IF a = Loader!AsEntry THEN P + 12 ELSE P + 10)
           /\ Present(<<"aot", 0>>, a, n) <=> P + 10 <= n
           /\ Present(<<"registered", 0>>, a, n) <=> P + 12 <= n
           /\ \A q \in Loader!Queries : /\ Present(<<"plan", q>>, a, n) <=> 3 * q + 3 <= n
                                        /\ Present(<<"funcs", q>>, a, n) <=> 3 * q + 4 <= n
BY DEF Present

LEMMA HeldIs ==
    ASSUME NEW a, NEW n
    PROVE  /\ HeldAt(a, n) \subseteq Things
           /\ \A x \in Things : x \in HeldAt(a, n) <=> Present(x, a, n)
BY DEF HeldAt

LEMMA AllocatesThings ==
    ASSUME NEW a \in Programs, NEW n \in 1 .. Len(a)
    PROVE  Loader!Allocates(a[n]) \subseteq Things
<1>1. ASSUME NEW q \in Loader!Queries,
             a[n] = <<"prepare", q>> \/ a[n] = <<"keep", q>> \/ a[n] = <<"convert", q>>
      PROVE  Loader!Allocates(a[n]) \subseteq Things
  <2>1. \A x \in {<<"unkept", 0>>, <<"plan", q>>, <<"funcs", q>>} : x \in Things
    BY ThingsAre DEF Things
  <2>2. \/ Loader!Allocates(a[n]) = {<<"unkept", 0>>}
        \/ Loader!Allocates(a[n]) = {<<"plan", q>>}
        \/ Loader!Allocates(a[n]) = {<<"funcs", q>>}
    BY <1>1, Effects
  <2> QED
    BY <2>1, <2>2
<1>2. CASE \E name \in Names \ {"prepare", "keep", "convert"} : a[n] = <<name, 0>>
  <2>1. PICK name \in Names \ {"prepare", "keep", "convert"} : a[n] = <<name, 0>>
    BY <1>2
  <2>2. CASE name \in {"length", "created", "found", "heap_types", "complete", "rtt", "assign"}
    BY <2>1, <2>2, Effects
  <2>3. CASE name \in {"queries", "alloc", "row", "load", "register"}
    <3>1. \A x \in {<<"queries", 0>>, <<"pmod", 0>>, <<"tuptable", 0>>, <<"aot", 0>>, <<"registered", 0>>} :
             x \in Things
      BY ThingsAre DEF Things
    <3>2. \E x \in {<<"queries", 0>>, <<"pmod", 0>>, <<"tuptable", 0>>, <<"aot", 0>>, <<"registered", 0>>} :
             Loader!Allocates(a[n]) = {x}
      BY <2>1, <2>3, Effects
    <3> QED
      BY <3>1, <3>2
  <2>4. CASE name = "import"
    <3>1. Loader!Allocates(<<"import", 0>>) = {}
      BY DEF Loader!Allocates, Loader!Temporary, Loader!One
    <3> QED
      BY <2>1, <2>4, <3>1
  <2> QED
    BY <2>2, <2>3, <2>4 DEF Names
<1>3. \/ \E q \in Loader!Queries :
            a[n] = <<"prepare", q>> \/ a[n] = <<"keep", q>> \/ a[n] = <<"convert", q>>
      \/ \E name \in Names \ {"prepare", "keep", "convert"} : a[n] = <<name, 0>>
  BY StatementIs DEF Names, QueryStep, OwnStep
<1> QED
  BY <1>1, <1>2, <1>3

(* One statement takes the expected allocations of its number to those of    *)
(* the next.                                                                *)
LEMMA HeldMoves ==
    ASSUME NEW a \in Programs, NEW n \in 1 .. Len(a), n # P + 8
    PROVE  (HeldAt(a, n) \ Loader!Releases(a[n])) \cup Loader!Allocates(a[n]) = HeldAt(a, n + 1)
<1> DEFINE R == Loader!Releases(a[n])
           A == Loader!Allocates(a[n])
           Right(x) == ((Present(x, a, n) /\ x \notin R) \/ x \in A) <=> Present(x, a, n + 1)
           AllRight == /\ \A k \in {"queries", "pmod", "unkept", "tuptable", "aot", "registered"} : Right(<<k, 0>>)
                       /\ \A q \in Loader!Queries : Right(<<"plan", q>>) /\ Right(<<"funcs", q>>)
<1>1. /\ P \in Nat /\ P = 3 * NumQueries /\ NumQueries \in Nat
      /\ \A q \in Loader!Queries : q \in Int /\ 1 <= q /\ 3 * q <= P
      /\ n \in Int /\ n + 1 \in Int /\ 1 <= n
  <2>1. Len(a) \in Nat
    BY CountFacts, ProgramFacts DEF Programs
  <2> QED
    BY <2>1, CountFacts DEF Loader!Queries
<1>2. ASSUME NEW k \in Int
      PROVE  /\ Present(<<"queries", 0>>, a, k) <=> 3 <= k /\ k <= P + 4
             /\ Present(<<"pmod", 0>>, a, k) <=> 4 <= k
             /\ Present(<<"unkept", 0>>, a, k) <=> \E q \in Loader!Queries : k = 3 * q + 2
             /\ Present(<<"tuptable", 0>>, a, k)
                   <=> P + 6 <= k /\ k <= (IF a = Loader!AsEntry THEN P + 12 ELSE P + 10)
             /\ Present(<<"aot", 0>>, a, k) <=> P + 10 <= k
             /\ Present(<<"registered", 0>>, a, k) <=> P + 12 <= k
             /\ \A q \in Loader!Queries : /\ Present(<<"plan", q>>, a, k) <=> 3 * q + 3 <= k
                                          /\ Present(<<"funcs", q>>, a, k) <=> 3 * q + 4 <= k
  <2>1. k \in 3 .. P + 4 <=> 3 <= k /\ k <= P + 4
    BY <1>1
  <2> QED
    BY <2>1, PresentIs, Zenon
<1>3. Loader!AsEntry # Loader!AsImport
  BY <1>1, ProgramFacts
<1>4. ASSUME n = 1 /\ a[n] = <<"length", 0>>
      PROVE  AllRight
  <2>1. R = {} /\ A = {}
    BY <1>4, Effects
  <2> HIDE DEF R, A
  <2> QED
    BY <1>1, <1>2, <1>3, <1>4, <2>1
<1>5. ASSUME n = 2 /\ a[n] = <<"queries", 0>>
      PROVE  AllRight
  <2>1. R = {} /\ A = {<<"queries", 0>>}
    BY <1>5, Effects
  <2> HIDE DEF R, A
  <2> QED
    BY <1>1, <1>2, <1>3, <1>5, <2>1
<1>6. ASSUME n = 3 /\ a[n] = <<"alloc", 0>>
      PROVE  AllRight
  <2>1. R = {} /\ A = {<<"pmod", 0>>}
    BY <1>6, Effects
  <2> HIDE DEF R, A
  <2> QED
    BY <1>1, <1>2, <1>3, <1>6, <2>1
<1>7. ASSUME n = P + 4 /\ a[n] = <<"created", 0>>
      PROVE  AllRight
  <2>1. R = {<<"queries", 0>>} /\ A = {}
    BY <1>7, Effects
  <2> HIDE DEF R, A
  <2> QED
    BY <1>1, <1>2, <1>3, <1>7, <2>1
<1>8. ASSUME n = P + 5 /\ a[n] = <<"row", 0>>
      PROVE  AllRight
  <2>1. R = {} /\ A = {<<"tuptable", 0>>}
    BY <1>8, Effects
  <2> HIDE DEF R, A
  <2> QED
    BY <1>1, <1>2, <1>3, <1>8, <2>1
<1>9. ASSUME n = P + 6 /\ a[n] = <<"found", 0>>
      PROVE  AllRight
  <2>1. R = {} /\ A = {}
    BY <1>9, Effects
  <2> HIDE DEF R, A
  <2> QED
    BY <1>1, <1>2, <1>3, <1>9, <2>1
<1>10. ASSUME n = P + 7 /\ a[n] = <<"heap_types", 0>>
      PROVE  AllRight
  <2>1. R = {} /\ A = {}
    BY <1>10, Effects
  <2> HIDE DEF R, A
  <2> QED
    BY <1>1, <1>2, <1>3, <1>10, <2>1
<1>11. ASSUME n = P + 9 /\ a[n] = <<"load", 0>>
      PROVE  AllRight
  <2>1. R = {} /\ A = {<<"aot", 0>>}
    BY <1>11, Effects
  <2> HIDE DEF R, A
  <2> QED
    BY <1>1, <1>2, <1>3, <1>11, <2>1
<1>12. ASSUME n = P + 10 /\ a = Loader!AsImport /\ a[n] = <<"complete", 0>>
      PROVE  AllRight
  <2>1. R = {<<"tuptable", 0>>} /\ A = {}
    BY <1>12, Effects
  <2> HIDE DEF R, A
  <2> QED
    BY <1>1, <1>2, <1>3, <1>12, <2>1
<1>13. ASSUME n = P + 10 /\ a = Loader!AsEntry /\ a[n] = <<"rtt", 0>>
      PROVE  AllRight
  <2>1. R = {} /\ A = {}
    BY <1>13, Effects
  <2> HIDE DEF R, A
  <2> QED
    BY <1>1, <1>2, <1>3, <1>13, <2>1
<1>14. ASSUME n = P + 11 /\ a[n] = <<"register", 0>>
      PROVE  AllRight
  <2>1. R = {} /\ A = {<<"registered", 0>>}
    BY <1>14, Effects
  <2> HIDE DEF R, A
  <2> QED
    BY <1>1, <1>2, <1>3, <1>14, <2>1
<1>15. ASSUME n = P + 12 /\ a = Loader!AsEntry /\ a[n] = <<"assign", 0>>
      PROVE  AllRight
  <2>1. R = {<<"tuptable", 0>>} /\ A = {}
    BY <1>15, Effects
  <2> HIDE DEF R, A
  <2> QED
    BY <1>1, <1>2, <1>3, <1>15, <2>1
<1>16. ASSUME NEW p \in Loader!Queries, n = 3 * p + 1 /\ a[n] = <<"prepare", p>>
      PROVE  AllRight
  <2>1. R = {} /\ A = {<<"unkept", 0>>}
    BY <1>16, Effects
  <2> HIDE DEF R, A
  <2>2. /\ n = 3 * p + 1 /\ 3 * p <= P /\ 4 <= n /\ n <= P + 1
        /\ n + 1 = 3 * p + 2 /\ \A q \in Loader!Queries : n # 3 * q + 2
    BY <1>1, <1>16
  <2>3. ASSUME NEW q \in Loader!Queries
        PROVE  /\ 3 * q + 3 <= n + 1 <=> 3 * q + 3 <= n
               /\ 3 * q + 4 <= n + 1 <=> 3 * q + 4 <= n
    <3>1. p \in Int /\ q \in Int /\ n = 3 * p + 1
      BY <1>1, <1>16
    <3> QED
      BY <3>1
  <2>4. Right(<<"unkept", 0>>)
    BY <1>1, <1>2, <2>1, <2>2
  <2>5. \A q \in Loader!Queries : Right(<<"plan", q>>) /\ Right(<<"funcs", q>>)
    BY <1>1, <1>2, <2>1, <2>3
  <2>6. Right(<<"queries", 0>>) /\ Right(<<"pmod", 0>>)
    BY <1>1, <1>2, <2>1, <2>2
  <2>7. Right(<<"tuptable", 0>>) /\ Right(<<"aot", 0>>) /\ Right(<<"registered", 0>>)
    BY <1>1, <1>2, <2>1, <2>2
  <2> QED
    BY <2>4, <2>5, <2>6, <2>7
<1>17. ASSUME NEW p \in Loader!Queries, n = 3 * p + 2 /\ a[n] = <<"keep", p>>
      PROVE  AllRight
  <2>1. R = {<<"unkept", 0>>} /\ A = {<<"plan", p>>}
    BY <1>17, Effects
  <2> HIDE DEF R, A
  <2>2. /\ n = 3 * p + 2 /\ 3 * p <= P /\ 5 <= n /\ n <= P + 2
        /\ \A q \in Loader!Queries : n + 1 # 3 * q + 2
    BY <1>1, <1>17
  <2>3. ASSUME NEW q \in Loader!Queries
        PROVE  /\ 3 * q + 3 <= n + 1 <=> 3 * q + 3 <= n \/ q = p
               /\ 3 * q + 4 <= n + 1 <=> 3 * q + 4 <= n
    <3>1. p \in Int /\ q \in Int /\ n = 3 * p + 2
      BY <1>1, <1>17
    <3> QED
      BY <3>1
  <2>4. Right(<<"unkept", 0>>)
    BY <1>1, <1>2, <2>1, <2>2
  <2>5. \A q \in Loader!Queries : Right(<<"plan", q>>) /\ Right(<<"funcs", q>>)
    BY <1>1, <1>2, <2>1, <2>3
  <2>6. Right(<<"queries", 0>>) /\ Right(<<"pmod", 0>>)
    BY <1>1, <1>2, <2>1, <2>2
  <2>7. Right(<<"tuptable", 0>>) /\ Right(<<"aot", 0>>) /\ Right(<<"registered", 0>>)
    BY <1>1, <1>2, <2>1, <2>2
  <2> QED
    BY <2>4, <2>5, <2>6, <2>7
<1>18. ASSUME NEW p \in Loader!Queries, n = 3 * p + 3 /\ a[n] = <<"convert", p>>
      PROVE  AllRight
  <2>1. R = {} /\ A = {<<"funcs", p>>}
    BY <1>18, Effects
  <2> HIDE DEF R, A
  <2>2. /\ \A q \in Loader!Queries : n # 3 * q + 2 /\ n + 1 # 3 * q + 2
        /\ \A q \in Loader!Queries : 3 * q + 3 <= n <=> 3 * q + 3 <= n + 1
        /\ \A q \in Loader!Queries : 3 * q + 4 <= n + 1 <=> 3 * q + 4 <= n \/ q = p
        /\ 7 <= n + 1 /\ n + 1 <= P + 4
    <3>1. n = 3 * p + 3 /\ p \in Int /\ 1 <= p /\ 3 * p <= P /\ P \in Int
      BY <1>1, <1>18
    <3>2. ASSUME NEW q \in Int
          PROVE  /\ n # 3 * q + 2 /\ n + 1 # 3 * q + 2
                 /\ 3 * q + 3 <= n <=> 3 * q + 3 <= n + 1
                 /\ 3 * q + 4 <= n + 1 <=> 3 * q + 4 <= n \/ q = p
      BY <3>1
    <3>3. 7 <= n + 1 /\ n + 1 <= P + 4
      BY <3>1
    <3> QED
      BY <1>1, <3>2, <3>3, Zenon
  <2>3. \A q \in Loader!Queries : Right(<<"plan", q>>) /\ Right(<<"funcs", q>>)
    BY <1>1, <1>2, <2>1, <2>2
  <2>4. Right(<<"unkept", 0>>)
    BY <1>1, <1>2, <2>1, <2>2
  <2>5. Right(<<"queries", 0>>) /\ Right(<<"pmod", 0>>)
    BY <1>1, <1>2, <1>18, <2>1, <2>2
  <2>6. Right(<<"tuptable", 0>>) /\ Right(<<"aot", 0>>) /\ Right(<<"registered", 0>>)
    BY <1>1, <1>2, <1>18, <2>1, <2>2
  <2> QED
    BY <2>3, <2>4, <2>5, <2>6
<1>19. AllRight
  <2> HIDE DEF AllRight
  <2>1. CASE QueryStep(a, n)
    <3>1. PICK p \in Loader!Queries : \/ n = 3 * p + 1 /\ a[n] = <<"prepare", p>>
                                      \/ n = 3 * p + 2 /\ a[n] = <<"keep", p>>
                                      \/ n = 3 * p + 3 /\ a[n] = <<"convert", p>>
      BY <2>1 DEF QueryStep
    <3>2. CASE n = 3 * p + 1 /\ a[n] = <<"prepare", p>>
      BY <1>16, <3>2, Zenon
    <3>3. CASE n = 3 * p + 2 /\ a[n] = <<"keep", p>>
      BY <1>17, <3>3, Zenon
    <3>4. CASE n = 3 * p + 3 /\ a[n] = <<"convert", p>>
      BY <1>18, <3>4, Zenon
    <3> QED
      BY <3>1, <3>2, <3>3, <3>4, Zenon
  <2>2. CASE OwnStep(a, n)
    <3>1. CASE n = 1 /\ a[n] = <<"length", 0>>
      BY <1>4, <3>1, Zenon
    <3>2. CASE n = 2 /\ a[n] = <<"queries", 0>>
      BY <1>5, <3>2, Zenon
    <3>3. CASE n = 3 /\ a[n] = <<"alloc", 0>>
      BY <1>6, <3>3, Zenon
    <3>4. CASE n = P + 4 /\ a[n] = <<"created", 0>>
      BY <1>7, <3>4, Zenon
    <3>5. CASE n = P + 5 /\ a[n] = <<"row", 0>>
      BY <1>8, <3>5, Zenon
    <3>6. CASE n = P + 6 /\ a[n] = <<"found", 0>>
      BY <1>9, <3>6, Zenon
    <3>7. CASE n = P + 7 /\ a[n] = <<"heap_types", 0>>
      BY <1>10, <3>7, Zenon
    <3>8. CASE n = P + 9 /\ a[n] = <<"load", 0>>
      BY <1>11, <3>8, Zenon
    <3>9. CASE n = P + 10 /\ a = Loader!AsImport /\ a[n] = <<"complete", 0>>
      BY <1>12, <3>9, Zenon
    <3>10. CASE n = P + 10 /\ a = Loader!AsEntry /\ a[n] = <<"rtt", 0>>
      BY <1>13, <3>10, Zenon
    <3>11. CASE n = P + 11 /\ a[n] = <<"register", 0>>
      BY <1>14, <3>11, Zenon
    <3>12. CASE n = P + 12 /\ a = Loader!AsEntry /\ a[n] = <<"assign", 0>>
      BY <1>15, <3>12, Zenon
    <3> QED
      BY <2>2, <3>1, <3>2, <3>3, <3>4, <3>5, <3>6, <3>7, <3>8, <3>9, <3>10, <3>11, <3>12, Zenon DEF OwnStep
  <2> QED
    BY <2>1, <2>2, StatementIs, Zenon
<1>20. A \subseteq Things
  BY AllocatesThings DEF Things
<1>21. \A x \in Things : Right(x)
  <2> HIDE DEF Right
  <2>1. ASSUME NEW x \in Things
        PROVE  \/ \E k \in {"queries", "pmod", "unkept", "tuptable", "aot", "registered"} : x = <<k, 0>>
               \/ \E q \in Loader!Queries : x = <<"plan", q>> \/ x = <<"funcs", q>>
    BY ThingsAre DEF Things
  <2> QED
    BY <1>19, <2>1
<1> QED
  BY <1>20, <1>21, HeldIs

-----------------------------------------------------------------------------
(* The stack of modules being loaded                                        *)

LEMMA StackHas ==
    ASSUME StackInv, NEW i \in 1 .. Len(stack)
    PROVE  /\ stack[i] \in Frames /\ stack[i].module \in Modules /\ stack[i].at \in Nat \ {0}
           /\ stack[i].program \in Programs /\ Len(stack[i].program) \in Nat
           /\ stack[i].program = IF i = 1 THEN Loader!AsEntry ELSE Loader!AsImport
           /\ i = 1 => stack[i].module = Entry
           /\ stack[i].at <= Len(stack[i].program)
           /\ i < Len(stack) \/ result = "error" => stack[i].at = P + 8
           /\ held[stack[i].module] = HeldAt(stack[i].program, stack[i].at)
           /\ stack[i].module \in complete <=> i > 1 /\ stack[i].at = P + 11
<1>1. /\ stack[i].program = IF i = 1 THEN Loader!AsEntry ELSE Loader!AsImport
      /\ i = 1 => stack[i].module = Entry
      /\ stack[i].at <= Len(stack[i].program)
      /\ i < Len(stack) \/ result = "error" => stack[i].at = P + 8
      /\ held[stack[i].module] = HeldAt(stack[i].program, stack[i].at)
      /\ stack[i].module \in complete <=> i > 1 /\ stack[i].at = P + 11
  BY Zenon DEF StackInv
<1>2. stack[i] \in Frames
  <2>1. stack \in Seq(Frames)
    BY DEF StackInv
  <2> QED
    BY <2>1
<1>3. stack[i].module \in Modules /\ stack[i].at \in Nat \ {0} /\ stack[i].program \in Programs
  BY <1>2 DEF Frames
<1>4. \A a \in Programs : Len(a) \in Nat
  BY ProgramFacts, CountFacts DEF Programs
<1>5. Len(stack[i].program) \in Nat
  BY <1>3, <1>4, Zenon
<1> QED
  BY <1>1, <1>2, <1>3, <1>5, Zenon

LEMMA TopFacts ==
    ASSUME StackInv, stack # <<>>
    PROVE  /\ Len(stack) \in Nat /\ 1 <= Len(stack)
           /\ Loader!Top = stack[Len(stack)] /\ Loader!Top \in Frames
           /\ Loader!Top.program = IF Len(stack) = 1 THEN Loader!AsEntry ELSE Loader!AsImport
           /\ Loader!Top.at \in 1 .. Len(Loader!Top.program) /\ Len(Loader!Top.program) \in Nat
           /\ Loader!Top.program \in Programs
           /\ Loader!Top.module \in Modules
           /\ held[Loader!Top.module] = HeldAt(Loader!Top.program, Loader!Top.at)
           /\ Loader!Top.module \in complete <=> Len(stack) > 1 /\ Loader!Top.at = P + 11
           /\ Len(stack) = 1 => Loader!Top.module = Entry
           /\ result = "error" => Loader!Top.at = P + 8
           /\ Loader!Top.module \in Loader!Loading
<1>1. Len(stack) \in Nat /\ 1 <= Len(stack) /\ stack \in Seq(Frames)
  BY DEF StackInv
<1>2. Loader!Top = stack[Len(stack)] /\ Loader!Top \in Frames /\ Len(stack) \in 1 .. Len(stack)
  BY <1>1 DEF Loader!Top, Loader!Last
<1>3. Loader!Top.at \in 1 .. Len(Loader!Top.program)
  <2>1. /\ Loader!Top.at \in Nat \ {0} /\ Len(Loader!Top.program) \in Nat
        /\ Loader!Top.at <= Len(Loader!Top.program)
    BY <1>2, StackHas, Zenon
  <2> QED
    BY <2>1
<1>4. Loader!Top.module \in Loader!Loading
  BY <1>2 DEF Loader!Loading
<1>5. Len(stack) > 1 \/ Len(stack) = 1
  BY <1>1
<1> QED
  BY <1>1, <1>2, <1>3, <1>4, StackHas, Zenon

LEMMA LoadingInModules == StackInv => Loader!Loading \subseteq Modules
BY StackHas DEF Loader!Loading

(* The innermost module is one statement further.                           *)
LEMMA StackAdvances ==
    ASSUME StackInv, stack # <<>>, result = "none", result' = "none",
           Loader!Top.at < Len(Loader!Top.program),
           stack' = [stack EXCEPT ![Len(stack)].at = @ + 1],
           \A m \in Modules \ {Loader!Top.module} :
              held'[m] = held[m] /\ (m \in complete' <=> m \in complete),
           held'[Loader!Top.module] = HeldAt(Loader!Top.program, Loader!Top.at + 1),
           Loader!Top.module \in complete' <=> Len(stack) > 1 /\ Loader!Top.at + 1 = P + 11
    PROVE  StackInv' /\ Loader!Loading' = Loader!Loading
<1> DEFINE n == Len(stack)
<1>1. /\ n \in Nat /\ 1 <= n /\ n \in 1 .. n /\ stack \in Seq(Frames)
      /\ Loader!Top = stack[n] /\ stack[n] \in Frames
      /\ stack[n].at \in Nat \ {0} /\ Len(stack[n].program) \in Nat
      /\ stack[n].at + 1 \in Nat \ {0} /\ stack[n].at + 1 <= Len(stack[n].program)
  BY TopFacts, StackHas DEF StackInv
<1>2. /\ stack' \in Seq(Frames) /\ Len(stack') = n
      /\ \A i \in 1 .. n : i # n => stack'[i] = stack[i]
      /\ stack'[n] = [stack[n] EXCEPT !.at = stack[n].at + 1] /\ stack'[n] \in Frames
  <2>1. stack' = [stack EXCEPT ![n] = [stack[n] EXCEPT !.at = stack[n].at + 1]]
    BY <1>1
  <2>2. [stack[n] EXCEPT !.at = stack[n].at + 1] \in Frames
    BY <1>1 DEF Frames
  <2> QED
    BY <1>1, <2>1, <2>2
<1>3. /\ stack'[n].module = stack[n].module /\ stack'[n].program = stack[n].program
      /\ stack'[n].at = stack[n].at + 1
  BY <1>1, <1>2 DEF Frames
<1>4. \A i \in 1 .. n : stack'[i].module = stack[i].module
  BY <1>2, <1>3
<1>5. Loader!Loading' = Loader!Loading
  BY <1>2, <1>4 DEF Loader!Loading
<1>6. ASSUME NEW i \in 1 .. n, i # n
      PROVE  /\ stack[i].module \in Modules
             /\ stack[i].module # stack[n].module
  <2>1. stack[i].module = stack[n].module => i = n
    BY <1>1, Zenon DEF StackInv
  <2> QED
    BY <1>6, <2>1, StackHas
<1>7. ASSUME NEW i \in 1 .. n
      PROVE  LET f == stack'[i] IN
             /\ f.program = IF i = 1 THEN Loader!AsEntry ELSE Loader!AsImport
             /\ i = 1 => f.module = Entry
             /\ f.at <= Len(f.program)
             /\ i < n \/ result' = "error" => f.at = P + 8
             /\ held'[f.module] = HeldAt(f.program, f.at)
             /\ f.module \in complete' <=> i > 1 /\ f.at = P + 11
  <2>1. CASE i = n
    BY <1>1, <1>3, <2>1, StackHas
  <2>2. CASE i # n
    <3>1. i < n /\ stack'[i] = stack[i]
      BY <1>1, <1>2, <2>2
    <3>2. held'[stack[i].module] = held[stack[i].module]
          /\ (stack[i].module \in complete' <=> stack[i].module \in complete)
      BY <1>1, <1>6, <2>2
    <3>3. result' # "error"
      OBVIOUS
    <3>4. LET f == stack[i] IN
          /\ f.program = IF i = 1 THEN Loader!AsEntry ELSE Loader!AsImport
          /\ i = 1 => f.module = Entry
          /\ f.at <= Len(f.program)
          /\ f.at = P + 8
          /\ held'[f.module] = HeldAt(f.program, f.at)
          /\ f.module \in complete' <=> i > 1 /\ f.at = P + 11
      <4>1. /\ held'[stack[i].module] = HeldAt(stack[i].program, stack[i].at)
            /\ stack[i].module \in complete' <=> i > 1 /\ stack[i].at = P + 11
        BY <3>2, StackHas, Zenon
      <4> QED
        BY <3>1, <4>1, StackHas, Zenon
    <3> HIDE DEF n
    <3> QED
      BY <3>1, <3>3, <3>4, Zenon
  <2> QED
    BY <2>1, <2>2
<1>8. \A i, j \in 1 .. n : stack'[i].module = stack'[j].module => i = j
  BY <1>4 DEF StackInv
<1>9. StackInv'
  BY <1>2, <1>7, <1>8 DEF StackInv
<1> QED
  BY <1>5, <1>9

(* The innermost module is loaded, or failed.                               *)
LEMMA StackPops ==
    ASSUME StackInv, stack # <<>>, stack' = Loader!Front(stack),
           \A m \in Modules \ {Loader!Top.module} :
              held'[m] = held[m] /\ (m \in complete' <=> m \in complete)
    PROVE  /\ StackInv' /\ Loader!Loading' = Loader!Loading \ {Loader!Top.module}
           /\ Len(stack') = Len(stack) - 1
           /\ \A i \in 1 .. Len(stack) - 1 : stack'[i] = stack[i] /\ stack[i].at = P + 8
<1> DEFINE n == Len(stack)
<1>1. /\ n \in Nat /\ 1 <= n /\ stack \in Seq(Frames)
      /\ Loader!Top = stack[n]
  BY TopFacts DEF StackInv
<1>2. /\ stack' \in Seq(Frames) /\ Len(stack') = n - 1
      /\ \A i \in 1 .. n - 1 : stack'[i] = stack[i]
  <2>1. stack' = SubSeq(stack, 1, n - 1) /\ \A i \in 1 .. n - 1 : stack[i] \in Frames
    BY <1>1, StackHas DEF Loader!Front
  <2> QED
    <3>1. n - 1 \in 0 .. Len(stack)
      BY <1>1
    <3>2. SubSeq(stack, 1, n - 1) = Restrict(stack, 1 .. n - 1)
      BY <1>1, <3>1, SubSeqRestrict, Zenon
    <3>3. SubSeq(stack, 1, n - 1) = [i \in 1 .. n - 1 |-> stack[i]]
      BY <3>2 DEF Restrict
    <3>4. stack' = [i \in 1 .. n - 1 |-> stack[i]]
      BY <2>1, <3>3, Zenon
    <3>5. n - 1 \in Nat
      BY <1>1
    <3>6. stack' \in Seq(Frames) /\ Len(stack') = n - 1
      <4>1. \A i \in 1 .. n - 1 : stack[i] \in Frames
        BY <2>1, Zenon
      <4> HIDE DEF n
      <4>2. DOMAIN stack' = 1 .. n - 1 /\ \A i \in 1 .. n - 1 : stack'[i] \in Frames
        BY <3>4, <4>1, Zenon
      <4>3. stack' = [i \in 1 .. n - 1 |-> stack'[i]]
        BY <3>4
      <4> QED
        BY <3>5, <4>2, <4>3
    <3>7. \A i \in 1 .. n - 1 : stack'[i] = stack[i]
      BY <3>4, Zenon
    <3> QED
      BY <3>6, <3>7, Zenon
<1>3. ASSUME NEW i \in 1 .. n - 1
      PROVE  /\ i \in 1 .. n /\ i < n
             /\ stack[i].module \in Modules /\ stack[i].module # stack[n].module
             /\ stack[i].at = P + 8
  <2>1. i \in 1 .. n /\ n \in 1 .. n /\ i < n
    BY <1>1
  <2>2. stack[i].module = stack[n].module => i = n
    BY <2>1, Zenon DEF StackInv
  <2> QED
    BY <2>1, <2>2, StackHas
<1>4. ASSUME NEW i \in 1 .. n - 1
      PROVE  LET f == stack'[i] IN
             /\ f.program = IF i = 1 THEN Loader!AsEntry ELSE Loader!AsImport
             /\ i = 1 => f.module = Entry
             /\ f.at <= Len(f.program)
             /\ i < n - 1 \/ result' = "error" => f.at = P + 8
             /\ held'[f.module] = HeldAt(f.program, f.at)
             /\ f.module \in complete' <=> i > 1 /\ f.at = P + 11
  <2>1. i \in 1 .. n /\ i < n /\ stack'[i] = stack[i]
    BY <1>2, <1>3
  <2>2. held'[stack[i].module] = held[stack[i].module]
        /\ (stack[i].module \in complete' <=> stack[i].module \in complete)
    BY <1>1, <1>3
  <2>3. LET f == stack[i] IN
        /\ f.program = IF i = 1 THEN Loader!AsEntry ELSE Loader!AsImport
        /\ i = 1 => f.module = Entry
        /\ f.at <= Len(f.program)
        /\ f.at = P + 8
        /\ held'[f.module] = HeldAt(f.program, f.at)
        /\ f.module \in complete' <=> i > 1 /\ f.at = P + 11
    <3>1. /\ held'[stack[i].module] = HeldAt(stack[i].program, stack[i].at)
          /\ stack[i].module \in complete' <=> i > 1 /\ stack[i].at = P + 11
      BY <2>1, <2>2, StackHas, Zenon
    <3> QED
      BY <2>1, <3>1, StackHas, Zenon
  <2> HIDE DEF n
  <2> QED
    BY <2>1, <2>3, Zenon
<1>5. \A i, j \in 1 .. n - 1 : stack'[i].module = stack'[j].module => i = j
  BY <1>1, <1>2 DEF StackInv
<1>6. StackInv'
  BY <1>2, <1>4, <1>5 DEF StackInv
<1>7. Loader!Loading' = Loader!Loading \ {Loader!Top.module}
  <2>1. \A i \in 1 .. n : i \in 1 .. n - 1 \/ i = n
    BY <1>1
  <2>2. Loader!Top.module = stack[n].module /\ \A i \in 1 .. n - 1 : i \in 1 .. n
    BY <1>1
  <2>3. \A x : x \in Loader!Loading' <=> \E i \in 1 .. n - 1 : x = stack[i].module
    BY <1>2 DEF Loader!Loading
  <2>4. \A x : x \in Loader!Loading <=> \E i \in 1 .. n : x = stack[i].module
    BY DEF Loader!Loading
  <2>5. \A i \in 1 .. n - 1 : stack[i].module # stack[n].module
    BY <1>3
  <2> HIDE DEF n
  <2>6. ASSUME NEW x PROVE x \in Loader!Loading' <=> x \in Loader!Loading /\ x # Loader!Top.module
    BY <2>1, <2>2, <2>3, <2>4, <2>5
  <2> QED
    BY <2>6
<1> QED
  BY <1>2, <1>3, <1>6, <1>7

(* Another module is loaded first.                                          *)
LEMMA StackPushes ==
    ASSUME StackInv, NEW m \in Modules \ Loader!Loading, NEW a \in Programs,
           result = "none", result' = "none",
           a = IF stack = <<>> THEN Loader!AsEntry ELSE Loader!AsImport,
           stack = <<>> => m = Entry,
           stack # <<>> => Loader!Top.at = P + 8,
           stack' = Append(stack, [module |-> m, at |-> 1, program |-> a]),
           held' = held, complete' = complete, held[m] = {}, m \notin complete
    PROVE  StackInv' /\ Loader!Loading' = Loader!Loading \cup {m}
<1> DEFINE n == Len(stack)
           new == [module |-> m, at |-> 1, program |-> a]
<1>1. n \in Nat /\ stack \in Seq(Frames) /\ new \in Frames
  BY DEF StackInv, Frames
<1>2. /\ stack' \in Seq(Frames) /\ Len(stack') = n + 1
      /\ stack'[n + 1] = new
      /\ \A i \in 1 .. n : stack'[i] = stack[i]
  <2> HIDE DEF new
  <2> QED
    BY <1>1 DEF new
<1>3. HeldAt(a, 1) = {}
  <2>1. ASSUME NEW x \in Things PROVE ~ Present(x, a, 1)
    <3>1. P \in Nat /\ \A q \in Loader!Queries : q \in Int /\ 1 <= q
      BY CountFacts DEF Loader!Queries
    <3> QED
      BY <3>1 DEF Present
  <2> QED
    BY <2>1 DEF HeldAt
<1>4. 1 <= Len(a) /\ P \in Nat
  BY ProgramFacts, CountFacts DEF Programs
<1>5. stack = <<>> <=> n = 0
  BY <1>1
<1>6. ASSUME NEW i \in 1 .. n + 1
      PROVE  LET f == stack'[i] IN
             /\ f.program = IF i = 1 THEN Loader!AsEntry ELSE Loader!AsImport
             /\ i = 1 => f.module = Entry
             /\ f.at <= Len(f.program)
             /\ i < n + 1 \/ result' = "error" => f.at = P + 8
             /\ held'[f.module] = HeldAt(f.program, f.at)
             /\ f.module \in complete' <=> i > 1 /\ f.at = P + 11
  <2>1. CASE i = n + 1
    <3>1. /\ stack'[i].module = m /\ stack'[i].at = 1 /\ stack'[i].program = a
          /\ ~ i < n + 1 /\ 1 # P + 11
      BY <1>1, <1>2, <1>4, <2>1
    <3>2. a = IF i = 1 THEN Loader!AsEntry ELSE Loader!AsImport
      BY <1>1, <1>5, <2>1
    <3>3. i = 1 => m = Entry
      BY <1>1, <1>5, <2>1
    <3> QED
      BY <1>3, <1>4, <3>1, <3>2, <3>3
  <2>2. CASE i # n + 1
    <3>1. i \in 1 .. n /\ stack'[i] = stack[i] /\ stack # <<>>
      BY <1>1, <1>2, <1>5, <2>2
    <3>2. i = n => stack[i].at = P + 8
      BY <3>1, TopFacts
    <3> QED
      BY <1>1, <3>1, <3>2 DEF StackInv
  <2> QED
    BY <2>1, <2>2
<1>7. \A i \in 1 .. n : stack[i].module # m
  BY DEF Loader!Loading
<1>8. \A i, j \in 1 .. n + 1 : stack'[i].module = stack'[j].module => i = j
  <2>1. \A i \in 1 .. n + 1 : i \in 1 .. n \/ i = n + 1
    BY <1>1
  <2>2. stack'[n + 1].module = m
    BY <1>2
  <2> QED
    BY <1>2, <1>7, <2>1, <2>2 DEF StackInv
<1>9. StackInv'
  BY <1>2, <1>6, <1>8 DEF StackInv
<1>10. Loader!Loading' = Loader!Loading \cup {m}
  <2>1. \A i : i \in 1 .. n + 1 <=> i \in 1 .. n \/ i = n + 1
    BY <1>1
  <2>2. stack'[n + 1].module = m
    BY <1>2
  <2> QED
    BY <1>2, <2>1, <2>2 DEF Loader!Loading
<1> QED
  BY <1>9, <1>10

-----------------------------------------------------------------------------
(* Each step of the loader keeps what is said of where it stands            *)

LEMMA HeldEnds ==
    /\ \A a \in Programs : /\ HeldAt(a, Len(a) + 1) = Loader!Permanent
                           /\ HeldAt(a, P + 8) = HeldAt(a, P + 9)
                           /\ Len(a) \in {P + 11, P + 12} /\ P \in Nat
                           /\ a = Loader!AsEntry <=> Len(a) = P + 12
                           /\ a = Loader!AsImport <=> Len(a) = P + 11
    /\ Loader!Permanent \subseteq Things /\ <<"registered", 0>> \in Loader!Permanent
    /\ \A a \in Programs, n \in Nat \ {0} :
          /\ <<"registered", 0>> \in HeldAt(a, n) <=> P + 12 <= n
          /\ <<"aot", 0>> \in HeldAt(a, n) <=> P + 10 <= n
    /\ \A a \in Programs : Loader!Permanent \subseteq HeldAt(a, P + 12)
<1>1. /\ Len(Loader!AsImport) = P + 11 /\ Len(Loader!AsEntry) = P + 12
      /\ P \in Nat /\ P = 3 * NumQueries /\ NumQueries \in Nat
      /\ \A q \in Loader!Queries : q \in Int /\ 1 <= q /\ 3 * q <= P
  <2>1. Len(Loader!AsImport) = P + 11 /\ Len(Loader!AsEntry) = P + 12
    BY ProgramFacts, Zenon
  <2>2. \A q \in Loader!Queries : q \in Int /\ 1 <= q /\ 3 * q <= P
    BY CountFacts DEF Loader!Queries
  <2> QED
    BY <2>1, <2>2, CountFacts, Zenon
<1>2. ASSUME NEW a \in Programs
      PROVE  /\ Len(a) \in {P + 11, P + 12} /\ P \in Nat
             /\ a = Loader!AsEntry <=> Len(a) = P + 12
             /\ a = Loader!AsImport <=> Len(a) = P + 11
  <2>1. P + 11 # P + 12 /\ P \in Nat
    BY <1>1
  <2> QED
    BY <1>1, <2>1 DEF Programs
<1>3. \A x : x \in Things <=>
         \/ x \in {<<"queries", 0>>, <<"unkept", 0>>, <<"tuptable", 0>>}
         \/ x \in {<<"pmod", 0>>, <<"aot", 0>>, <<"registered", 0>>}
         \/ \E q \in Loader!Queries : x = <<"plan", q>> \/ x = <<"funcs", q>>
  BY ThingsAre DEF Things
<1>4. Loader!Permanent \subseteq Things /\ <<"registered", 0>> \in Loader!Permanent
  BY ThingsAre DEF Things
<1>5. ASSUME NEW a \in Programs, NEW n \in Nat \ {0}
      PROVE  /\ <<"registered", 0>> \in HeldAt(a, n) <=> P + 12 <= n
             /\ <<"aot", 0>> \in HeldAt(a, n) <=> P + 10 <= n
  <2>1. <<"registered", 0>> \in Things /\ <<"aot", 0>> \in Things
    BY <1>3
  <2>2. n \in Int
    OBVIOUS
  <2> QED
    BY <2>1, <2>2, HeldIs, PresentIs, Zenon
<1>6. ASSUME NEW a \in Programs, NEW x \in Loader!Permanent, NEW n \in Nat, P + 12 <= n
      PROVE  x \in HeldAt(a, n)
  <2>1. \/ x \in {<<"pmod", 0>>, <<"aot", 0>>, <<"registered", 0>>}
        \/ \E q \in Loader!Queries : x = <<"plan", q>> \/ x = <<"funcs", q>>
    BY ThingsAre, Zenon
  <2>2. Present(x, a, n)
    <3>1. 4 <= n /\ P + 10 <= n /\ \A q \in Loader!Queries : 3 * q + 3 <= n /\ 3 * q + 4 <= n
      BY <1>1, <1>6
    <3>2. n \in Int
      OBVIOUS
    <3>3. CASE x \in {<<"pmod", 0>>, <<"aot", 0>>, <<"registered", 0>>}
      BY <1>6, <3>1, <3>2, <3>3, PresentIs
    <3>4. ASSUME NEW q \in Loader!Queries, x = <<"plan", q>> \/ x = <<"funcs", q>>
          PROVE  Present(x, a, n)
      <4>1. Present(<<"plan", q>>, a, n) /\ Present(<<"funcs", q>>, a, n)
        BY <3>1, <3>2, PresentIs, Zenon
      <4> QED
        BY <3>4, <4>1
    <3> QED
      BY <2>1, <3>3, <3>4, Zenon
  <2> QED
    BY <1>4, <2>2, HeldIs
<1>7. ASSUME NEW a \in Programs, NEW x \in Loader!Temporary
      PROVE  ~ Present(x, a, Len(a) + 1)
  <2>1. x \in {<<"queries", 0>>, <<"unkept", 0>>, <<"tuptable", 0>>}
    BY ThingsAre, Zenon
  <2>2. Len(a) + 1 \in Int
    BY <1>2
  <2>3. /\ ~ (Len(a) + 1 \in 3 .. P + 4) /\ \A q \in Loader!Queries : Len(a) + 1 # 3 * q + 2
        /\ ~ (Len(a) + 1 <= (IF a = Loader!AsEntry THEN P + 12 ELSE P + 10))
    <3>1. \/ Len(a) = P + 11 /\ a # Loader!AsEntry
          \/ Len(a) = P + 12 /\ a = Loader!AsEntry
      BY <1>2
    <3> QED
      BY <1>1, <3>1
  <2> QED
    BY <2>1, <2>2, <2>3, PresentIs
<1>8. ASSUME NEW a \in Programs
      PROVE  HeldAt(a, Len(a) + 1) = Loader!Permanent
  <2>1. Len(a) + 1 \in Nat /\ P + 12 <= Len(a) + 1
    BY <1>2
  <2>2. \A x \in Things : x \in Loader!Permanent \/ x \in Loader!Temporary
    BY DEF Things
  <2> QED
    BY <1>4, <1>6, <1>7, <2>1, <2>2, HeldIs
<1>9. ASSUME NEW a \in Programs
      PROVE  HeldAt(a, P + 8) = HeldAt(a, P + 9)
  <2>1. ASSUME NEW x \in Things
        PROVE  Present(x, a, P + 8) <=> Present(x, a, P + 9)
    <3>1. P + 8 \in Int /\ P + 9 \in Int
      BY <1>1
    <3>2. /\ ~ (P + 8 \in 3 .. P + 4) /\ ~ (P + 9 \in 3 .. P + 4)
          /\ 4 <= P + 8 /\ 4 <= P + 9
          /\ \A q \in Loader!Queries : P + 8 # 3 * q + 2 /\ P + 9 # 3 * q + 2
          /\ \A q \in Loader!Queries : 3 * q + 4 <= P + 8 /\ 3 * q + 4 <= P + 9
          /\ \A q \in Loader!Queries : 3 * q + 3 <= P + 8 /\ 3 * q + 3 <= P + 9
          /\ P + 6 <= P + 8 /\ P + 6 <= P + 9
          /\ P + 8 <= (IF a = Loader!AsEntry THEN P + 12 ELSE P + 10)
          /\ P + 9 <= (IF a = Loader!AsEntry THEN P + 12 ELSE P + 10)
          /\ ~ (P + 10 <= P + 8) /\ ~ (P + 10 <= P + 9)
          /\ ~ (P + 12 <= P + 8) /\ ~ (P + 12 <= P + 9)
      BY <1>1
    <3>3. CASE x \in {<<"queries", 0>>, <<"unkept", 0>>, <<"tuptable", 0>>}
      BY <3>1, <3>2, <3>3, PresentIs
    <3>4. CASE x \in {<<"pmod", 0>>, <<"aot", 0>>, <<"registered", 0>>}
      BY <3>1, <3>2, <3>4, PresentIs
    <3>5. ASSUME NEW q \in Loader!Queries, x = <<"plan", q>> \/ x = <<"funcs", q>>
          PROVE  Present(x, a, P + 8) <=> Present(x, a, P + 9)
      <4>1. /\ Present(<<"plan", q>>, a, P + 8) /\ Present(<<"funcs", q>>, a, P + 8)
            /\ Present(<<"plan", q>>, a, P + 9) /\ Present(<<"funcs", q>>, a, P + 9)
        BY <3>1, <3>2, PresentIs, Zenon
      <4> QED
        BY <3>5, <4>1
    <3> QED
      BY <1>3, <3>3, <3>4, <3>5, Zenon
  <2> QED
    BY <2>1 DEF HeldAt
<1>10. ASSUME NEW a \in Programs PROVE Loader!Permanent \subseteq HeldAt(a, P + 12)
  <2>1. P + 12 \in Nat /\ P + 12 <= P + 12
    BY <1>1
  <2> QED
    BY <1>6, <2>1
<1> QED
  BY <1>2, <1>4, <1>5, <1>8, <1>9, <1>10, Zenon

(* Which statements set pmod->module, and which one loads the imports.       *)
LEMMA CompletesAt ==
    ASSUME NEW a \in Programs, NEW n \in 1 .. Len(a)
    PROVE  /\ a[n][1] = "complete" <=> a = Loader!AsImport /\ n = P + 10
           /\ a[n][1] = "assign" <=> a = Loader!AsEntry /\ n = P + 12
           /\ a[n][1] = "import" <=> n = P + 8
           /\ a[n][1] = "found" <=> n = P + 6
           /\ a[n][1] \in {"load", "complete", "rtt", "register", "assign"} <=> n > P + 8
           /\ a[n][1] \in {"rtt", "register"} => n = P + 10 \/ n = P + 11
           /\ n = P + 10 /\ a = Loader!AsEntry => a[n][1] = "rtt"
           /\ n = P + 11 => a[n][1] = "register"
<1>1. P \in Nat /\ n \in Nat /\ Len(a) \in Nat /\ Loader!AsEntry # Loader!AsImport
  <2>1. Len(a) \in Nat /\ P \in Nat /\ P + 11 # P + 12
    BY HeldEnds
  <2>2. Loader!AsEntry # Loader!AsImport
    BY <2>1, ProgramFacts, Zenon
  <2> QED
    BY <2>1, <2>2
<1>2. CASE QueryStep(a, n)
  <2>1. PICK q \in Loader!Queries : \/ n = 3 * q + 1 /\ a[n] = <<"prepare", q>>
                                    \/ n = 3 * q + 2 /\ a[n] = <<"keep", q>>
                                    \/ n = 3 * q + 3 /\ a[n] = <<"convert", q>>
    BY <1>2 DEF QueryStep
  <2>2. q \in Int /\ 3 * q <= P
    BY CountFacts DEF Loader!Queries
  <2>3. a[n][1] \in {"prepare", "keep", "convert"}
    BY <2>1
  <2>4. n <= P + 3
    BY <2>1, <2>2, <1>1
  <2> QED
    BY <1>1, <2>3, <2>4
<1>3. CASE OwnStep(a, n)
  BY <1>1, <1>3 DEF OwnStep
<1>4. CASE n = P + 8 /\ a[n] = <<"import", 0>>
  BY <1>1, <1>4
<1> QED
  BY <1>2, <1>3, <1>4, StatementIs, Zenon

LEMMA RegisteredAt ==
    ASSUME StackInv, NEW i \in 1 .. Len(stack)
    PROVE  /\ stack[i].module \in Loader!Registered <=> stack[i].at = P + 12
           /\ stack[i].at = P + 12 => /\ Loader!Permanent \subseteq held[stack[i].module]
                                      /\ stack[i].program = Loader!AsEntry
<1> DEFINE f == stack[i]
<1>1. /\ f.module \in Modules /\ f.at \in Nat \ {0} /\ f.program \in Programs
      /\ f.at <= Len(f.program) /\ held[f.module] = HeldAt(f.program, f.at)
  BY StackHas, Zenon
<1> HIDE DEF f
<1>2. /\ Len(f.program) \in {P + 11, P + 12} /\ P \in Nat
      /\ f.program = Loader!AsEntry <=> Len(f.program) = P + 12
      /\ <<"registered", 0>> \in HeldAt(f.program, f.at) <=> P + 12 <= f.at
      /\ Loader!Permanent \subseteq HeldAt(f.program, P + 12)
  BY <1>1, HeldEnds, Zenon
<1>3. P + 12 <= f.at <=> f.at = P + 12
  BY <1>1, <1>2
<1>4. f.at = P + 12 => f.program = Loader!AsEntry
  BY <1>1, <1>2
<1> QED
  BY <1>1, <1>2, <1>3, <1>4 DEF f, Loader!Registered

LEMMA SameJob ==
    ASSUME UNCHANGED vars
    PROVE  /\ pc' = pc /\ snapshot' = snapshot /\ Loaded' = Loaded
           /\ Needs(Entry)' = Needs(Entry)
<1>1. pc' = pc /\ snapshot' = snapshot /\ cache' = cache
  BY DEF vars
<1> QED
  BY <1>1 DEF Loaded, Needs, Closed

(* A statement succeeds: the last one leaves its module whole.               *)
LEMMA StatementKeeps ==
    ASSUME LoaderInv, Loader!Statement, UNCHANGED vars,
           Loader!Now[1] = "found" => snapshot[Loader!Top.module] # 0
    PROVE  LoaderInv'
<1> DEFINE n == Len(stack)
           top == Loader!Top.module
           a == Loader!Top.program
           k == Loader!Top.at
           s == Loader!Now
<1>1. StackInv /\ HeldInv /\ JobInv
  BY DEF LoaderInv
<1>2. /\ stack # <<>> /\ result = "none" /\ s[1] # "import"
      /\ held' = [held EXCEPT ![top] = (@ \ Loader!Releases(s)) \cup Loader!Allocates(s)]
      /\ complete' = IF s[1] \in {"complete", "assign"} THEN complete \cup {top} ELSE complete
      /\ stack' = IF k = Len(a) THEN Loader!Front(stack) ELSE [stack EXCEPT ![n].at = @ + 1]
      /\ result' = result /\ failures' = failures /\ abandoned' = abandoned /\ lost' = lost
  BY DEF Loader!Statement, Loader!Advance
<1>3. /\ n \in Nat /\ 1 <= n /\ Loader!Top = stack[n] /\ n \in 1 .. n
      /\ a = IF n = 1 THEN Loader!AsEntry ELSE Loader!AsImport
      /\ k \in 1 .. Len(a) /\ Len(a) \in Nat /\ a \in Programs /\ top \in Modules
      /\ held[top] = HeldAt(a, k) /\ (top \in complete <=> n > 1 /\ k = P + 11)
      /\ top \in Loader!Loading /\ s = a[k]
  <2>1. s = a[k]
    BY DEF Loader!Now
  <2>2. n \in Nat /\ 1 <= n => n \in 1 .. n
    OBVIOUS
  <2> QED
    BY <1>1, <1>2, <2>1, <2>2, TopFacts, Zenon
<1>4. /\ P \in Nat /\ Len(a) \in {P + 11, P + 12} /\ k \in Nat \ {0} /\ k + 1 \in Nat \ {0}
      /\ (a = Loader!AsEntry <=> Len(a) = P + 12) /\ (a = Loader!AsImport <=> Len(a) = P + 11)
      /\ k # P + 8
      /\ (s[1] = "complete" <=> a = Loader!AsImport /\ k = P + 10)
      /\ (s[1] = "assign" <=> a = Loader!AsEntry /\ k = P + 12)
      /\ (s[1] = "found" <=> k = P + 6)
  <2>1. /\ P \in Nat /\ Len(a) \in {P + 11, P + 12}
        /\ (a = Loader!AsEntry <=> Len(a) = P + 12) /\ (a = Loader!AsImport <=> Len(a) = P + 11)
    BY <1>3, HeldEnds, Zenon
  <2>2. /\ (s[1] = "complete" <=> a = Loader!AsImport /\ k = P + 10)
        /\ (s[1] = "assign" <=> a = Loader!AsEntry /\ k = P + 12)
        /\ (s[1] = "import" <=> k = P + 8)
        /\ (s[1] = "found" <=> k = P + 6)
    <3>1. /\ (a[k][1] = "complete" <=> a = Loader!AsImport /\ k = P + 10)
          /\ (a[k][1] = "assign" <=> a = Loader!AsEntry /\ k = P + 12)
          /\ (a[k][1] = "import" <=> k = P + 8)
          /\ (a[k][1] = "found" <=> k = P + 6)
      BY <1>3, CompletesAt, Zenon
    <3>2. s = a[k]
      BY <1>3, Zenon
    <3> HIDE DEF s, a, k
    <3> QED
      BY <3>1, <3>2, Zenon
  <2>3. k \in Nat \ {0} /\ k + 1 \in Nat \ {0}
    BY <1>3
  <2> QED
    BY <1>2, <2>1, <2>2, <2>3, Zenon
<1>5. (HeldAt(a, k) \ Loader!Releases(s)) \cup Loader!Allocates(s) = HeldAt(a, k + 1)
  BY <1>3, <1>4, HeldMoves, Zenon
<1> HIDE DEF n, top, a, k, s
<1>6. /\ held' \in [Modules -> SUBSET Things] /\ complete' \subseteq Modules
      /\ held'[top] = HeldAt(a, k + 1)
      /\ \A m \in Modules \ {top} : held'[m] = held[m] /\ (m \in complete' <=> m \in complete)
  <2>1. held \in [Modules -> SUBSET Things] /\ complete \subseteq Modules
    BY <1>1 DEF HeldInv
  <2>2. held' = [held EXCEPT ![top] = HeldAt(a, k + 1)]
    BY <1>2, <1>3, <1>5
  <2>3. HeldAt(a, k + 1) \subseteq Things
    BY HeldIs, Zenon
  <2> QED
    BY <1>2, <1>3, <2>1, <2>2, <2>3
<1>7. /\ Loader!Registered \subseteq Loader!Registered'
      /\ \A m \in Loader!Registered' \ Loader!Registered : m = top /\ k = P + 11
      /\ k = Len(a) => top \in Loader!Registered'
  <2>1. <<"registered", 0>> \in held'[top] <=> P + 12 <= k + 1
    BY <1>3, <1>4, <1>6, HeldEnds
  <2>2. <<"registered", 0>> \in held[top] <=> P + 12 <= k
    BY <1>3, <1>4, HeldEnds
  <2> QED
    BY <1>3, <1>4, <1>6, <2>1, <2>2 DEF Loader!Registered
<1>8. /\ StackInv' /\ Loader!Loading' \subseteq Loader!Loading
      /\ Loader!Loading \subseteq Loader!Loading' \cup Loader!Registered'
      /\ \A m \in Loader!Loading \ Loader!Loading' :
            m = top /\ m \in complete' /\ held'[m] = Loader!Permanent
      /\ \A i \in 1 .. Len(stack') :
            /\ i \in 1 .. n /\ stack'[i].module = stack[i].module
            /\ stack'[i].at = stack[i].at \/ (i = n /\ stack'[i].at = k + 1)
  <2>1. CASE k = Len(a)
    <3>1. stack' = Loader!Front(stack)
      BY <1>2, <2>1
    <3>2. /\ StackInv' /\ Loader!Loading' = Loader!Loading \ {top}
          /\ Len(stack') = n - 1 /\ \A i \in 1 .. n - 1 : stack'[i] = stack[i]
      BY <1>1, <1>2, <1>6, <3>1, StackPops, Zenon DEF n, top
    <3>3. held'[top] = Loader!Permanent
      BY <1>3, <1>6, <2>1, HeldEnds
    <3>4. top \in complete'
      <4>1. CASE a = Loader!AsEntry
        BY <1>2, <1>4, <2>1, <4>1
      <4>2. CASE a # Loader!AsEntry
        <5>1. n > 1 /\ k = P + 11
          BY <1>3, <1>4, <2>1, <4>2
        <5> QED
          BY <1>2, <1>3, <5>1
      <4> QED
        BY <4>1, <4>2
    <3>5. \A i \in 1 .. Len(stack') : i \in 1 .. n
      BY <1>3, <3>2
    <3>6. /\ Loader!Loading' \subseteq Loader!Loading
          /\ Loader!Loading \subseteq Loader!Loading' \cup Loader!Registered'
          /\ \A m \in Loader!Loading \ Loader!Loading' : m = top
      BY <1>7, <2>1, <3>2
    <3>7. \A i \in 1 .. Len(stack') : stack'[i] = stack[i]
      BY <3>2
    <3>8. \A m \in Loader!Loading \ Loader!Loading' :
             m = top /\ m \in complete' /\ held'[m] = Loader!Permanent
      BY <3>3, <3>4, <3>6
    <3>9. \A i \in 1 .. Len(stack') :
             /\ i \in 1 .. n /\ stack'[i].module = stack[i].module /\ stack'[i].at = stack[i].at
      BY <3>5, <3>7
    <3> QED
      BY <3>2, <3>6, <3>8, <3>9, Zenon
  <2>2. CASE k # Len(a)
    <3>1. stack' = [stack EXCEPT ![n].at = @ + 1] /\ k < Len(a)
      BY <1>2, <1>3, <2>2
    <3>2. top \in complete' <=> n > 1 /\ k + 1 = P + 11
      <4>1. s[1] # "assign" /\ (s[1] = "complete" <=> n > 1 /\ k = P + 10)
        <5>1. a # Loader!AsEntry \/ k # P + 12
          BY <1>4, <3>1
        <5>2. Loader!AsEntry # Loader!AsImport
          BY <1>4
        <5>3. a = Loader!AsImport <=> n > 1
          BY <1>3, <5>2
        <5> QED
          BY <1>4, <5>1, <5>3, Zenon
      <4>2. top \notin complete
        BY <1>3, <1>4, <3>1
      <4>3. k = P + 10 <=> k + 1 = P + 11
        BY <1>4
      <4> QED
        BY <1>2, <4>1, <4>2, <4>3
    <3>3. StackInv' /\ Loader!Loading' = Loader!Loading
      BY <1>1, <1>2, <1>6, <3>1, <3>2, StackAdvances, Zenon DEF n, top, a, k
    <3>4. /\ Len(stack') = n
          /\ \A i \in 1 .. n : /\ stack'[i].module = stack[i].module
                               /\ stack'[i].at = stack[i].at \/ (i = n /\ stack'[i].at = k + 1)
      <4>1. stack \in Seq(Frames) /\ n = Len(stack) /\ \A i \in 1 .. n : stack[i] \in Frames
        BY <1>1, StackHas DEF StackInv, n
      <4>2. stack' = [stack EXCEPT ![n] = [stack[n] EXCEPT !.at = stack[n].at + 1]]
        BY <3>1
      <4>3. k = stack[n].at
        BY <1>3 DEF k
      <4>4. /\ Len(stack') = n /\ \A i \in 1 .. n : i # n => stack'[i] = stack[i]
            /\ stack'[n] = [stack[n] EXCEPT !.at = stack[n].at + 1]
        BY <1>3, <4>1, <4>2
      <4>5. stack'[n].module = stack[n].module /\ stack'[n].at = k + 1
        BY <1>3, <4>1, <4>3, <4>4 DEF Frames
      <4>6. \A i \in 1 .. n : \/ stack'[i] = stack[i]
                              \/ i = n /\ stack'[i].module = stack[i].module /\ stack'[i].at = k + 1
        BY <4>4, <4>5, Zenon
      <4>7. ASSUME NEW i \in 1 .. n
            PROVE  /\ stack'[i].module = stack[i].module
                   /\ stack'[i].at = stack[i].at \/ (i = n /\ stack'[i].at = k + 1)
        BY <4>6
      <4> QED
        BY <4>4, <4>7, Zenon
    <3> QED
      BY <3>3, <3>4, Zenon
  <2> QED
    BY <2>1, <2>2
<1>9. HeldInv'
  <2>1. \A m \in Modules \ Loader!Loading' :
           \/ m \in Modules \ Loader!Loading /\ m # top
           \/ m \in complete' /\ held'[m] = Loader!Permanent
    BY <1>3, <1>8
  <2>2. /\ abandoned = {} /\ lost = {}
        /\ \A m \in Modules \ Loader!Loading : held[m] \in {{}, Loader!Permanent}
        /\ \A m \in Modules \ Loader!Loading :
              \/ m \in complete /\ held[m] = Loader!Permanent
              \/ m \notin complete /\ held[m] \cap Loader!Permanent = {}
    BY <1>1, <1>2 DEF HeldInv
  <2>3. ASSUME NEW m \in Modules \ Loader!Loading'
        PROVE  /\ held'[m] \in {{}, Loader!Permanent}
               /\ \/ m \in complete' /\ held'[m] = Loader!Permanent
                  \/ m \notin complete' /\ held'[m] \cap Loader!Permanent = {}
    BY <1>6, <2>1, <2>2
  <2> QED
    BY <1>2, <1>6, <2>2, <2>3 DEF HeldInv
<1>10. JobInv'
  <2>1. /\ pc = "begun" /\ result = "none" /\ result' = "none" /\ pc' = pc /\ snapshot' = snapshot
        /\ Loaded' = Loaded /\ Needs(Entry)' = Needs(Entry)
    BY <1>1, <1>2, SameJob DEF JobInv
  <2>2. /\ Loaded \subseteq Loader!Registered
        /\ \A m \in Loader!Loading : m \in Needs(Entry) \ Loaded
        /\ \A m \in Loader!Registered \ Loaded : m \in Needs(Entry) /\ snapshot[m] # 0
        /\ \A i \in 1 .. n : stack[i].at > P + 6 => snapshot[stack[i].module] # 0
        /\ \A m \in Loader!Registered \ Loaded :
              Imports[m] \subseteq Loader!Registered \cup Loader!Loading
        /\ \A i \in 1 .. n : stack[i].at > P + 8 =>
              Imports[stack[i].module] \subseteq Loader!Registered \cup Loader!Loading
    BY <1>1, <2>1 DEF JobInv, n
  <2>3. top = stack[n].module /\ k = stack[n].at
    BY <1>3 DEF top, k
  <2>4. Loader!Registered \cup Loader!Loading \subseteq Loader!Registered' \cup Loader!Loading'
    BY <1>7, <1>8
  <2>5. /\ k > P + 6 \/ k = P + 6 => snapshot[top] # 0
        /\ k > P + 8 => Imports[top] \subseteq Loader!Registered \cup Loader!Loading
    <3>1. k = P + 6 => snapshot[top] # 0
      BY <1>4 DEF s, top
    <3> QED
      BY <1>3, <2>2, <2>3, <3>1
  <2>6. \A m \in Loader!Registered' \ Loaded :
           /\ m \in Needs(Entry) /\ snapshot[m] # 0
           /\ Imports[m] \subseteq Loader!Registered \cup Loader!Loading
    <3>1. k = P + 11 => k > P + 6 /\ k > P + 8
      BY <1>4
    <3> QED
      BY <1>3, <1>7, <2>2, <2>5, <3>1
  <2>7. ASSUME NEW i \in 1 .. Len(stack')
        PROVE  /\ stack'[i].at > P + 6 => snapshot[stack'[i].module] # 0
               /\ stack'[i].at > P + 8 =>
                     Imports[stack'[i].module] \subseteq Loader!Registered \cup Loader!Loading
    <3>1. /\ i \in 1 .. n /\ stack'[i].module = stack[i].module
          /\ stack'[i].at = stack[i].at \/ (i = n /\ stack'[i].at = k + 1)
      BY <1>8
    <3>2. /\ k + 1 > P + 6 => k > P + 6 \/ k = P + 6
          /\ k + 1 > P + 8 => k > P + 8
      BY <1>4
    <3> QED
      BY <2>2, <2>3, <2>5, <3>1, <3>2
  <2>8. \A m \in Loader!Loading' : m \in Needs(Entry) \ Loaded
    BY <1>8, <2>2
  <2>9. Loaded \subseteq Loader!Registered'
    BY <1>7, <2>2
  <2> QED
    BY <2>1, <2>4, <2>6, <2>7, <2>8, <2>9 DEF JobInv
<1> QED
  BY <1>8, <1>9, <1>10 DEF LoaderInv

(* A failure takes the innermost module off the stack: it is abandoned, lost *)
(* or has nothing left.                                                     *)
LEMMA DropKeeps ==
    ASSUME LoaderInv, UNCHANGED vars, stack # <<>>, stack' = Loader!Front(stack),
           Loader!Top.module \notin Loader!Registered,
           complete' = complete, result' = "error",
           held' \in [Modules -> SUBSET Things],
           \A m \in Modules \ {Loader!Top.module} : held'[m] = held[m],
           held'[Loader!Top.module] \subseteq held[Loader!Top.module],
           abandoned \subseteq abandoned', lost \subseteq lost',
           \/ Loader!Top.module \in abandoned' \cup lost'
           \/ /\ held'[Loader!Top.module] \cap Loader!Permanent = {}
              /\ Loader!Top.module \notin complete
    PROVE  LoaderInv'
<1> DEFINE top == Loader!Top.module
<1>1. StackInv /\ HeldInv /\ JobInv
  BY DEF LoaderInv
<1>2. /\ StackInv' /\ Loader!Loading' = Loader!Loading \ {top}
      /\ Len(stack') = Len(stack) - 1
      /\ \A i \in 1 .. Len(stack) - 1 : stack'[i] = stack[i]
  BY <1>1, StackPops, Zenon
<1>3. Loader!Registered' = Loader!Registered
  <2>1. ASSUME NEW m \in Modules
        PROVE  <<"registered", 0>> \in held'[m] <=> <<"registered", 0>> \in held[m]
    <3>1. CASE m = top
      <4>1. <<"registered", 0>> \notin held[top]
        BY <3>1 DEF Loader!Registered
      <4> HIDE DEF top
      <4> QED
        BY <3>1, <4>1 DEF top
    <3>2. CASE m # top
      BY <3>2
    <3> QED
      BY <3>1, <3>2
  <2> QED
    BY <2>1 DEF Loader!Registered
<1> HIDE DEF top
<1>4. HeldInv'
  <2>1. ASSUME NEW m \in Modules \ Loader!Loading'
        PROVE  \/ m \in complete /\ held'[m] = Loader!Permanent
               \/ m \notin complete /\ held'[m] \cap Loader!Permanent = {}
               \/ m \in abandoned' \cup lost' /\ m \notin Loader!Registered
    <3>1. CASE m = top
      BY <3>1 DEF top
    <3>2. CASE m # top
      <4>1. m \in Modules \ Loader!Loading /\ held'[m] = held[m]
        BY <1>2, <3>2 DEF top
      <4> QED
        BY <1>1, <4>1 DEF HeldInv
    <3> QED
      BY <3>1, <3>2
  <2> QED
    BY <1>1, <1>3, <2>1 DEF HeldInv
<1>5. JobInv'
  <2>1. /\ pc = "begun" /\ pc' = pc /\ snapshot' = snapshot
        /\ Loaded' = Loaded /\ Needs(Entry)' = Needs(Entry)
    BY <1>1, SameJob DEF JobInv
  <2>2. \A i \in 1 .. Len(stack') : i \in 1 .. Len(stack) /\ stack'[i] = stack[i]
    <3>1. Len(stack) \in Nat
      BY <1>1 DEF StackInv
    <3> QED
      BY <1>2, <3>1
  <2>3. Loader!Loading' \subseteq Loader!Loading
    BY <1>2
  <2> QED
    BY <1>1, <1>3, <2>1, <2>2, <2>3 DEF JobInv
<1> QED
  BY <1>2, <1>4, <1>5 DEF LoaderInv

\* What a failure frees of a module.
LEMMA FreedIs ==
    ASSUME LoaderInv, NEW m \in Modules, NEW S, Loader!Free(m, S)
    PROVE  /\ held' \in [Modules -> SUBSET Things]
           /\ \A k \in Modules \ {m} : held'[k] = held[k]
           /\ held'[m] = held[m] \ S /\ held'[m] \subseteq held[m]
<1>1. held \in [Modules -> SUBSET Things] /\ held' = [held EXCEPT ![m] = held[m] \ S]
  BY DEF LoaderInv, HeldInv, Loader!Free
<1> QED
  BY <1>1

\* PG_CATCH that knows its locals leaves nothing permanent.
LEMMA CatchFrees ==
    ASSUME StackInv, HeldInv, stack # <<>>, Loader!Top.at < P + 12,
           Loader!Top.at < P + 10 \/ Loader!Top.program = Loader!AsEntry
    PROVE  held[Loader!Top.module] \cap Loader!Permanent \subseteq Loader!Catch(Loader!Top.module)
<1> DEFINE top == Loader!Top.module
           a == Loader!Top.program
           k == Loader!Top.at
<1>1. /\ a \in Programs /\ k \in Nat \ {0} /\ P \in Nat /\ k \in 1 .. Len(a)
      /\ held[top] = HeldAt(a, k) /\ Loader!Now = a[k]
  <2>1. a \in Programs /\ k \in 1 .. Len(a) /\ held[top] = HeldAt(a, k) /\ Len(a) \in Nat
    BY TopFacts, Zenon
  <2>2. Loader!Now = a[k]
    BY DEF Loader!Now
  <2>3. k \in Nat \ {0}
    BY <2>1
  <2> QED
    BY <2>1, <2>2, <2>3, CountFacts, Zenon
<1> HIDE DEF top, a, k
<1>2. <<"registered", 0>> \notin held[top]
  <2>1. ~ (P + 12 <= k)
    BY <1>1 DEF k
  <2> QED
    BY <1>1, <2>1, HeldEnds, Zenon
<1>3. ASSUME <<"aot", 0>> \in held[top]
      PROVE  Loader!Now[1] \in {"rtt", "register"}
  <2>1. P + 10 <= k
    BY <1>1, <1>3, HeldEnds, Zenon
  <2>2. (k = P + 10 \/ k = P + 11) /\ a = Loader!AsEntry
    BY <1>1, <2>1 DEF k, a
  <2>3. a[k][1] = "rtt" \/ a[k][1] = "register"
    BY <1>1, <2>2, CompletesAt, Zenon
  <2> QED
    BY <1>1, <2>3
<1>4. ASSUME NEW x \in held[top] \cap Loader!Permanent PROVE x \in Loader!Catch(top)
  <2>1. CASE x = <<"pmod", 0>> \/ \E q \in Loader!Queries : x = <<"plan", q>> \/ x = <<"funcs", q>>
    <3>1. x \in Loader!Plans \cup Loader!Funcs \cup Loader!One({"pmod"})
      BY <2>1 DEF Loader!Plans, Loader!Funcs, Loader!One
    <3> QED
      BY <1>4, <3>1 DEF Loader!Catch, Loader!FieldsOf
  <2>2. CASE x = <<"aot", 0>>
    <3>1. Loader!Now[1] \in {"rtt", "register"} /\ x \in Loader!One({"aot"})
      BY <1>3, <1>4, <2>2 DEF Loader!One
    <3> QED
      BY <3>1 DEF Loader!Catch
  <2>3. CASE x = <<"registered", 0>>
    BY <1>2, <1>4, <2>3
  <2>4. \/ x \in {<<"pmod", 0>>, <<"aot", 0>>, <<"registered", 0>>}
        \/ \E q \in Loader!Queries : x = <<"plan", q>> \/ x = <<"funcs", q>>
    BY <1>4, ThingsAre, Zenon
  <2> QED
    BY <2>1, <2>2, <2>3, <2>4
<1> QED
  BY <1>4 DEF top

(* A statement fails, or there is no row for the module.                     *)
LEMMA FailsKeeps == ASSUME LoaderInv, Loader!Fails, UNCHANGED vars PROVE LoaderInv'
<1> DEFINE n == Len(stack)
           top == Loader!Top.module
           a == Loader!Top.program
           k == Loader!Top.at
<1>1. StackInv /\ HeldInv /\ JobInv
  BY DEF LoaderInv
<1>2. /\ stack # <<>> /\ result' = "error" /\ stack' = Loader!Front(stack) /\ complete' = complete
      /\ Loader!MayFail
      /\ \/ Loader!InPrepare /\ Loader!Free(top, Loader!Catch(top))
            /\ lost' = lost /\ abandoned' = abandoned
         \/ Loader!InPrepare /\ Loader!Free(top, Loader!CatchStale(top))
            /\ lost' = lost \cup {top} /\ abandoned' = abandoned
         \/ Loader!Free(top, Loader!One({"aot"}))
            /\ abandoned' = abandoned \cup {top} /\ lost' = lost
  BY DEF Loader!Fails
<1>3. /\ n \in Nat /\ 1 <= n /\ n \in 1 .. n /\ Loader!Top = stack[n]
      /\ k \in 1 .. Len(a) /\ Len(a) \in Nat /\ a \in Programs /\ top \in Modules
      /\ a = (IF n = 1 THEN Loader!AsEntry ELSE Loader!AsImport)
      /\ (top \in complete <=> n > 1 /\ k = P + 11)
      /\ Loader!Now = a[k]
  <2>1. Loader!Now = a[k]
    BY DEF Loader!Now
  <2>2. n \in Nat /\ 1 <= n => n \in 1 .. n
    OBVIOUS
  <2> QED
    BY <1>1, <1>2, <2>1, <2>2, TopFacts, Zenon
<1>4. /\ P \in Nat /\ Len(a) \in {P + 11, P + 12} /\ k \in Nat
      /\ (a = Loader!AsEntry <=> Len(a) = P + 12) /\ (a = Loader!AsImport <=> Len(a) = P + 11)
  <2>1. k \in Nat
    BY <1>3
  <2> QED
    BY <1>3, <2>1, HeldEnds, Zenon
<1>5. /\ (a[k][1] = "assign" <=> a = Loader!AsEntry /\ k = P + 12)
      /\ (a[k][1] \in {"load", "complete", "rtt", "register", "assign"} <=> k > P + 8)
  BY <1>3, CompletesAt, Zenon
<1> HIDE DEF n, top, a, k
<1>6. k < P + 12
  <2>1. a[k][1] # "assign"
    BY <1>2, <1>3 DEF Loader!MayFail
  <2> QED
    BY <1>3, <1>4, <1>5, <2>1
<1>7. top \notin Loader!Registered
  <2>1. stack[n].at = k /\ stack[n].module = top
    BY <1>3 DEF k, top
  <2>2. k # P + 12
    BY <1>4, <1>6
  <2>3. stack[n].module \in Loader!Registered <=> stack[n].at = P + 12
    BY <1>1, <1>3, RegisteredAt, Zenon DEF n
  <2> QED
    BY <2>1, <2>2, <2>3
<1>8. \/ top \in abandoned' \cup lost'
      \/ held'[top] \cap Loader!Permanent = {} /\ top \notin complete
  <2>1. CASE Loader!InPrepare /\ Loader!Free(top, Loader!Catch(top))
    <3>1. a = Loader!AsEntry \/ k <= P + 8
      <4>1. Loader!Now[1] \notin {"load", "complete", "register", "rtt", "assign"} \/ a = Loader!AsEntry
        BY <2>1 DEF Loader!InPrepare, a
      <4> QED
        BY <1>3, <1>4, <1>5, <4>1
    <3>2. top \notin complete
      BY <1>3, <1>4, <3>1
    <3>3. held[top] \cap Loader!Permanent \subseteq Loader!Catch(top)
      <4>1. k < P + 12 /\ (k < P + 10 \/ a = Loader!AsEntry)
        BY <1>4, <1>6, <3>1
      <4> QED
        BY <1>1, <1>2, <4>1, CatchFrees DEF top, a, k
    <3>4. held'[top] = held[top] \ Loader!Catch(top)
      BY <1>3, <2>1, FreedIs, Zenon
    <3> QED
      BY <3>2, <3>3, <3>4
  <2> QED
    BY <1>2, <2>1
<1>9. /\ held' \in [Modules -> SUBSET Things]
      /\ \A m \in Modules \ {top} : held'[m] = held[m]
      /\ held'[top] \subseteq held[top]
  BY <1>2, <1>3, FreedIs, Zenon
<1>10. abandoned \subseteq abandoned' /\ lost \subseteq lost'
  BY <1>2
<1> QED
  BY <1>2, <1>7, <1>8, <1>9, <1>10, DropKeeps, Zenon DEF top

(* The importer of a module that failed fails where it waits.               *)
LEMMA PropagateKeeps == ASSUME LoaderInv, Loader!Propagate, UNCHANGED vars PROVE LoaderInv'
<1> DEFINE n == Len(stack)
           top == Loader!Top.module
<1>1. StackInv /\ HeldInv /\ JobInv
  BY DEF LoaderInv
<1>2. /\ stack # <<>> /\ result = "error" /\ result' = "error"
      /\ stack' = Loader!Front(stack) /\ complete' = complete
      /\ \/ Loader!Free(top, Loader!Catch(top)) /\ lost' = lost /\ abandoned' = abandoned
         \/ Loader!Free(top, Loader!CatchStale(top))
            /\ lost' = lost \cup {top} /\ abandoned' = abandoned
         \/ held' = held /\ lost' = lost /\ abandoned' = abandoned \cup {top}
  BY DEF Loader!Propagate
<1>3. /\ n \in Nat /\ 1 <= n /\ n \in 1 .. n /\ Loader!Top = stack[n]
      /\ top \in Modules /\ Loader!Top.at = P + 8
      /\ (top \in complete <=> n > 1 /\ Loader!Top.at = P + 11)
  <2>1. n \in Nat /\ 1 <= n => n \in 1 .. n
    OBVIOUS
  <2> QED
    BY <1>1, <1>2, <2>1, TopFacts, Zenon
<1>4. P \in Nat /\ top \notin complete
  BY <1>3, CountFacts
<1>5. top \notin Loader!Registered
  <2>1. stack[n].at # P + 12
    BY <1>3, <1>4
  <2>2. stack[n].module \in Loader!Registered <=> stack[n].at = P + 12
    BY <1>1, <1>3, RegisteredAt, Zenon
  <2> QED
    BY <1>3, <2>1, <2>2
<1>6. held[top] \cap Loader!Permanent \subseteq Loader!Catch(top)
  <2>1. Loader!Top.at < P + 12 /\ Loader!Top.at < P + 10
    BY <1>3, <1>4
  <2> QED
    BY <1>1, <1>2, <2>1, CatchFrees
<1>7. /\ held' \in [Modules -> SUBSET Things]
      /\ \A m \in Modules \ {top} : held'[m] = held[m]
      /\ held'[top] \subseteq held[top]
  <2>1. CASE held' = held
    BY <1>1, <2>1 DEF HeldInv
  <2>2. CASE held' # held
    BY <1>2, <1>3, <2>2, FreedIs, Zenon
  <2> QED
    BY <2>1, <2>2
<1>8. \/ top \in abandoned' \cup lost'
      \/ held'[top] \cap Loader!Permanent = {} /\ top \notin complete
  <2>1. CASE Loader!Free(top, Loader!Catch(top))
    <3>1. held'[top] = held[top] \ Loader!Catch(top)
      BY <1>3, <2>1, FreedIs, Zenon
    <3> QED
      BY <1>4, <1>6, <3>1
  <2> QED
    BY <1>2, <2>1
<1>9. abandoned \subseteq abandoned' /\ lost \subseteq lost'
  BY <1>2
<1> QED
  BY <1>2, <1>5, <1>7, <1>8, <1>9, DropKeeps, Zenon

\* What is neither loaded nor loading has nothing, as long as nothing failed.
LEMMA AbsentHasNothing ==
    ASSUME HeldInv, result = "none", NEW m \in Modules \ (Loader!Registered \cup Loader!Loading)
    PROVE  held[m] = {} /\ m \notin complete
<1>1. held[m] \in {{}, Loader!Permanent} /\ abandoned = {} /\ lost = {}
  BY DEF HeldInv
<1>2. held[m] # Loader!Permanent
  BY HeldEnds DEF Loader!Registered
<1>3. \/ m \in complete /\ held[m] = Loader!Permanent
      \/ m \notin complete
  BY <1>1 DEF HeldInv
<1> QED
  BY <1>1, <1>2, <1>3

(* What a module imports is needed if it is, unless it is loaded.            *)
LEMMA NeedsImports ==
    ASSUME NEW e, NEW k \in Needs(e), NEW m \in Imports[k], m \notin Loaded
    PROVE  m \in Needs(e)
<1>1. k \in Modules /\ m \in Modules
  BY CacheAssumption DEF CacheAssumption, Needs
<1>2. ASSUME NEW S \in SUBSET Modules, {e} \ Loaded \subseteq S, Closed(S)
      PROVE  m \in S
  <2>1. k \in S
    BY <1>2 DEF Needs
  <2> QED
    BY <1>2, <2>1 DEF Closed
<1> QED
  BY <1>1, <1>2 DEF Needs

(* The importer waits while an import is loaded, and goes on when all are    *)
(* there.                                                                   *)
LEMMA ImportKeeps == ASSUME LoaderInv, Loader!Import, UNCHANGED vars PROVE LoaderInv'
<1> DEFINE n == Len(stack)
           top == Loader!Top.module
           a == Loader!Top.program
           k == Loader!Top.at
           missing == Imports[top] \ (Loader!Registered \cup Loader!Loading)
<1>1. StackInv /\ HeldInv /\ JobInv
  BY DEF LoaderInv
<1>2. /\ stack # <<>> /\ result = "none" /\ Loader!Now[1] = "import"
      /\ \/ /\ missing = {}
            /\ stack' = IF k = Len(a) THEN Loader!Front(stack) ELSE [stack EXCEPT ![n].at = @ + 1]
         \/ \E m \in missing :
               stack' = Append(stack, [module |-> m, at |-> 1, program |-> Loader!AsImport])
      /\ held' = held /\ complete' = complete /\ result' = result
      /\ failures' = failures /\ abandoned' = abandoned /\ lost' = lost
  BY DEF Loader!Import, Loader!Advance
<1>3. /\ n \in Nat /\ 1 <= n /\ Loader!Top = stack[n] /\ n \in 1 .. n
      /\ k \in 1 .. Len(a) /\ Len(a) \in Nat /\ a \in Programs /\ top \in Modules
      /\ held[top] = HeldAt(a, k) /\ (top \in complete <=> n > 1 /\ k = P + 11)
      /\ top \in Loader!Loading /\ Loader!Now = a[k]
  <2>1. Loader!Now = a[k]
    BY DEF Loader!Now
  <2>2. n \in Nat /\ 1 <= n => n \in 1 .. n
    OBVIOUS
  <2> QED
    BY <1>1, <1>2, <2>1, <2>2, TopFacts, Zenon
<1>4. P \in Nat /\ k = P + 8 /\ k < Len(a) /\ top \notin complete
  <2>1. P \in Nat /\ Len(a) \in {P + 11, P + 12}
    BY <1>3, HeldEnds, Zenon
  <2>2. a[k][1] = "import" <=> k = P + 8
    BY <1>3, CompletesAt, Zenon
  <2>3. a[k][1] = "import"
    BY <1>2, <1>3
  <2> HIDE DEF n, top, a, k
  <2>4. k = P + 8
    BY <2>2, <2>3, Zenon
  <2> QED
    BY <1>3, <2>1, <2>4
<1>5. /\ pc = "begun" /\ pc' = pc /\ snapshot' = snapshot
      /\ Loaded' = Loaded /\ Needs(Entry)' = Needs(Entry)
  BY <1>1, <1>2, SameJob DEF JobInv
<1>6. Loader!Registered' = Loader!Registered
  BY <1>2 DEF Loader!Registered
<1>7. /\ Loaded \subseteq Loader!Registered
      /\ \A m \in Loader!Loading : m \in Needs(Entry) \ Loaded
      /\ \A m \in Loader!Registered \ Loaded : m \in Needs(Entry) /\ snapshot[m] # 0
      /\ \A i \in 1 .. n : stack[i].at > P + 6 => snapshot[stack[i].module] # 0
      /\ \A m \in Loader!Registered \ Loaded :
            Imports[m] \subseteq Loader!Registered \cup Loader!Loading
      /\ \A i \in 1 .. n : stack[i].at > P + 8 =>
            Imports[stack[i].module] \subseteq Loader!Registered \cup Loader!Loading
  BY <1>1, <1>2, <1>5 DEF JobInv
<1>8. CASE missing = {} /\ stack' = IF k = Len(a) THEN Loader!Front(stack)
                                    ELSE [stack EXCEPT ![n].at = @ + 1]
  <2>1. stack' = [stack EXCEPT ![n].at = @ + 1]
    BY <1>4, <1>8
  <2>2. held'[top] = HeldAt(a, k + 1)
    <3>1. k + 1 = P + 9 /\ HeldAt(a, P + 8) = HeldAt(a, P + 9)
      BY <1>3, <1>4, HeldEnds
    <3> HIDE DEF top, a, k
    <3> QED
      BY <1>2, <1>3, <1>4, <3>1
  <2>3. top \in complete' <=> n > 1 /\ k + 1 = P + 11
    BY <1>2, <1>4
  <2>4. \A m \in Modules \ {top} : held'[m] = held[m] /\ (m \in complete' <=> m \in complete)
    BY <1>2
  <2>5. result' = "none"
    BY <1>2
  <2>6. StackInv' /\ Loader!Loading' = Loader!Loading
    BY <1>1, <1>2, <1>4, <2>1, <2>2, <2>3, <2>4, <2>5, StackAdvances, Zenon
  <2> HIDE DEF top, a, missing
  <2>7. HeldInv'
    BY <1>1, <1>2, <1>6, <2>6 DEF HeldInv
  <2>8. ASSUME NEW i \in 1 .. Len(stack')
        PROVE  /\ i \in 1 .. n /\ stack'[i].module = stack[i].module
               /\ stack'[i].at = stack[i].at \/ (i = n /\ stack'[i].at = P + 9 /\ stack[i].at = P + 8)
    <3>1. stack \in Seq(Frames) /\ stack[n] \in Frames
      BY <1>1, <1>3, StackHas DEF StackInv
    <3>2. stack' = [stack EXCEPT ![n] = [stack[n] EXCEPT !.at = stack[n].at + 1]]
      BY <2>1
    <3>3. stack[n].at = P + 8 /\ stack[n].at + 1 = P + 9
      BY <1>3, <1>4
    <3>4. /\ Len(stack') = n /\ \A j \in 1 .. n : j # n => stack'[j] = stack[j]
          /\ stack'[n] = [stack[n] EXCEPT !.at = stack[n].at + 1]
      BY <1>3, <3>1, <3>2
    <3>5. stack'[n].module = stack[n].module /\ stack'[n].at = P + 9
      BY <3>1, <3>3, <3>4 DEF Frames
    <3>6. i \in 1 .. n
      BY <3>4
    <3>7. CASE i = n
      BY <3>3, <3>5, <3>6, <3>7
    <3>8. CASE i # n
      BY <3>4, <3>6, <3>8
    <3> QED
      BY <3>7, <3>8
  <2>9. \A i \in 1 .. Len(stack') : stack'[i].at > P + 6 => snapshot[stack'[i].module] # 0
    <3>1. P + 8 > P + 6
      BY <1>4
    <3> QED
      BY <1>7, <2>8, <3>1
  <2>10. \A i \in 1 .. Len(stack') : stack'[i].at > P + 8 =>
            Imports[stack'[i].module] \subseteq Loader!Registered \cup Loader!Loading
    <3>1. Imports[stack[n].module] \subseteq Loader!Registered \cup Loader!Loading
      BY <1>3, <1>8 DEF missing, top
    <3> QED
      BY <1>7, <2>8, <3>1
  <2>11. JobInv'
    BY <1>2, <1>5, <1>6, <1>7, <2>6, <2>9, <2>10 DEF JobInv
  <2> QED
    BY <2>6, <2>7, <2>11 DEF LoaderInv
<1>9. ASSUME NEW m \in missing,
             stack' = Append(stack, [module |-> m, at |-> 1, program |-> Loader!AsImport])
      PROVE  LoaderInv'
  <2>1. m \in Modules \ Loader!Loading /\ m \notin Loader!Registered /\ m \in Imports[top]
    BY <1>3, CacheAssumption DEF CacheAssumption
  <2>2. held[m] = {} /\ m \notin complete
    BY <1>1, <1>2, <2>1, AbsentHasNothing
  <2>3. m \in Needs(Entry) \ Loaded
    <3>1. m \notin Loaded /\ top \in Needs(Entry)
      BY <1>3, <1>7, <2>1
    <3> QED
      BY <2>1, <3>1, NeedsImports
  <2>4. Loader!AsImport \in Programs
    BY DEF Programs
  <2>5. StackInv' /\ Loader!Loading' = Loader!Loading \cup {m}
    <3>1. Loader!AsImport = IF stack = <<>> THEN Loader!AsEntry ELSE Loader!AsImport
      BY <1>2
    <3>2. result' = "none"
      BY <1>2
    <3> QED
      BY <1>1, <1>2, <1>4, <1>9, <2>1, <2>2, <2>4, <3>1, <3>2, StackPushes, Zenon
  <2> HIDE DEF top, a, k, missing
  <2>6. HeldInv'
    BY <1>1, <1>2, <1>6, <2>5 DEF HeldInv
  <2>7. /\ Len(stack') = n + 1
        /\ stack'[n + 1].at = 1 /\ \A i \in 1 .. n : stack'[i] = stack[i]
    <3> DEFINE new == [module |-> m, at |-> 1, program |-> Loader!AsImport]
    <3>1. stack \in Seq(Frames) /\ new \in Frames /\ new.at = 1
      BY <1>1, <2>1, <2>4 DEF StackInv, Frames
    <3> HIDE DEF new
    <3>2. stack' = Append(stack, new)
      BY <1>9 DEF new
    <3> QED
      BY <3>1, <3>2
  <2>8. ASSUME NEW i \in 1 .. Len(stack')
        PROVE  \/ i \in 1 .. n /\ stack'[i] = stack[i]
               \/ ~ (stack'[i].at > P + 6) /\ ~ (stack'[i].at > P + 8)
    <3>1. ~ (1 > P + 6) /\ ~ (1 > P + 8)
      BY <1>4
    <3>2. i \in 1 .. n \/ i = n + 1
      BY <1>3, <2>7
    <3> QED
      BY <2>7, <3>1, <3>2
  <2>9. /\ \A i \in 1 .. Len(stack') : stack'[i].at > P + 6 => snapshot[stack'[i].module] # 0
        /\ \A i \in 1 .. Len(stack') : stack'[i].at > P + 8 =>
              Imports[stack'[i].module] \subseteq Loader!Registered \cup Loader!Loading
    BY <1>7, <2>8
  <2>10. JobInv'
    BY <1>2, <1>5, <1>6, <1>7, <2>3, <2>5, <2>9 DEF JobInv
  <2> QED
    BY <2>5, <2>6, <2>10 DEF LoaderInv
<1> QED
  BY <1>2, <1>8, <1>9

(* A job that finds no entry module starts with it.                         *)
LEMMA StartKeeps ==
    ASSUME LoaderInv, pc = "begun", Loader!rst_prepare_module, UNCHANGED vars PROVE LoaderInv'
<1>1. StackInv /\ HeldInv /\ JobInv
  BY DEF LoaderInv
<1>2. /\ stack = <<>> /\ result = "none" /\ Entry \notin Loader!Registered
      /\ stack' = <<[module |-> Entry, at |-> 1, program |-> Loader!AsEntry]>>
      /\ held' = held /\ complete' = complete /\ result' = result
      /\ failures' = failures /\ abandoned' = abandoned /\ lost' = lost
  BY DEF Loader!rst_prepare_module
<1>3. Loader!Loading = {} /\ Entry \in Modules
  BY <1>2, CacheAssumption DEF Loader!Loading, CacheAssumption
<1>4. held[Entry] = {} /\ Entry \notin complete
  BY <1>1, <1>2, <1>3, AbsentHasNothing
<1>5. StackInv' /\ Loader!Loading' = {Entry}
  <2>1. /\ Loader!AsEntry \in Programs
        /\ Loader!AsEntry = IF stack = <<>> THEN Loader!AsEntry ELSE Loader!AsImport
    BY <1>2 DEF Programs
  <2>2. stack' = Append(stack, [module |-> Entry, at |-> 1, program |-> Loader!AsEntry])
    <3> DEFINE new == [module |-> Entry, at |-> 1, program |-> Loader!AsEntry]
    <3> HIDE DEF new
    <3>1. <<new>> = Append(<<>>, new)
      OBVIOUS
    <3> QED
      BY <1>2, <3>1 DEF new
  <2>3. result' = "none" /\ Entry \in Modules \ Loader!Loading
    BY <1>2, <1>3
  <2>4. StackInv' /\ Loader!Loading' = Loader!Loading \cup {Entry}
    BY <1>1, <1>2, <1>4, <2>1, <2>2, <2>3, StackPushes, Zenon
  <2> QED
    BY <1>3, <2>4
<1>6. /\ pc' = pc /\ snapshot' = snapshot /\ Loaded' = Loaded /\ Needs(Entry)' = Needs(Entry)
      /\ Loader!Registered' = Loader!Registered
  BY <1>2, SameJob DEF Loader!Registered
<1>7. HeldInv'
  BY <1>1, <1>2, <1>3, <1>5, <1>6 DEF HeldInv
<1>8. JobInv'
  <2>1. Entry \in Needs(Entry) \ Loaded
    <3>1. Entry \notin Loaded
      BY <1>1, <1>2 DEF JobInv
    <3> QED
      BY <1>3, <3>1 DEF Needs
  <2>2. \A i \in 1 .. Len(stack') : ~ (stack'[i].at > P + 6) /\ ~ (stack'[i].at > P + 8)
    <3> DEFINE new == [module |-> Entry, at |-> 1, program |-> Loader!AsEntry]
    <3>1. new.at = 1 /\ stack' = <<new>>
      BY <1>2
    <3> HIDE DEF new
    <3>2. ~ (1 > P + 6) /\ ~ (1 > P + 8)
      BY CountFacts
    <3> QED
      BY <3>1, <3>2
  <2> QED
    BY <1>1, <1>2, <1>3, <1>5, <1>6, <2>1, <2>2 DEF JobInv
<1> QED
  BY <1>5, <1>7, <1>8 DEF LoaderInv

(* All that the job needs is registered when the loader is done: what is     *)
(* registered with it has its imports registered.                           *)
LEMMA LoadsKeeps == ASSUME LoaderInv, Loads PROVE LoaderInv'
<1>1. StackInv /\ HeldInv /\ JobInv
  BY DEF LoaderInv
<1>2. /\ stack = <<>> /\ result = "none" /\ Entry \in Loader!Registered
      /\ pc = "begun" /\ pc' = "running"
      /\ \A m \in Needs(Entry) : snapshot[m] # 0
      /\ cache' = [m \in Modules |-> IF m \in Needs(Entry) THEN snapshot[m] ELSE cache[m]]
      /\ UNCHANGED load_vars
  BY DEF Loads, Load
<1>3. Loader!Loading = {} /\ Loader!Registered \subseteq Modules
  BY <1>2 DEF Loader!Loading, Loader!Registered
<1>4. Needs(Entry) \subseteq Loader!Registered
  <2> DEFINE S == Loader!Registered \ Loaded
  <2>1. S \in SUBSET Modules /\ {Entry} \ Loaded \subseteq S
    BY <1>2, <1>3
  <2>2. Closed(S)
    BY <1>1, <1>2, <1>3 DEF JobInv, Closed
  <2> HIDE DEF S
  <2>3. Needs(Entry) \subseteq S
    BY <2>1, <2>2 DEF Needs
  <2> QED
    BY <2>3 DEF S
<1>5. Loaded' = Loader!Registered
  <2>1. /\ Loaded \subseteq Loader!Registered
        /\ Loader!Registered \subseteq Loaded \cup Needs(Entry)
    BY <1>1, <1>2 DEF JobInv
  <2>2. \A m \in Modules : cache'[m] # 0 <=> m \in Needs(Entry) \/ cache[m] # 0
    BY <1>2
  <2>3. \A m \in Modules : m \in Loaded' <=> m \in Needs(Entry) \/ m \in Loaded
    BY <2>2 DEF Loaded
  <2>4. Loaded' \subseteq Modules
    BY DEF Loaded
  <2> QED
    BY <1>3, <1>4, <2>1, <2>3, <2>4
<1>6. /\ StackInv' /\ HeldInv' /\ Loader!Registered' = Loader!Registered
      /\ stack' = <<>> /\ result' = "none"
  BY <1>1, <1>2 DEF load_vars, StackInv, HeldInv, Loader!Registered, Loader!Loading
<1>7. JobInv'
  BY <1>2, <1>5, <1>6 DEF JobInv
<1> QED
  BY <1>6, <1>7 DEF LoaderInv

\* Steps that leave the loader alone.
LEMMA LoaderStays ==
    ASSUME LoaderInv, UNCHANGED load_vars
    PROVE  /\ StackInv' /\ HeldInv' /\ Loader!Registered' = Loader!Registered
           /\ Loader!Loading' = Loader!Loading /\ stack' = stack /\ result' = result
<1>1. /\ stack' = stack /\ held' = held /\ complete' = complete /\ result' = result
      /\ failures' = failures /\ abandoned' = abandoned /\ lost' = lost
  BY DEF load_vars
<1>2. Loader!Registered' = Loader!Registered /\ Loader!Loading' = Loader!Loading
  BY <1>1 DEF Loader!Registered, Loader!Loading
<1>3. StackInv'
  BY <1>1 DEF LoaderInv, StackInv
<1>4. HeldInv'
  BY <1>1, <1>2 DEF LoaderInv, HeldInv
<1> QED
  BY <1>1, <1>2, <1>3, <1>4

LEMMA LoadThrowsKeeps == ASSUME LoaderInv, LoadThrows PROVE LoaderInv'
<1>1. /\ stack = <<>> /\ result = "error" /\ pc' = "dead" /\ UNCHANGED load_vars
  BY DEF LoadThrows, LoadFails
<1>2. /\ StackInv' /\ HeldInv' /\ stack' = <<>> /\ result' = "error"
  BY <1>1, LoaderStays
<1>3. JobInv'
  BY <1>1, <1>2 DEF JobInv
<1> QED
  BY <1>2, <1>3 DEF LoaderInv

LEMMA AroundKeeps ==
    ASSUME LoaderInv, Around \/ EndsJob \/ UNCHANGED store_vars PROVE LoaderInv'
<1>1. UNCHANGED load_vars /\ cache' = cache
  BY DEF Around, EndsJob, EndJob, BeginJob, Signal, invalidate_module_cache, store_vars, vars
<1>2. /\ StackInv' /\ HeldInv' /\ Loader!Registered' = Loader!Registered
      /\ Loader!Loading' = Loader!Loading /\ stack' = stack /\ result' = result
  BY <1>1, LoaderStays
<1>3. Loaded' = Loaded /\ Needs(Entry)' = Needs(Entry)
  BY <1>1 DEF Loaded, Needs, Closed
<1>4. \/ pc = "running" /\ pc' = "idle"
      \/ pc = "idle" /\ pc' = "begun"
      \/ pc' = pc /\ snapshot' = snapshot
  BY DEF Around, EndsJob, EndJob, BeginJob, Signal, invalidate_module_cache, store_vars, vars
<1>5. JobInv
  BY DEF LoaderInv
<1>6. CASE pc = "idle" /\ pc' = "begun"
  <2>1. stack = <<>> /\ result = "none" /\ Loader!Registered = Loaded
    BY <1>5, <1>6 DEF JobInv
  <2>2. Loader!Loading = {} /\ Len(stack) = 0
    BY <2>1 DEF Loader!Loading
  <2>3. JobInv'
    BY <1>2, <1>3, <1>6, <2>1, <2>2 DEF JobInv
  <2> QED
    BY <1>2, <2>3 DEF LoaderInv
<1>7. CASE pc' = pc /\ snapshot' = snapshot
  <2>1. JobInv'
    BY <1>2, <1>3, <1>5, <1>7 DEF JobInv
  <2> QED
    BY <1>2, <2>1 DEF LoaderInv
<1>8. CASE pc = "running" /\ pc' = "idle"
  <2>1. JobInv'
    BY <1>2, <1>3, <1>5, <1>8 DEF JobInv
  <2> QED
    BY <1>2, <2>1 DEF LoaderInv
<1> QED
  BY <1>4, <1>6, <1>7, <1>8

(* Between two jobs what is notified is freed as a whole.                    *)
LEMMA InvalidatesKeeps == ASSUME LoaderInv, Invalidates PROVE LoaderInv'
<1>1. StackInv /\ HeldInv /\ JobInv
  BY DEF LoaderInv
<1>2. /\ pc = "idle" /\ pc' = "idle"
      /\ cache' = [m \in Modules |-> IF m \in notices THEN 0 ELSE cache[m]]
      /\ held' = [m \in Modules |-> IF m \in notices \cap Loader!Registered
                                    THEN held[m] \ Loader!FieldsOf(m) ELSE held[m]]
      /\ complete' = complete \ notices
      /\ stack' = stack /\ result' = result /\ abandoned' = abandoned /\ lost' = lost
  BY DEF Invalidates, on_notification_received, rst_free_module, Notified, Loader!rst_free_module
<1>3. stack = <<>> /\ result = "none" /\ Loader!Registered = Loaded
  BY <1>1, <1>2 DEF JobInv
<1>4. Loader!Loading = {} /\ Loader!Loading' = {}
  BY <1>2, <1>3 DEF Loader!Loading
<1>5. ASSUME NEW m \in Modules
      PROVE  \/ /\ m \in complete /\ held[m] = Loader!Permanent /\ m \in Loader!Registered
             \/ /\ m \notin complete /\ held[m] = {} /\ m \notin Loader!Registered
  <2>1. CASE m \in Loader!Registered
    <3>1. <<"registered", 0>> \in held[m] /\ <<"registered", 0>> \in Loader!Permanent
      BY <2>1, HeldEnds, Zenon DEF Loader!Registered
    <3>2. \/ m \in complete /\ held[m] = Loader!Permanent
          \/ m \notin complete /\ held[m] \cap Loader!Permanent = {}
          \/ m \in abandoned \cup lost /\ m \notin Loader!Registered
      BY <1>1, <1>4 DEF HeldInv
    <3> QED
      BY <2>1, <3>1, <3>2
  <2>2. CASE m \notin Loader!Registered
    BY <1>1, <1>3, <1>4, <2>2, AbsentHasNothing
  <2> QED
    BY <2>1, <2>2
<1>6. ASSUME NEW m \in Modules, m \in complete, held[m] = Loader!Permanent
      PROVE  held[m] \ Loader!FieldsOf(m) = {}
  <2>1. ASSUME NEW x \in Loader!Permanent PROVE x \in Loader!FieldsOf(m)
    <3>1. x \in Loader!One({"pmod", "aot", "registered"}) \cup Loader!Plans \cup Loader!Funcs
      BY <2>1 DEF Loader!Permanent
    <3>2. \/ x \in Loader!Plans \cup Loader!Funcs \cup Loader!One({"pmod"})
          \/ x \in Loader!One({"aot", "registered"})
      BY <3>1 DEF Loader!One
    <3> QED
      BY <1>6, <2>1, <3>2 DEF Loader!FieldsOf
  <2> QED
    BY <1>6, <2>1
<1>7. ASSUME NEW m \in Modules
      PROVE  \/ m \in notices /\ held'[m] = {} /\ m \notin complete'
             \/ m \notin notices /\ held'[m] = held[m] /\ (m \in complete' <=> m \in complete)
  <2>1. CASE m \in notices
    <3>1. held'[m] = {}
      BY <1>2, <1>5, <1>6, <2>1
    <3> QED
      BY <1>2, <2>1, <3>1
  <2>2. CASE m \notin notices
    BY <1>2, <2>2
  <2> QED
    BY <2>1, <2>2
<1>8. HeldInv'
  <2>1. held' \in [Modules -> SUBSET Things] /\ complete' \subseteq Modules
    BY <1>1, <1>2 DEF HeldInv
  <2>2. abandoned' = {} /\ lost' = {}
    BY <1>1, <1>2, <1>3 DEF HeldInv
  <2>3. ASSUME NEW m \in Modules
        PROVE  /\ held'[m] \in {{}, Loader!Permanent}
               /\ \/ m \in complete' /\ held'[m] = Loader!Permanent
                  \/ m \notin complete' /\ held'[m] \cap Loader!Permanent = {}
    BY <1>5, <1>7
  <2> QED
    BY <2>1, <2>2, <2>3 DEF HeldInv
<1>9. Loader!Registered' = Loaded'
  <2>1. ASSUME NEW m \in Modules
        PROVE  <<"registered", 0>> \in held'[m] <=> cache'[m] # 0
    <3>1. <<"registered", 0>> \in held[m] <=> cache[m] # 0
      BY <1>3 DEF Loader!Registered, Loaded
    <3> QED
      BY <1>2, <1>7, <3>1
  <2> QED
    BY <2>1 DEF Loader!Registered, Loaded
<1>10. StackInv'
  <2>1. stack' = <<>> /\ Len(stack') = 0 /\ <<>> \in Seq(Frames)
    BY <1>2, <1>3
  <2> QED
    BY <2>1 DEF StackInv
<1>11. JobInv'
  BY <1>2, <1>3, <1>9 DEF JobInv
<1> QED
  BY <1>8, <1>10, <1>11 DEF LoaderInv

\* A process starts with nothing.
LEMMA NothingYet ==
    ASSUME stack' = <<>>, held' = [m \in Modules |-> {}], complete' = {}, result' = "none",
           abandoned' = {}, lost' = {}, pc' = "idle", \A m \in Modules : cache'[m] = 0
    PROVE  LoaderInv'
<1>1. /\ Len(stack') = 0 /\ <<>> \in Seq(Frames) /\ Loader!Loading' = {}
      /\ Loader!Registered' = {} /\ Loaded' = {}
  BY DEF Loader!Loading, Loader!Registered, Loaded
<1>2. StackInv'
  BY <1>1 DEF StackInv
<1>3. HeldInv'
  BY <1>1 DEF HeldInv
<1>4. JobInv'
  BY <1>1 DEF JobInv
<1> QED
  BY <1>2, <1>3, <1>4 DEF LoaderInv

LEMMA RestartsKeeps == ASSUME IInv, LoaderInv, Restarts PROVE LoaderInv'
<1>1. /\ pc = "dead" /\ pc' = "idle" /\ cache' = cache /\ stack' = <<>>
      /\ held' = [m \in Modules |-> {}] /\ complete' = {} /\ result' = "none"
      /\ abandoned' = {} /\ lost' = {}
  BY DEF Restarts, rst_module_worker_startup, Loader!NewProcess
<1>2. \A m \in Modules : cache'[m] = 0
  BY <1>1 DEF IInv, DeadIsEmpty
<1> QED
  BY <1>1, <1>2, NothingYet

LEMMA LoaderBegins == StoreInit => LoaderInv
<1> SUFFICES ASSUME StoreInit PROVE LoaderInv
  OBVIOUS
<1>1. /\ pc = "idle" /\ stack = <<>> /\ held = [m \in Modules |-> {}] /\ complete = {}
      /\ result = "none" /\ abandoned = {} /\ lost = {} /\ \A m \in Modules : cache[m] = 0
  BY DEF StoreInit, Init, None, Loader!Init
<1>2. /\ Len(stack) = 0 /\ <<>> \in Seq(Frames) /\ Loader!Loading = {}
      /\ Loader!Registered = {} /\ Loaded = {}
  BY <1>1 DEF Loader!Loading, Loader!Registered, Loaded
<1>3. StackInv
  BY <1>1, <1>2 DEF StackInv
<1>4. HeldInv
  BY <1>1, <1>2 DEF HeldInv
<1>5. JobInv
  BY <1>1, <1>2 DEF JobInv
<1> QED
  BY <1>3, <1>4, <1>5 DEF LoaderInv

LEMMA LoaderStep == IInv /\ LoaderInv /\ [StoreNext]_store_vars => LoaderInv'
<1> SUFFICES ASSUME IInv, LoaderInv, [StoreNext]_store_vars PROVE LoaderInv'
  OBVIOUS
<1>1. CASE StartsLoading
  BY <1>1, StartKeeps DEF StartsLoading
<1>2. CASE LoadsOn
  <2>1. UNCHANGED vars
    BY <1>2 DEF LoadsOn
  <2>2. CASE Loader!Statement /\ (Loader!Now[1] = "found" => snapshot[Loader!Top.module] # 0)
    BY <2>1, <2>2, StatementKeeps
  <2>3. CASE Loader!NotFound \/ Loader!Fail
    BY <2>1, <2>3, FailsKeeps DEF Loader!NotFound, Loader!Fail
  <2>4. CASE Loader!Import
    BY <2>1, <2>4, ImportKeeps
  <2>5. CASE Loader!Propagate
    BY <2>1, <2>5, PropagateKeeps
  <2> QED
    BY <1>2, <2>2, <2>3, <2>4, <2>5, Zenon DEF LoadsOn
<1>3. CASE Loads
  BY <1>3, LoadsKeeps
<1>4. CASE LoadThrows
  BY <1>4, LoadThrowsKeeps
<1>5. CASE Invalidates
  BY <1>5, InvalidatesKeeps
<1>6. CASE Restarts
  BY <1>6, RestartsKeeps
<1>7. CASE EndsJob \/ Around \/ UNCHANGED store_vars
  BY <1>7, AroundKeeps
<1> QED
  BY <1>1, <1>2, <1>3, <1>4, <1>5, <1>6, <1>7, Zenon DEF StoreNext, StoreWorker

-----------------------------------------------------------------------------
(* What can be looked up, and what a failure leaves, for every value of the  *)
(* constants                                                                *)

(* rst_lookup_module finds whole modules only, while others load or fail     *)
(* above them, and a job finds what it needed from its snapshot and nothing  *)
(* more.                                                                    *)
THEOREM LookedUpIsWhole == Spec => []RegisteredIsWhole
<1>1. LoaderInv => RegisteredIsWhole
  <2> SUFFICES ASSUME LoaderInv PROVE RegisteredIsWhole
    OBVIOUS
  <2>1. StackInv /\ HeldInv /\ JobInv
    BY DEF LoaderInv
  <2>2. ASSUME NEW m \in Loader!Registered, m \notin Loader!Loading
        PROVE  m \in complete /\ held[m] = Loader!Permanent
    <3>1. m \in Modules /\ <<"registered", 0>> \in held[m] /\ <<"registered", 0>> \in Loader!Permanent
      BY <2>2, HeldEnds, Zenon DEF Loader!Registered
    <3>2. \/ m \in complete /\ held[m] = Loader!Permanent
          \/ m \notin complete /\ held[m] \cap Loader!Permanent = {}
          \/ m \in abandoned \cup lost /\ m \notin Loader!Registered
      BY <2>1, <2>2, <3>1 DEF HeldInv
    <3> QED
      BY <3>1, <3>2
  <2>3. ASSUME NEW m \in Loader!Registered, m \in Loader!Loading
        PROVE  Loader!Permanent \subseteq held[m]
    <3>1. PICK i \in 1 .. Len(stack) : m = stack[i].module
      BY <2>3 DEF Loader!Loading
    <3>2. Loader!Permanent \subseteq held[stack[i].module]
      BY <2>1, <2>3, <3>1, RegisteredAt
    <3> QED
      BY <3>1, <3>2
  <2>4. stack = <<>> => Loader!Loading = {}
    BY DEF Loader!Loading
  <2>5. Loader!RegisteredIsWhole
    BY <2>2, <2>3, <2>4 DEF Loader!RegisteredIsWhole
  <2> QED
    BY <2>1, <2>5 DEF JobInv, RegisteredIsWhole
<1> QED
  BY CacheInit, CacheStep, LoaderBegins, LoaderStep, <1>1, PTL DEF Spec

(* Wherever loading fails, and however deep in the imports, each module is   *)
(* left whole or with nothing in the long-lived memory, but for what the     *)
(* loader rejected and what PG_CATCH could not see; between two jobs what is *)
(* held is exactly what is loaded.                                          *)
THEOREM FailedLoadsLeaveNothing == Spec => []NothingHalfLoaded
<1>1. LoaderInv => NothingHalfLoaded
  <2> SUFFICES ASSUME LoaderInv PROVE NothingHalfLoaded
    OBVIOUS
  <2>1. StackInv /\ HeldInv /\ JobInv
    BY DEF LoaderInv
  <2>2. stack = <<>> => Loader!Loading = {}
    BY DEF Loader!Loading
  <2>3. Loader!NothingHalfLoaded
    BY <2>1, <2>2 DEF HeldInv, Loader!NothingHalfLoaded
  <2>4. ASSUME pc = "idle", NEW m \in Modules
        PROVE  held[m] = IF m \in Loaded THEN Loader!Permanent ELSE {}
    <3>1. stack = <<>> /\ result = "none" /\ Loader!Registered = Loaded
      BY <2>1, <2>4 DEF JobInv
    <3>2. held[m] \in {{}, Loader!Permanent} /\ <<"registered", 0>> \in Loader!Permanent
      BY <2>1, <2>2, <3>1, HeldEnds DEF HeldInv
    <3> QED
      BY <3>1, <3>2 DEF Loader!Registered
  <2> QED
    BY <2>3, <2>4 DEF NothingHalfLoaded
<1> QED
  BY CacheInit, CacheStep, LoaderBegins, LoaderStep, <1>1, PTL DEF Spec
=============================================================================
