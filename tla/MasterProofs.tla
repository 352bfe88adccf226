---------------------------- MODULE MasterProofs ----------------------------
(***************************************************************************)
(* Proofs about the rustica master, for every number of listeners, workers *)
(* and clients and every length of the job queue: its own bookkeeping; what *)
(* it owes to workers and clients, and that it implements Dispatch; and how *)
(* it reads a hello.                                                        *)
(***************************************************************************)
EXTENDS Master, HelloParser, FiniteSetTheorems, SequenceTheorems, TLAPS

\* on_frontend has a connection in hand while it looks for a worker.
HandHeld == pc = "dispatch" => hand # None

(* Which slots may hold what: backends only above the listeners, and the    *)
(* listeners keep their slots until teardown.                               *)
Roles ==
    /\ \A p \in Positions : sockets[p].type = "backend"
          => p > NumListen + 1 /\ sockets[p].peer \in Workers
    /\ \A i \in 1 .. Len(free) : free[i] > NumListen + 1
    /\ pc # "down" =>
          \A p \in Positions : sockets[p].type = "frontend" <=> p \in Listeners

\* The job a worker runs stays in its inbox until it is done.
BusyHasJob == \A w \in Workers : proc[w] = "busy" => inbox[w] # <<>>

TypeInv == TypeOK /\ HandHeld /\ Roles /\ BusyHasJob

(* The queue never exceeds its size, which makes "full" an equality.        *)
FlowInv == Len(job_queue) <= JobQLen /\ FlowControl

(* Each free position is in the line once, and its slot is as close_socket  *)
(* leaves it.                                                               *)
FreeInv ==
    /\ \A i, j \in 1 .. Len(free) : free[i] = free[j] => i = j
    /\ \A i \in 1 .. Len(free) : sockets[free[i]].type = "unset"
    /\ FreeSlotsReset

(* A handle belongs to a launched worker, so the next launch adds a new one. *)
HandlesInv == HandlesCounted /\ \A w \in worker_handles : w < worker_id_seq

LEMMA InitTypeInv == Init => TypeInv
<1> SUFFICES ASSUME Init PROVE TypeInv
  OBVIOUS
<1> USE MasterAssumption
<1>1. free \in Seq(Positions)
  <2>1. \A i \in 1 .. MaxWorkerProcesses - 1 : NumListen + 1 + i \in Positions
    BY DEF Positions, TotalSockets
  <2> QED
    BY <2>1 DEF Init
<1>2. sockets \in [Positions -> SocketType]
  BY DEF Init, InitialSlot, Slot, SocketType, Zeroed, IpcPos
<1>3. TypeOK
  <2>1. /\ pc \in {"loop", "latched", "scan", "dispatch", "teardown", "down"}
        /\ batch \subseteq EventType /\ hand \in Clients \cup {None}
        /\ idle_workers \in Seq(Positions) /\ job_queue \in Seq(Clients)
        /\ frontend_paused \in BOOLEAN
    BY EmptySeq DEF Init
  <2>2. /\ worker_handles \subseteq Workers /\ num_workers \in Nat /\ worker_id_seq \in Nat
        /\ worker_died \in BOOLEAN /\ latch \in BOOLEAN /\ shutdown_requested \in BOOLEAN
        /\ ipc_backlog \in Seq(Workers)
    BY EmptySeq DEF Init
  <2>3. /\ pending \in [Listeners -> Seq(Clients)] /\ client \in [Clients -> Fates]
        /\ proc \in [Workers -> Stages] /\ inbox \in [Workers -> Seq(Clients)]
        /\ rbuf \in [Workers -> Nat] /\ sent \in [Workers -> Nat]
    BY DEF Init, Fates, Stages
  <2> QED
    BY <1>1, <1>2, <2>1, <2>2, <2>3 DEF TypeOK
<1>4. Roles
  <2>1. \A p \in Positions : sockets[p].type # "backend"
    BY DEF Init, InitialSlot, Slot, Zeroed
  <2>2. \A i \in 1 .. Len(free) : free[i] > NumListen + 1
    BY DEF Init
  <2>3. \A p \in Positions : sockets[p].type = "frontend" <=> p \in Listeners
    BY DEF Init, InitialSlot, Slot, Zeroed, Listeners, IpcPos
  <2> QED
    BY <2>1, <2>2, <2>3 DEF Roles
<1> QED
  BY <1>3, <1>4 DEF TypeInv, HandHeld, BusyHasJob, Init

-----------------------------------------------------------------------------
(* What an event for a backend tells.                                      *)
LEMMA BackendSlot ==
    ASSUME TypeInv, NEW e \in batch, sockets[e.pos].type = "backend"
    PROVE  /\ e.pos \in Positions /\ e.pos > NumListen + 1
           /\ sockets[e.pos] \in SocketType
           /\ sockets[e.pos].peer \in Workers
           /\ sockets[e.pos].read_offset \in 0 .. 255
<1>1. e.pos \in Positions
  BY DEF TypeInv, TypeOK, EventType
<1> QED
  BY <1>1 DEF TypeInv, TypeOK, Roles, SocketType

LEMMA ReceivedRange ==
    ASSUME TypeInv, NEW e \in batch, Recv(e)
    PROVE  /\ sockets[e.pos].type = "backend"
           /\ Received(e.pos) \in Nat
           /\ sockets[e.pos].read_offset + Received(e.pos) \in 0 .. HelloLen
           /\ rbuf' \in [Workers -> Nat]
           /\ batch' \subseteq batch
<1> DEFINE w == sockets[e.pos].peer
<1> DEFINE o == sockets[e.pos].read_offset
<1>1. sockets[e.pos].type = "backend" /\ o < HelloLen
  BY DEF Recv, BackendReadable, Handle
<1>2. w \in Workers /\ o \in 0 .. 255 /\ rbuf[w] \in Nat /\ HelloLen \in 1 .. 12
  BY <1>1, BackendSlot, MasterAssumption DEF TypeInv, TypeOK
<1>3. Received(e.pos) \in Nat /\ Received(e.pos) <= HelloLen - o /\ Received(e.pos) <= rbuf[w]
  <2>1. MinOf(HelloLen - o, rbuf[w]) \in Nat /\ MinOf(HelloLen - o, rbuf[w]) <= HelloLen - o
        /\ MinOf(HelloLen - o, rbuf[w]) <= rbuf[w]
    BY <1>1, <1>2, SMTT(30) DEF MinOf
  <2> QED
    BY <2>1 DEF Received, o, w
<1>4. o + Received(e.pos) \in 0 .. HelloLen
  <2>1. PICK r \in Nat : r = Received(e.pos)
    BY <1>3
  <2>2. PICK x \in 0 .. 255 : x = o
    BY <1>2
  <2> QED
    BY <1>1, <1>2, <1>3, <2>1, <2>2, SMTT(30)
<1>5. rbuf' \in [Workers -> Nat]
  <2>1. rbuf[w] - Received(e.pos) \in Nat
    BY <1>2, <1>3
  <2>2. rbuf \in [Workers -> Nat]
    BY DEF TypeInv, TypeOK
  <2>3. rbuf' = [rbuf EXCEPT ![w] = rbuf[w] - Received(e.pos)]
    BY DEF Recv
  <2> QED
    BY <1>2, <2>1, <2>2, <2>3
<1> QED
  BY <1>1, <1>3, <1>4, <1>5 DEF Recv, BackendReadable, Handle
-----------------------------------------------------------------------------
(* What the actions leave alone.                                           *)
Surroundings ==
    \/ \E c \in Clients, l \in Listeners : Connect(c, l)
    \/ on_sigterm
    \/ \E w \in Workers : WorkerNext(w) \/ WaitTimesOut(w) \/ Die(w)

LEMMA SurroundingsFrame ==
    ASSUME Surroundings
    PROVE  UNCHANGED <<loopVars, poolVars, queueVars, handleVars>>
<1>1. ASSUME NEW c \in Clients, NEW l \in Listeners, Connect(c, l)
      PROVE  UNCHANGED <<loopVars, poolVars, queueVars, handleVars>>
  BY <1>1 DEF Connect
<1>2. CASE on_sigterm
  BY <1>2 DEF on_sigterm
<1>3. ASSUME NEW w \in Workers, WorkerNext(w) \/ WaitTimesOut(w) \/ Die(w)
      PROVE  UNCHANGED <<loopVars, poolVars, queueVars, handleVars>>
  BY <1>3 DEF WorkerNext, StartWorker, ConnectMaster, SendHello, on_readable, FinishJob,
              SeeClosed, Leave, Reap, NotifyStopped, WaitTimesOut, Die, Exits
<1> QED
  BY <1>1, <1>2, <1>3 DEF Surroundings

\* The steps of main_loop that touch neither sockets nor queues.
LoopOnly ==
    \/ Collect \/ CheckDied \/ on_worker_died
    \/ \E e \in batch : IgnoreStale(e) \/ ResetLatch(e) \/ AcceptFails(e)

LEMMA LoopOnlyFrame ==
    ASSUME LoopOnly
    PROVE  /\ UNCHANGED <<hand, poolVars, queueVars, clientVars, workerVars>>
           /\ pc \in {"loop", "latched", "scan"}
           /\ pc' \in {"loop", "latched", "scan", "teardown"}
<1>1. CASE Collect
  BY <1>1 DEF Collect
<1>2. CASE CheckDied
  BY <1>2 DEF CheckDied
<1>3. CASE on_worker_died
  BY <1>3 DEF on_worker_died
<1>4. ASSUME NEW e \in batch, IgnoreStale(e) \/ ResetLatch(e) \/ AcceptFails(e)
      PROVE  /\ UNCHANGED <<hand, poolVars, queueVars, clientVars, workerVars>>
             /\ pc \in {"loop", "latched", "scan"}
             /\ pc' \in {"loop", "latched", "scan", "teardown"}
  BY <1>4 DEF IgnoreStale, ResetLatch, AcceptFails, Handle
<1> QED
  BY <1>1, <1>2, <1>3, <1>4 DEF LoopOnly

(* The actions that move connections from the queue or into it.            *)
LEMMA HelloTakesJobEffect ==
    ASSUME TypeInv, NEW e \in batch, HelloTakesJob(e)
    PROVE  /\ pc = "loop" /\ UNCHANGED <<pc, hand, free, idle_workers, proc, handleVars>>
           /\ job_queue # <<>> /\ job_queue' = Tail(job_queue) /\ ~ frontend_paused'
           /\ e.pos \in Positions /\ sockets[e.pos].type = "backend"
           /\ sockets[e.pos].peer \in Workers
           /\ Pass(Head(job_queue), sockets[e.pos].peer)
           /\ \A p \in Positions : /\ sockets'[p].type = sockets[p].type
                                   /\ sockets'[p].peer = sockets[p].peer
           /\ \A p \in Positions : sockets[p].type = "unset" => sockets'[p] = sockets[p]
           /\ \A p \in Positions : sockets[p].type = "frontend" =>
                 sockets'[p].interest = IF frontend_paused THEN "accept"
                                                           ELSE sockets[p].interest
<1> DEFINE f == IF frontend_paused THEN SetListeners("accept") ELSE sockets
<1>1. /\ e.pos \in Positions /\ sockets[e.pos].type = "backend"
      /\ sockets[e.pos].peer \in Workers /\ pc = "loop"
  BY BackendSlot DEF HelloTakesJob, Recv, BackendReadable, Handle
<1>2. sockets' = [f EXCEPT ![e.pos] = Slot("backend", sockets[e.pos].peer, f[e.pos].interest, 0)]
  BY DEF HelloTakesJob
<1>3. /\ DOMAIN f = Positions
      /\ \A p \in Positions : f[p].type = sockets[p].type /\ f[p].peer = sockets[p].peer
      /\ \A p \in Positions : sockets[p].type = "unset" => f[p] = sockets[p]
      /\ \A p \in Positions : sockets[p].type = "frontend" =>
            f[p].interest = IF frontend_paused THEN "accept" ELSE sockets[p].interest
  BY DEF SetListeners, Watch, Slot, TypeInv, TypeOK
<1>4. /\ UNCHANGED <<pc, hand, free, idle_workers, proc, handleVars>>
      /\ job_queue # <<>> /\ job_queue' = Tail(job_queue) /\ ~ frontend_paused'
      /\ Pass(Head(job_queue), sockets[e.pos].peer)
  BY DEF HelloTakesJob
<1> HIDE DEF f
<1>5. \A p \in Positions : sockets'[p] = IF p = e.pos
          THEN Slot("backend", sockets[e.pos].peer, f[e.pos].interest, 0) ELSE f[p]
  BY <1>2, <1>3
<1> QED
  BY <1>1, <1>3, <1>4, <1>5 DEF Slot

LEMMA LaunchAndQueueEffect ==
    ASSUME TypeInv, LaunchAndQueue
    PROVE  /\ pc = "dispatch" /\ pc' = "loop" /\ hand \in Clients
           /\ idle_workers = <<>> /\ UNCHANGED <<free, idle_workers, inbox>>
           /\ \A p \in Positions : sockets[p].type # "frontend" => sockets'[p] = sockets[p]
           /\ \A p \in Positions : sockets[p].type = "frontend" =>
                 /\ sockets'[p].type = "frontend"
                 /\ sockets'[p].interest = IF /\ Len(job_queue) < JobQLen
                                              /\ Len(job_queue') = JobQLen
                                           THEN "closed" ELSE sockets[p].interest
           /\ \A w \in Workers : proc'[w] = "busy" => proc[w] = "busy"
<1>1. /\ pc = "dispatch" /\ pc' = "loop" /\ hand \in Clients
      /\ idle_workers = <<>> /\ UNCHANGED <<free, idle_workers, inbox>>
  BY DEF LaunchAndQueue, HandHeld, TypeInv, TypeOK
<1>2. \A w \in Workers : proc'[w] = "busy" => proc[w] = "busy"
  BY DEF LaunchAndQueue, LaunchWorker, TypeInv, TypeOK
<1>3. CASE Refuse
  <2>1. sockets' = sockets /\ job_queue' = job_queue /\ ~ (Len(job_queue) < JobQLen)
    BY <1>3, MasterAssumption DEF Refuse, queueVars, TypeInv, TypeOK
  <2> QED
    BY <1>1, <1>2, <2>1
<1>4. CASE Enqueue
  <2>1. /\ Len(job_queue) < JobQLen
        /\ sockets' = IF Len(job_queue') = JobQLen THEN SetListeners("closed") ELSE sockets
    BY <1>4 DEF Enqueue
  <2> QED
    BY <1>1, <1>2, <2>1 DEF SetListeners, Watch, Slot
<1> QED
  BY <1>3, <1>4 DEF LaunchAndQueue

-----------------------------------------------------------------------------
(* Types                                                                   *)

LEMMA SlotInType ==
    ASSUME NEW t \in {"unset", "ipc", "frontend", "backend"}, NEW w \in Workers \cup {None},
           NEW i \in {"none", "accept", "readable", "closed"}, NEW o \in 0 .. 255
    PROVE  Slot(t, w, i, o) \in SocketType
BY DEF Slot, SocketType


LEMMA SlotFields ==
    ASSUME NEW s \in SocketType
    PROVE  /\ s.peer \in Workers \cup {None}
           /\ s.interest \in {"none", "accept", "readable", "closed"}
           /\ s.read_offset \in 0 .. 255
BY DEF SocketType

LEMMA SetSlotType ==
    ASSUME NEW f \in [Positions -> SocketType], NEW p, NEW slot \in SocketType
    PROVE  [f EXCEPT ![p] = slot] \in [Positions -> SocketType]
OBVIOUS


LEMMA ZeroedType == Zeroed \in SocketType
BY DEF Zeroed, Slot, SocketType

LEMMA CollectTypes ==
    ASSUME TypeInv, Collect
    PROVE  TypeOK'
<1>1. ASSUME NEW p \in Positions PROVE EventAt(p) \in EventType
  <2>1. Hung(p) \in BOOLEAN
    BY DEF Hung
  <2>2. sockets[p].peer \in Workers \cup {None}
    BY DEF TypeInv, TypeOK, SocketType
  <2> QED
    BY <2>1, <2>2 DEF EventAt, EventType
<1>2. batch' \subseteq EventType
  BY <1>1 DEF Collect
<1> QED
  BY <1>2 DEF Collect, TypeInv, TypeOK,
      vars, loopVars, poolVars, queueVars, handleVars, signalVars, clientVars, workerVars

LEMMA on_worker_diedTypes ==
    ASSUME TypeInv, on_worker_died
    PROVE  TypeOK'
<1> DEFINE alive == {w \in worker_handles : ~ Stopped(w)}
<1>1. alive \subseteq Workers
  BY DEF TypeInv, TypeOK
<1>2. Cardinality(alive) \in Nat
  <2>1. IsFiniteSet(Workers)
    BY MasterAssumption, FS_Interval DEF Workers
  <2> QED
    BY <1>1, <2>1, FS_Subset, FS_CardinalityType
<1>3. worker_handles' \subseteq Workers /\ num_workers' \in Nat
  BY <1>1, <1>2 DEF on_worker_died, MinOf, TypeInv, TypeOK
<1> QED
  BY <1>3 DEF on_worker_died, TypeInv, TypeOK,
      vars, loopVars, poolVars, queueVars, handleVars, signalVars, clientVars, workerVars

LEMMA on_backend_connectTypes ==
    ASSUME TypeInv, NEW e \in batch, on_backend_connect(e)
    PROVE  TypeOK'
<1> DEFINE p == Head(free)
<1> DEFINE slot == Slot("backend", Head(ipc_backlog), "readable", sockets[p].read_offset)
<1>1. /\ Head(ipc_backlog) \in Workers /\ ipc_backlog' \in Seq(Workers)
      /\ p \in Positions /\ free' \in Seq(Positions)
  BY DEF on_backend_connect, TypeInv, TypeOK
<1>2. sockets[p].read_offset \in 0 .. 255
  BY <1>1 DEF TypeInv, TypeOK, SocketType
<1>3. slot \in SocketType
  BY <1>1, <1>2, SlotInType
<1>4. sockets' \in [Positions -> SocketType]
  BY <1>3, SetSlotType DEF on_backend_connect, TypeInv, TypeOK
<1> QED
  BY <1>1, <1>4 DEF on_backend_connect, Handle, TypeInv, TypeOK,
      vars, loopVars, poolVars, queueVars, handleVars, signalVars, clientVars, workerVars

LEMMA BackendClosedTypes ==
    ASSUME TypeInv, NEW e \in batch, BackendClosed(e)
    PROVE  TypeOK'
<1>1. e.pos \in Positions
  BY DEF TypeInv, TypeOK, EventType
<1>2. sockets' \in [Positions -> SocketType] /\ free' \in Seq(Positions)
  BY <1>1, ZeroedType, SetSlotType DEF BackendClosed, close_socket, TypeInv, TypeOK
<1> QED
  BY <1>2 DEF BackendClosed, Handle, TypeInv, TypeOK,
      vars, loopVars, poolVars, queueVars, handleVars, signalVars, clientVars, workerVars

LEMMA AcceptFrontendTypes ==
    ASSUME TypeInv, NEW e \in batch, AcceptFrontend(e)
    PROVE  TypeOK'
<1>1. e.pos \in Listeners /\ pending[e.pos] \in Seq(Clients) /\ pending[e.pos] # <<>>
  BY DEF AcceptFrontend, Handle, TypeInv, TypeOK, Roles, EventType
<1>2. Head(pending[e.pos]) \in Clients /\ Tail(pending[e.pos]) \in Seq(Clients)
  BY <1>1
<1>3. pending' \in [Listeners -> Seq(Clients)] /\ client' \in [Clients -> Fates]
  BY <1>2 DEF AcceptFrontend, Fates, TypeInv, TypeOK
<1> QED
  BY <1>2, <1>3 DEF AcceptFrontend, Handle, TypeInv, TypeOK,
      vars, loopVars, poolVars, queueVars, handleVars, signalVars, clientVars, workerVars

LEMMA CloseBrokenTypes ==
    ASSUME TypeInv, CloseBroken
    PROVE  TypeOK'
<1>1. Head(idle_workers) \in Positions /\ idle_workers' \in Seq(Positions)
  BY DEF CloseBroken, PopIdle, TypeInv, TypeOK
<1>2. sockets' \in [Positions -> SocketType] /\ free' \in Seq(Positions)
  BY <1>1, ZeroedType, SetSlotType DEF CloseBroken, close_socket, TypeInv, TypeOK
<1> QED
  BY <1>1, <1>2 DEF CloseBroken, TypeInv, TypeOK,
      vars, loopVars, poolVars, queueVars, handleVars, signalVars, clientVars, workerVars

LEMMA DispatchToIdleTypes ==
    ASSUME TypeInv, DispatchToIdle
    PROVE  TypeOK'
<1> DEFINE p == Head(idle_workers)
<1>1. /\ p \in Positions /\ idle_workers' \in Seq(Positions)
      /\ sockets[p] \in SocketType /\ sockets[p].peer \in Workers /\ hand \in Clients
  BY DEF DispatchToIdle, PopIdle, HandHeld, Roles, TypeInv, TypeOK
<1>2. Watch(sockets[p], "readable") \in SocketType
  <2>1. \A s \in SocketType : Watch(s, "readable") \in SocketType
    BY DEF Watch, Slot, SocketType
  <2> QED
    BY <1>1, <2>1
<1>3. sockets' \in [Positions -> SocketType]
  BY <1>2, SetSlotType DEF DispatchToIdle, TypeInv, TypeOK
<1>4. inbox' \in [Workers -> Seq(Clients)] /\ client' \in [Clients -> Fates]
  BY <1>1 DEF DispatchToIdle, Pass, Fates, TypeInv, TypeOK
<1> QED
  BY <1>1, <1>3, <1>4 DEF DispatchToIdle, TypeInv, TypeOK,
      vars, loopVars, poolVars, queueVars, handleVars, signalVars, clientVars, workerVars

LEMMA RecvFailsTypes ==
    ASSUME TypeInv, NEW e \in batch, RecvFails(e)
    PROVE  TypeOK'
<1>1. (0 - 1) % 256 \in 0 .. 255
  <2>1. \A x \in Int : x % 256 \in 0 .. 255
    OBVIOUS
  <2>2. PICK x \in Int : x = 0 - 1
    OBVIOUS
  <2> QED
    BY <2>1, <2>2
<1>2. Spoilt \in SocketType
  BY <1>1 DEF Spoilt, Slot, SocketType
<1>3. e.pos \in Positions
  BY BackendSlot DEF RecvFails, BackendReadable, Handle
<1>4. sockets' \in [Positions -> SocketType] /\ free' \in Seq(Positions)
  BY <1>2, <1>3 DEF RecvFails, close_socket, TypeInv, TypeOK
<1>5. /\ batch' \subseteq batch
      /\ UNCHANGED <<pc, hand, idle_workers, queueVars, handleVars, signalVars,
                    clientVars, workerVars>>
  BY DEF RecvFails, BackendReadable, Handle
<1> QED
  BY <1>4, <1>5 DEF TypeInv, TypeOK,
      vars, loopVars, poolVars, queueVars, handleVars, signalVars, clientVars, workerVars

LEMMA HelloUnexpectedTypes ==
    ASSUME TypeInv, NEW e \in batch, HelloUnexpected(e)
    PROVE  TypeOK'
<1>1. e.pos \in Positions /\ sockets[e.pos] \in SocketType
  BY BackendSlot DEF HelloUnexpected, BackendReadable, Handle
<1>2. Watch(sockets[e.pos], "closed") \in SocketType
  BY <1>1 DEF Watch, Slot, SocketType
<1>3. sockets' = [sockets EXCEPT ![e.pos] = Watch(sockets[e.pos], "closed")]
  BY DEF HelloUnexpected
<1>4. sockets' \in [Positions -> SocketType]
  BY <1>2, <1>3, SetSlotType DEF TypeInv, TypeOK
<1>5. /\ batch' \subseteq batch
      /\ UNCHANGED <<pc, hand, free, idle_workers, queueVars, handleVars,
                    signalVars, clientVars, workerVars>>
  BY DEF HelloUnexpected, BackendReadable, Handle
<1> QED
  BY <1>4, <1>5 DEF TypeInv, TypeOK,
      vars, loopVars, poolVars, queueVars, handleVars, signalVars, clientVars, workerVars

LEMMA RecvPartTypes ==
    ASSUME TypeInv, NEW e \in batch, RecvPart(e)
    PROVE  TypeOK'
<1>1. sockets' \in [Positions -> SocketType]
  <2>1. PICK o \in 0 .. HelloLen : o = sockets[e.pos].read_offset + Received(e.pos)
    BY ReceivedRange DEF RecvPart
  <2>2. sockets[e.pos] \in SocketType
    BY BackendSlot, ReceivedRange DEF RecvPart
  <2>3. /\ sockets[e.pos].peer \in Workers \cup {None}
        /\ sockets[e.pos].interest \in {"none", "accept", "readable", "closed"}
    BY <2>2, SlotFields, SMTT(30)
  <2>4. o \in 0 .. 255
    BY <2>1, MasterAssumption, SMTT(30)
  <2>5. Slot("backend", sockets[e.pos].peer, sockets[e.pos].interest, o) \in SocketType
    BY <2>3, <2>4, SlotInType, SMTT(30)
  <2>6. sockets' = [sockets EXCEPT ![e.pos] =
                      Slot("backend", sockets[e.pos].peer, sockets[e.pos].interest, o)]
    BY <2>1 DEF RecvPart
  <2>7. sockets \in [Positions -> SocketType]
    BY DEF TypeInv, TypeOK
  <2> QED
    BY <2>5, <2>6, <2>7, SetSlotType
<1> QED
  BY <1>1, ReceivedRange DEF RecvPart, TypeInv, TypeOK,
      vars, loopVars, poolVars, queueVars, handleVars, signalVars, clientVars, workerVars

LEMMA HelloGoesIdleTypes ==
    ASSUME TypeInv, NEW e \in batch, HelloGoesIdle(e)
    PROVE  TypeOK'
<1>1. sockets' \in [Positions -> SocketType]
  <2>1. sockets[e.pos].peer \in Workers
    BY BackendSlot, ReceivedRange DEF HelloGoesIdle
  <2>2. Slot("backend", sockets[e.pos].peer, "closed", 0) \in SocketType
    BY <2>1, SlotInType
  <2>3. sockets' = [sockets EXCEPT ![e.pos] = Slot("backend", sockets[e.pos].peer, "closed", 0)]
    BY DEF HelloGoesIdle
  <2>4. sockets \in [Positions -> SocketType]
    BY DEF TypeInv, TypeOK
  <2> QED
    BY <2>2, <2>3, <2>4, SetSlotType
<1>2. idle_workers' \in Seq(Positions)
  <2>1. e.pos \in Positions /\ idle_workers \in Seq(Positions)
    BY BackendSlot, ReceivedRange DEF HelloGoesIdle, TypeInv, TypeOK
  <2> QED
    BY <2>1 DEF HelloGoesIdle
<1> QED
  BY <1>1, <1>2, ReceivedRange DEF HelloGoesIdle, TypeInv, TypeOK,
      vars, loopVars, poolVars, queueVars, handleVars, signalVars, clientVars, workerVars

LEMMA HelloFromBrokenTypes ==
    ASSUME TypeInv, NEW e \in batch, HelloFromBroken(e)
    PROVE  TypeOK'
<1>1. sockets' \in [Positions -> SocketType]
  BY ZeroedType, SetSlotType DEF HelloFromBroken, close_socket, TypeInv, TypeOK
<1>2. free' \in Seq(Positions)
  BY BackendSlot, ReceivedRange DEF HelloFromBroken, close_socket, TypeInv, TypeOK
<1> QED
  BY <1>1, <1>2, ReceivedRange DEF HelloFromBroken, TypeInv, TypeOK,
      vars, loopVars, poolVars, queueVars, handleVars, signalVars, clientVars, workerVars

LEMMA HelloTakesJobTypes ==
    ASSUME TypeInv, NEW e \in batch, HelloTakesJob(e)
    PROVE  TypeOK'
<1>1. sockets[e.pos].type = "backend" /\ sockets[e.pos].peer \in Workers
  BY BackendSlot, ReceivedRange DEF HelloTakesJob
<1>2. SetListeners("accept") \in [Positions -> SocketType]
  BY DEF SetListeners, Watch, Slot, SocketType, TypeInv, TypeOK
<1>3. sockets' \in [Positions -> SocketType]
  <2> DEFINE f == IF frontend_paused THEN SetListeners("accept") ELSE sockets
  <2>1. e.pos \in Positions /\ f \in [Positions -> SocketType]
    BY <1>1, <1>2, BackendSlot DEF TypeInv, TypeOK
  <2>2. f[e.pos].interest \in {"none", "accept", "readable", "closed"}
    BY <2>1 DEF SocketType
  <2>3. Slot("backend", sockets[e.pos].peer, f[e.pos].interest, 0) \in SocketType
    BY <1>1, <2>2, SlotInType
  <2>4. sockets' = [f EXCEPT ![e.pos] = Slot("backend", sockets[e.pos].peer, f[e.pos].interest, 0)]
    BY DEF HelloTakesJob
  <2> HIDE DEF f
  <2> QED
    BY <2>1, <2>3, <2>4, SetSlotType
<1>4. Head(job_queue) \in Clients /\ job_queue' \in Seq(Clients)
  BY DEF HelloTakesJob, TypeInv, TypeOK
<1>5. inbox' \in [Workers -> Seq(Clients)] /\ client' \in [Clients -> Fates]
  BY <1>1, <1>4 DEF HelloTakesJob, Pass, Fates, TypeInv, TypeOK
<1> QED
  BY <1>3, <1>4, <1>5, ReceivedRange DEF HelloTakesJob, TypeInv, TypeOK,
      vars, loopVars, poolVars, queueVars, handleVars, signalVars, clientVars, workerVars

LEMMA LaunchAndQueueTypes ==
    ASSUME TypeInv, LaunchAndQueue
    PROVE  TypeOK'
<1>1. hand \in Clients
  BY DEF LaunchAndQueue, HandHeld, TypeInv, TypeOK
<1>2. /\ job_queue' \in Seq(Clients) /\ client' \in [Clients -> Fates]
      /\ sockets' \in [Positions -> SocketType] /\ frontend_paused' \in BOOLEAN
  <2>1. CASE Enqueue
    <3>1. SetListeners("closed") \in [Positions -> SocketType]
      BY DEF SetListeners, Watch, Slot, SocketType, TypeInv, TypeOK
    <3>2. job_queue' \in Seq(Clients) /\ client' \in [Clients -> Fates]
      BY <1>1, <2>1 DEF Enqueue, Fates, TypeInv, TypeOK
    <3>3. sockets' \in [Positions -> SocketType] /\ frontend_paused' \in BOOLEAN
      BY <2>1, <3>1 DEF Enqueue, TypeInv, TypeOK
    <3> QED
      BY <3>2, <3>3
  <2>2. CASE Refuse
    BY <1>1, <2>2 DEF Refuse, Fates, queueVars, TypeInv, TypeOK
  <2> QED
    BY <2>1, <2>2 DEF LaunchAndQueue
<1>3. /\ worker_handles' \subseteq Workers /\ num_workers' \in Nat
      /\ worker_id_seq' \in Nat /\ proc' \in [Workers -> Stages]
  <2>1. CASE LaunchWorker
    <3>1. worker_id_seq \in Workers /\ worker_id_seq + 1 \in Nat /\ num_workers + 1 \in Nat
      BY <2>1 DEF LaunchWorker, TypeInv, TypeOK
    <3> QED
      BY <2>1, <3>1 DEF LaunchWorker, Stages, TypeInv, TypeOK
  <2>2. CASE UNCHANGED <<handleVars, proc>>
    BY <2>2 DEF handleVars, TypeInv, TypeOK
  <2> QED
    BY <2>1, <2>2 DEF LaunchAndQueue
<1> QED
  BY <1>2, <1>3 DEF LaunchAndQueue, TypeInv, TypeOK,
      vars, loopVars, poolVars, queueVars, handleVars, signalVars, clientVars, workerVars

LEMMA ConnectTypes ==
    ASSUME TypeInv, NEW c \in Clients, NEW l \in Listeners, Connect(c, l)
    PROVE  TypeOK'
<1>1. pending' \in [Listeners -> Seq(Clients)] /\ client' \in [Clients -> Fates]
  BY DEF Connect, Fates, TypeInv, TypeOK
<1> QED
  BY <1>1 DEF Connect, TypeInv, TypeOK,
      vars, loopVars, poolVars, queueVars, handleVars, signalVars, clientVars, workerVars

LEMMA SendHelloTypes ==
    ASSUME TypeInv, NEW w \in Workers, SendHello(w)
    PROVE  TypeOK'
<1>1. PICK k \in 1 .. HelloLen - sent[w] :
         /\ rbuf' = [rbuf EXCEPT ![w] = rbuf[w] + k]
         /\ sent' = [sent EXCEPT ![w] = IF sent[w] + k = HelloLen THEN 0 ELSE sent[w] + k]
         /\ proc' = [proc EXCEPT ![w] = IF sent[w] + k = HelloLen THEN "idle" ELSE proc[w]]
  BY DEF SendHello
<1>2. sent[w] \in Nat /\ rbuf[w] \in Nat /\ k \in Nat
  BY MasterAssumption DEF TypeInv, TypeOK
<1>3. rbuf[w] + k \in Nat /\ sent[w] + k \in Nat
  BY <1>2
<1>4. rbuf' \in [Workers -> Nat] /\ sent' \in [Workers -> Nat] /\ proc' \in [Workers -> Stages]
  BY <1>1, <1>3 DEF Stages, TypeInv, TypeOK
<1> QED
  BY <1>4 DEF SendHello, TypeInv, TypeOK,
      vars, loopVars, poolVars, queueVars, handleVars, signalVars, clientVars, workerVars

LEMMA FinishJobTypes ==
    ASSUME TypeInv, NEW w \in Workers, FinishJob(w)
    PROVE  TypeOK'
<1>1. inbox[w] \in Seq(Clients) /\ inbox[w] # <<>>
  BY DEF FinishJob, Stage, BusyHasJob, TypeInv, TypeOK
<1>2. Tail(inbox[w]) \in Seq(Clients)
  BY <1>1
<1>3. inbox' \in [Workers -> Seq(Clients)] /\ client' \in [Clients -> Fates]
  BY <1>2 DEF FinishJob, Fates, TypeInv, TypeOK
<1> QED
  BY <1>3 DEF FinishJob, Stage, Stages, TypeInv, TypeOK,
      vars, loopVars, poolVars, queueVars, handleVars, signalVars, clientVars, workerVars

LEMMA TypeOKStep ==
    ASSUME TypeInv, [Next]_vars
    PROVE  TypeOK'
<1> USE DEF TypeInv, TypeOK
<1>1. CASE Collect
  BY <1>1, CollectTypes
<1>2. CASE CheckDied
  BY <1>2 DEF CheckDied,
      vars, loopVars, poolVars, queueVars, handleVars, signalVars, clientVars, workerVars
<1>3. CASE on_worker_died
  BY <1>3, on_worker_diedTypes
<1>4. CASE teardown
  BY <1>4 DEF teardown, EventType, SocketType, Slot, Watch, Zeroed, Fates,
      vars, loopVars, poolVars, queueVars, handleVars, signalVars, clientVars, workerVars
<1>5. ASSUME NEW e \in batch, IgnoreStale(e) PROVE TypeOK'
  BY <1>5 DEF IgnoreStale, Handle, EventType, SocketType, Slot, Watch, Zeroed,
      vars, loopVars, poolVars, queueVars, handleVars, signalVars, clientVars, workerVars
<1>6. ASSUME NEW e \in batch, ResetLatch(e) PROVE TypeOK'
  BY <1>6 DEF ResetLatch, Handle, EventType, SocketType, Slot, Watch, Zeroed,
      vars, loopVars, poolVars, queueVars, handleVars, signalVars, clientVars, workerVars
<1>7. ASSUME NEW e \in batch, AcceptFails(e) PROVE TypeOK'
  BY <1>7 DEF AcceptFails, Handle, EventType, SocketType, Slot, Watch, Zeroed,
      vars, loopVars, poolVars, queueVars, handleVars, signalVars, clientVars, workerVars
<1>8. ASSUME NEW e \in batch, on_backend_connect(e) PROVE TypeOK'
  BY <1>8, on_backend_connectTypes
<1>9. ASSUME NEW e \in batch, AcceptFrontend(e) PROVE TypeOK'
  BY <1>9, AcceptFrontendTypes
<1>10. ASSUME NEW e \in batch, BackendClosed(e) PROVE TypeOK'
  BY <1>10, BackendClosedTypes
<1>11. ASSUME NEW e \in batch, HelloUnexpected(e) PROVE TypeOK'
  BY <1>11, HelloUnexpectedTypes
<1>12. ASSUME NEW e \in batch, RecvFails(e) PROVE TypeOK'
  BY <1>12, RecvFailsTypes
<1>13. ASSUME NEW e \in batch, RecvPart(e) PROVE TypeOK'
  BY <1>13, RecvPartTypes
<1>14. ASSUME NEW e \in batch, HelloTakesJob(e) PROVE TypeOK'
  BY <1>14, HelloTakesJobTypes
<1>15. ASSUME NEW e \in batch, HelloFromBroken(e) PROVE TypeOK'
  BY <1>15, HelloFromBrokenTypes
<1>16. ASSUME NEW e \in batch, HelloGoesIdle(e) PROVE TypeOK'
  BY <1>16, HelloGoesIdleTypes
<1>17. CASE SkipClosedSlot
  BY <1>17 DEF SkipClosedSlot, PopIdle,
      vars, loopVars, poolVars, queueVars, handleVars, signalVars, clientVars, workerVars
<1>18. CASE CloseBroken
  BY <1>18, CloseBrokenTypes
<1>19. CASE DispatchToIdle
  BY <1>19, DispatchToIdleTypes
<1>20. CASE LaunchAndQueue
  BY <1>20, LaunchAndQueueTypes
<1>21. ASSUME NEW c \in Clients, NEW l \in Listeners, Connect(c, l) PROVE TypeOK'
  BY <1>21, ConnectTypes
<1>22. CASE on_sigterm
  BY <1>22 DEF on_sigterm,
      vars, loopVars, poolVars, queueVars, handleVars, signalVars, clientVars, workerVars
<1>23. ASSUME NEW w \in Workers, StartWorker(w) PROVE TypeOK'
  BY <1>23 DEF StartWorker, Stage, on_sigusr1, Stages,
      vars, loopVars, poolVars, queueVars, handleVars, signalVars, clientVars, workerVars
<1>24. ASSUME NEW w \in Workers, ConnectMaster(w) PROVE TypeOK'
  BY <1>24 DEF ConnectMaster, Stage, Stages,
      vars, loopVars, poolVars, queueVars, handleVars, signalVars, clientVars, workerVars
<1>25. ASSUME NEW w \in Workers, SendHello(w) PROVE TypeOK'
  BY <1>25, SendHelloTypes
<1>26. ASSUME NEW w \in Workers, on_readable(w) PROVE TypeOK'
  BY <1>26 DEF on_readable, Stage, Stages,
      vars, loopVars, poolVars, queueVars, handleVars, signalVars, clientVars, workerVars
<1>27. ASSUME NEW w \in Workers, FinishJob(w) PROVE TypeOK'
  BY <1>27, FinishJobTypes
<1>28. ASSUME NEW w \in Workers, SeeClosed(w) PROVE TypeOK'
  BY <1>28 DEF SeeClosed, Stage, Stages,
      vars, loopVars, poolVars, queueVars, handleVars, signalVars, clientVars, workerVars
<1>29. ASSUME NEW w \in Workers, Leave(w) PROVE TypeOK'
  BY <1>29 DEF Leave, Exits, Stage, Fates, Stages,
      vars, loopVars, poolVars, queueVars, handleVars, signalVars, clientVars, workerVars
<1>30. ASSUME NEW w \in Workers, Reap(w) PROVE TypeOK'
  BY <1>30 DEF Reap, Stage, Stages,
      vars, loopVars, poolVars, queueVars, handleVars, signalVars, clientVars, workerVars
<1>31. ASSUME NEW w \in Workers, NotifyStopped(w) PROVE TypeOK'
  BY <1>31 DEF NotifyStopped, Stage, on_sigusr1, Stages,
      vars, loopVars, poolVars, queueVars, handleVars, signalVars, clientVars, workerVars
<1>32. ASSUME NEW w \in Workers, WaitTimesOut(w) PROVE TypeOK'
  BY <1>32 DEF WaitTimesOut, Stage, Stages,
      vars, loopVars, poolVars, queueVars, handleVars, signalVars, clientVars, workerVars
<1>33. ASSUME NEW w \in Workers, Die(w) PROVE TypeOK'
  BY <1>33 DEF Die, Exits, Stage, Fates, Stages,
      vars, loopVars, poolVars, queueVars, handleVars, signalVars, clientVars, workerVars
<1>34. CASE UNCHANGED vars
  BY <1>34 DEF
      vars, loopVars, poolVars, queueVars, handleVars, signalVars, clientVars, workerVars
<1> QED
  BY <1>1, <1>2, <1>3, <1>4, <1>5, <1>6, <1>7, <1>8, <1>9, <1>10, <1>11, <1>12,
        <1>13, <1>14, <1>15, <1>16, <1>17, <1>18, <1>19, <1>20, <1>21, <1>22, <1>23,
        <1>24, <1>25, <1>26, <1>27, <1>28, <1>29, <1>30, <1>31, <1>32, <1>33, <1>34
     DEF Next, MasterNext, WorkerNext

LEMMA HandHeldStep ==
    ASSUME TypeInv, [Next]_vars
    PROVE  HandHeld'
<1> USE DEF TypeInv, HandHeld
<1>1. CASE Surroundings
  BY <1>1, SurroundingsFrame DEF loopVars
<1>2. CASE LoopOnly
  BY <1>2, LoopOnlyFrame
<1>3. CASE teardown
  BY <1>3 DEF teardown
<1>4. ASSUME NEW e \in batch, on_backend_connect(e) PROVE HandHeld'
  BY <1>4 DEF on_backend_connect, Handle
<1>5. ASSUME NEW e \in batch, AcceptFrontend(e) PROVE HandHeld'
  <2>1. e.pos \in Listeners /\ pending[e.pos] \in Seq(Clients) /\ pending[e.pos] # <<>>
    BY <1>5 DEF AcceptFrontend, Handle, TypeOK, Roles, EventType
  <2>2. Head(pending[e.pos]) \in Clients
    BY <2>1
  <2> QED
    BY <1>5, <2>2, MasterAssumption DEF AcceptFrontend
<1>6. ASSUME NEW e \in batch, BackendClosed(e) PROVE HandHeld'
  BY <1>6 DEF BackendClosed, Handle, close_socket
<1>7. ASSUME NEW e \in batch, HelloUnexpected(e) PROVE HandHeld'
  BY <1>7 DEF HelloUnexpected, BackendReadable, Handle
<1>8. ASSUME NEW e \in batch, RecvFails(e) PROVE HandHeld'
  BY <1>8 DEF RecvFails, BackendReadable, Handle, close_socket
<1>9. ASSUME NEW e \in batch, RecvPart(e) PROVE HandHeld'
  BY <1>9 DEF RecvPart, Recv, BackendReadable, Handle
<1>10. ASSUME NEW e \in batch, HelloTakesJob(e) PROVE HandHeld'
  BY <1>10, HelloTakesJobEffect
<1>11. ASSUME NEW e \in batch, HelloFromBroken(e) PROVE HandHeld'
  BY <1>11 DEF HelloFromBroken, Recv, BackendReadable, Handle, close_socket
<1>12. ASSUME NEW e \in batch, HelloGoesIdle(e) PROVE HandHeld'
  BY <1>12 DEF HelloGoesIdle, Recv, BackendReadable, Handle
<1>13. CASE SkipClosedSlot
  BY <1>13 DEF SkipClosedSlot, PopIdle, loopVars
<1>14. CASE CloseBroken
  BY <1>14 DEF CloseBroken, PopIdle, close_socket, loopVars
<1>15. CASE DispatchToIdle
  BY <1>15 DEF DispatchToIdle, PopIdle, Pass
<1>16. CASE LaunchAndQueue
  BY <1>16, LaunchAndQueueEffect
<1>17. CASE UNCHANGED vars
  BY <1>17 DEF
      vars, loopVars, poolVars, queueVars, handleVars, signalVars, clientVars, workerVars
<1> QED
  BY <1>1, <1>2, <1>3, <1>4, <1>5, <1>6, <1>7, <1>8, <1>9, <1>10, <1>11, <1>12,
        <1>13, <1>14, <1>15, <1>16, <1>17
     DEF Next, MasterNext, Surroundings, LoopOnly

LEMMA RolesStep ==
    ASSUME TypeInv, [Next]_vars
    PROVE  Roles'
<1> USE DEF TypeInv, TypeOK, Roles
<1>1. CASE Surroundings
  BY <1>1, SurroundingsFrame DEF loopVars, poolVars
<1>2. CASE LoopOnly
  BY <1>2, LoopOnlyFrame DEF poolVars
<1>3. CASE teardown
  BY <1>3 DEF teardown, Slot, Watch, Zeroed
<1>4. ASSUME NEW e \in batch, on_backend_connect(e) PROVE Roles'
  <2>1. /\ Head(ipc_backlog) \in Workers /\ Head(free) \in Positions
        /\ Head(free) > NumListen + 1 /\ pc = "loop" /\ pc' = pc
        /\ \A i \in 1 .. Len(free') : free'[i] > NumListen + 1
    BY <1>4 DEF on_backend_connect, Handle
  <2>2. \A p \in Positions : p # Head(free) => sockets'[p] = sockets[p]
    BY <1>4 DEF on_backend_connect
  <2>3. /\ sockets'[Head(free)].type = "backend"
        /\ sockets'[Head(free)].peer = Head(ipc_backlog)
    BY <1>4, <2>1 DEF on_backend_connect, Slot
  <2>4. Head(free) \notin Listeners
    BY <2>1, MasterAssumption DEF Listeners, Positions
  <2> QED
    BY <2>1, <2>2, <2>3, <2>4
<1>5. ASSUME NEW e \in batch, AcceptFrontend(e) PROVE Roles'
  BY <1>5 DEF AcceptFrontend, Handle, poolVars
<1>6. ASSUME NEW e \in batch, BackendClosed(e) PROVE Roles'
  BY <1>6 DEF BackendClosed, Handle, close_socket, Slot, Watch, Zeroed, EventType
<1>7. ASSUME NEW e \in batch, HelloUnexpected(e) PROVE Roles'
  BY <1>7 DEF HelloUnexpected, BackendReadable, Handle, Slot, Watch, Zeroed,
        EventType
<1>8. ASSUME NEW e \in batch, RecvFails(e) PROVE Roles'
  <2>1. PICK o : sockets' = [sockets EXCEPT ![e.pos] = Slot("unset", None, "none", o)]
    BY <1>8 DEF RecvFails, close_socket, Spoilt
  <2>2. /\ e.pos \in Positions /\ e.pos > NumListen + 1 /\ sockets[e.pos].type = "backend"
        /\ pc' = pc /\ free' = Append(free, e.pos)
    BY <1>8, BackendSlot DEF RecvFails, BackendReadable, Handle, close_socket
  <2>3. \A i \in 1 .. Len(free') : free'[i] > NumListen + 1
    BY <2>2
  <2> QED
    BY <2>1, <2>2, <2>3 DEF Slot
<1>9. ASSUME NEW e \in batch, RecvPart(e) PROVE Roles'
  BY <1>9 DEF RecvPart, Recv, BackendReadable, Handle, Slot, Watch, Zeroed,
        EventType
<1>10. ASSUME NEW e \in batch, HelloTakesJob(e) PROVE Roles'
  BY <1>10, HelloTakesJobEffect
<1>11. ASSUME NEW e \in batch, HelloFromBroken(e) PROVE Roles'
  BY <1>11 DEF HelloFromBroken, Recv, BackendReadable, Handle, close_socket, Slot,
        Watch, Zeroed, EventType
<1>12. ASSUME NEW e \in batch, HelloGoesIdle(e) PROVE Roles'
  BY <1>12 DEF HelloGoesIdle, Recv, BackendReadable, Handle, Slot, Watch, Zeroed,
        EventType
<1>13. CASE SkipClosedSlot
  BY <1>13 DEF SkipClosedSlot, PopIdle
<1>14. CASE CloseBroken
  <2> DEFINE p == Head(idle_workers)
  <2>1. p \in Positions /\ sockets[p].type = "backend" /\ p > NumListen + 1 /\ p \notin Listeners
    BY <1>14 DEF CloseBroken, PopIdle, Hung, Listeners
  <2>2. /\ free' = Append(free, p) /\ pc' = pc
        /\ sockets' = [sockets EXCEPT ![p] = Zeroed]
    BY <1>14 DEF CloseBroken, close_socket, loopVars
  <2>3. \A i \in 1 .. Len(free') : free'[i] > NumListen + 1
    BY <2>1, <2>2
  <2> QED
    BY <2>1, <2>2, <2>3 DEF Zeroed, Slot
<1>15. CASE DispatchToIdle
  BY <1>15 DEF DispatchToIdle, PopIdle, Pass, Slot, Watch, Zeroed, Hung
<1>16. CASE LaunchAndQueue
  <2>1. \A p \in Positions : \/ sockets'[p] = sockets[p]
                             \/ sockets'[p].type = "frontend" /\ sockets[p].type = "frontend"
    BY <1>16, LaunchAndQueueEffect
  <2> QED
    BY <1>16, <2>1, LaunchAndQueueEffect
<1>17. CASE UNCHANGED vars
  BY <1>17 DEF
      vars, loopVars, poolVars, queueVars, handleVars, signalVars, clientVars, workerVars
<1> QED
  BY <1>1, <1>2, <1>3, <1>4, <1>5, <1>6, <1>7, <1>8, <1>9, <1>10, <1>11, <1>12,
        <1>13, <1>14, <1>15, <1>16, <1>17
     DEF Next, MasterNext, Surroundings, LoopOnly

LEMMA PassGivesJob ==
    ASSUME TypeOK, NEW c, NEW w \in Workers, Pass(c, w), UNCHANGED proc, BusyHasJob
    PROVE  BusyHasJob'
<1>1. Append(inbox[w], c) # <<>>
  <2>1. inbox[w] \in Seq(Clients \cup {c})
    BY SeqMonotonic DEF TypeOK
  <2> QED
    BY <2>1, AppendProperties
<1>2. \A v \in Workers : inbox'[v] = IF v = w THEN Append(inbox[w], c) ELSE inbox[v]
  BY DEF Pass, TypeOK
<1> QED
  BY <1>1, <1>2 DEF BusyHasJob

LEMMA BusyHasJobStep ==
    ASSUME TypeInv, [Next]_vars
    PROVE  BusyHasJob'
<1> USE DEF TypeInv, TypeOK, BusyHasJob
<1>1. CASE Surroundings
  <2>1. ASSUME NEW w \in Workers, WorkerNext(w) \/ WaitTimesOut(w) \/ Die(w)
        PROVE  BusyHasJob'
    BY <2>1 DEF WorkerNext, StartWorker, ConnectMaster, SendHello, on_readable, FinishJob,
                SeeClosed, Leave, Reap, NotifyStopped, WaitTimesOut, Die, Exits, Stage
  <2>2. CASE UNCHANGED <<proc, inbox>>
    BY <2>2
  <2> QED
    BY <1>1, <2>1, <2>2 DEF Surroundings, Connect, on_sigterm, workerVars
<1>2. CASE LoopOnly
  BY <1>2, LoopOnlyFrame DEF workerVars
<1>3. CASE teardown
  BY <1>3 DEF teardown
<1>4. ASSUME NEW e \in batch, on_backend_connect(e) PROVE BusyHasJob'
  BY <1>4 DEF on_backend_connect, Handle
<1>5. ASSUME NEW e \in batch, AcceptFrontend(e) PROVE BusyHasJob'
  BY <1>5 DEF AcceptFrontend, Handle, workerVars
<1>6. ASSUME NEW e \in batch, BackendClosed(e) PROVE BusyHasJob'
  BY <1>6 DEF BackendClosed, Handle, close_socket, workerVars
<1>7. ASSUME NEW e \in batch, HelloUnexpected(e) PROVE BusyHasJob'
  BY <1>7 DEF HelloUnexpected, BackendReadable, Handle, workerVars
<1>8. ASSUME NEW e \in batch, RecvFails(e) PROVE BusyHasJob'
  BY <1>8 DEF RecvFails, BackendReadable, Handle, close_socket, workerVars
<1>9. ASSUME NEW e \in batch, RecvPart(e) PROVE BusyHasJob'
  BY <1>9 DEF RecvPart, Recv, BackendReadable, Handle
<1>10. ASSUME NEW e \in batch, HelloTakesJob(e) PROVE BusyHasJob'
  BY <1>10, HelloTakesJobEffect, PassGivesJob
<1>11. ASSUME NEW e \in batch, HelloFromBroken(e) PROVE BusyHasJob'
  BY <1>11 DEF HelloFromBroken, Recv, BackendReadable, Handle, close_socket
<1>12. ASSUME NEW e \in batch, HelloGoesIdle(e) PROVE BusyHasJob'
  BY <1>12 DEF HelloGoesIdle, Recv, BackendReadable, Handle
<1>13. CASE SkipClosedSlot
  BY <1>13 DEF SkipClosedSlot, PopIdle, workerVars
<1>14. CASE CloseBroken
  BY <1>14 DEF CloseBroken, PopIdle, close_socket, workerVars
<1>15. CASE DispatchToIdle
  <2>1. /\ sockets[Head(idle_workers)].peer \in Workers /\ proc' = proc
        /\ Pass(hand, sockets[Head(idle_workers)].peer)
    BY <1>15 DEF DispatchToIdle, PopIdle, Roles
  <2> QED
    BY <2>1, PassGivesJob
<1>16. CASE LaunchAndQueue
  BY <1>16, LaunchAndQueueEffect
<1>17. CASE UNCHANGED vars
  BY <1>17 DEF
      vars, loopVars, poolVars, queueVars, handleVars, signalVars, clientVars, workerVars
<1> QED
  BY <1>1, <1>2, <1>3, <1>4, <1>5, <1>6, <1>7, <1>8, <1>9, <1>10, <1>11, <1>12,
        <1>13, <1>14, <1>15, <1>16, <1>17
     DEF Next, MasterNext, Surroundings, LoopOnly

LEMMA TypeInvStep == TypeInv /\ [Next]_vars => TypeInv'
BY TypeOKStep, HandHeldStep, RolesStep, BusyHasJobStep DEF TypeInv

-----------------------------------------------------------------------------
(* Dispatching and the pause                                               *)

LEMMA WorkConservedStep ==
    ASSUME TypeInv, WorkConserved, [Next]_vars
    PROVE  WorkConserved'
<1> USE DEF TypeInv, TypeOK, WorkConserved
<1>1. CASE Surroundings
  BY <1>1, SurroundingsFrame DEF loopVars, poolVars, queueVars
<1>2. CASE LoopOnly
  BY <1>2, LoopOnlyFrame DEF poolVars, queueVars
<1>3. CASE teardown
  BY <1>3 DEF teardown, poolVars, queueVars
<1>4. ASSUME NEW e \in batch, on_backend_connect(e) PROVE WorkConserved'
  BY <1>4 DEF on_backend_connect, Handle, poolVars, queueVars
<1>5. ASSUME NEW e \in batch, AcceptFrontend(e) PROVE WorkConserved'
  BY <1>5 DEF AcceptFrontend, Handle, poolVars, queueVars
<1>6. ASSUME NEW e \in batch, BackendClosed(e) PROVE WorkConserved'
  BY <1>6 DEF BackendClosed, Handle, close_socket, poolVars, queueVars
<1>7. ASSUME NEW e \in batch, HelloUnexpected(e) PROVE WorkConserved'
  BY <1>7 DEF HelloUnexpected, BackendReadable, Handle, poolVars, queueVars
<1>8. ASSUME NEW e \in batch, RecvFails(e) PROVE WorkConserved'
  BY <1>8 DEF RecvFails, BackendReadable, Handle, close_socket, poolVars, queueVars
<1>9. ASSUME NEW e \in batch, RecvPart(e) PROVE WorkConserved'
  BY <1>9 DEF RecvPart, Recv, BackendReadable, Handle, poolVars, queueVars
<1>10. ASSUME NEW e \in batch, HelloTakesJob(e) PROVE WorkConserved'
  BY <1>10, HelloTakesJobEffect
<1>11. ASSUME NEW e \in batch, HelloFromBroken(e) PROVE WorkConserved'
  BY <1>11 DEF HelloFromBroken, Recv, BackendReadable, Handle, close_socket,
        poolVars, queueVars
<1>12. ASSUME NEW e \in batch, HelloGoesIdle(e) PROVE WorkConserved'
  BY <1>12 DEF HelloGoesIdle, Recv, BackendReadable, Handle, poolVars, queueVars
<1>13. CASE SkipClosedSlot
  BY <1>13 DEF SkipClosedSlot, PopIdle, poolVars, queueVars
<1>14. CASE CloseBroken
  BY <1>14 DEF CloseBroken, PopIdle, close_socket, poolVars, queueVars
<1>15. CASE DispatchToIdle
  BY <1>15 DEF DispatchToIdle, PopIdle, Pass, poolVars, queueVars
<1>16. CASE LaunchAndQueue
  BY <1>16, LaunchAndQueueEffect
<1>17. CASE UNCHANGED vars
  BY <1>17 DEF
      vars, loopVars, poolVars, queueVars, handleVars, signalVars, clientVars, workerVars
<1> QED
  BY <1>1, <1>2, <1>3, <1>4, <1>5, <1>6, <1>7, <1>8, <1>9, <1>10, <1>11, <1>12,
        <1>13, <1>14, <1>15, <1>16, <1>17
     DEF Next, MasterNext, Surroundings, LoopOnly

LEMMA FlowKept ==
    ASSUME FlowInv, UNCHANGED <<job_queue, frontend_paused>>, pc # "down",
           \A l \in Listeners : sockets'[l] = sockets[l]
    PROVE  FlowInv'
BY DEF FlowInv, FlowControl

(* A slot other than a listener's changes.                                 *)
LEMMA SlotChange ==
    ASSUME TypeInv, NEW p \in Positions, sockets[p].type # "frontend", pc # "down",
           NEW slot, sockets' = [sockets EXCEPT ![p] = slot]
    PROVE  \A l \in Listeners : sockets'[l] = sockets[l]
<1>1. p \notin Listeners
  BY DEF TypeInv, Roles
<1> QED
  BY <1>1 DEF TypeInv, TypeOK

LEMMA ListenersExist == Listeners \subseteq Positions
BY MasterAssumption DEF Listeners, Positions, TotalSockets

LEMMA FlowStep ==
    ASSUME TypeInv, FlowInv, [Next]_vars
    PROVE  FlowInv'
<1> USE DEF TypeInv, TypeOK
<1>1. CASE Surroundings
  BY <1>1, SurroundingsFrame DEF loopVars, poolVars, queueVars, FlowInv, FlowControl
<1>2. CASE LoopOnly
  BY <1>2, LoopOnlyFrame DEF poolVars, queueVars, FlowInv, FlowControl
<1>3. CASE teardown
  <2>1. pc' = "down" /\ job_queue' = <<>>
    BY <1>3 DEF teardown
  <2> QED
    BY <2>1, MasterAssumption, EmptySeq DEF FlowInv, FlowControl
<1>4. ASSUME NEW e \in batch, on_backend_connect(e) PROVE FlowInv'
  <2>1. /\ UNCHANGED <<job_queue, frontend_paused>> /\ pc # "down"
        /\ Head(free) \in Positions /\ Head(free) > NumListen + 1
    BY <1>4 DEF on_backend_connect, Handle, queueVars, Roles
  <2>2. sockets[Head(free)].type # "frontend"
    <3>1. Head(free) \notin Listeners
      BY <2>1, MasterAssumption DEF Listeners, Positions
    <3> QED
      BY <2>1, <3>1 DEF Roles
  <2>3. PICK slot : sockets' = [sockets EXCEPT ![Head(free)] = slot]
    BY <1>4 DEF on_backend_connect
  <2> QED
    BY <2>1, <2>2, <2>3, SlotChange, FlowKept
<1>5. ASSUME NEW e \in batch, AcceptFrontend(e) PROVE FlowInv'
  <2>1. UNCHANGED <<job_queue, frontend_paused, sockets>> /\ pc # "down"
    BY <1>5 DEF AcceptFrontend, Handle, poolVars, queueVars
  <2> QED
    BY <2>1, FlowKept
<1>6. ASSUME NEW e \in batch, BackendClosed(e) PROVE FlowInv'
  <2>1. /\ UNCHANGED <<job_queue, frontend_paused>> /\ pc # "down"
        /\ e.pos \in Positions /\ sockets[e.pos].type # "frontend"
    BY <1>6, BackendSlot DEF BackendClosed, Handle, close_socket, queueVars
  <2>2. PICK slot : sockets' = [sockets EXCEPT ![e.pos] = slot]
    BY <1>6 DEF BackendClosed, Handle, close_socket
  <2> QED
    BY <2>1, <2>2, SlotChange, FlowKept
<1>7. ASSUME NEW e \in batch, HelloUnexpected(e) PROVE FlowInv'
  <2>1. /\ UNCHANGED <<job_queue, frontend_paused>> /\ pc # "down"
        /\ e.pos \in Positions /\ sockets[e.pos].type # "frontend"
    BY <1>7, BackendSlot DEF HelloUnexpected, BackendReadable, Handle, queueVars
  <2>2. PICK slot : sockets' = [sockets EXCEPT ![e.pos] = slot]
    BY <1>7 DEF HelloUnexpected, BackendReadable, Handle
  <2> QED
    BY <2>1, <2>2, SlotChange, FlowKept
<1>8. ASSUME NEW e \in batch, RecvFails(e) PROVE FlowInv'
  <2>1. /\ UNCHANGED <<job_queue, frontend_paused>> /\ pc # "down"
        /\ e.pos \in Positions /\ sockets[e.pos].type # "frontend"
    BY <1>8, BackendSlot DEF RecvFails, BackendReadable, Handle, close_socket,
        queueVars
  <2>2. PICK slot : sockets' = [sockets EXCEPT ![e.pos] = slot]
    BY <1>8 DEF RecvFails, BackendReadable, Handle, close_socket
  <2> QED
    BY <2>1, <2>2, SlotChange, FlowKept
<1>9. ASSUME NEW e \in batch, RecvPart(e) PROVE FlowInv'
  <2>1. /\ UNCHANGED <<job_queue, frontend_paused>> /\ pc # "down"
        /\ e.pos \in Positions /\ sockets[e.pos].type # "frontend"
    BY <1>9, BackendSlot DEF RecvPart, Recv, BackendReadable, Handle, queueVars
  <2>2. PICK slot : sockets' = [sockets EXCEPT ![e.pos] = slot]
    BY <1>9 DEF RecvPart, Recv, BackendReadable, Handle
  <2> QED
    BY <2>1, <2>2, SlotChange, FlowKept
<1>10. ASSUME NEW e \in batch, HelloTakesJob(e) PROVE FlowInv'
  <2>1. job_queue \in Seq(Clients) /\ job_queue # <<>> /\ job_queue' = Tail(job_queue)
    BY <1>10, HelloTakesJobEffect
  <2>2. Len(job_queue') <= JobQLen /\ Len(job_queue') # JobQLen
    BY <2>1, HeadTailProperties, MasterAssumption DEF FlowInv
  <2>3. \A l \in Listeners : sockets'[l].interest = "accept"
    <3>1. pc = "loop" /\ \A l \in Listeners : l \in Positions /\ sockets[l].type = "frontend"
      BY <1>10, HelloTakesJobEffect, ListenersExist DEF Roles
    <3>2. \A l \in Listeners : sockets'[l].interest = IF frontend_paused THEN "accept"
                                                      ELSE sockets[l].interest
      BY <1>10, <3>1, HelloTakesJobEffect
    <3> QED
      BY <3>1, <3>2 DEF FlowInv, FlowControl
  <2>4. ~ frontend_paused'
    BY <1>10, HelloTakesJobEffect
  <2> QED
    BY <2>2, <2>3, <2>4, <1>10, TypeOKStep DEF FlowInv, FlowControl
<1>11. ASSUME NEW e \in batch, HelloFromBroken(e) PROVE FlowInv'
  <2>1. /\ UNCHANGED <<job_queue, frontend_paused>> /\ pc # "down"
        /\ e.pos \in Positions /\ sockets[e.pos].type # "frontend"
    BY <1>11, BackendSlot DEF HelloFromBroken, Recv, BackendReadable, Handle,
        close_socket, queueVars
  <2>2. PICK slot : sockets' = [sockets EXCEPT ![e.pos] = slot]
    BY <1>11 DEF HelloFromBroken, Recv, BackendReadable, Handle, close_socket
  <2> QED
    BY <2>1, <2>2, SlotChange, FlowKept
<1>12. ASSUME NEW e \in batch, HelloGoesIdle(e) PROVE FlowInv'
  <2>1. /\ UNCHANGED <<job_queue, frontend_paused>> /\ pc # "down"
        /\ e.pos \in Positions /\ sockets[e.pos].type # "frontend"
    BY <1>12, BackendSlot DEF HelloGoesIdle, Recv, BackendReadable, Handle, queueVars
  <2>2. PICK slot : sockets' = [sockets EXCEPT ![e.pos] = slot]
    BY <1>12 DEF HelloGoesIdle, Recv, BackendReadable, Handle
  <2> QED
    BY <2>1, <2>2, SlotChange, FlowKept
<1>13. CASE SkipClosedSlot
  <2>1. UNCHANGED <<job_queue, frontend_paused, sockets>> /\ pc # "down"
    BY <1>13 DEF SkipClosedSlot, PopIdle, queueVars
  <2> QED
    BY <2>1, FlowKept
<1>14. CASE CloseBroken
  <2>1. /\ UNCHANGED <<job_queue, frontend_paused>> /\ pc # "down"
        /\ Head(idle_workers) \in Positions /\ sockets[Head(idle_workers)].type # "frontend"
    BY <1>14, MasterAssumption DEF CloseBroken, PopIdle, close_socket, Hung,
        queueVars
  <2>2. PICK slot : sockets' = [sockets EXCEPT ![Head(idle_workers)] = slot]
    BY <1>14 DEF CloseBroken, PopIdle, close_socket
  <2> QED
    BY <2>1, <2>2, SlotChange, FlowKept
<1>15. CASE DispatchToIdle
  <2>1. /\ UNCHANGED <<job_queue, frontend_paused>> /\ pc # "down"
        /\ Head(idle_workers) \in Positions /\ sockets[Head(idle_workers)].type # "frontend"
    BY <1>15, MasterAssumption DEF DispatchToIdle, PopIdle, Pass, Hung, queueVars
  <2>2. PICK slot : sockets' = [sockets EXCEPT ![Head(idle_workers)] = slot]
    BY <1>15 DEF DispatchToIdle, PopIdle, Pass
  <2> QED
    BY <2>1, <2>2, SlotChange, FlowKept
<1>16. CASE LaunchAndQueue
  <2> DEFINE fills == Len(job_queue) < JobQLen /\ Len(job_queue') = JobQLen
  <2>1. \A l \in Listeners : sockets[l].type = "frontend" /\ l \in Positions
    BY <1>16, ListenersExist DEF LaunchAndQueue, Roles
  <2>2. \A l \in Listeners : sockets'[l].interest = IF fills THEN "closed" ELSE sockets[l].interest
    BY <1>16, <2>1, LaunchAndQueueEffect
  <2>3. CASE Refuse
    <3>1. UNCHANGED <<job_queue, frontend_paused>> /\ ~ fills
      BY <2>3, MasterAssumption DEF Refuse, queueVars
    <3> QED
      BY <1>16, <2>2, <3>1 DEF FlowInv, FlowControl, LaunchAndQueue
  <2>4. CASE Enqueue
    <3>1. /\ Len(job_queue) < JobQLen /\ Len(job_queue) \in Nat
          /\ Len(job_queue') = Len(job_queue) + 1
          /\ frontend_paused' = IF fills THEN TRUE ELSE frontend_paused
      <4>1. /\ Len(job_queue) < JobQLen /\ job_queue' = Append(job_queue, hand)
            /\ frontend_paused' = IF Len(job_queue') = JobQLen THEN TRUE ELSE frontend_paused
        BY <2>4 DEF Enqueue
      <4>2. hand \in Clients
        BY <1>16, LaunchAndQueueEffect
      <4>3. Len(Append(job_queue, hand)) = Len(job_queue) + 1 /\ Len(job_queue) \in Nat
        BY <4>2, AppendProperties, LenProperties
      <4> QED
        BY <4>1, <4>3
    <3>2. ~ frontend_paused /\ \A l \in Listeners : sockets[l].interest = "accept"
      BY <1>16, <3>1, MasterAssumption DEF FlowInv, FlowControl, LaunchAndQueue
    <3>3. Len(job_queue') <= JobQLen /\ (Len(job_queue') = JobQLen <=> fills)
      BY <3>1, MasterAssumption
    <3> QED
      BY <2>2, <3>1, <3>2, <3>3 DEF FlowInv, FlowControl
  <2> QED
    BY <1>16, <2>3, <2>4 DEF LaunchAndQueue
<1>17. CASE UNCHANGED vars
  BY <1>17 DEF
      vars, loopVars, poolVars, queueVars, handleVars, signalVars, clientVars, workerVars,
      FlowInv, FlowControl
<1> QED
  BY <1>1, <1>2, <1>3, <1>4, <1>5, <1>6, <1>7, <1>8, <1>9, <1>10, <1>11, <1>12,
        <1>13, <1>14, <1>15, <1>16, <1>17
     DEF Next, MasterNext, Surroundings, LoopOnly

-----------------------------------------------------------------------------
(* Slots                                                                   *)

LEMMA FreeKept ==
    ASSUME TypeInv, FreeInv, UNCHANGED free, pc' # "down" => pc # "down",
           \A p \in Positions : sockets[p].type = "unset" => sockets'[p] = sockets[p]
    PROVE  FreeInv'
<1>1. \A i \in 1 .. Len(free) : free[i] \in Positions
  BY ElementOfSeq DEF TypeInv, TypeOK
<1> QED
  BY <1>1 DEF FreeInv, FreeSlotsReset

(* close_socket appends a position that was not free, its slot unused.      *)
LEMMA FreeAfterClose ==
    ASSUME TypeInv, FreeInv, NEW p \in Positions, sockets[p].type = "backend",
           NEW slot, slot.type = "unset", slot \in Unused,
           close_socket(p, slot), pc # "down"
    PROVE  FreeInv'
<1>1. free \in Seq(Positions) /\ free' = Append(free, p)
  BY DEF close_socket, TypeInv, TypeOK
<1>2. /\ Len(free) \in Nat /\ Len(free') = Len(free) + 1
      /\ \A i \in 1 .. Len(free) : free'[i] = free[i] /\ free[i] \in Positions
      /\ free'[Len(free) + 1] = p
  BY <1>1, AppendProperties, LenProperties, ElementOfSeq
<1>3. \A i \in 1 .. Len(free) : free[i] # p
  BY DEF FreeInv
<1>4. \A q \in Positions : sockets'[q] = IF q = p THEN slot ELSE sockets[q]
  BY DEF close_socket, TypeInv, TypeOK
<1>5. \A i \in 1 .. Len(free') : i \in 1 .. Len(free) \/ i = Len(free) + 1
  BY <1>2
<1>6. \A i, j \in 1 .. Len(free') : free'[i] = free'[j] => i = j
  BY <1>2, <1>3, <1>5 DEF FreeInv
<1>7. \A i \in 1 .. Len(free') : sockets'[free'[i]].type = "unset"
  BY <1>2, <1>3, <1>4, <1>5 DEF FreeInv
<1>8. FreeSlotsReset'
  BY <1>2, <1>3, <1>4, <1>5 DEF FreeInv, FreeSlotsReset
<1> QED
  BY <1>6, <1>7, <1>8 DEF FreeInv

LEMMA FreeStep ==
    ASSUME TypeInv, FreeInv, [Next]_vars
    PROVE  FreeInv'
<1> USE DEF TypeInv, TypeOK
<1>1. CASE Surroundings
  BY <1>1, SurroundingsFrame, FreeKept DEF loopVars, poolVars
<1>2. CASE LoopOnly
  BY <1>2, LoopOnlyFrame, FreeKept DEF poolVars
<1>3. CASE teardown
  <2>1. pc' = "down" /\ free' = free
    BY <1>3 DEF teardown
  <2>2. \A i \in 1 .. Len(free) : free[i] \in Positions
    BY ElementOfSeq
  <2>3. \A p \in Positions : sockets'[p].type = "unset"
    BY <1>3 DEF teardown, Slot
  <2> QED
    BY <2>1, <2>2, <2>3 DEF FreeInv, FreeSlotsReset
<1>4. ASSUME NEW e \in batch, on_backend_connect(e) PROVE FreeInv'
  <2> DEFINE n == Len(free)
  <2>1. /\ free # <<>> /\ free' = Tail(free) /\ pc # "down"
        /\ \A p \in Positions : p # Head(free) => sockets'[p] = sockets[p]
    BY <1>4 DEF on_backend_connect, Handle
  <2>2. /\ n \in Nat \ {0} /\ Head(free) = free[1] /\ Len(free') = n - 1
        /\ \A i \in 1 .. Len(free') : free'[i] = free[i + 1]
        /\ \A i \in 1 .. n : free[i] \in Positions
    BY <2>1, HeadTailProperties, LenProperties, ElementOfSeq, EmptySeq
  <2>3. \A i \in 1 .. Len(free') : i + 1 \in 1 .. n /\ 1 \in 1 .. n /\ i + 1 # 1
    BY <2>2
  <2>4. \A i \in 1 .. Len(free') : free'[i] # Head(free) /\ free'[i] \in Positions
    BY <2>2, <2>3 DEF FreeInv
  <2>5. \A i \in 1 .. Len(free') : sockets'[free'[i]] = sockets[free[i + 1]]
    BY <2>1, <2>2, <2>4
  <2>6. \A i, j \in 1 .. Len(free') : free'[i] = free'[j] => i = j
    <3>1. \A i, j \in 1 .. Len(free') : free[i + 1] = free[j + 1] => i + 1 = j + 1
      BY <2>3 DEF FreeInv
    <3> QED
      BY <2>2, <3>1
  <2>7. \A i \in 1 .. Len(free') : /\ sockets[free[i + 1]].type = "unset"
                                   /\ sockets[free[i + 1]] \in Unused
    BY <2>1, <2>3 DEF FreeInv, FreeSlotsReset
  <2>8. \A i \in 1 .. Len(free') : sockets'[free'[i]].type = "unset"
    BY <2>5, <2>7
  <2>9. FreeSlotsReset'
    BY <2>5, <2>7 DEF FreeSlotsReset
  <2> QED
    BY <2>6, <2>8, <2>9 DEF FreeInv
<1>5. ASSUME NEW e \in batch, AcceptFrontend(e) PROVE FreeInv'
  <2>1. /\ UNCHANGED free /\ pc # "down"
        /\ \A p \in Positions : sockets[p].type = "unset" => sockets'[p] = sockets[p]
    BY <1>5 DEF AcceptFrontend, Handle, poolVars
  <2> QED
    BY <2>1, FreeKept
<1>6. ASSUME NEW e \in batch, BackendClosed(e) PROVE FreeInv'
  <2>1. /\ e.pos \in Positions /\ sockets[e.pos].type = "backend" /\ pc # "down"
        /\ close_socket(e.pos, Zeroed)
    BY <1>6, BackendSlot DEF BackendClosed, Handle
  <2> QED
    BY <2>1, FreeAfterClose DEF Zeroed, Slot, Unused
<1>7. ASSUME NEW e \in batch, HelloUnexpected(e) PROVE FreeInv'
  <2>1. /\ UNCHANGED free /\ pc # "down"
        /\ \A p \in Positions : sockets[p].type = "unset" => sockets'[p] = sockets[p]
    BY <1>7 DEF HelloUnexpected, BackendReadable, Handle, EventType
  <2> QED
    BY <2>1, FreeKept
<1>8. ASSUME NEW e \in batch, RecvFails(e) PROVE FreeInv'
  <2>1. /\ e.pos \in Positions /\ sockets[e.pos].type = "backend" /\ pc # "down"
        /\ close_socket(e.pos, Spoilt) /\ "recv" \in Faults
    BY <1>8, BackendSlot DEF RecvFails, BackendReadable, Handle
  <2>2. Spoilt.type = "unset" /\ Spoilt \in Unused
    BY <2>1 DEF Spoilt, Slot, Unused
  <2> QED
    BY <2>1, <2>2, FreeAfterClose
<1>9. ASSUME NEW e \in batch, RecvPart(e) PROVE FreeInv'
  <2>1. /\ UNCHANGED free /\ pc # "down"
        /\ \A p \in Positions : sockets[p].type = "unset" => sockets'[p] = sockets[p]
    BY <1>9 DEF RecvPart, Recv, BackendReadable, Handle, EventType
  <2> QED
    BY <2>1, FreeKept
<1>10. ASSUME NEW e \in batch, HelloTakesJob(e) PROVE FreeInv'
  BY <1>10, HelloTakesJobEffect, FreeKept
<1>11. ASSUME NEW e \in batch, HelloFromBroken(e) PROVE FreeInv'
  <2>1. /\ e.pos \in Positions /\ sockets[e.pos].type = "backend" /\ pc # "down"
        /\ close_socket(e.pos, Zeroed)
    BY <1>11, BackendSlot DEF HelloFromBroken, Recv, BackendReadable, Handle
  <2> QED
    BY <2>1, FreeAfterClose DEF Zeroed, Slot, Unused
<1>12. ASSUME NEW e \in batch, HelloGoesIdle(e) PROVE FreeInv'
  <2>1. /\ UNCHANGED free /\ pc # "down"
        /\ \A p \in Positions : sockets[p].type = "unset" => sockets'[p] = sockets[p]
    BY <1>12 DEF HelloGoesIdle, Recv, BackendReadable, Handle, EventType
  <2> QED
    BY <2>1, FreeKept
<1>13. CASE SkipClosedSlot
  <2>1. /\ UNCHANGED free /\ pc # "down"
        /\ \A p \in Positions : sockets[p].type = "unset" => sockets'[p] = sockets[p]
    BY <1>13 DEF SkipClosedSlot, PopIdle
  <2> QED
    BY <2>1, FreeKept
<1>14. CASE CloseBroken
  <2>1. /\ Head(idle_workers) \in Positions /\ sockets[Head(idle_workers)].type = "backend"
        /\ pc # "down"
        /\ close_socket(Head(idle_workers), Zeroed)
    BY <1>14 DEF CloseBroken, PopIdle, Hung
  <2> QED
    BY <2>1, FreeAfterClose DEF Zeroed, Slot, Unused
<1>15. CASE DispatchToIdle
  <2>1. /\ UNCHANGED free /\ pc # "down"
        /\ \A p \in Positions : sockets[p].type = "unset" => sockets'[p] = sockets[p]
    BY <1>15 DEF DispatchToIdle, PopIdle, Pass, Hung
  <2> QED
    BY <2>1, FreeKept
<1>16. CASE LaunchAndQueue
  BY <1>16, LaunchAndQueueEffect, FreeKept
<1>17. CASE UNCHANGED vars
  BY <1>17, FreeKept DEF
      vars, loopVars, poolVars, queueVars, handleVars, signalVars, clientVars, workerVars
<1> QED
  BY <1>1, <1>2, <1>3, <1>4, <1>5, <1>6, <1>7, <1>8, <1>9, <1>10, <1>11, <1>12,
        <1>13, <1>14, <1>15, <1>16, <1>17
     DEF Next, MasterNext, Surroundings, LoopOnly

-----------------------------------------------------------------------------
(* Handles and the announcement of deaths                                  *)

LEMMA HandlesFinite ==
    ASSUME TypeOK, NEW S \in SUBSET Workers
    PROVE  IsFiniteSet(S) /\ Cardinality(S) \in Nat
<1>1. IsFiniteSet(Workers)
  BY MasterAssumption, FS_Interval DEF Workers
<1> QED
  BY <1>1, FS_Subset, FS_CardinalityType

LEMMA HandlesKept ==
    ASSUME HandlesInv, UNCHANGED handleVars,
           \A w \in Workers : \/ proc'[w] = proc[w]
                              \/ proc'[w] \in {"stopped", "gone"}
                              \/ proc[w] \in Stages \ {"none", "stopped", "gone"}
    PROVE  HandlesInv'
BY DEF HandlesInv, HandlesCounted, handleVars, Stopped, Stages

LEMMA HandlesStep ==
    ASSUME TypeInv, HandlesInv, [Next]_vars
    PROVE  HandlesInv'
<1> USE DEF TypeInv, TypeOK
<1>1. CASE Surroundings
  <2>1. UNCHANGED handleVars
    BY <1>1, SurroundingsFrame
  <2>2. ASSUME NEW w \in Workers, WorkerNext(w) \/ WaitTimesOut(w) \/ Die(w)
        PROVE  HandlesInv'
    BY <2>1, <2>2, HandlesKept
       DEF WorkerNext, StartWorker, ConnectMaster, SendHello, on_readable, FinishJob, SeeClosed,
           Leave, Reap, NotifyStopped, WaitTimesOut, Die, Exits, Stage, Stages
  <2>3. CASE UNCHANGED proc
    BY <2>1, <2>3, HandlesKept
  <2> QED
    BY <1>1, <2>2, <2>3 DEF Surroundings, Connect, on_sigterm, workerVars
<1>2. CASE LoopOnly
  <2> DEFINE alive == {w \in worker_handles : ~ Stopped(w)}
  <2>1. CASE on_worker_died
    <3>1. /\ worker_handles' = alive /\ num_workers' = MinOf(num_workers, Cardinality(alive))
          /\ worker_id_seq' = worker_id_seq /\ proc' = proc
      BY <2>1 DEF on_worker_died, workerVars
    <3>2. Cardinality(alive) <= Cardinality(worker_handles) /\ Cardinality(alive) \in Nat
      BY HandlesFinite, FS_Subset
    <3>3. num_workers = Cardinality(worker_handles) /\ num_workers <= MaxOf(MaxWorkerProcesses - 2, 0)
      BY DEF HandlesInv, HandlesCounted
    <3> HIDE DEF alive
    <3>4. num_workers' = Cardinality(alive) /\ num_workers' <= MaxOf(MaxWorkerProcesses - 2, 0)
      BY <3>1, <3>2, <3>3, MasterAssumption DEF MinOf, MaxOf
    <3> USE DEF alive
    <3>5. \A w \in Workers : proc'[w] = "none" \/ Stopped(w)' \/ w \in worker_handles'
      BY <3>1 DEF HandlesInv, HandlesCounted, Stopped
    <3>6. \A w \in worker_handles' : w < worker_id_seq'
      BY <3>1 DEF HandlesInv
    <3> QED
      BY <3>1, <3>4, <3>5, <3>6 DEF HandlesInv, HandlesCounted
  <2>2. CASE UNCHANGED <<handleVars, proc>>
    BY <2>2, HandlesKept
  <2> QED
    BY <1>2, <2>1, <2>2
       DEF LoopOnly, Collect, CheckDied, IgnoreStale, ResetLatch, AcceptFails, workerVars
<1>3. CASE teardown
  BY <1>3, HandlesKept DEF teardown, workerVars
<1>4. ASSUME NEW e \in batch, on_backend_connect(e) PROVE HandlesInv'
  BY <1>4, HandlesKept DEF on_backend_connect, Handle, workerVars
<1>5. ASSUME NEW e \in batch, AcceptFrontend(e) PROVE HandlesInv'
  BY <1>5, HandlesKept DEF AcceptFrontend, Handle, workerVars
<1>6. ASSUME NEW e \in batch, BackendClosed(e) PROVE HandlesInv'
  BY <1>6, HandlesKept DEF BackendClosed, Handle, close_socket, workerVars
<1>7. ASSUME NEW e \in batch, HelloUnexpected(e) PROVE HandlesInv'
  BY <1>7, HandlesKept DEF HelloUnexpected, BackendReadable, Handle, workerVars
<1>8. ASSUME NEW e \in batch, RecvFails(e) PROVE HandlesInv'
  BY <1>8, HandlesKept DEF RecvFails, BackendReadable, Handle, close_socket,
        workerVars
<1>9. ASSUME NEW e \in batch, RecvPart(e) PROVE HandlesInv'
  BY <1>9, HandlesKept DEF RecvPart, Recv, BackendReadable, Handle, workerVars
<1>10. ASSUME NEW e \in batch, HelloTakesJob(e) PROVE HandlesInv'
  BY <1>10, HelloTakesJobEffect, HandlesKept
<1>11. ASSUME NEW e \in batch, HelloFromBroken(e) PROVE HandlesInv'
  BY <1>11, HandlesKept DEF HelloFromBroken, Recv, BackendReadable, Handle,
        close_socket, workerVars
<1>12. ASSUME NEW e \in batch, HelloGoesIdle(e) PROVE HandlesInv'
  BY <1>12, HandlesKept DEF HelloGoesIdle, Recv, BackendReadable, Handle, workerVars
<1>13. CASE SkipClosedSlot
  BY <1>13, HandlesKept DEF SkipClosedSlot, PopIdle, workerVars
<1>14. CASE CloseBroken
  BY <1>14, HandlesKept DEF CloseBroken, PopIdle, close_socket, workerVars
<1>15. CASE DispatchToIdle
  BY <1>15, HandlesKept DEF DispatchToIdle, PopIdle, Pass, workerVars
<1>16. CASE LaunchAndQueue
  <2>1. CASE ~ MayLaunch
    BY <1>16, <2>1, HandlesKept DEF LaunchAndQueue
  <2>2. CASE MayLaunch
    <3>1. LaunchWorker /\ num_workers < MaxWorkerProcesses - 2
      BY <1>16, <2>2 DEF LaunchAndQueue, MayLaunch
    <3> DEFINE w == worker_id_seq
    <3>2. CASE UNCHANGED <<proc, worker_handles, num_workers>>
      BY <3>1, <3>2 DEF LaunchWorker, HandlesInv, HandlesCounted, Stopped
    <3>3. CASE /\ proc' = [proc EXCEPT ![w] = "registered"]
               /\ worker_handles' = worker_handles \cup {w}
               /\ num_workers' = num_workers + 1
      <4>1. w \in Workers /\ w \notin worker_handles /\ w \in Nat /\ worker_id_seq' = w + 1
        BY <3>1 DEF LaunchWorker, HandlesInv
      <4>2. num_workers' = Cardinality(worker_handles')
        BY <3>3, <4>1, HandlesFinite, FS_AddElement DEF HandlesInv, HandlesCounted
      <4>3. num_workers' <= MaxOf(MaxWorkerProcesses - 2, 0)
        BY <3>1, <3>3, MasterAssumption DEF MaxOf
      <4>4. \A v \in Workers : proc'[v] = "none" \/ Stopped(v)' \/ v \in worker_handles'
        BY <3>3, <4>1 DEF HandlesInv, HandlesCounted, Stopped
      <4>5. \A v \in worker_handles' : v < worker_id_seq'
        BY <3>3, <4>1 DEF HandlesInv, Workers
      <4> QED
        BY <4>2, <4>3, <4>4, <4>5 DEF HandlesInv, HandlesCounted
    <3> QED
      BY <3>1, <3>2, <3>3 DEF LaunchWorker
  <2> QED
    BY <2>1, <2>2
<1>17. CASE UNCHANGED vars
  BY <1>17, HandlesKept DEF
      vars, loopVars, poolVars, queueVars, handleVars, signalVars, clientVars, workerVars
<1> QED
  BY <1>1, <1>2, <1>3, <1>4, <1>5, <1>6, <1>7, <1>8, <1>9, <1>10, <1>11, <1>12,
        <1>13, <1>14, <1>15, <1>16, <1>17
     DEF Next, MasterNext, Surroundings, LoopOnly

LEMMA DeathsStep ==
    ASSUME TypeInv, DeathsAnnounced, [Next]_vars
    PROVE  DeathsAnnounced'
<1> USE DEF TypeInv, TypeOK, DeathsAnnounced, Stopped
<1>1. CASE Surroundings
  <2>1. ASSUME NEW w \in Workers, WorkerNext(w) \/ WaitTimesOut(w) \/ Die(w)
        PROVE  DeathsAnnounced'
    BY <2>1 DEF WorkerNext, StartWorker, ConnectMaster, SendHello, on_readable, FinishJob,
                SeeClosed, Leave, Reap, NotifyStopped, WaitTimesOut, Die, Exits, Stage,
                on_sigusr1, loopVars, handleVars, signalVars
  <2>2. ASSUME NEW c \in Clients, NEW l \in Listeners, Connect(c, l) PROVE DeathsAnnounced'
    BY <2>2 DEF Connect, loopVars, handleVars, signalVars, workerVars
  <2>3. CASE on_sigterm
    BY <2>3 DEF on_sigterm, loopVars, handleVars, workerVars
  <2> QED
    BY <1>1, <2>1, <2>2, <2>3 DEF Surroundings
<1>2. CASE LoopOnly
  <2>1. CASE on_worker_died
    BY <2>1 DEF on_worker_died, signalVars, workerVars
  <2>2. CASE CheckDied
    BY <2>2 DEF CheckDied, handleVars, workerVars
  <2>3. CASE Collect
    BY <2>3 DEF Collect, handleVars, signalVars, workerVars
  <2>4. ASSUME NEW e \in batch, IgnoreStale(e) \/ ResetLatch(e) \/ AcceptFails(e)
        PROVE  DeathsAnnounced'
    BY <2>4 DEF IgnoreStale, ResetLatch, AcceptFails, Handle, handleVars, signalVars, workerVars
  <2> QED
    BY <1>2, <2>1, <2>2, <2>3, <2>4 DEF LoopOnly
<1>3. CASE teardown
  BY <1>3 DEF teardown, handleVars, signalVars, workerVars
<1>4. ASSUME NEW e \in batch, on_backend_connect(e) PROVE DeathsAnnounced'
  BY <1>4 DEF on_backend_connect, Handle, handleVars, signalVars, workerVars
<1>5. ASSUME NEW e \in batch, AcceptFrontend(e) PROVE DeathsAnnounced'
  BY <1>5 DEF AcceptFrontend, Handle, handleVars, signalVars, workerVars
<1>6. ASSUME NEW e \in batch, BackendClosed(e) PROVE DeathsAnnounced'
  BY <1>6 DEF BackendClosed, Handle, close_socket, handleVars, signalVars,
        workerVars
<1>7. ASSUME NEW e \in batch, HelloUnexpected(e) PROVE DeathsAnnounced'
  BY <1>7 DEF HelloUnexpected, BackendReadable, Handle, handleVars, signalVars,
        workerVars
<1>8. ASSUME NEW e \in batch, RecvFails(e) PROVE DeathsAnnounced'
  BY <1>8 DEF RecvFails, BackendReadable, Handle, close_socket, handleVars,
        signalVars, workerVars
<1>9. ASSUME NEW e \in batch, RecvPart(e) PROVE DeathsAnnounced'
  BY <1>9 DEF RecvPart, Recv, BackendReadable, Handle, handleVars, signalVars,
        workerVars
<1>10. ASSUME NEW e \in batch, HelloTakesJob(e) PROVE DeathsAnnounced'
  BY <1>10 DEF HelloTakesJob, Recv, BackendReadable, Handle, Pass, handleVars,
        signalVars, workerVars
<1>11. ASSUME NEW e \in batch, HelloFromBroken(e) PROVE DeathsAnnounced'
  BY <1>11 DEF HelloFromBroken, Recv, BackendReadable, Handle, close_socket,
        handleVars, signalVars, workerVars
<1>12. ASSUME NEW e \in batch, HelloGoesIdle(e) PROVE DeathsAnnounced'
  BY <1>12 DEF HelloGoesIdle, Recv, BackendReadable, Handle, handleVars, signalVars,
        workerVars
<1>13. CASE SkipClosedSlot
  BY <1>13 DEF SkipClosedSlot, PopIdle, handleVars, signalVars, workerVars
<1>14. CASE CloseBroken
  BY <1>14 DEF CloseBroken, PopIdle, close_socket, handleVars, signalVars, workerVars
<1>15. CASE DispatchToIdle
  BY <1>15 DEF DispatchToIdle, PopIdle, Pass, handleVars, signalVars, workerVars
<1>16. CASE LaunchAndQueue
  BY <1>16 DEF LaunchAndQueue, LaunchWorker, Enqueue, Refuse, handleVars, signalVars,
        workerVars
<1>17. CASE UNCHANGED vars
  BY <1>17 DEF
      vars, loopVars, poolVars, queueVars, handleVars, signalVars, clientVars, workerVars
<1> QED
  BY <1>1, <1>2, <1>3, <1>4, <1>5, <1>6, <1>7, <1>8, <1>9, <1>10, <1>11, <1>12,
        <1>13, <1>14, <1>15, <1>16, <1>17
     DEF Next, MasterNext, Surroundings, LoopOnly

-----------------------------------------------------------------------------
(* The inductive invariant                                                 *)

IInv == /\ TypeInv
        /\ WorkConserved
        /\ FlowInv
        /\ FreeInv
        /\ HandlesInv
        /\ DeathsAnnounced

LEMMA InitIInv == Init => IInv
<1> SUFFICES ASSUME Init PROVE IInv
  OBVIOUS
<1> USE MasterAssumption
<1>1. TypeInv
  BY InitTypeInv
<1>2. WorkConserved /\ DeathsAnnounced
  BY DEF Init, WorkConserved, DeathsAnnounced
<1>3. FlowInv
  <2>1. \A l \in Listeners : l \in Positions /\ l # IpcPos
    BY ListenersExist DEF Listeners, IpcPos
  <2>2. \A l \in Listeners : sockets[l].interest = "accept"
    BY <2>1 DEF Init, InitialSlot, Slot
  <2> QED
    BY <2>2 DEF Init, FlowInv, FlowControl
<1>4. FreeInv
  <2>1. /\ Len(free) = MaxWorkerProcesses - 1
        /\ \A i \in 1 .. Len(free) : free[i] = NumListen + 1 + i
    BY DEF Init
  <2>2. ASSUME NEW i \in 1 .. Len(free) PROVE sockets[free[i]] = Zeroed
    <3>1. PICK p \in Positions : p = NumListen + 1 + i
      BY <2>1 DEF Positions, TotalSockets
    <3>2. p # IpcPos /\ p \notin Listeners
      BY <3>1 DEF IpcPos, Listeners
    <3> QED
      BY <2>1, <3>1, <3>2 DEF Init, InitialSlot
  <2> QED
    BY <2>1, <2>2 DEF FreeInv, FreeSlotsReset, Zeroed, Slot, Unused
<1>5. HandlesInv
  <2>1. Cardinality({}) = 0
    BY FS_EmptySet
  <2> QED
    BY <2>1 DEF Init, HandlesInv, HandlesCounted, MaxOf, Stopped
<1> QED
  BY <1>1, <1>2, <1>3, <1>4, <1>5 DEF IInv

LEMMA NextIInv == IInv /\ [Next]_vars => IInv'
BY TypeInvStep, WorkConservedStep, FlowStep, FreeStep, HandlesStep, DeathsStep DEF IInv

LEMMA Invariance == Spec => []IInv
BY InitIInv, NextIInv, PTL DEF Spec

(* Every variable of master.c keeps its range: positions stay positions,    *)
(* read_offset a uint8, num_workers not negative.                           *)
THEOREM TypeCorrect == Spec => []TypeOK
<1>1. IInv => TypeOK
  BY DEF IInv, TypeInv
<1> QED
  BY <1>1, Invariance, PTL

(* on_frontend and on_backend never leave a connection queued while a       *)
(* worker waits in the idle queue.                                          *)
THEOREM WorkIsConserved == Spec => []WorkConserved
<1>1. IInv => WorkConserved
  BY DEF IInv
<1> QED
  BY <1>1, Invariance, PTL

(* The listeners are watched exactly while the job queue has room, on every *)
(* path of on_frontend and on_backend, until teardown.                      *)
THEOREM PauseFollowsQueue == Spec => []FlowControl
<1>1. IInv => FlowControl
  BY DEF IInv, FlowInv
<1> QED
  BY <1>1, Invariance, PTL

(* num_workers is the number of handles, at most two less than              *)
(* max_worker_processes, and every running worker has its handle, whatever  *)
(* launches fail and however starts and deaths are announced.               *)
THEOREM HandlesAreCounted == Spec => []HandlesCounted
<1>1. IInv => HandlesCounted
  BY DEF IInv, HandlesInv
<1> QED
  BY <1>1, Invariance, PTL

(* main_loop never loses the death of a worker between the latch, the flag  *)
(* and the scan of the handles.                                             *)
THEOREM DeathsAreAnnounced == Spec => []DeathsAnnounced
<1>1. IInv => DeathsAnnounced
  BY DEF IInv
<1> QED
  BY <1>1, Invariance, PTL

(* The slot of every free position is zeroed, so the hello of the next      *)
(* worker is read from its first byte, but for one a failing recv left.     *)
THEOREM SlotsAreClean == Spec => []FreeSlotsReset
<1>1. IInv => FreeSlotsReset
  BY DEF IInv, FreeInv
<1> QED
  BY <1>1, Invariance, PTL

-----------------------------------------------------------------------------
(***************************************************************************)
(* What the master owes to workers and clients: a parked worker is never    *)
(* forgotten, an event is handled for the worker it was about, and the      *)
(* master implements Dispatch.                                              *)
(***************************************************************************)
Backend(p) == sockets[p].type = "backend"
HasSlot(w) == \E p \in Positions : Backend(p) /\ sockets[p].peer = w
InBacklog(w) == \E i \in 1 .. Len(ipc_backlog) : ipc_backlog[i] = w

\* The process has not connected to the master.
Early(w) == proc[w] \in {"none", "registered", "starting"}

(* A worker has one connection, accepted or not, once it has made it.       *)
PeersInv ==
    /\ \A p, q \in Positions :
          Backend(p) /\ Backend(q) /\ sockets[p].peer = sockets[q].peer => p = q
    /\ \A i, j \in 1 .. Len(ipc_backlog) : ipc_backlog[i] = ipc_backlog[j] => i = j
    /\ \A w \in Workers : ~ (HasSlot(w) /\ InBacklog(w))
    /\ \A w \in Workers : Early(w) => ~ HasSlot(w) /\ ~ InBacklog(w)
    /\ \A w \in Workers : w >= worker_id_seq => proc[w] = "none"

(* Those who connected before the i-th of the backlog and are alive leave   *)
(* room for it: it was alive as well when it connected.                     *)
Before(i) == {w \in Workers : /\ Open(w)
                              /\ HasSlot(w) \/ \E j \in 1 .. i - 1 : ipc_backlog[j] = w}

RoomInv ==
    \A i \in 1 .. Len(ipc_backlog) : Cardinality(Before(i)) < MaxWorkerProcesses - 2

(* Until teardown every position above the listeners has a backend or is free *)
PlacesInv ==
    pc # "down" =>
       /\ \A p \in Positions : sockets[p].type = "ipc" <=> p = IpcPos
       /\ \A p \in Positions : p > NumListen + 1 /\ ~ Backend(p)
             => \E i \in 1 .. Len(free) : free[i] = p

(* The backends which the events of the batch leave in place, and the one   *)
(* they may add, never take all positions.                                  *)
Closing(p) == \E e \in batch : e.pos = p /\ e.closed
Staying == {p \in Positions : Backend(p) /\ ~ Closing(p)}
Accepting == \E e \in batch : e.pos = IpcPos

BatchInv ==
    /\ \A e, f \in batch : e.pos = f.pos => e = f
    /\ \A e \in batch : Backend(e.pos) => sockets[e.pos].peer = e.peer
    /\ Cardinality(Staying) + (IF Accepting THEN 1 ELSE 0) <= MaxOf(MaxWorkerProcesses - 2, 0)
    /\ Accepting => free # <<>> /\ \A e \in batch : e.pos # Head(free)

-----------------------------------------------------------------------------
(* What most steps leave alone: they close at most one slot, open none, and *)
(* lose no event that closes a backend still there.                         *)
Closes(p) ==
    /\ free' = Append(free, p)
    /\ \A q \in Positions : q # p /\ Backend(q) => Backend(q)'

Calm ==
    /\ pc # "down" /\ pc' # "down"
    /\ batch' \subseteq batch
    /\ \A p \in Positions : Backend(p)' => Backend(p) /\ sockets'[p].peer = sockets[p].peer
    /\ \A e \in batch : e.closed /\ Backend(e.pos)' => e \in batch'
    /\ \A p \in Positions : sockets'[p].type = "ipc" <=> sockets[p].type = "ipc"
    /\ \/ free' = free /\ \A p \in Positions : Backend(p) => Backend(p)'
       \/ \E p \in Positions : Closes(p)

LEMMA SameSlotsCalm ==
    ASSUME pc # "down", pc' # "down", UNCHANGED <<batch, free>>,
           \A p \in Positions : /\ sockets'[p].type = sockets[p].type
                                /\ sockets'[p].peer = sockets[p].peer
    PROVE  Calm
BY DEF Calm, Backend

LEMMA HandledCalm ==
    ASSUME TypeInv, NEW e \in batch, batch' = batch \ {e},
           pc # "down", pc' # "down", free' = free,
           ~ (e.closed /\ Backend(e.pos)),
           \A p \in Positions : /\ sockets'[p].type = sockets[p].type
                                /\ sockets'[p].peer = sockets[p].peer
    PROVE  Calm
<1>1. \A f \in batch : f.pos \in Positions
  BY DEF TypeInv, TypeOK, EventType
<1> QED
  BY <1>1 DEF Calm, Backend

LEMMA ClosedCalm ==
    ASSUME TypeInv, NEW p \in Positions, sockets[p].type = "backend",
           NEW slot \in {Zeroed, Spoilt}, close_socket(p, slot),
           batch' \subseteq batch, \A e \in batch : e.pos # p => e \in batch',
           pc # "down", pc' # "down"
    PROVE  Calm
<1>1. sockets' = [sockets EXCEPT ![p] = slot] /\ free' = Append(free, p)
  BY DEF close_socket
<1>2. slot.type = "unset"
  BY DEF Zeroed, Spoilt, Slot
<1>3. DOMAIN sockets = Positions
  BY DEF TypeInv, TypeOK
<1>4. sockets'[p].type = "unset" /\ \A q \in Positions : q # p => sockets'[q] = sockets[q]
  BY <1>1, <1>2, <1>3
<1>5. \A q \in Positions : Backend(q)' => Backend(q) /\ sockets'[q].peer = sockets[q].peer
  BY <1>4 DEF Backend
<1>6. \A e \in batch : e.closed /\ Backend(e.pos)' => e \in batch'
  BY <1>4 DEF Backend
<1>7. \A q \in Positions : sockets'[q].type = "ipc" <=> sockets[q].type = "ipc"
  BY <1>4
<1>8. Closes(p)
  BY <1>1, <1>4 DEF Closes, Backend
<1> QED
  BY <1>5, <1>6, <1>7, <1>8 DEF Calm

LEMMA SlotChangeCalm ==
    ASSUME TypeInv, NEW p \in Positions, NEW slot,
           sockets' = [sockets EXCEPT ![p] = slot],
           slot.type = sockets[p].type, slot.peer = sockets[p].peer
    PROVE  \A q \in Positions : /\ sockets'[q].type = sockets[q].type
                                /\ sockets'[q].peer = sockets[q].peer
<1>1. DOMAIN sockets = Positions
  BY DEF TypeInv, TypeOK
<1>2. \A q \in Positions : sockets'[q] = IF q = p THEN slot ELSE sockets[q]
  BY <1>1
<1> QED
  BY <1>2

\* The steps that are not calm.
Stirs == Collect \/ teardown \/ \E e \in batch : on_backend_connect(e)

LEMMA CalmStep ==
    ASSUME TypeInv, pc # "down", Next, ~ Stirs
    PROVE  Calm
<1>0. \A e \in batch : e.pos \in Positions
  BY DEF TypeInv, TypeOK, EventType
<1>1. CASE Surroundings
  BY <1>1, SurroundingsFrame, SameSlotsCalm DEF loopVars, poolVars
<1>2. CASE CheckDied
  BY <1>2, SameSlotsCalm DEF CheckDied, poolVars
<1>3. CASE on_worker_died
  BY <1>3, SameSlotsCalm DEF on_worker_died, poolVars
<1>4. ASSUME NEW e \in batch, IgnoreStale(e) \/ ResetLatch(e) \/ AcceptFails(e)
      PROVE  Calm
  BY <1>4, HandledCalm DEF IgnoreStale, ResetLatch, AcceptFails, Handle, Backend, poolVars
<1>5. ASSUME NEW e \in batch, AcceptFrontend(e) PROVE Calm
  BY <1>5, HandledCalm DEF AcceptFrontend, Handle, Backend, poolVars
<1>6. ASSUME NEW e \in batch, BackendClosed(e) PROVE Calm
  BY <1>0, <1>6, ClosedCalm DEF BackendClosed, Handle
<1>7. ASSUME NEW e \in batch, HelloUnexpected(e) PROVE Calm
  <2> DEFINE slot == Watch(sockets[e.pos], "closed")
  <2>1. /\ sockets' = [sockets EXCEPT ![e.pos] = slot] /\ ~ e.closed
        /\ pc' = pc /\ free' = free /\ batch' = batch \ {e}
    BY <1>7 DEF HelloUnexpected, BackendReadable, Handle
  <2>2. slot.type = sockets[e.pos].type /\ slot.peer = sockets[e.pos].peer
    BY DEF Watch, Slot
  <2> HIDE DEF slot
  <2> QED
    BY <1>0, <2>1, <2>2, SlotChangeCalm, HandledCalm
<1>8. ASSUME NEW e \in batch, RecvFails(e) PROVE Calm
  BY <1>0, <1>8, ClosedCalm DEF RecvFails, BackendReadable, Handle
<1>9. ASSUME NEW e \in batch, RecvPart(e) PROVE Calm
  <2> DEFINE slot == Slot("backend", sockets[e.pos].peer, sockets[e.pos].interest,
                          sockets[e.pos].read_offset + Received(e.pos))
  <2>1. /\ sockets' = [sockets EXCEPT ![e.pos] = slot] /\ ~ e.closed
        /\ sockets[e.pos].type = "backend"
        /\ pc' = pc /\ free' = free /\ batch' = batch \ {e}
    BY <1>9 DEF RecvPart, Recv, BackendReadable, Handle
  <2>2. slot.type = sockets[e.pos].type /\ slot.peer = sockets[e.pos].peer
    BY <2>1 DEF Slot
  <2> HIDE DEF slot
  <2> QED
    BY <1>0, <2>1, <2>2, SlotChangeCalm, HandledCalm
<1>10. ASSUME NEW e \in batch, HelloTakesJob(e) PROVE Calm
  <2>1. ~ e.closed /\ batch' = batch \ {e}
    BY <1>10 DEF HelloTakesJob, Recv, BackendReadable, Handle
  <2> QED
    BY <1>10, <2>1, HelloTakesJobEffect, HandledCalm
<1>11. ASSUME NEW e \in batch, HelloFromBroken(e) PROVE Calm
  BY <1>0, <1>11, ClosedCalm DEF HelloFromBroken, Recv, BackendReadable, Handle
<1>12. ASSUME NEW e \in batch, HelloGoesIdle(e) PROVE Calm
  <2> DEFINE slot == Slot("backend", sockets[e.pos].peer, "closed", 0)
  <2>1. /\ sockets' = [sockets EXCEPT ![e.pos] = slot] /\ ~ e.closed
        /\ sockets[e.pos].type = "backend"
        /\ pc' = pc /\ free' = free /\ batch' = batch \ {e}
    BY <1>12 DEF HelloGoesIdle, Recv, BackendReadable, Handle
  <2>2. slot.type = sockets[e.pos].type /\ slot.peer = sockets[e.pos].peer
    BY <2>1 DEF Slot
  <2> HIDE DEF slot
  <2> QED
    BY <1>0, <2>1, <2>2, SlotChangeCalm, HandledCalm
<1>13. CASE SkipClosedSlot
  BY <1>13, SameSlotsCalm DEF SkipClosedSlot, PopIdle, loopVars
<1>14. CASE CloseBroken
  <2>1. /\ Head(idle_workers) \in Positions
        /\ sockets[Head(idle_workers)].type = "backend"
        /\ close_socket(Head(idle_workers), Zeroed)
        /\ UNCHANGED <<pc, batch>>
    BY <1>14 DEF CloseBroken, PopIdle, Hung, loopVars, TypeInv, TypeOK
  <2> QED
    BY <2>1, ClosedCalm
<1>15. CASE DispatchToIdle
  <2> DEFINE p == Head(idle_workers)
  <2> DEFINE slot == Watch(sockets[p], "readable")
  <2>1. /\ p \in Positions /\ sockets' = [sockets EXCEPT ![p] = slot]
        /\ pc' = "loop" /\ UNCHANGED <<batch, free>>
    BY <1>15 DEF DispatchToIdle, PopIdle, TypeInv, TypeOK
  <2>2. slot.type = sockets[p].type /\ slot.peer = sockets[p].peer
    BY DEF Watch, Slot
  <2> HIDE DEF slot
  <2> QED
    BY <2>1, <2>2, SlotChangeCalm, SameSlotsCalm
<1>16. CASE LaunchAndQueue
  <2>1. \A p \in Positions : sockets'[p].type = sockets[p].type /\ sockets'[p].peer = sockets[p].peer
    <3>1. CASE sockets' = sockets
      BY <3>1
    <3>2. CASE \E interest : sockets' = SetListeners(interest)
      BY <3>2 DEF SetListeners, Watch, Slot
    <3> QED
      BY <1>16, <3>1, <3>2 DEF LaunchAndQueue, Enqueue, Refuse
  <2> QED
    BY <1>16, <2>1, SameSlotsCalm DEF LaunchAndQueue
<1> QED
  BY <1>1, <1>2, <1>3, <1>4, <1>5, <1>6, <1>7, <1>8, <1>9, <1>10, <1>11, <1>12,
        <1>13, <1>14, <1>15, <1>16
     DEF Next, MasterNext, Surroundings, Stirs

LEMMA DownStep ==
    ASSUME pc = "down", Next
    PROVE  Surroundings
BY DEF Next, MasterNext, Surroundings, Collect, CheckDied, on_worker_died, teardown,
       IgnoreStale, ResetLatch, AcceptFails, on_backend_connect, AcceptFrontend, BackendClosed,
       HelloUnexpected, RecvFails, RecvPart, HelloTakesJob, HelloFromBroken, HelloGoesIdle,
       Recv, BackendReadable, Handle, SkipClosedSlot, CloseBroken, DispatchToIdle, PopIdle,
       LaunchAndQueue

\* No slot gets another owner.
SlotsShrink ==
    \A p \in Positions : Backend(p)' => Backend(p) /\ sockets'[p].peer = sockets[p].peer

LEMMA SlotsStep ==
    ASSUME TypeInv, Next, ~ \E e \in batch : on_backend_connect(e)
    PROVE  SlotsShrink
<1>1. CASE pc = "down"
  BY <1>1, DownStep, SurroundingsFrame DEF poolVars, SlotsShrink, Backend
<1>2. CASE Collect
  BY <1>2 DEF Collect, poolVars, SlotsShrink, Backend
<1>3. CASE teardown
  BY <1>3 DEF teardown, Slot, SlotsShrink, Backend
<1>4. CASE pc # "down" /\ ~ Stirs
  BY <1>4, CalmStep DEF Calm, SlotsShrink
<1> QED
  BY <1>1, <1>2, <1>3, <1>4 DEF Stirs

LEMMA ShrunkOwners ==
    ASSUME SlotsShrink
    PROVE  \A w \in Workers : HasSlot(w)' => HasSlot(w)
BY DEF SlotsShrink, HasSlot

LEMMA ConnectEffect ==
    ASSUME TypeInv, FreeInv, NEW e \in batch, on_backend_connect(e)
    PROVE  /\ pc = "loop" /\ pc' = "loop" /\ batch' = batch \ {e}
           /\ sockets[e.pos].type = "ipc"
           /\ free # <<>> /\ free' = Tail(free)
           /\ Head(free) \in Positions /\ Head(free) > NumListen + 1
           /\ sockets[Head(free)].type = "unset"
           /\ ipc_backlog # <<>> /\ ipc_backlog' = Tail(ipc_backlog)
           /\ Head(ipc_backlog) \in Workers
           /\ sockets'[Head(free)].type = "backend"
           /\ sockets'[Head(free)].peer = Head(ipc_backlog)
           /\ \A p \in Positions : p # Head(free) => sockets'[p] = sockets[p]
           /\ UNCHANGED <<proc, handleVars>>
<1> DEFINE p == Head(free)
<1>1. /\ pc = "loop" /\ pc' = "loop" /\ batch' = batch \ {e}
      /\ sockets[e.pos].type = "ipc" /\ free # <<>> /\ free' = Tail(free)
      /\ ipc_backlog # <<>> /\ ipc_backlog' = Tail(ipc_backlog)
      /\ UNCHANGED <<proc, handleVars>>
  BY DEF on_backend_connect, Handle
<1>2. free \in Seq(Positions) /\ ipc_backlog \in Seq(Workers) /\ sockets \in [Positions -> SocketType]
  BY DEF TypeInv, TypeOK
<1>3. Len(free) \in Nat /\ Len(free) > 0 /\ p = free[1]
  BY <1>1, <1>2
<1>4. p \in Positions /\ Head(ipc_backlog) \in Workers
  BY <1>1, <1>2
<1>5. p > NumListen + 1 /\ sockets[p].type = "unset"
  BY <1>3 DEF TypeInv, Roles, FreeInv
<1>6. sockets' = [sockets EXCEPT ![p] = Slot("backend", Head(ipc_backlog), "readable", sockets[p].read_offset)]
  BY DEF on_backend_connect
<1>7. sockets'[p] = Slot("backend", Head(ipc_backlog), "readable", sockets[p].read_offset)
      /\ \A q \in Positions : q # p => sockets'[q] = sockets[q]
  BY <1>2, <1>4, <1>6
<1> QED
  BY <1>1, <1>4, <1>5, <1>7 DEF Slot

-----------------------------------------------------------------------------
(* Connections of workers                                                   *)

LEMMA EarlyStep ==
    ASSUME TypeInv, \A w \in Workers : w >= worker_id_seq => proc[w] = "none", [Next]_vars
    PROVE  /\ \A w \in Workers : Early(w)' => Early(w)
           /\ \A w \in Workers : w >= worker_id_seq' => proc'[w] = "none"
<1> DEFINE Later == \A w \in Workers : w >= worker_id_seq => proc[w] = "none"
<1> DEFINE Goal == /\ \A w \in Workers : Early(w)' => Early(w)
                   /\ \A w \in Workers : w >= worker_id_seq' => proc'[w] = "none"
<1>0. Later /\ proc \in [Workers -> Stages] /\ worker_id_seq \in Nat
  BY DEF TypeInv, TypeOK
<1>1. ASSUME UNCHANGED <<proc, worker_id_seq>> PROVE Goal
  BY <1>0, <1>1 DEF Early
<1>2. ASSUME NEW w \in Workers, NEW from, NEW to \in Stages, Stage(w, from, to),
             "none" \notin from, to \in {"none", "registered", "starting"} => from = {"registered"},
             UNCHANGED worker_id_seq
      PROVE  Goal
  <2>1. proc[w] \in from /\ proc' = [proc EXCEPT ![w] = to]
    BY <1>2 DEF Stage
  <2>2. \A v \in Workers : proc'[v] = IF v = w THEN to ELSE proc[v]
    BY <1>0, <2>1
  <2> QED
    BY <1>0, <1>2, <2>1, <2>2 DEF Early
<1>3. CASE Surroundings
  <2>1. UNCHANGED worker_id_seq
    BY <1>3, SurroundingsFrame DEF handleVars
  <2>2. ASSUME NEW w \in Workers, SendHello(w) PROVE Goal
    <3>1. \A v \in Workers : proc'[v] = proc[v] \/ (v = w /\ proc[v] = "hello" /\ proc'[v] = "idle")
      BY <1>0, <2>2 DEF SendHello
    <3> QED
      BY <1>0, <2>1, <3>1 DEF Early
  <2>3. ASSUME NEW w \in Workers, WorkerNext(w) \/ WaitTimesOut(w) \/ Die(w), ~ SendHello(w)
        PROVE  Goal
    BY <1>2, <2>1, <2>3
       DEF WorkerNext, StartWorker, ConnectMaster, on_readable, FinishJob, SeeClosed, Leave,
           Reap, NotifyStopped, WaitTimesOut, Die, Exits, Stages
  <2>4. ASSUME NEW c \in Clients, NEW l \in Listeners, Connect(c, l) PROVE Goal
    BY <1>1, <2>1, <2>4 DEF Connect, workerVars
  <2>5. CASE on_sigterm
    BY <1>1, <2>1, <2>5 DEF on_sigterm, workerVars
  <2> QED
    BY <1>3, <2>2, <2>3, <2>4, <2>5 DEF Surroundings
<1>4. CASE LaunchAndQueue
  <2>1. CASE ~ MayLaunch
    BY <1>1, <1>4, <2>1 DEF LaunchAndQueue, handleVars
  <2>2. CASE MayLaunch
    <3>1. LaunchWorker
      BY <1>4, <2>2 DEF LaunchAndQueue
    <3>2. /\ worker_id_seq \in Workers /\ worker_id_seq' = worker_id_seq + 1
          /\ proc' = proc \/ proc' = [proc EXCEPT ![worker_id_seq] = "registered"]
      BY <3>1 DEF LaunchWorker
    <3>3. \A v \in Workers : v # worker_id_seq => proc'[v] = proc[v]
      BY <1>0, <3>2
    <3>4. Early(worker_id_seq)
      BY <1>0, <3>2 DEF Early
    <3>5. \A v \in Workers : v >= worker_id_seq' => v >= worker_id_seq /\ v # worker_id_seq
      BY <1>0, <3>2 DEF Workers
    <3>6. \A v \in Workers : v >= worker_id_seq' => proc'[v] = "none"
      BY <1>0, <3>3, <3>5
    <3>7. \A v \in Workers : Early(v)' => Early(v)
      BY <3>3, <3>4 DEF Early
    <3> QED
      BY <3>6, <3>7
  <2> QED
    BY <2>1, <2>2
<1>5. CASE UNCHANGED vars
  BY <1>1, <1>5 DEF vars, handleVars, workerVars
<1>6. ASSUME Next, ~ Surroundings, ~ LaunchAndQueue PROVE Goal
  <2>1. UNCHANGED <<proc, worker_id_seq>>
    BY <1>6 DEF Next, MasterNext, Surroundings, Collect, CheckDied, on_worker_died, teardown,
       IgnoreStale, ResetLatch, AcceptFails, on_backend_connect, AcceptFrontend, BackendClosed,
       HelloUnexpected, RecvFails, RecvPart, HelloTakesJob, HelloFromBroken, HelloGoesIdle,
       SkipClosedSlot, CloseBroken, DispatchToIdle, handleVars, workerVars
  <2> QED
    BY <1>1, <2>1
<1> QED
  BY <1>3, <1>4, <1>5, <1>6

\* A worker joins the backlog when it comes to life, and leaves it once.
LEMMA BacklogStep ==
    ASSUME TypeInv, Next, ~ \E w \in Workers : ConnectMaster(w),
           ~ \E e \in batch : on_backend_connect(e)
    PROVE  /\ \A w \in Workers : Open(w)' => Open(w)
           /\ ipc_backlog' = ipc_backlog \/ ipc_backlog' = <<>>
<1> DEFINE Goal == /\ \A w \in Workers : Open(w)' => Open(w)
                   /\ ipc_backlog' = ipc_backlog \/ ipc_backlog' = <<>>
<1>0. proc \in [Workers -> Stages]
  BY DEF TypeInv, TypeOK
<1>1. ASSUME NEW w \in Workers, NEW from, NEW to \in Stages, Stage(w, from, to),
             to \in {"hello", "idle", "leaving", "busy"} => from \subseteq {"hello", "idle", "leaving", "busy"},
             UNCHANGED ipc_backlog
      PROVE  Goal
  <2>1. proc[w] \in from /\ proc' = [proc EXCEPT ![w] = to]
    BY <1>1 DEF Stage
  <2>2. \A v \in Workers : proc'[v] = IF v = w THEN to ELSE proc[v]
    BY <1>0, <2>1
  <2>3. \A v \in Workers : Open(v)' => Open(v)
    BY <1>1, <2>1, <2>2 DEF Open
  <2> QED
    BY <1>1, <2>3
<1>2. CASE Surroundings
  <2>1. ASSUME NEW w \in Workers, SendHello(w) PROVE Goal
    <3>1. \A v \in Workers : proc'[v] = proc[v] \/ (v = w /\ proc[v] = "hello")
      BY <1>0, <2>1 DEF SendHello
    <3> QED
      BY <2>1, <3>1 DEF Open, SendHello
  <2>2. ASSUME NEW w \in Workers, WorkerNext(w) \/ WaitTimesOut(w) \/ Die(w), ~ SendHello(w)
        PROVE  Goal
    BY <1>1, <2>2
       DEF WorkerNext, StartWorker, on_readable, FinishJob, SeeClosed, Leave,
           Reap, NotifyStopped, WaitTimesOut, Die, Exits, Stages
  <2>3. CASE UNCHANGED <<proc, ipc_backlog>>
    BY <2>3 DEF Open
  <2> QED
    BY <1>2, <2>1, <2>2, <2>3 DEF Surroundings, Connect, on_sigterm, workerVars
<1>3. CASE LaunchAndQueue
  <2>1. \A v \in Workers : proc'[v] = proc[v] \/ proc'[v] = "registered"
    BY <1>0, <1>3 DEF LaunchAndQueue, LaunchWorker
  <2> QED
    BY <1>3, <2>1 DEF LaunchAndQueue, Open
<1>4. ASSUME ~ Surroundings, ~ LaunchAndQueue PROVE Goal
  <2>1. UNCHANGED proc /\ (ipc_backlog' = ipc_backlog \/ ipc_backlog' = <<>>)
    BY <1>4 DEF Next, MasterNext, Surroundings, Collect, CheckDied, on_worker_died, teardown,
       IgnoreStale, ResetLatch, AcceptFails, AcceptFrontend, BackendClosed,
       HelloUnexpected, RecvFails, RecvPart, HelloTakesJob, HelloFromBroken, HelloGoesIdle,
       SkipClosedSlot, CloseBroken, DispatchToIdle, handleVars, workerVars
  <2> QED
    BY <2>1 DEF Open
<1> QED
  BY <1>2, <1>3, <1>4

LEMMA ConnectMasterEffect ==
    ASSUME TypeInv, NEW w \in Workers, ConnectMaster(w)
    PROVE  /\ Early(w) /\ proc[w] = "starting"
           /\ \A v \in Workers : v # w /\ Open(v)' => Open(v)
           /\ ipc_backlog' = Append(ipc_backlog, w)
           /\ UNCHANGED <<sockets, worker_handles, num_workers>>
<1>1. proc[w] = "starting" /\ proc' = [proc EXCEPT ![w] = "hello"]
  BY DEF ConnectMaster, Stage
<1>2. \A v \in Workers : v # w => proc'[v] = proc[v]
  BY <1>1 DEF TypeInv, TypeOK
<1> QED
  BY <1>1, <1>2 DEF ConnectMaster, Early, Open, poolVars, handleVars

LEMMA PeersStep ==
    ASSUME TypeInv, FreeInv, PeersInv, [Next]_vars
    PROVE  PeersInv'
<1> DEFINE B == Len(ipc_backlog)
<1>0. ipc_backlog \in Seq(Workers) /\ B \in Nat
  BY DEF TypeInv, TypeOK
<1>1. /\ \A w \in Workers : Early(w)' => Early(w)
      /\ \A w \in Workers : w >= worker_id_seq' => proc'[w] = "none"
  BY EarlyStep DEF PeersInv
<1>2. ASSUME SlotsShrink, ipc_backlog' = ipc_backlog \/ ipc_backlog' = <<>> PROVE PeersInv'
  <2>1. \A w \in Workers : InBacklog(w)' => InBacklog(w)
    BY <1>2 DEF InBacklog
  <2>2. \A i, j \in 1 .. Len(ipc_backlog') : ipc_backlog'[i] = ipc_backlog'[j] => i = j
    BY <1>2 DEF PeersInv
  <2>3. \A p, q \in Positions :
          Backend(p)' /\ Backend(q)' /\ sockets'[p].peer = sockets'[q].peer => p = q
    BY <1>2 DEF SlotsShrink, PeersInv
  <2>4. /\ \A w \in Workers : ~ (HasSlot(w)' /\ InBacklog(w)')
        /\ \A w \in Workers : Early(w)' => ~ HasSlot(w)' /\ ~ InBacklog(w)'
    BY <1>1, <1>2, <2>1, ShrunkOwners DEF PeersInv
  <2> QED
    BY <1>1, <2>2, <2>3, <2>4 DEF PeersInv
<1>3. ASSUME NEW w \in Workers, ConnectMaster(w) PROVE PeersInv'
  <2>1. /\ Early(w) /\ ipc_backlog' = Append(ipc_backlog, w) /\ UNCHANGED sockets
    BY <1>3, ConnectMasterEffect
  <2>2. ~ HasSlot(w) /\ ~ InBacklog(w)
    BY <2>1 DEF PeersInv
  <2>3. /\ Len(ipc_backlog') = B + 1 /\ ipc_backlog'[B + 1] = w
        /\ \A i \in 1 .. B : ipc_backlog'[i] = ipc_backlog[i]
    BY <1>0, <2>1
  <2>4. \A i, j \in 1 .. Len(ipc_backlog') : ipc_backlog'[i] = ipc_backlog'[j] => i = j
    <3>1. \A i \in 1 .. B : ipc_backlog[i] # w
      BY <2>2 DEF InBacklog
    <3> QED
      BY <1>0, <2>3, <3>1 DEF PeersInv
  <2>5. \A v \in Workers : InBacklog(v)' => InBacklog(v) \/ v = w
    BY <1>0, <2>3 DEF InBacklog
  <2>6. \A v \in Workers : HasSlot(v)' <=> HasSlot(v)
    BY <2>1 DEF HasSlot, Backend
  <2>7. ~ Early(w)'
    <3>1. proc' = [proc EXCEPT ![w] = "hello"]
      BY <1>3 DEF ConnectMaster, Stage
    <3> QED
      BY <3>1 DEF Early, TypeInv, TypeOK
  <2>8. \A p, q \in Positions :
          Backend(p)' /\ Backend(q)' /\ sockets'[p].peer = sockets'[q].peer => p = q
    BY <2>1 DEF PeersInv, Backend
  <2>9. /\ \A v \in Workers : ~ (HasSlot(v)' /\ InBacklog(v)')
        /\ \A v \in Workers : Early(v)' => ~ HasSlot(v)' /\ ~ InBacklog(v)'
    BY <1>1, <2>2, <2>5, <2>6, <2>7 DEF PeersInv
  <2> QED
    BY <1>1, <2>4, <2>8, <2>9 DEF PeersInv
<1>4. ASSUME NEW e \in batch, on_backend_connect(e) PROVE PeersInv'
  <2> DEFINE p == Head(free)
  <2> DEFINE w == Head(ipc_backlog)
  <2>0. /\ p \in Positions /\ w \in Workers /\ ipc_backlog # <<>>
        /\ sockets[p].type = "unset" /\ sockets'[p].type = "backend" /\ sockets'[p].peer = w
        /\ ipc_backlog' = Tail(ipc_backlog)
        /\ \A q \in Positions : q # p => sockets'[q] = sockets[q]
    BY <1>4, ConnectEffect
  <2>1. /\ p \in Positions /\ w \in Workers /\ ipc_backlog # <<>>
        /\ ~ Backend(p) /\ sockets'[p].type = "backend" /\ sockets'[p].peer = w
        /\ ipc_backlog' = Tail(ipc_backlog)
        /\ \A q \in Positions : q # p => sockets'[q] = sockets[q]
    BY <2>0 DEF Backend
  <2>2. /\ B > 0 /\ Len(ipc_backlog') = B - 1 /\ w = ipc_backlog[1]
        /\ \A i \in 1 .. B - 1 : ipc_backlog'[i] = ipc_backlog[i + 1]
    BY <1>0, <2>1
  <2>3. InBacklog(w) /\ ~ HasSlot(w) /\ ~ Early(w)
    BY <1>0, <2>1, <2>2 DEF InBacklog, PeersInv
  <2> HIDE DEF p, w
  <2>4. \A i, j \in 1 .. Len(ipc_backlog') : ipc_backlog'[i] = ipc_backlog'[j] => i = j
    <3>1. ASSUME NEW i \in 1 .. B - 1, NEW j \in 1 .. B - 1, ipc_backlog[i + 1] = ipc_backlog[j + 1]
          PROVE  i = j
      BY <1>0, <3>1 DEF PeersInv
    <3> QED
      BY <1>0, <2>2, <3>1
  <2>5. \A v \in Workers : InBacklog(v)' => InBacklog(v) /\ v # w
    <3> SUFFICES ASSUME NEW v \in Workers, NEW i \in 1 .. B - 1, ipc_backlog'[i] = v
                 PROVE  InBacklog(v) /\ v # w
      BY <2>2 DEF InBacklog
    <3>1. ipc_backlog[i + 1] = v /\ i + 1 \in 1 .. B /\ 1 \in 1 .. B /\ i + 1 # 1
      BY <1>0, <2>2
    <3>2. InBacklog(v)
      BY <3>1 DEF InBacklog
    <3>3. ipc_backlog[i + 1] # ipc_backlog[1]
      BY <3>1 DEF PeersInv
    <3> QED
      BY <2>2, <3>1, <3>2, <3>3
  <2>6. \A v \in Workers : HasSlot(v)' => HasSlot(v) \/ v = w
    BY <2>1 DEF HasSlot, Backend
  <2>7. \A q \in Positions : Backend(q) => sockets[q].peer # w
    BY <2>3 DEF HasSlot
  <2>8. \A q, r \in Positions :
          Backend(q)' /\ Backend(r)' /\ sockets'[q].peer = sockets'[r].peer => q = r
    BY <2>1, <2>7 DEF PeersInv, Backend
  <2>9. /\ \A v \in Workers : ~ (HasSlot(v)' /\ InBacklog(v)')
        /\ \A v \in Workers : Early(v)' => ~ HasSlot(v)' /\ ~ InBacklog(v)'
    BY <1>1, <2>3, <2>5, <2>6 DEF PeersInv
  <2> QED
    BY <1>1, <2>4, <2>8, <2>9 DEF PeersInv
<1>5. CASE UNCHANGED vars
  BY <1>2, <1>5 DEF vars, poolVars, workerVars, SlotsShrink, Backend
<1> QED
  BY <1>2, <1>3, <1>4, <1>5, SlotsStep, BacklogStep, ConnectMasterEffect

-----------------------------------------------------------------------------
(* Room for those in the backlog                                            *)

LEMMA FewerWorkers ==
    ASSUME TypeOK, NEW T \in SUBSET Workers, NEW S \in SUBSET T
    PROVE  Cardinality(S) \in Nat /\ Cardinality(T) \in Nat /\ Cardinality(S) <= Cardinality(T)
BY HandlesFinite, FS_Subset

\* All but one of the workers that are alive.
LEMMA AliveAreFew ==
    ASSUME TypeInv, HandlesInv, NEW S \in SUBSET Workers, \A w \in S : Open(w)
    PROVE  /\ Cardinality(S) \in Nat
           /\ Cardinality(S) <= MaxOf(MaxWorkerProcesses - 2, 0)
           /\ \A v \in Workers \ S : Open(v) \/ proc[v] = "starting"
                 => Cardinality(S) < MaxWorkerProcesses - 2
<1> USE DEF TypeInv
<1>1. worker_handles \subseteq Workers /\ num_workers \in Nat
  BY DEF TypeOK
<1>2. /\ num_workers = Cardinality(worker_handles)
      /\ num_workers <= MaxOf(MaxWorkerProcesses - 2, 0)
      /\ \A w \in Workers : Open(w) \/ proc[w] = "starting" => w \in worker_handles
  BY DEF HandlesInv, HandlesCounted, Open, Stopped
<1>3. S \subseteq worker_handles
  BY <1>2
<1>4. Cardinality(S) \in Nat /\ Cardinality(S) <= num_workers
  BY <1>1, <1>2, <1>3, FewerWorkers
<1>5. ASSUME NEW v \in Workers \ S, Open(v) \/ proc[v] = "starting"
      PROVE  Cardinality(S) < MaxWorkerProcesses - 2
  <2>1. v \in worker_handles /\ IsFiniteSet(S)
    BY <1>2, <1>5, HandlesFinite
  <2>2. Cardinality(S \cup {v}) = Cardinality(S) + 1
    BY <1>5, <2>1, FS_AddElement
  <2>3. Cardinality(S \cup {v}) <= num_workers
    BY <1>1, <1>2, <1>3, <2>1, FewerWorkers
  <2> QED
    BY <1>1, <1>2, <1>4, <2>2, <2>3, MasterAssumption DEF MaxOf
<1>6. MaxOf(MaxWorkerProcesses - 2, 0) \in Nat
  BY MasterAssumption DEF MaxOf
<1> QED
  BY <1>1, <1>2, <1>4, <1>5, <1>6

LEMMA RoomShrinks ==
    ASSUME TypeInv, NEW i \in 1 .. Len(ipc_backlog), NEW j,
           RoomInv, Before(j)' \subseteq Before(i)
    PROVE  Cardinality(Before(j)') < MaxWorkerProcesses - 2
<1>1. Before(i) \in SUBSET Workers /\ Before(j)' \in SUBSET Before(i)
  BY DEF Before
<1>2. /\ Cardinality(Before(j)') \in Nat /\ Cardinality(Before(i)) \in Nat
      /\ Cardinality(Before(j)') <= Cardinality(Before(i))
  BY <1>1, FewerWorkers DEF TypeInv
<1> QED
  BY <1>2, MasterAssumption DEF RoomInv

LEMMA RoomStep ==
    ASSUME TypeInv, FreeInv, HandlesInv, PeersInv, RoomInv, [Next]_vars, TypeInv', HandlesInv'
    PROVE  RoomInv'
<1> DEFINE B == Len(ipc_backlog)
<1>0. ipc_backlog \in Seq(Workers) /\ B \in Nat
  BY DEF TypeInv, TypeOK
<1>1. ASSUME SlotsShrink, \A w \in Workers : Open(w)' => Open(w),
             ipc_backlog' = ipc_backlog \/ ipc_backlog' = <<>>
      PROVE RoomInv'
  <2> SUFFICES ASSUME NEW i \in 1 .. Len(ipc_backlog')
               PROVE  Cardinality(Before(i)') < MaxWorkerProcesses - 2
    BY DEF RoomInv
  <2>1. ipc_backlog' = ipc_backlog /\ i \in 1 .. B
    BY <1>1
  <2>2. Before(i)' \subseteq Before(i)
    BY <1>1, <2>1, ShrunkOwners DEF Before
  <2> QED
    BY <2>1, <2>2, RoomShrinks
<1>2. ASSUME NEW w \in Workers, ConnectMaster(w) PROVE RoomInv'
  <2> SUFFICES ASSUME NEW i \in 1 .. Len(ipc_backlog')
               PROVE  Cardinality(Before(i)') < MaxWorkerProcesses - 2
    BY DEF RoomInv
  <2>1. /\ Early(w) /\ proc[w] = "starting" /\ ipc_backlog' = Append(ipc_backlog, w)
        /\ \A v \in Workers : v # w /\ Open(v)' => Open(v)
        /\ UNCHANGED sockets
    BY <1>2, ConnectMasterEffect
  <2>2. ~ HasSlot(w) /\ ~ InBacklog(w)
    BY <2>1 DEF PeersInv
  <2>3. /\ Len(ipc_backlog') = B + 1 /\ ipc_backlog'[B + 1] = w
        /\ \A j \in 1 .. B : ipc_backlog'[j] = ipc_backlog[j]
    BY <1>0, <2>1
  <2>4. \A v \in Workers : HasSlot(v)' <=> HasSlot(v)
    BY <2>1 DEF HasSlot, Backend
  <2>5. \A j \in 1 .. i - 1 : j \in 1 .. B /\ ipc_backlog'[j] = ipc_backlog[j]
    BY <1>0, <2>3
  <2>6. w \notin Before(i)'
    BY <2>2, <2>4, <2>5 DEF Before, InBacklog
  <2>7. Before(i)' \subseteq Before(i)
    BY <2>1, <2>4, <2>5, <2>6 DEF Before
  <2>8. CASE i \in 1 .. B
    BY <2>7, <2>8, RoomShrinks
  <2>9. CASE i = B + 1
    <3>1. Before(i)' \in SUBSET Workers /\ \A v \in Before(i)' : Open(v)
      BY <2>7 DEF Before
    <3>2. w \in Workers \ Before(i)'
      BY <2>6
    <3> HIDE DEF Before
    <3> QED
      BY <2>1, <3>1, <3>2, AliveAreFew
  <2> QED
    BY <1>0, <2>3, <2>8, <2>9
<1>3. ASSUME NEW e \in batch, on_backend_connect(e) PROVE RoomInv'
  <2> DEFINE w == Head(ipc_backlog)
  <2>0. /\ w \in Workers /\ ipc_backlog # <<>>
        /\ Head(free) \in Positions
        /\ sockets'[Head(free)].peer = w
        /\ ipc_backlog' = Tail(ipc_backlog) /\ UNCHANGED proc
        /\ \A q \in Positions : q # Head(free) => sockets'[q] = sockets[q]
    BY <1>3, ConnectEffect
  <2>1. /\ B > 0 /\ Len(ipc_backlog') = B - 1 /\ w = ipc_backlog[1]
        /\ \A j \in 1 .. B - 1 : ipc_backlog'[j] = ipc_backlog[j + 1]
    BY <1>0, <2>0
  <2>2. \A v \in Workers : HasSlot(v)' => HasSlot(v) \/ v = w
    BY <2>0 DEF HasSlot, Backend
  <2>3. \A v \in Workers : Open(v)' => Open(v)
    BY <2>0 DEF Open
  <2> SUFFICES ASSUME NEW i \in 1 .. B - 1
               PROVE  Cardinality(Before(i)') < MaxWorkerProcesses - 2
    BY <2>1 DEF RoomInv
  <2>4. i + 1 \in 1 .. B /\ 1 \in 1 .. (i + 1) - 1
    BY <1>0
  <2>5. ASSUME NEW v \in Workers, NEW j \in 1 .. i - 1, ipc_backlog'[j] = v
        PROVE  \E k \in 1 .. (i + 1) - 1 : ipc_backlog[k] = v
    <3>1. j + 1 \in 1 .. (i + 1) - 1 /\ ipc_backlog[j + 1] = v
      BY <1>0, <2>1, <2>5
    <3> QED
      BY <3>1
  <2>6. \A v \in Workers : HasSlot(v)' => HasSlot(v) \/ \E k \in 1 .. (i + 1) - 1 : ipc_backlog[k] = v
    BY <2>1, <2>2, <2>4
  <2>7. Before(i)' \subseteq Before(i + 1)
    BY <2>3, <2>5, <2>6 DEF Before
  <2> QED
    BY <2>4, <2>7, RoomShrinks
<1>4. CASE UNCHANGED vars
  BY <1>1, <1>4 DEF vars, poolVars, workerVars, SlotsShrink, Backend, Open
<1> QED
  BY <1>1, <1>2, <1>3, <1>4, SlotsStep, BacklogStep, ConnectMasterEffect

-----------------------------------------------------------------------------
(* Places for backends                                                      *)

LEMMA PlacesStep ==
    ASSUME TypeInv, FreeInv, PlacesInv, [Next]_vars
    PROVE  PlacesInv'
<1> USE DEF PlacesInv
<1>0. free \in Seq(Positions) /\ Len(free) \in Nat
  BY DEF TypeInv, TypeOK
<1>1. CASE UNCHANGED <<pc, sockets, free>>
  BY <1>1 DEF Backend
<1>2. CASE Calm
  <2>1. pc # "down" /\ \A p \in Positions : sockets'[p].type = "ipc" <=> p = IpcPos
    BY <1>2 DEF Calm
  <2>2. CASE free' = free /\ \A p \in Positions : Backend(p) => Backend(p)'
    BY <2>1, <2>2
  <2>3. ASSUME NEW q \in Positions, Closes(q) PROVE PlacesInv'
    <3>1. /\ Len(free') = Len(free) + 1 /\ free'[Len(free) + 1] = q
          /\ \A i \in 1 .. Len(free) : free'[i] = free[i]
      BY <1>0, <2>3 DEF Closes
    <3>2. ASSUME NEW p \in Positions, p > NumListen + 1, ~ Backend(p)'
          PROVE  \E i \in 1 .. Len(free') : free'[i] = p
      <4>1. CASE p = q
        BY <1>0, <3>1, <4>1
      <4>2. CASE p # q
        <5>1. ~ Backend(p)
          BY <2>3, <3>2, <4>2 DEF Closes
        <5>2. PICK i \in 1 .. Len(free) : free[i] = p
          BY <2>1, <3>2, <5>1
        <5> QED
          BY <1>0, <3>1, <5>2
      <4> QED
        BY <4>1, <4>2
    <3> QED
      BY <2>1, <3>2
  <2> QED
    BY <1>2, <2>2, <2>3 DEF Calm
<1>3. CASE Collect
  BY <1>1, <1>3 DEF Collect, poolVars
<1>4. CASE teardown
  BY <1>4 DEF teardown
<1>5. ASSUME NEW e \in batch, on_backend_connect(e) PROVE PlacesInv'
  <2> DEFINE p == Head(free)
  <2>1. /\ pc = "loop" /\ p \in Positions /\ p > NumListen + 1 /\ free # <<>>
        /\ sockets[p].type = "unset" /\ sockets'[p].type = "backend" /\ free' = Tail(free)
        /\ \A q \in Positions : q # p => sockets'[q] = sockets[q]
    BY <1>5, ConnectEffect
  <2>2. /\ Len(free) > 0 /\ Len(free') = Len(free) - 1 /\ p = free[1]
        /\ \A i \in 1 .. Len(free) - 1 : free'[i] = free[i + 1]
    BY <1>0, <2>1
  <2> HIDE DEF p
  <2>3. p # IpcPos
    BY <2>1, MasterAssumption DEF IpcPos
  <2>4. \A q \in Positions : sockets'[q].type = "ipc" <=> q = IpcPos
    BY <2>1, <2>3
  <2>5. ASSUME NEW q \in Positions, q > NumListen + 1, ~ Backend(q)'
        PROVE  \E i \in 1 .. Len(free') : free'[i] = q
    <3>1. q # p /\ ~ Backend(q)
      BY <2>1, <2>5 DEF Backend
    <3>2. PICK i \in 1 .. Len(free) : free[i] = q
      BY <2>1, <2>5, <3>1
    <3>3. i - 1 \in 1 .. Len(free') /\ free'[i - 1] = q
      BY <1>0, <2>2, <3>1, <3>2
    <3> QED
      BY <3>3
  <2> QED
    BY <2>4, <2>5
<1>6. CASE pc = "down" /\ Next
  BY <1>1, <1>6, DownStep, SurroundingsFrame DEF loopVars, poolVars
<1> QED
  BY <1>1, <1>2, <1>3, <1>4, <1>5, <1>6, CalmStep DEF Stirs, vars, loopVars, poolVars

LEMMA FewerPositions ==
    ASSUME NEW T \in SUBSET Positions, NEW S \in SUBSET T
    PROVE  /\ IsFiniteSet(T) /\ Cardinality(S) \in Nat /\ Cardinality(T) \in Nat
           /\ Cardinality(S) <= Cardinality(T)
<1>1. IsFiniteSet(Positions)
  BY MasterAssumption, FS_Interval DEF Positions, TotalSockets
<1>2. IsFiniteSet(T) /\ IsFiniteSet(S)
  BY <1>1, FS_Subset
<1> QED
  BY <1>2, FS_Subset, FS_CardinalityType

\* A batch that lost events, over a set of backends that lost members.
LEMMA CalmBatch ==
    ASSUME TypeInv, BatchInv, Calm
    PROVE  BatchInv'
<1>0. \A e \in batch : e.pos \in Positions
  BY DEF TypeInv, TypeOK, EventType
<1>1. \A e, f \in batch' : e.pos = f.pos => e = f
  BY DEF BatchInv, Calm
<1>2. \A e \in batch' : Backend(e.pos)' => sockets'[e.pos].peer = e.peer
  BY <1>0 DEF BatchInv, Calm
<1>3. Staying' \subseteq Staying
  BY DEF Calm, Staying, Closing
<1>4. Accepting' => Accepting
  BY DEF Calm, Accepting
<1>5. /\ Cardinality(Staying') \in Nat /\ Cardinality(Staying) \in Nat
      /\ Cardinality(Staying') <= Cardinality(Staying)
  BY <1>3, FewerPositions DEF Staying
<1>6. Cardinality(Staying') + (IF Accepting' THEN 1 ELSE 0) <= MaxOf(MaxWorkerProcesses - 2, 0)
  <2>1. MaxOf(MaxWorkerProcesses - 2, 0) \in Nat
    BY MasterAssumption DEF MaxOf
  <2>2. Cardinality(Staying) + (IF Accepting THEN 1 ELSE 0) <= MaxOf(MaxWorkerProcesses - 2, 0)
    BY DEF BatchInv
  <2> HIDE DEF Staying, Accepting
  <2> QED
    BY <1>4, <1>5, <2>1, <2>2
<1>7. ASSUME Accepting' PROVE free' # <<>> /\ \A e \in batch' : e.pos # Head(free')
  <2>1. free # <<>> /\ \A e \in batch : e.pos # Head(free)
    BY <1>4, <1>7 DEF BatchInv
  <2>2. free' # <<>> /\ Head(free') = Head(free)
    <3>1. free \in Seq(Positions)
      BY DEF TypeInv, TypeOK
    <3>2. ASSUME NEW p \in Positions, free' = Append(free, p)
          PROVE  free' # <<>> /\ Head(free') = Head(free)
      BY <2>1, <3>1, <3>2
    <3> QED
      BY <2>1, <3>2 DEF Calm, Closes
  <2> QED
    BY <2>1, <2>2 DEF Calm
<1> QED
  BY <1>1, <1>2, <1>6, <1>7 DEF BatchInv

LEMMA ConnectBatch ==
    ASSUME TypeInv, FreeInv, PlacesInv, BatchInv, NEW e \in batch, on_backend_connect(e)
    PROVE  BatchInv'
<1> DEFINE p == Head(free)
<1>0. \A f \in batch : f.pos \in Positions
  BY DEF TypeInv, TypeOK, EventType
<1>1. /\ pc = "loop" /\ p \in Positions /\ batch' = batch \ {e}
      /\ sockets[e.pos].type = "ipc" /\ sockets[p].type = "unset"
      /\ \A q \in Positions : q # p => sockets'[q] = sockets[q]
  BY ConnectEffect
<1>2. e.pos = IpcPos
  BY <1>0, <1>1 DEF PlacesInv
<1>3. Accepting /\ ~ Accepting'
  BY <1>1, <1>2 DEF Accepting, BatchInv
<1>4. \A f \in batch : f.pos # p
  BY <1>3 DEF BatchInv
<1> HIDE DEF p
<1>5. \A f, g \in batch' : f.pos = g.pos => f = g
  BY <1>1 DEF BatchInv
<1>6. \A f \in batch' : Backend(f.pos)' => sockets'[f.pos].peer = f.peer
  BY <1>0, <1>1, <1>4 DEF BatchInv, Backend
<1>7. Staying' \subseteq Staying \cup {p}
  <2>1. \A q \in Positions : q # p /\ Backend(q)' => Backend(q)
    BY <1>1 DEF Backend
  <2>2. \A q \in Positions : Backend(q) /\ Closing(q) => Closing(q)'
    BY <1>1 DEF Closing, Backend
  <2> QED
    BY <2>1, <2>2 DEF Staying
<1>8. Cardinality(Staying') \in Nat /\ Cardinality(Staying') <= Cardinality(Staying) + 1
  <2>1. Staying \in SUBSET Positions /\ Staying \cup {p} \in SUBSET Positions
    BY <1>1 DEF Staying
  <2>2. IsFiniteSet(Staying) /\ Cardinality(Staying) \in Nat
    BY <2>1, FewerPositions
  <2>3. Cardinality(Staying \cup {p}) <= Cardinality(Staying) + 1
    BY <2>2, FS_AddElement
  <2>4. Cardinality(Staying') <= Cardinality(Staying \cup {p}) /\ Cardinality(Staying') \in Nat
        /\ Cardinality(Staying \cup {p}) \in Nat
    BY <1>7, <2>1, FewerPositions
  <2> HIDE DEF Staying
  <2> QED
    BY <2>2, <2>3, <2>4
<1>9. Cardinality(Staying') + (IF Accepting' THEN 1 ELSE 0) <= MaxOf(MaxWorkerProcesses - 2, 0)
  <2>1. /\ Cardinality(Staying) + 1 <= MaxOf(MaxWorkerProcesses - 2, 0)
        /\ Cardinality(Staying) \in Nat /\ MaxOf(MaxWorkerProcesses - 2, 0) \in Nat
    BY <1>3, FewerPositions, MasterAssumption DEF BatchInv, MaxOf, Staying
  <2> QED
    BY <1>3, <1>8, <2>1
<1> QED
  BY <1>3, <1>5, <1>6, <1>9 DEF BatchInv

-----------------------------------------------------------------------------
(* A wait that returns all there is                                         *)

Ready == {p \in Positions : IsReady(p)}

LEMMA CollectsAll ==
    ASSUME TypeInv, MaxEvents >= TotalSockets, Collect
    PROVE  batch' = {EventAt(p) : p \in Ready} /\ batch = {} /\ pc = "loop"
<1>1. PICK P \in SUBSET Ready :
         /\ Cardinality(P) = MinOf(MaxEvents, Cardinality(Ready))
         /\ batch' = {EventAt(p) : p \in P}
  BY DEF Collect, Ready
<1>2. Cardinality(Positions) = TotalSockets /\ TotalSockets \in Nat
  <2>1. TotalSockets \in Nat /\ TotalSockets > 0
    BY MasterAssumption DEF TotalSockets
  <2>2. Cardinality(0 .. TotalSockets - 1) = TotalSockets
    BY <2>1, FS_Interval
  <2> QED
    BY <2>1, <2>2 DEF Positions
<1>3. /\ IsFiniteSet(Ready) /\ Cardinality(Ready) \in Nat
      /\ Cardinality(Ready) <= Cardinality(Positions)
  <2>1. Ready \in SUBSET Positions
    BY DEF Ready
  <2> QED
    BY <2>1, FewerPositions
<1>4. Cardinality(P) = Cardinality(Ready)
  BY <1>1, <1>2, <1>3, MasterAssumption DEF MinOf
<1>5. P = Ready
  BY <1>3, <1>4, FS_Subset
<1> QED
  BY <1>1, <1>5 DEF Collect

\* The backends of workers that are alive.
LiveSlots == {p \in Positions : Backend(p) /\ Open(sockets[p].peer)}
LiveOwners == {w \in Workers : Open(w) /\ HasSlot(w)}

LEMMA LiveSlotsAreFew ==
    ASSUME TypeInv, PeersInv
    PROVE  /\ Cardinality(LiveSlots) \in Nat /\ Cardinality(LiveOwners) \in Nat
           /\ Cardinality(LiveSlots) <= Cardinality(LiveOwners)
<1> DEFINE f == [p \in LiveSlots |-> sockets[p].peer]
<1>1. \A p \in LiveSlots : sockets[p].peer \in LiveOwners
  BY DEF LiveSlots, LiveOwners, HasSlot, Backend, TypeInv, Roles
<1>2. \A p, q \in LiveSlots : sockets[p].peer = sockets[q].peer => p = q
  BY DEF LiveSlots, PeersInv
<1>3. f \in Injection(LiveSlots, LiveOwners)
  BY <1>1, <1>2 DEF Injection, IsInjective
<1>4. IsFiniteSet(LiveOwners) /\ Cardinality(LiveOwners) \in Nat
  BY HandlesFinite DEF LiveOwners, TypeInv
<1>5. LiveSlots \in SUBSET Positions
  BY DEF LiveSlots
<1> HIDE DEF f, LiveSlots, LiveOwners
<1>6. Cardinality(LiveSlots) <= Cardinality(LiveOwners)
  BY <1>3, <1>4, FS_Injection
<1> QED
  BY <1>4, <1>5, <1>6, FewerPositions

\* With a worker in the backlog the batch before left it a place.
LEMMA RoomToAccept ==
    ASSUME TypeInv, PlacesInv, BatchInv, pc = "loop", batch = {}, MaxWorkerProcesses >= 3
    PROVE  free # <<>>
<1> SUFFICES ASSUME free = <<>> PROVE FALSE
  OBVIOUS
<1> DEFINE Upper == NumListen + 2 .. TotalSockets - 1
<1>1. Upper \in SUBSET Positions /\ \A p \in Upper : p > NumListen + 1
  BY MasterAssumption DEF Positions, TotalSockets
<1>2. Cardinality(Upper) = MaxWorkerProcesses - 1
  <2>1. /\ NumListen + 2 \in Int /\ TotalSockets - 1 \in Int
        /\ (TotalSockets - 1) - (NumListen + 2) + 1 = MaxWorkerProcesses - 1
        /\ ~ (NumListen + 2 > TotalSockets - 1)
    BY MasterAssumption DEF TotalSockets
  <2> QED
    BY <2>1, FS_Interval
<1>3. \A p \in Upper : Backend(p)
  BY <1>1 DEF PlacesInv
<1>4. Upper \in SUBSET Staying /\ Staying \in SUBSET Positions
  BY <1>1, <1>3 DEF Staying, Closing
<1> HIDE DEF Upper
<1>5. Cardinality(Upper) <= Cardinality(Staying) /\ Cardinality(Staying) \in Nat
  BY <1>4, FewerPositions
<1>6. Cardinality(Staying) <= MaxWorkerProcesses - 2
  <2>1. ~ Accepting
    BY DEF Accepting
  <2> QED
    BY <1>5, <2>1, MasterAssumption DEF BatchInv, MaxOf
<1> QED
  BY <1>2, <1>5, <1>6, MasterAssumption

LEMMA CollectBatch ==
    ASSUME TypeInv, FreeInv, HandlesInv, PeersInv, RoomInv, PlacesInv, BatchInv,
           MaxEvents >= TotalSockets, Collect
    PROVE  BatchInv'
<1>0. /\ batch' = {EventAt(p) : p \in Ready} /\ batch = {} /\ pc = "loop"
      /\ UNCHANGED <<pc, sockets, free>>
  BY CollectsAll DEF Collect, poolVars
<1>1. \A e \in batch' : e.pos \in Ready /\ e = EventAt(e.pos)
  BY <1>0 DEF EventAt
<1>2. \A e, g \in batch' : e.pos = g.pos => e = g
  BY <1>1
<1>3. \A e \in batch' : sockets'[e.pos].peer = e.peer
  BY <1>0, <1>1 DEF EventAt
<1>4. Staying' \subseteq LiveSlots
  <2> SUFFICES ASSUME NEW p \in Positions, Backend(p), ~ Open(sockets[p].peer)
               PROVE  Closing(p)'
    BY <1>0 DEF Staying, LiveSlots, Backend
  <2>1. Hung(p) /\ p \in Ready
    BY DEF Hung, Backend, Ready, IsReady
  <2>2. EventAt(p) \in batch' /\ EventAt(p).pos = p /\ EventAt(p).closed
    BY <1>0, <2>1 DEF EventAt
  <2> QED
    BY <2>2 DEF Closing
<1>5. Cardinality(Staying') \in Nat /\ Cardinality(Staying') <= Cardinality(LiveOwners)
  <2>1. LiveSlots \in SUBSET Positions
    BY DEF LiveSlots
  <2> HIDE DEF LiveSlots
  <2>2. Cardinality(Staying') \in Nat /\ Cardinality(Staying') <= Cardinality(LiveSlots)
    BY <1>4, <2>1, FewerPositions
  <2> QED
    BY <2>2, LiveSlotsAreFew
<1>6. Accepting' => Cardinality(LiveOwners) < MaxWorkerProcesses - 2
  <2> SUFFICES ASSUME Accepting' PROVE Cardinality(LiveOwners) < MaxWorkerProcesses - 2
    OBVIOUS
  <2>1. IpcPos \in Ready
    BY <1>1 DEF Accepting
  <2>2. ipc_backlog # <<>>
    BY <1>0, <2>1 DEF Ready, IsReady, PlacesInv, IpcPos, LatchPos, Hung
  <2>3. 1 \in 1 .. Len(ipc_backlog)
    BY <2>2 DEF TypeInv, TypeOK
  <2>4. LiveOwners \subseteq Before(1) /\ Before(1) \in SUBSET Workers
    BY DEF LiveOwners, Before
  <2>5. Cardinality(Before(1)) < MaxWorkerProcesses - 2
    BY <2>3 DEF RoomInv
  <2>6. /\ Cardinality(LiveOwners) <= Cardinality(Before(1))
        /\ Cardinality(LiveOwners) \in Nat /\ Cardinality(Before(1)) \in Nat
    BY <2>4, FewerWorkers DEF TypeInv
  <2> QED
    BY <2>5, <2>6, MasterAssumption
<1>7. /\ Cardinality(LiveOwners) \in Nat
      /\ Cardinality(LiveOwners) <= MaxOf(MaxWorkerProcesses - 2, 0)
  <2>1. LiveOwners \in SUBSET Workers /\ \A w \in LiveOwners : Open(w)
    BY DEF LiveOwners
  <2> QED
    BY <2>1, AliveAreFew
<1>8. Cardinality(Staying') + (IF Accepting' THEN 1 ELSE 0) <= MaxOf(MaxWorkerProcesses - 2, 0)
  <2>1. MaxOf(MaxWorkerProcesses - 2, 0) \in Nat
        /\ MaxWorkerProcesses - 2 <= MaxOf(MaxWorkerProcesses - 2, 0)
    BY MasterAssumption DEF MaxOf
  <2> QED
    BY <1>5, <1>6, <1>7, <2>1, MasterAssumption
<1>9. ASSUME Accepting' PROVE free' # <<>> /\ \A e \in batch' : e.pos # Head(free')
  <2>1. MaxWorkerProcesses >= 3
    BY <1>6, <1>7, <1>9, MasterAssumption
  <2>2. free # <<>> /\ free' = free
    BY <1>0, <2>1, RoomToAccept
  <2>3. /\ Head(free) \in Positions /\ Head(free) > NumListen + 1
        /\ sockets[Head(free)].type = "unset"
    <3>1. free \in Seq(Positions)
      BY DEF TypeInv, TypeOK
    <3>2. 1 \in 1 .. Len(free) /\ Head(free) = free[1] /\ free[1] \in Positions
      BY <2>2, <3>1
    <3> QED
      BY <3>2 DEF TypeInv, Roles, FreeInv
  <2>4. ~ IsReady(Head(free))
    BY <2>3, MasterAssumption DEF IsReady, Hung, LatchPos
  <2> QED
    BY <1>1, <2>2, <2>4 DEF Ready
<1> QED
  BY <1>2, <1>3, <1>8, <1>9 DEF BatchInv

LEMMA BatchStep ==
    ASSUME TypeInv, FreeInv, HandlesInv, PeersInv, RoomInv, PlacesInv, BatchInv,
           MaxEvents >= TotalSockets, [Next]_vars
    PROVE  BatchInv'
<1>1. CASE UNCHANGED <<batch, sockets, free>>
  BY <1>1 DEF BatchInv, Staying, Accepting, Closing, Backend
<1>2. CASE Calm
  BY <1>2, CalmBatch
<1>3. CASE Collect
  BY <1>3, CollectBatch
<1>4. CASE teardown
  <2>1. batch' = {} /\ \A p \in Positions : ~ Backend(p)'
    BY <1>4 DEF teardown, Slot, Backend
  <2>2. Staying' = {} /\ ~ Accepting'
    BY <2>1 DEF Staying, Accepting
  <2>3. Cardinality({}) = 0
    BY FS_EmptySet
  <2>4. MaxOf(MaxWorkerProcesses - 2, 0) \in Nat
    BY MasterAssumption DEF MaxOf
  <2>5. Cardinality(Staying') + (IF Accepting' THEN 1 ELSE 0) <= MaxOf(MaxWorkerProcesses - 2, 0)
    BY <2>2, <2>3, <2>4
  <2> QED
    BY <2>1, <2>2, <2>5 DEF BatchInv
<1>5. ASSUME NEW e \in batch, on_backend_connect(e) PROVE BatchInv'
  BY <1>5, ConnectBatch
<1>6. CASE pc = "down" /\ Next
  BY <1>1, <1>6, DownStep, SurroundingsFrame DEF loopVars, poolVars
<1> QED
  BY <1>1, <1>2, <1>3, <1>4, <1>5, <1>6, CalmStep DEF Stirs, vars, loopVars, poolVars

OwnersInv == PeersInv /\ RoomInv /\ PlacesInv /\ BatchInv

LEMMA InitOwners == Init => OwnersInv
<1> SUFFICES ASSUME Init PROVE OwnersInv
  OBVIOUS
<1>1. \A p \in Positions : ~ Backend(p)
  BY DEF Init, InitialSlot, Slot, Zeroed, Backend
<1>2. PeersInv /\ RoomInv
  BY <1>1 DEF Init, PeersInv, RoomInv, HasSlot, InBacklog, Early
<1>3. PlacesInv
  <2>1. \A p \in Positions : sockets[p].type = "ipc" <=> p = IpcPos
    BY DEF Init, InitialSlot, Slot, Zeroed
  <2>2. ASSUME NEW p \in Positions, p > NumListen + 1
        PROVE  \E i \in 1 .. Len(free) : free[i] = p
    <3>1. free = [i \in 1 .. MaxWorkerProcesses - 1 |-> NumListen + 1 + i]
      BY DEF Init
    <3>2. p - (NumListen + 1) \in 1 .. MaxWorkerProcesses - 1
      BY <2>2, MasterAssumption DEF Positions, TotalSockets
    <3>3. Len(free) = MaxWorkerProcesses - 1
      BY <3>1, MasterAssumption
    <3>4. free[p - (NumListen + 1)] = p
      BY <3>1, <3>2, MasterAssumption DEF Positions
    <3> QED
      BY <3>2, <3>3, <3>4
  <2> QED
    BY <2>1, <2>2 DEF PlacesInv
<1>4. BatchInv
  <2>1. Staying = {} /\ ~ Accepting /\ batch = {}
    BY <1>1 DEF Init, Staying, Accepting
  <2>2. Cardinality({}) = 0
    BY FS_EmptySet
  <2>3. MaxOf(MaxWorkerProcesses - 2, 0) \in Nat
    BY MasterAssumption DEF MaxOf
  <2>4. Cardinality(Staying) + (IF Accepting THEN 1 ELSE 0) <= MaxOf(MaxWorkerProcesses - 2, 0)
    BY <2>1, <2>2, <2>3
  <2> QED
    BY <2>1, <2>4 DEF BatchInv
<1> QED
  BY <1>2, <1>3, <1>4 DEF OwnersInv

(* When one wait can return an event for every position, main_loop never     *)
(* applies an event to a backend it was not about, and on_backend_connect     *)
(* always finds a position: each batch closes all the dead it has seen, and   *)
(* whoever waits in the backlog was counted among max_worker_processes - 2     *)
(* when it connected.                                                         *)
THEOREM EventsAreApplied ==
    ASSUME MaxEvents >= TotalSockets
    PROVE  Spec => []EventsReachTheirOwner
<1>1. IInv /\ OwnersInv /\ [Next]_vars => (IInv /\ OwnersInv)'
  <2> SUFFICES ASSUME IInv, OwnersInv, [Next]_vars PROVE (IInv /\ OwnersInv)'
    OBVIOUS
  <2>1. IInv'
    BY NextIInv
  <2>2. PeersInv' /\ RoomInv' /\ PlacesInv' /\ BatchInv'
    BY <2>1, PeersStep, RoomStep, PlacesStep, BatchStep DEF IInv, OwnersInv
  <2> QED
    BY <2>1, <2>2 DEF OwnersInv
<1>2. OwnersInv => EventsReachTheirOwner
  BY DEF OwnersInv, BatchInv, EventsReachTheirOwner, Accepting, Backend
<1> QED
  BY <1>1, <1>2, InitIInv, InitOwners, PTL DEF Spec

-----------------------------------------------------------------------------
(* Parked workers                                                           *)

Parked(p) == /\ sockets[p].type = "backend" /\ sockets[p].interest = "closed"
             /\ sockets[p].read_offset < HelloLen
InIdle(p) == \E i \in 1 .. Len(idle_workers) : idle_workers[i] = p

LEMMA NoNewParked ==
    ASSUME ParkedAreQueued, idle_workers' = idle_workers,
           \A p \in Positions : Parked(p)' => Parked(p)
    PROVE  ParkedAreQueued'
BY DEF ParkedAreQueued, Parked, InIdle

\* One slot changes, and is not parked unless it was.
LEMMA OneSlotParked ==
    ASSUME TypeInv, ParkedAreQueued, idle_workers' = idle_workers,
           NEW p \in Positions, NEW slot, sockets' = [sockets EXCEPT ![p] = slot],
           /\ slot.type = "backend" /\ slot.interest = "closed" /\ slot.read_offset < HelloLen
           => Parked(p)
    PROVE  ParkedAreQueued'
<1>1. DOMAIN sockets = Positions
  BY DEF TypeInv, TypeOK
<1>2. \A q \in Positions : sockets'[q] = IF q = p THEN slot ELSE sockets[q]
  BY <1>1
<1>3. \A q \in Positions : Parked(q)' => Parked(q)
  BY <1>2 DEF Parked
<1> QED
  BY <1>3, NoNewParked

\* The head of the idle queue is taken and is parked no longer.
LEMMA PoppedParked ==
    ASSUME TypeInv, ParkedAreQueued, idle_workers # <<>>, idle_workers' = Tail(idle_workers),
           \A p \in Positions : Parked(p)' => Parked(p) /\ p # Head(idle_workers)
    PROVE  ParkedAreQueued'
<1>1. idle_workers \in Seq(Positions)
  BY DEF TypeInv, TypeOK
<1>2. /\ Len(idle_workers) \in Nat /\ Head(idle_workers) = idle_workers[1]
      /\ Len(idle_workers') = Len(idle_workers) - 1
      /\ \A i \in 1 .. Len(idle_workers) - 1 : idle_workers'[i] = idle_workers[i + 1]
  BY <1>1
<1>3. ASSUME NEW p \in Positions, Parked(p)' PROVE InIdle(p)'
  <2>1. PICK i \in 1 .. Len(idle_workers) : idle_workers[i] = p
    BY <1>3 DEF ParkedAreQueued, Parked
  <2>2. i # 1
    BY <1>2, <1>3, <2>1
  <2>3. i - 1 \in 1 .. Len(idle_workers') /\ idle_workers'[i - 1] = p
    BY <1>2, <2>1, <2>2
  <2> QED
    BY <2>3 DEF InIdle
<1> QED
  BY <1>3 DEF ParkedAreQueued, Parked, InIdle

LEMMA ParkedStep ==
    ASSUME TypeInv, FreeInv, ParkedAreQueued, [Next]_vars
    PROVE  ParkedAreQueued'
<1>0. /\ \A e \in batch : e.pos \in Positions
      /\ DOMAIN sockets = Positions
      /\ HelloLen \in Nat
  BY MasterAssumption DEF TypeInv, TypeOK, EventType
<1>1. CASE UNCHANGED poolVars
  BY <1>1, NoNewParked DEF poolVars, Parked
<1>2. CASE teardown
  BY <1>2, NoNewParked DEF teardown, Slot, Parked
<1>3. ASSUME NEW e \in batch, on_backend_connect(e) PROVE ParkedAreQueued'
  <2>1. /\ Head(free) \in Positions
        /\ sockets' = [sockets EXCEPT ![Head(free)] =
                          Slot("backend", Head(ipc_backlog), "readable", sockets[Head(free)].read_offset)]
        /\ idle_workers' = idle_workers
    BY <1>3, ConnectEffect DEF on_backend_connect
  <2> QED
    BY <2>1, OneSlotParked DEF Slot
<1>4. ASSUME NEW e \in batch, NEW slot \in {Zeroed, Spoilt},
             close_socket(e.pos, slot), idle_workers' = idle_workers
      PROVE  ParkedAreQueued'
  <2>1. slot.type # "backend" /\ sockets' = [sockets EXCEPT ![e.pos] = slot]
    BY <1>4 DEF close_socket, Zeroed, Spoilt, Slot
  <2> QED
    BY <1>0, <1>4, <2>1, OneSlotParked
<1>5. ASSUME NEW e \in batch, BackendClosed(e) PROVE ParkedAreQueued'
  BY <1>4, <1>5 DEF BackendClosed
<1>6. ASSUME NEW e \in batch, RecvFails(e) PROVE ParkedAreQueued'
  BY <1>4, <1>6 DEF RecvFails
<1>7. ASSUME NEW e \in batch, HelloFromBroken(e) PROVE ParkedAreQueued'
  BY <1>4, <1>7 DEF HelloFromBroken
<1>8. ASSUME NEW e \in batch, HelloUnexpected(e) PROVE ParkedAreQueued'
  <2>1. /\ sockets' = [sockets EXCEPT ![e.pos] = Watch(sockets[e.pos], "closed")]
        /\ sockets[e.pos].type = "backend"
        /\ sockets[e.pos].read_offset >= HelloLen /\ idle_workers' = idle_workers
    BY <1>8 DEF HelloUnexpected, BackendReadable, Handle
  <2>2. sockets[e.pos].read_offset \in 0 .. 255
    BY <2>1, BackendSlot
  <2>3. ~ (Watch(sockets[e.pos], "closed").read_offset < HelloLen)
    BY <1>0, <2>1, <2>2 DEF Watch, Slot
  <2> QED
    BY <1>0, <2>1, <2>3, OneSlotParked
<1>9. ASSUME NEW e \in batch, RecvPart(e) PROVE ParkedAreQueued'
  <2>1. /\ sockets' = [sockets EXCEPT ![e.pos] =
                          Slot("backend", sockets[e.pos].peer, sockets[e.pos].interest,
                               sockets[e.pos].read_offset + Received(e.pos))]
        /\ sockets[e.pos].type = "backend" /\ sockets[e.pos].read_offset < HelloLen
        /\ idle_workers' = idle_workers
    BY <1>9 DEF RecvPart, Recv, BackendReadable, Handle
  <2> QED
    BY <1>0, <2>1, OneSlotParked DEF Slot, Parked
<1>10. ASSUME NEW e \in batch, HelloTakesJob(e) PROVE ParkedAreQueued'
  <2> DEFINE f == IF frontend_paused THEN SetListeners("accept") ELSE sockets
  <2>1. /\ sockets' = [f EXCEPT ![e.pos] = Slot("backend", sockets[e.pos].peer, f[e.pos].interest, 0)]
        /\ sockets[e.pos].type = "backend" /\ sockets[e.pos].read_offset < HelloLen
        /\ idle_workers' = idle_workers
    BY <1>10 DEF HelloTakesJob, Recv, BackendReadable, Handle
  <2>2. /\ DOMAIN f = Positions
        /\ \A p \in Positions : f[p].type = sockets[p].type
        /\ \A p \in Positions : sockets[p].type = "backend" => f[p] = sockets[p]
    BY <1>0 DEF SetListeners, Watch, Slot
  <2> HIDE DEF f
  <2>3. \A p \in Positions : sockets'[p] = IF p = e.pos
            THEN Slot("backend", sockets[e.pos].peer, f[e.pos].interest, 0) ELSE f[p]
    BY <2>1, <2>2
  <2>4. \A p \in Positions : p # e.pos /\ Parked(p)' => Parked(p)
    BY <2>2, <2>3 DEF Parked
  <2>5. Parked(e.pos)' => Parked(e.pos)
    <3>1. sockets'[e.pos].interest = sockets[e.pos].interest /\ e' = e
      BY <1>0, <2>1, <2>2, <2>3 DEF Slot
    <3> QED
      BY <2>1, <3>1 DEF Parked
  <2> QED
    BY <2>1, <2>4, <2>5, NoNewParked
<1>11. ASSUME NEW e \in batch, HelloGoesIdle(e) PROVE ParkedAreQueued'
  <2>1. /\ sockets' = [sockets EXCEPT ![e.pos] = Slot("backend", sockets[e.pos].peer, "closed", 0)]
        /\ idle_workers' = Append(idle_workers, e.pos) /\ idle_workers \in Seq(Positions)
    BY <1>11 DEF HelloGoesIdle, TypeInv, TypeOK
  <2>2. /\ Len(idle_workers) \in Nat /\ Len(idle_workers') = Len(idle_workers) + 1
        /\ idle_workers'[Len(idle_workers) + 1] = e.pos
        /\ \A i \in 1 .. Len(idle_workers) : idle_workers'[i] = idle_workers[i]
    BY <1>0, <2>1
  <2>3. ASSUME NEW p \in Positions, Parked(p)'
        PROVE  \E i \in 1 .. Len(idle_workers') : idle_workers'[i] = p
    <3>1. CASE p = e.pos
      BY <2>2, <3>1
    <3>2. CASE p # e.pos
      <4>1. Parked(p)
        BY <1>0, <2>1, <2>3, <3>2 DEF Parked
      <4>2. PICK i \in 1 .. Len(idle_workers) : idle_workers[i] = p
        BY <4>1 DEF ParkedAreQueued, Parked
      <4> QED
        BY <2>2, <4>2
    <3> QED
      BY <3>1, <3>2
  <2> QED
    BY <2>3 DEF ParkedAreQueued, Parked
<1>12. CASE SkipClosedSlot
  BY <1>12, PoppedParked DEF SkipClosedSlot, PopIdle, Parked
<1>13. ASSUME NEW slot, PopIdle, sockets' = [sockets EXCEPT ![Head(idle_workers)] = slot],
              slot.interest # "closed"
       PROVE  ParkedAreQueued'
  <2>1. /\ idle_workers # <<>> /\ idle_workers' = Tail(idle_workers)
        /\ Head(idle_workers) \in Positions
    BY <1>13 DEF PopIdle, TypeInv, TypeOK
  <2>2. \A p \in Positions : sockets'[p] = IF p = Head(idle_workers) THEN slot ELSE sockets[p]
    BY <1>0, <1>13
  <2>3. \A p \in Positions : Parked(p)' => Parked(p) /\ p # Head(idle_workers)
    BY <1>13, <2>2 DEF Parked
  <2> QED
    BY <2>1, <2>3, PoppedParked
<1>14. CASE CloseBroken
  <2>1. PopIdle /\ sockets' = [sockets EXCEPT ![Head(idle_workers)] = Zeroed]
    BY <1>14 DEF CloseBroken, close_socket
  <2>2. Zeroed.interest # "closed"
    BY DEF Zeroed, Slot
  <2> QED
    BY <1>13, <2>1, <2>2
<1>15. CASE DispatchToIdle
  <2> DEFINE slot == Watch(sockets[Head(idle_workers)], "readable")
  <2>1. PopIdle /\ sockets' = [sockets EXCEPT ![Head(idle_workers)] = slot]
    BY <1>15 DEF DispatchToIdle
  <2>2. slot.interest # "closed"
    BY DEF Watch, Slot
  <2> HIDE DEF slot
  <2> QED
    BY <1>13, <2>1, <2>2
<1>16. CASE LaunchAndQueue
  <2>1. /\ idle_workers' = idle_workers
        /\ \A p \in Positions : sockets[p].type # "frontend" => sockets'[p] = sockets[p]
        /\ \A p \in Positions : sockets[p].type = "frontend" => sockets'[p].type = "frontend"
    BY <1>16, LaunchAndQueueEffect
  <2>2. \A p \in Positions : Parked(p)' => Parked(p)
    BY <2>1 DEF Parked
  <2> QED
    BY <2>1, <2>2, NoNewParked
<1>17. CASE LoopOnly \/ Surroundings
  BY <1>1, <1>17, LoopOnlyFrame, SurroundingsFrame
<1>18. ASSUME NEW e \in batch, AcceptFrontend(e) PROVE ParkedAreQueued'
  BY <1>1, <1>18 DEF AcceptFrontend
<1>19. CASE UNCHANGED vars
  BY <1>1, <1>19 DEF vars
<1> QED
  BY <1>2, <1>3, <1>5, <1>6, <1>7, <1>8, <1>9, <1>10, <1>11, <1>12, <1>14, <1>15,
        <1>16, <1>17, <1>18, <1>19
     DEF Next, MasterNext, Surroundings, LoopOnly

(* A worker that on_backend parked is never forgotten: until a connection is *)
(* passed to it or its slot is closed, idle_workers holds its position.      *)
THEOREM ParkedAreFound == Spec => []ParkedAreQueued
<1>1. Init => ParkedAreQueued
  BY DEF Init, InitialSlot, Slot, Zeroed, ParkedAreQueued
<1>2. IInv /\ ParkedAreQueued /\ [Next]_vars => ParkedAreQueued'
  BY ParkedStep DEF IInv
<1> QED
  BY <1>1, <1>2, Invariance, PTL DEF Spec

-----------------------------------------------------------------------------
(* The refinement of Dispatch                                               *)

\* Only on_frontend has a connection in hand.
HandEmpty == pc # "dispatch" => hand = None

LEMMA HandEmptyStep ==
    ASSUME TypeInv, HandEmpty, [Next]_vars
    PROVE  HandEmpty'
<1>1. CASE UNCHANGED vars
  BY <1>1 DEF HandEmpty, vars, loopVars
<1>2. CASE Surroundings
  BY <1>2, SurroundingsFrame DEF HandEmpty, loopVars
<1>3. CASE LoopOnly
  BY <1>3, LoopOnlyFrame DEF HandEmpty
<1>4. ASSUME NEW e \in batch, AcceptFrontend(e) PROVE HandEmpty'
  BY <1>4 DEF HandEmpty, AcceptFrontend
<1>5. ASSUME NEW e \in batch,
             \/ on_backend_connect(e) \/ BackendClosed(e) \/ HelloUnexpected(e) \/ RecvFails(e)
             \/ RecvPart(e) \/ HelloFromBroken(e) \/ HelloGoesIdle(e) \/ HelloTakesJob(e)
      PROVE  HandEmpty'
  <2>1. UNCHANGED <<pc, hand>>
    BY <1>5 DEF on_backend_connect, BackendClosed, HelloUnexpected, RecvFails, RecvPart,
                HelloFromBroken, HelloGoesIdle, HelloTakesJob
  <2> QED
    BY <2>1 DEF HandEmpty
<1>6. CASE teardown
  BY <1>6 DEF HandEmpty, teardown
<1>7. CASE SkipClosedSlot \/ CloseBroken
  BY <1>7 DEF HandEmpty, SkipClosedSlot, CloseBroken, loopVars
<1>8. CASE DispatchToIdle \/ LaunchAndQueue
  BY <1>8 DEF HandEmpty, DispatchToIdle, LaunchAndQueue
<1> QED
  BY <1>1, <1>2, <1>3, <1>4, <1>5, <1>6, <1>7, <1>8
     DEF Next, MasterNext, Surroundings, LoopOnly

(* Only a worker that is there holds connections, and none is there that    *)
(* was not launched.                                                        *)
OnlyOpenHold ==
    /\ \A w \in Workers : ~ Open(w) => inbox[w] = <<>>
    /\ \A w \in Workers : w >= worker_id_seq => proc[w] = "none"

LEMMA PassToOpen ==
    ASSUME TypeInv, OnlyOpenHold, NEW c, NEW w \in Workers, Pass(c, w), Open(w), UNCHANGED proc
    PROVE  \A v \in Workers : ~ Open(v)' => inbox'[v] = <<>>
<1>1. \A v \in Workers : v # w => inbox'[v] = inbox[v]
  BY DEF Pass, TypeInv, TypeOK
<1> QED
  BY <1>1 DEF OnlyOpenHold, Open

LEMMA OnlyOpenHoldStep ==
    ASSUME TypeInv, OnlyOpenHold, [Next]_vars
    PROVE  OnlyOpenHold'
<1> DEFINE Goal == \A w \in Workers : ~ Open(w)' => inbox'[w] = <<>>
<1>0. /\ proc \in [Workers -> Stages] /\ inbox \in [Workers -> Seq(Clients)]
      /\ \A w \in Workers : ~ Open(w) => inbox[w] = <<>>
      /\ \A w \in Workers : w >= worker_id_seq => proc[w] = "none"
  BY DEF OnlyOpenHold, TypeInv, TypeOK
<1>1. ASSUME UNCHANGED <<proc, inbox>> PROVE Goal
  BY <1>0, <1>1 DEF Open
<1>2. ASSUME NEW w \in Workers, proc'[w] \in {"hello", "idle", "leaving", "busy"} \/ inbox'[w] = <<>>,
             \A v \in Workers : v # w => proc'[v] = proc[v] /\ inbox'[v] = inbox[v]
      PROVE  Goal
  BY <1>0, <1>2 DEF Open
<1>3. ASSUME Surroundings PROVE Goal
  <2>1. ASSUME NEW w \in Workers, WorkerNext(w) \/ WaitTimesOut(w) \/ Die(w) PROVE Goal
    <3>1. \A v \in Workers : v # w => proc'[v] = proc[v] /\ inbox'[v] = inbox[v]
      BY <1>0, <2>1 DEF WorkerNext, StartWorker, ConnectMaster, SendHello, on_readable, FinishJob,
             SeeClosed, Leave, Reap, NotifyStopped, WaitTimesOut, Die, Exits, Stage
    <3>2. CASE ConnectMaster(w) \/ SendHello(w) \/ on_readable(w) \/ FinishJob(w) \/ SeeClosed(w)
               \/ WaitTimesOut(w)
      <4>1. proc'[w] \in {"hello", "idle", "leaving", "busy"}
        BY <1>0, <3>2 DEF ConnectMaster, SendHello, on_readable, FinishJob, SeeClosed,
               WaitTimesOut, Stage
      <4> QED
        BY <1>2, <3>1, <4>1
    <3>3. CASE Leave(w) \/ Die(w)
      <4>1. inbox'[w] = <<>>
        BY <1>0, <3>3 DEF Leave, Die, Exits
      <4> QED
        BY <1>2, <3>1, <4>1
    <3>4. CASE StartWorker(w) \/ Reap(w) \/ NotifyStopped(w)
      <4>1. ~ Open(w) /\ inbox' = inbox
        BY <3>4 DEF StartWorker, Reap, NotifyStopped, Stage, Open
      <4> QED
        BY <1>0, <1>2, <3>1, <4>1
    <3> QED
      BY <2>1, <3>2, <3>3, <3>4 DEF WorkerNext
  <2>2. ASSUME UNCHANGED <<proc, inbox>> PROVE Goal
    BY <1>1, <2>2
  <2> QED
    BY <1>3, <2>1, <2>2 DEF Surroundings, Connect, on_sigterm, workerVars
<1>4. ASSUME NEW e \in batch, HelloTakesJob(e) PROVE Goal
  <2>1. Open(sockets[e.pos].peer)
    BY <1>4 DEF HelloTakesJob
  <2> QED
    BY <1>4, <2>1, HelloTakesJobEffect, PassToOpen
<1>5. ASSUME DispatchToIdle PROVE Goal
  <2> DEFINE w == sockets[Head(idle_workers)].peer
  <2>1. w \in Workers /\ Open(w) /\ proc' = proc /\ Pass(hand, w)
    BY <1>5 DEF DispatchToIdle, PopIdle, Hung, Roles, TypeInv, TypeOK
  <2> HIDE DEF w
  <2> QED
    BY <2>1, PassToOpen
<1>6. ASSUME LaunchAndQueue PROVE Goal
  <2>1. inbox' = inbox
    BY <1>6 DEF LaunchAndQueue
  <2>2. \A w \in Workers : proc'[w] = proc[w] \/ w = worker_id_seq
    BY <1>0, <1>6 DEF LaunchAndQueue, LaunchWorker
  <2> QED
    <3>1. ASSUME NEW w \in Workers, ~ Open(w)' PROVE inbox'[w] = <<>>
      <4>1. CASE w = worker_id_seq
        <5>1. proc[w] = "none"
          BY <1>0, <4>1 DEF Workers
        <5> QED
          BY <1>0, <2>1, <5>1 DEF Open
      <4>2. CASE w # worker_id_seq
        BY <1>0, <2>1, <2>2, <3>1, <4>2 DEF Open
      <4> QED
        BY <4>1, <4>2
    <3> QED
      BY <3>1
<1>7. ASSUME UNCHANGED vars PROVE Goal
  BY <1>1, <1>7 DEF vars, workerVars
<1>8. ASSUME Next, ~ Surroundings, ~ LaunchAndQueue, ~ DispatchToIdle,
             ~ \E e \in batch : HelloTakesJob(e)
      PROVE  Goal
  <2>1. UNCHANGED <<proc, inbox>>
    BY <1>8 DEF Next, MasterNext, Surroundings, Collect, CheckDied, on_worker_died, teardown,
       IgnoreStale, ResetLatch, AcceptFails, on_backend_connect, AcceptFrontend, BackendClosed,
       HelloUnexpected, RecvFails, RecvPart, HelloFromBroken, HelloGoesIdle,
       SkipClosedSlot, CloseBroken, workerVars
  <2> QED
    BY <1>1, <2>1
<1> QED
  BY <1>0, <1>3, <1>4, <1>5, <1>6, <1>7, <1>8, EarlyStep DEF OnlyOpenHold

\* The line of Dispatch: the queue, and behind it the connection in hand.
Waiting == job_queue \o (IF hand = None THEN <<>> ELSE <<hand>>)

LEMMA WaitingIs ==
    ASSUME job_queue \in Seq(Clients), hand \in Clients \cup {None}
    PROVE  /\ hand = None => Waiting = job_queue
           /\ hand # None => Waiting = Append(job_queue, hand)
<1>1. job_queue \o <<>> = job_queue
  OBVIOUS
<1>2. hand # None => job_queue \o <<hand>> = Append(job_queue, hand)
  OBVIOUS
<1> QED
  BY <1>1, <1>2 DEF Waiting

Serving == pc # "down"
Gone == {w \in Workers : Ended(w)}

DispatchStep == [Line!Next]_(Line!vars)

LEMMA LineStutters ==
    ASSUME UNCHANGED <<job_queue, hand, inbox>>, Serving' = Serving, Gone' = Gone
    PROVE  DispatchStep
BY DEF DispatchStep, Line!vars, Serving, Gone

\* What a step of a worker's process does to the workers that are gone.
LEMMA StageOfGone ==
    ASSUME TypeInv, NEW w \in Workers, NEW from, NEW to \in Stages, Stage(w, from, to)
    PROVE  /\ to \in {"exited", "stopped", "gone"} => Gone' = Gone \cup {w}
           /\ /\ to \notin {"exited", "stopped", "gone"}
              /\ from \cap {"exited", "stopped", "gone"} = {}
              => Gone' = Gone
<1>1. \A v \in Workers : proc'[v] = IF v = w THEN to ELSE proc[v]
  BY DEF Stage, TypeInv, TypeOK
<1>2. proc[w] \in from
  BY DEF Stage
<1> QED
  BY <1>1, <1>2 DEF Gone, Ended

LEMMA SameGone ==
    ASSUME UNCHANGED proc
    PROVE  Gone' = Gone
BY DEF Gone, Ended

LEMMA MasterImplementsStep ==
    ASSUME IInv, HandEmpty, OnlyOpenHold, Next, TypeInv', HandEmpty'
    PROVE  DispatchStep
<1>0. /\ TypeInv /\ WorkConserved
      /\ job_queue \in Seq(Clients) /\ hand \in Clients \cup {None}
      /\ job_queue' \in Seq(Clients) /\ hand' \in Clients \cup {None}
  BY DEF IInv, TypeInv, TypeOK
<1>1. /\ hand = None => Waiting = job_queue
      /\ hand # None => Waiting = Append(job_queue, hand)
      /\ hand' = None => Waiting' = job_queue'
      /\ hand' # None => Waiting' = Append(job_queue', hand')
  <2>1. /\ hand' = None => Waiting' = job_queue'
        /\ hand' # None => Waiting' = Append(job_queue', hand')
    <3>1. job_queue' \o <<>> = job_queue'
      BY <1>0
    <3>2. hand' # None => job_queue' \o <<hand'>> = Append(job_queue', hand')
      BY <1>0
    <3> QED
      BY <3>1, <3>2 DEF Waiting
  <2> QED
    BY <1>0, <2>1, WaitingIs
<1>2. CASE teardown
  <2>1. Waiting' = <<>> /\ UNCHANGED <<inbox, proc>> /\ Serving /\ ~ Serving'
    BY <1>1, <1>2 DEF teardown, HandEmpty, Serving
  <2> QED
    BY <2>1, SameGone DEF DispatchStep, Line!Next, Line!Stop, Waiting, Serving, Gone
<1>3. ASSUME NEW e \in batch, AcceptFrontend(e) PROVE DispatchStep
  <2>1. /\ hand = None /\ hand' # None /\ pc' = "dispatch" /\ Serving /\ Serving'
        /\ UNCHANGED <<job_queue, inbox, proc>>
    BY <1>3
       DEF AcceptFrontend, Handle, HandEmpty, TypeInv, HandHeld, Serving, queueVars, workerVars
  <2>2. hand' \in Clients /\ Waiting' = Append(Waiting, hand')
    BY <1>0, <1>1, <2>1
  <2> QED
    BY <2>1, <2>2, SameGone DEF DispatchStep, Line!Next, Line!Accept, Waiting, Serving, Gone
<1>4. ASSUME NEW w \in Workers, Waiting # <<>>, Waiting' = Tail(Waiting),
             inbox' = [inbox EXCEPT ![w] = Append(@, Head(Waiting))],
             Open(w), Serving, Serving', UNCHANGED proc
      PROVE  DispatchStep
  <2>1. w \notin Gone /\ Gone' = Gone
    BY <1>4, SameGone DEF Gone, Ended, Open
  <2> QED
    BY <1>4, <2>1 DEF DispatchStep, Line!Next, Line!Assign, Waiting, Serving, Gone
<1>5. ASSUME NEW e \in batch, HelloTakesJob(e) PROVE DispatchStep
  <2>1. /\ job_queue # <<>> /\ job_queue' = Tail(job_queue)
        /\ sockets[e.pos].peer \in Workers
        /\ inbox' = [inbox EXCEPT ![sockets[e.pos].peer] = Append(@, Head(job_queue))]
        /\ pc = "loop" /\ pc' = "loop" /\ proc' = proc
    BY <1>0, <1>5, HelloTakesJobEffect DEF Pass
  <2>2. Waiting = job_queue /\ Waiting' = job_queue' /\ Serving /\ Serving'
    BY <1>1, <2>1 DEF HandEmpty, Serving
  <2>3. Open(sockets[e.pos].peer)
    BY <1>5 DEF HelloTakesJob
  <2> QED
    BY <1>4, <2>1, <2>2, <2>3
<1>6. CASE DispatchToIdle
  <2> DEFINE p == Head(idle_workers)
  <2>1. /\ pc = "dispatch" /\ idle_workers # <<>> /\ sockets[p].type = "backend"
        /\ inbox' = [inbox EXCEPT ![sockets[p].peer] = Append(@, hand)]
        /\ hand' = None /\ job_queue' = job_queue /\ proc' = proc
        /\ Serving /\ Serving' /\ ~ Hung(p)
    BY <1>6 DEF DispatchToIdle, PopIdle, Pass, Serving, queueVars
  <2>2. sockets[p].peer \in Workers /\ Open(sockets[p].peer)
    BY <1>0, <2>1 DEF TypeInv, TypeOK, Roles, Hung
  <2>3. hand # None /\ hand \in Clients /\ job_queue = <<>>
    BY <1>0, <2>1 DEF TypeInv, HandHeld, WorkConserved
  <2>4. Waiting = <<hand>> /\ Waiting' = <<>>
    BY <1>0, <1>1, <2>1, <2>3
  <2>5. Waiting # <<>> /\ Waiting' = Tail(Waiting) /\ Head(Waiting) = hand
    BY <2>4
  <2> HIDE DEF p
  <2> QED
    BY <1>4, <2>1, <2>2, <2>5
<1>7. CASE LaunchAndQueue
  <2>1. /\ hand \in Clients /\ hand # None /\ hand' = None /\ UNCHANGED inbox
        /\ Serving /\ Serving'
    BY <1>0, <1>7 DEF LaunchAndQueue, TypeInv, HandHeld, Serving
  <2>5. Gone' = Gone
    <3>1. proc' = proc \/ (worker_id_seq \in Workers
                           /\ proc' = [proc EXCEPT ![worker_id_seq] = "registered"])
      BY <1>7 DEF LaunchAndQueue, LaunchWorker
    <3>2. worker_id_seq \in Workers => proc[worker_id_seq] = "none"
      BY DEF OnlyOpenHold, Workers
    <3>3. worker_id_seq \in Workers => Stage(worker_id_seq, {"none"}, "registered") \/ proc' = proc
      BY <3>1, <3>2 DEF Stage
    <3>4. CASE proc' = proc
      BY <3>4, SameGone
    <3>5. CASE worker_id_seq \in Workers /\ Stage(worker_id_seq, {"none"}, "registered")
      BY <1>0, <3>5, StageOfGone DEF Stages
    <3> QED
      BY <3>1, <3>3, <3>4, <3>5
  <2>2. Waiting = Append(job_queue, hand) /\ Waiting' = job_queue'
    BY <1>1, <2>1
  <2>3. CASE Enqueue
    <3>1. Waiting' = Waiting
      BY <2>2, <2>3 DEF Enqueue
    <3> QED
      BY <2>1, <2>5, <3>1 DEF DispatchStep, Line!vars, Waiting, Serving, Gone
  <2>4. CASE Refuse
    <3>1. job_queue' = job_queue /\ Len(job_queue) >= JobQLen
      BY <2>4 DEF Refuse, queueVars
    <3>2. /\ Len(Waiting) = Len(job_queue) + 1 /\ Len(job_queue) \in Nat
          /\ SubSeq(Waiting, 1, Len(Waiting) - 1) = job_queue
      BY <1>0, <2>1, <2>2
    <3>3. Len(Waiting) > JobQLen /\ Waiting' = SubSeq(Waiting, 1, Len(Waiting) - 1)
      BY <2>2, <3>1, <3>2, MasterAssumption
    <3> QED
      BY <2>1, <2>5, <3>3 DEF DispatchStep, Line!Next, Line!Refuse, Waiting, Serving, Gone
  <2> QED
    BY <1>7, <2>3, <2>4 DEF LaunchAndQueue
<1>8. ASSUME NEW w \in Workers, FinishJob(w) PROVE DispatchStep
  <2>1. /\ inbox[w] # <<>> /\ inbox' = [inbox EXCEPT ![w] = Tail(@)]
        /\ UNCHANGED <<job_queue, hand, pc>> /\ Stage(w, {"busy"}, "hello")
    BY <1>0, <1>8 DEF FinishJob, Stage, TypeInv, BusyHasJob, loopVars, queueVars
  <2>2. Gone' = Gone
    BY <1>0, <2>1, StageOfGone DEF Stages
  <2>3. w \notin Gone
    BY <2>1 DEF Stage, Gone, Ended
  <2> QED
    BY <2>1, <2>2, <2>3 DEF DispatchStep, Line!Next, Line!Finish, Serving, Gone
<1>9. ASSUME NEW w \in Workers, NEW from, NEW to \in {"exited", "stopped"}, Stage(w, from, to),
             from \cap {"exited", "stopped", "gone"} = {},
             inbox' = [inbox EXCEPT ![w] = <<>>], UNCHANGED <<job_queue, hand, pc>>
      PROVE  DispatchStep
  <2>1. Gone' = Gone \cup {w} /\ w \notin Gone
    BY <1>0, <1>9, StageOfGone DEF Stages, Stage, Gone, Ended
  <2> QED
    BY <1>9, <2>1 DEF DispatchStep, Line!Next, Line!Lose, Serving, Gone
<1>10. ASSUME NEW w \in Workers, Leave(w) \/ Die(w) PROVE DispatchStep
  <2>1. inbox' = [inbox EXCEPT ![w] = <<>>] /\ UNCHANGED <<job_queue, hand, pc>>
    BY <1>10 DEF Leave, Die, Exits, loopVars, queueVars
  <2>2. \/ Stage(w, {"leaving"}, "exited")
        \/ Stage(w, {"starting", "hello", "idle", "busy"}, "exited")
    BY <1>10 DEF Leave, Die, Exits
  <2> QED
    BY <1>9, <2>1, <2>2
<1>11. ASSUME NEW w \in Workers, Reap(w) PROVE DispatchStep
  <2>1. UNCHANGED <<job_queue, hand, pc, inbox>>
    BY <1>11 DEF Reap, loopVars, queueVars
  <2>2. CASE Stage(w, {"exited"}, "stopped")
    <3>1. Gone' = Gone \cup {w} /\ w \in Gone
      BY <1>0, <2>2, StageOfGone DEF Stages, Stage, Gone, Ended
    <3>2. Gone' = Gone
      BY <3>1
    <3> QED
      BY <2>1, <3>2, LineStutters DEF Serving
  <2>3. CASE Stage(w, {"registered"}, "stopped")
    <3>1. inbox[w] = <<>> /\ inbox \in [Workers -> Seq(Clients)]
      BY <1>0, <2>3 DEF Stage, OnlyOpenHold, Open, TypeInv, TypeOK
    <3>2. inbox' = [inbox EXCEPT ![w] = <<>>]
      BY <2>1, <3>1
    <3> QED
      BY <1>9, <2>1, <2>3, <3>2
  <2> QED
    BY <1>11, <2>2, <2>3 DEF Reap
<1>12. ASSUME NEW w \in Workers, NotifyStopped(w) PROVE DispatchStep
  <2>1. UNCHANGED <<job_queue, hand, pc, inbox>> /\ Stage(w, {"stopped"}, "gone")
    BY <1>12 DEF NotifyStopped, loopVars, queueVars
  <2>2. Gone' = Gone \cup {w} /\ w \in Gone
    BY <1>0, <2>1, StageOfGone DEF Stages, Stage, Gone, Ended
  <2>3. Gone' = Gone
    BY <2>2
  <2> QED
    BY <2>1, <2>3, LineStutters DEF Serving
<1>13. CASE LoopOnly
  BY <1>13, LoopOnlyFrame, LineStutters, SameGone DEF Serving, queueVars, workerVars
<1>14. ASSUME NEW e \in batch,
              \/ on_backend_connect(e) \/ BackendClosed(e) \/ HelloUnexpected(e) \/ RecvFails(e)
              \/ RecvPart(e) \/ HelloFromBroken(e) \/ HelloGoesIdle(e)
       PROVE  DispatchStep
  <2>1. UNCHANGED <<job_queue, hand, inbox, pc, proc>>
    BY <1>14
       DEF on_backend_connect, BackendClosed, HelloUnexpected, RecvFails, RecvPart,
           HelloFromBroken, HelloGoesIdle, queueVars, workerVars
  <2> QED
    BY <2>1, LineStutters, SameGone DEF Serving
<1>15. CASE SkipClosedSlot \/ CloseBroken
  BY <1>15, LineStutters, SameGone
     DEF SkipClosedSlot, CloseBroken, Serving, loopVars, queueVars, workerVars
<1>16. ASSUME NEW w \in Workers, SendHello(w) PROVE DispatchStep
  <2>1. UNCHANGED <<job_queue, hand, inbox, pc>>
    BY <1>16 DEF SendHello, loopVars, queueVars
  <2>2. Gone' = Gone
    BY <1>0, <1>16 DEF SendHello, Gone, Ended, TypeInv, TypeOK
  <2> QED
    BY <2>1, <2>2, LineStutters DEF Serving
<1>17. ASSUME NEW w \in Workers,
              \/ StartWorker(w) \/ ConnectMaster(w) \/ on_readable(w) \/ SeeClosed(w)
              \/ WaitTimesOut(w)
       PROVE  DispatchStep
  <2>1. UNCHANGED <<job_queue, hand, inbox, pc>>
    BY <1>17 DEF StartWorker, ConnectMaster, on_readable, SeeClosed, WaitTimesOut,
                 loopVars, queueVars
  <2>2. \/ Stage(w, {"registered"}, "starting") \/ Stage(w, {"starting"}, "hello")
        \/ Stage(w, {"idle"}, "busy") \/ Stage(w, {"hello", "idle"}, "leaving")
        \/ Stage(w, {"idle"}, "leaving")
    BY <1>17 DEF StartWorker, ConnectMaster, on_readable, SeeClosed, WaitTimesOut
  <2>3. Gone' = Gone
    BY <1>0, <2>2, StageOfGone DEF Stages
  <2> QED
    BY <2>1, <2>3, LineStutters DEF Serving
<1>18. CASE on_sigterm \/ \E c \in Clients, l \in Listeners : Connect(c, l)
  BY <1>18, LineStutters, SameGone DEF on_sigterm, Connect, Serving, loopVars, queueVars, workerVars
<1> QED
  BY <1>2, <1>3, <1>5, <1>6, <1>7, <1>8, <1>10, <1>11, <1>12, <1>13, <1>14, <1>15, <1>16,
     <1>17, <1>18
     DEF Next, MasterNext, WorkerNext, LoopOnly

(* The master implements Dispatch: on_frontend and on_backend hand out the   *)
(* connections in the order in which they were accepted, each to one worker  *)
(* that is there, and none leaves the line otherwise before the master       *)
(* exits, but one refused behind JobQLen others, whatever workers die and    *)
(* whatever calls fail.                                                      *)
THEOREM MasterDispatches == Spec => DispatchSpec
<1>1. Init => Line!Init /\ HandEmpty /\ OnlyOpenHold
  BY DEF Init, Line!Init, HandEmpty, OnlyOpenHold, Ended
<1>2. IInv /\ HandEmpty /\ OnlyOpenHold /\ [Next]_vars => HandEmpty' /\ OnlyOpenHold'
  BY HandEmptyStep, OnlyOpenHoldStep DEF IInv
<1>3. IInv /\ HandEmpty /\ OnlyOpenHold /\ [Next]_vars /\ IInv' /\ HandEmpty'
      => [Line!Next]_(Line!vars)
  <2> SUFFICES ASSUME IInv, HandEmpty, OnlyOpenHold, [Next]_vars, IInv', HandEmpty'
               PROVE  DispatchStep
    BY DEF DispatchStep
  <2>1. CASE Next
    BY <2>1, MasterImplementsStep DEF IInv
  <2>2. CASE UNCHANGED vars
    BY <2>2, LineStutters, SameGone DEF vars, Serving, loopVars, queueVars, workerVars
  <2> QED
    BY <2>1, <2>2
<1> QED
  BY <1>1, <1>2, <1>3, Invariance, PTL DEF Spec, DispatchSpec, Line!Spec

-----------------------------------------------------------------------------
(***************************************************************************)
(* How on_backend reads a hello.  Master counts its bytes; HelloParser has  *)
(* the bytes, and is proved here for every word, id, length and portion.    *)
(***************************************************************************)

\* Bytes that were in the hellos before the one being read.
HelloBase == Len(delivered) * HelloSize

HelloTypes ==
    /\ log \in Seq(Bytes) /\ taken \in 0 .. Len(log)
    /\ read_offset \in 0 .. HelloSize - 1
    /\ worker_id \in [1 .. IdLen -> Bytes]
    /\ open \in BOOLEAN
    /\ delivered \in Seq([1 .. IdLen -> Bytes])

(* The bytes read belong to whole hellos and to the one being read.         *)
HelloInv ==
    /\ HelloTypes
    /\ open => taken = HelloBase + read_offset
    /\ OpenWhileRight
    /\ IdsAsSent

LEMMA HelloSizes ==
    /\ Magic \in Seq(Bytes) /\ MagicLen \in Nat
    /\ IdLen \in Nat /\ IdLen > 0 /\ 0 \in Bytes
    /\ HelloSize \in Nat /\ HelloSize > 0
    /\ HelloSize = MagicLen + IdLen
BY HelloAssumption DEF MagicLen, HelloSize

LEMMA Times ==
    ASSUME NEW a \in Nat, NEW b \in Nat, NEW h \in Nat
    PROVE  /\ a * h \in Nat
           /\ (a + 1) * h = a * h + h
           /\ a <= b => a * h <= b * h
<1>1. a * h \in Nat /\ (a + 1) * h = a * h + h
  OBVIOUS
<1>2. a <= b => a * h <= b * h
  <2>1. SUFFICES ASSUME a <= b PROVE a * h <= b * h
    OBVIOUS
  <2>2. PICK c \in Nat : b = a + c
    <3>1. b - a \in Nat /\ b = a + (b - a)
      BY <2>1
    <3> QED  BY <3>1
  <2>3. c * h \in Nat /\ b * h = a * h + c * h
    BY <2>2
  <2> QED  BY <1>1, <2>3
<1> QED  BY <1>1, <1>2

(* Byte r of a hello behind n others.                                       *)
LEMMA PlaceIs ==
    ASSUME NEW n \in Nat, NEW r \in 1 .. HelloSize
    PROVE  Place(n * HelloSize + r) = r
<1> DEFINE h == HelloSize
           x == n * h + r - 1
<1>1. h \in Nat /\ h > 0
  BY HelloSizes
<1> HIDE DEF h
<1>2. x \in Nat /\ n * h \in Nat
  BY <1>1, Times DEF h
<1>3. x % h \in 0 .. h - 1 /\ x = h * (x \div h) + (x % h) /\ x \div h \in Int
  <2> HIDE DEF x
  <2> QED  BY <1>1, <1>2
<1> DEFINE q == x \div h
           s == x % h
<1>4. q \in Int /\ s \in 0 .. h - 1 /\ n * h + (r - 1) = q * h + s
  BY <1>1, <1>2, <1>3
<1> HIDE DEF q, s, x
<1>5. r - 1 \in 0 .. h - 1
  BY <1>1 DEF h
<1>6. ~ (q > n)
  <2>1. SUFFICES ASSUME q > n PROVE FALSE
    OBVIOUS
  <2>2. (n + 1) * h <= q * h
    BY <2>1, <1>1, <1>4, Times
  <2>3. (n + 1) * h = n * h + h
    BY <1>1, Times
  <2>4. q * h \in Int /\ n * h \in Int
    BY <1>1, <1>4
  <2> QED  BY <2>2, <2>3, <2>4, <1>1, <1>4, <1>5
<1>7. ~ (q < n)
  <2>1. SUFFICES ASSUME q < n PROVE FALSE
    OBVIOUS
  <2>2. PICK c \in Nat : n = q + 1 + c
    <3>1. n - q - 1 \in Nat /\ n = q + 1 + (n - q - 1)
      BY <2>1, <1>4
    <3> QED  BY <3>1
  <2>3. c * h \in Nat /\ n * h = q * h + h + c * h
    BY <2>2, <1>1, <1>4
  <2>4. q * h \in Int
    BY <1>1, <1>4
  <2> QED  BY <2>3, <2>4, <1>1, <1>4, <1>5
<1>8. q = n
  BY <1>4, <1>6, <1>7
<1>9. s = r - 1
  <2>1. n * h \in Int
    BY <1>2
  <2> QED  BY <2>1, <1>4, <1>5, <1>8
<1>10. Place(n * HelloSize + r) = s + 1
  <2> DEFINE y == n * h + r
  <2>1. y \in Nat /\ y - 1 = x
    BY <1>2 DEF x, h
  <2> HIDE DEF y
  <2>2. Place(y) = ((y - 1) % HelloSize) + 1
    BY DEF Place
  <2>3. Place(y) = s + 1
    BY <2>1, <2>2 DEF s, h
  <2> QED  BY <2>3 DEF y, h
<1>11. r \in Int
  OBVIOUS
<1> QED  BY <1>9, <1>10, <1>11

LEMMA HelloMinMax ==
    ASSUME NEW a \in Int, NEW b \in Int
    PROVE  /\ Min({a, b}) = IF a <= b THEN a ELSE b
           /\ Max({a, b}) = IF a <= b THEN b ELSE a
<1>1. \E x \in {a, b} : \A y \in {a, b} : x <= y
  BY SMT
<1>2. \E x \in {a, b} : \A y \in {a, b} : x >= y
  BY SMT
<1>3. Min({a, b}) \in {a, b} /\ Min({a, b}) <= a /\ Min({a, b}) <= b
  BY <1>1 DEF Min
<1>4. Max({a, b}) \in {a, b} /\ Max({a, b}) >= a /\ Max({a, b}) >= b
  BY <1>2 DEF Max
<1> QED  BY <1>3, <1>4

(* What recv() returned continues the hello being read.                     *)
LEMMA PortionFacts ==
    ASSUME HelloInv, NEW n \in 1 .. HelloSize, Portion(n)
    PROVE  /\ open /\ log' = log /\ taken' = taken + n /\ taken + n <= Len(log)
           /\ taken = HelloBase + read_offset /\ HelloBase \in Nat /\ taken \in Nat
           /\ read_offset \in Nat /\ read_offset + n <= HelloSize
           /\ Compared(n) = IF read_offset >= MagicLen THEN 0
                                  ELSE IF n <= MagicLen - read_offset THEN n
                                  ELSE MagicLen - read_offset
           /\ \A i \in 1 .. n : Place(taken + i) = read_offset + i
<1> DEFINE H == HelloSize
           M == MagicLen
<1>1. H \in Nat /\ M \in Nat /\ H > 0
  BY HelloSizes
<1>2. /\ taken \in Nat /\ taken <= Len(log) /\ Len(log) \in Nat
      /\ read_offset \in Nat /\ Len(delivered) \in Nat
  BY <1>1 DEF HelloInv, HelloTypes
<1>3. /\ open /\ log' = log /\ taken' = taken + n
      /\ n <= Min({H - read_offset, Len(log) - taken})
  BY DEF Portion
<1>4. taken = HelloBase + read_offset
  BY <1>3 DEF HelloInv
<1> HIDE DEF H, M
<1>5. n \in Nat /\ n >= 1 /\ H - read_offset \in Int /\ Len(log) - taken \in Int
  BY <1>1, <1>2 DEF H
<1>6. n <= H - read_offset /\ n <= Len(log) - taken
  <2>1. Min({H - read_offset, Len(log) - taken})
           = IF H - read_offset <= Len(log) - taken THEN H - read_offset ELSE Len(log) - taken
    BY <1>5, HelloMinMax
  <2> QED  BY <2>1, <1>3, <1>5
<1>7. Compared(n) = IF read_offset >= M THEN 0
                          ELSE IF n <= M - read_offset THEN n ELSE M - read_offset
  <2>1. M - read_offset \in Int
    BY <1>1, <1>2
  <2> DEFINE m == Min({M - read_offset, n})
  <2>2. m = IF M - read_offset <= n THEN M - read_offset ELSE n
    BY <2>1, <1>5, HelloMinMax
  <2>3. m \in Int
    BY <2>1, <2>2, <1>5
  <2>4. Compared(n) = Max({0, m})
    BY DEF Compared, M
  <2> HIDE DEF m
  <2>5. Max({0, m}) = IF 0 <= m THEN m ELSE 0
    <3>1. 0 \in Int
      OBVIOUS
    <3> QED  BY <3>1, <2>3, HelloMinMax, Zenon
  <2> QED  BY <2>1, <2>2, <2>3, <2>4, <2>5, <1>1, <1>2, <1>5
<1>8. HelloBase \in Nat
  BY <1>1, <1>2, Times DEF HelloBase, H
<1>9. ASSUME NEW i \in 1 .. n
      PROVE  Place(taken + i) = read_offset + i
  <2>1. read_offset + i \in 1 .. H
    BY <1>1, <1>2, <1>5, <1>6
  <2>2. Place(Len(delivered) * H + (read_offset + i)) = read_offset + i
    BY <2>1, <1>2, PlaceIs DEF H
  <2>3. taken + i = HelloBase + (read_offset + i)
    BY <1>2, <1>4, <1>5, <1>8
  <2> QED  BY <2>2, <2>3 DEF HelloBase, H
<1>10. read_offset + n <= H /\ taken + n <= Len(log)
  BY <1>1, <1>2, <1>5, <1>6
<1> QED  BY <1>2, <1>3, <1>4, <1>7, <1>8, <1>9, <1>10 DEF H, M

(* Its comparison is the one of its bytes with those of the word.           *)
LEMMA MatchesWord ==
    ASSUME HelloInv, NEW n \in 1 .. HelloSize, Portion(n)
    PROVE  MagicMatches(n) <=>
              \A k \in taken + 1 .. taken + n :
                 Place(k) <= MagicLen => log[k] = Magic[Place(k)]
<1> DEFINE M == MagicLen
           C == Compared(n)
<1>1. M \in Nat /\ n \in Nat /\ n >= 1
  BY HelloSizes
<1>2. /\ taken \in Nat /\ read_offset \in Nat
      /\ C = IF read_offset >= M THEN 0
             ELSE IF n <= M - read_offset THEN n ELSE M - read_offset
      /\ \A i \in 1 .. n : Place(taken + i) = read_offset + i
  BY PortionFacts
<1>3. MagicMatches(n) <=> \A i \in 1 .. C : Magic[read_offset + i] = log[taken + i]
  BY DEF MagicMatches, buf
<1> HIDE DEF M, C
<1>4. \A i \in Int : i \in 1 .. C <=> i \in 1 .. n /\ read_offset + i <= M
  BY <1>1, <1>2
<1>5. ASSUME \A i \in 1 .. C : Magic[read_offset + i] = log[taken + i],
             NEW k \in taken + 1 .. taken + n, Place(k) <= M
      PROVE  log[k] = Magic[Place(k)]
  <2> DEFINE i == k - taken
  <2>1. i \in 1 .. n /\ i \in Int /\ k = taken + i
    BY <1>1, <1>2
  <2> HIDE DEF i
  <2>2. Place(k) = read_offset + i
    BY <2>1, <1>2
  <2>3. i \in 1 .. C
    BY <2>1, <2>2, <1>4, <1>5
  <2> QED  BY <2>1, <2>2, <2>3, <1>5
<1>6. ASSUME \A k \in taken + 1 .. taken + n : Place(k) <= M => log[k] = Magic[Place(k)],
             NEW i \in 1 .. C
      PROVE  Magic[read_offset + i] = log[taken + i]
  <2>1. i \in Int
    OBVIOUS
  <2>2. i \in 1 .. n /\ read_offset + i <= M
    BY <2>1, <1>4
  <2>3. taken + i \in taken + 1 .. taken + n
    BY <2>2, <1>1, <1>2
  <2> QED  BY <2>2, <2>3, <1>2, <1>6
<1> QED  BY <1>3, <1>5, <1>6 DEF M

(* A portion that does not match closes the socket, one that does keeps it. *)
LEMMA AcceptKeeps ==
    ASSUME HelloInv, NEW n \in 1 .. HelloSize, Portion(n),
           open' <=> MagicMatches(n)
    PROVE  OpenWhileRight'
<1> DEFINE Right(k) == Place(k) <= MagicLen => log[k] = Magic[Place(k)]
<1>1. /\ open /\ log' = log /\ taken' = taken + n /\ taken \in Nat /\ n \in Nat /\ n >= 1
  BY PortionFacts, HelloSizes
<1>2. \A k \in 1 .. taken : Right(k)
  BY <1>1 DEF HelloInv, OpenWhileRight
<1>3. open' <=> \A k \in taken + 1 .. taken + n : Right(k)
  BY MatchesWord
<1>4. OpenWhileRight' <=> (open' <=> \A k \in 1 .. taken + n : Right(k))
  BY <1>1 DEF OpenWhileRight, Place, HelloSize, MagicLen
<1> HIDE DEF Right
<1> QED  BY <1>1, <1>2, <1>3, <1>4

(* The bytes of ids, whole and unfinished, were taken.                      *)
LEMMA IdBytesTaken ==
    ASSUME HelloInv, open
    PROVE  /\ \A h \in 1 .. Len(delivered), j \in 1 .. IdLen :
                 (h - 1) * HelloSize + MagicLen + j \in 1 .. taken
           /\ \A j \in 1 .. read_offset - MagicLen :
                 HelloBase + MagicLen + j \in 1 .. taken
<1> DEFINE H == HelloSize
           M == MagicLen
           L == Len(delivered)
<1>1. H \in Nat /\ M \in Nat /\ IdLen \in Nat /\ H = M + IdLen
  BY HelloSizes
<1>2. L \in Nat /\ read_offset \in Nat /\ taken = L * H + read_offset
  BY <1>1 DEF HelloInv, HelloTypes, HelloBase
<1> HIDE DEF H, M, L
<1>3. L * H \in Nat
  BY <1>1, <1>2, Times
<1>4. ASSUME NEW h \in 1 .. L, NEW j \in 1 .. IdLen
      PROVE  (h - 1) * H + M + j \in 1 .. taken
  <2>1. h \in Nat /\ h - 1 \in Nat /\ h <= L /\ (h - 1) + 1 = h
    BY <1>2
  <2>2. (h - 1) * H \in Nat /\ h * H = (h - 1) * H + H /\ h * H <= L * H
    <3>1. (h - 1) * H \in Nat /\ ((h - 1) + 1) * H = (h - 1) * H + H
      BY <2>1, <1>1, Times
    <3>2. h * H <= L * H
      BY <2>1, <1>1, <1>2, Times
    <3> QED  BY <2>1, <3>1, <3>2
  <2>3. M + j <= H /\ M + j >= 1 /\ M + j \in Nat
    BY <1>1
  <2> DEFINE x == (h - 1) * H
             y == h * H
             z == L * H
  <2>4. x \in Nat /\ y = x + H /\ y <= z /\ z \in Nat /\ taken = z + read_offset
    BY <2>2, <1>2, <1>3
  <2> HIDE DEF x, y, z
  <2>5. x + M + j \in 1 .. taken
    BY <2>3, <2>4, <1>1, <1>2
  <2> QED  BY <2>5 DEF x
<1>5. ASSUME NEW j \in 1 .. read_offset - M
      PROVE  L * H + M + j \in 1 .. taken
  BY <1>1, <1>2, <1>3
<1> QED  BY <1>4, <1>5 DEF H, M, L, HelloBase

(* What is stored continues the id where it was left.                       *)
LEMMA IdGoesOn ==
    ASSUME HelloInv, NEW n \in 1 .. HelloSize, Portion(n)
    PROVE  /\ StoreId(n) \in [1 .. IdLen -> Bytes]
           /\ \A j \in 1 .. read_offset + n - MagicLen :
                 j \in 1 .. IdLen /\ StoreId(n)[j] = log[HelloBase + MagicLen + j]
<1> DEFINE H == HelloSize
           M == MagicLen
           C == Compared(n)
           start == Max({0, read_offset - M})
<1>1. H \in Nat /\ M \in Nat /\ IdLen \in Nat /\ H = M + IdLen /\ n \in Nat /\ n >= 1
  BY HelloSizes
<1>2. /\ open /\ taken + n <= Len(log)
      /\ taken = HelloBase + read_offset /\ HelloBase \in Nat /\ taken \in Nat
      /\ read_offset \in Nat /\ read_offset + n <= H
      /\ C = IF read_offset >= M THEN 0 ELSE IF n <= M - read_offset THEN n
             ELSE M - read_offset
  BY PortionFacts
<1>3. /\ log \in Seq(Bytes) /\ worker_id \in [1 .. IdLen -> Bytes]
      /\ \A j \in 1 .. read_offset - M : worker_id[j] = log[HelloBase + M + j]
  BY <1>2 DEF HelloInv, HelloTypes, IdsAsSent, HelloBase
<1>4. start = IF read_offset <= M THEN 0 ELSE read_offset - M
  <2>1. 0 \in Int /\ read_offset - M \in Int
    BY <1>1, <1>2
  <2>2. start = IF 0 <= read_offset - M THEN read_offset - M ELSE 0
    BY <2>1, HelloMinMax, Zenon
  <2> QED  BY <2>2, <1>1, <1>2
<1>5. StoreId(n) = [j \in 1 .. IdLen |->
           IF start < j /\ j <= start + n - C THEN log[taken + (C + j - start)] ELSE worker_id[j]]
  BY DEF StoreId, buf
<1> HIDE DEF H, M, C, start
<1>6. ASSUME NEW j \in 1 .. IdLen, start < j, j <= start + n - C
      PROVE  /\ log[taken + (C + j - start)] \in Bytes
             /\ taken + (C + j - start) = HelloBase + M + j \/ read_offset + n - M < j
  <2>1. C + j - start \in 1 .. n
    BY <1>1, <1>2, <1>4, <1>6
  <2>2. taken + (C + j - start) \in 1 .. Len(log)
    BY <2>1, <1>1, <1>2
  <2>3. taken + (C + j - start) = HelloBase + M + j \/ read_offset + n - M < j
    BY <1>1, <1>2, <1>4, <1>6
  <2> QED  BY <2>2, <2>3, <1>3
<1>7. StoreId(n) \in [1 .. IdLen -> Bytes]
  BY <1>3, <1>5, <1>6
<1>8. ASSUME NEW j \in 1 .. read_offset + n - M
      PROVE  j \in 1 .. IdLen /\ StoreId(n)[j] = log[HelloBase + M + j]
  <2>1. j \in 1 .. IdLen /\ j \in Int /\ ~ (read_offset + n - M < j)
    BY <1>1, <1>2
  <2>2. CASE start < j
    <3>1. j <= start + n - C
      BY <2>1, <2>2, <1>1, <1>2, <1>4
    <3>2. taken + (C + j - start) = HelloBase + M + j
      BY <2>1, <2>2, <3>1, <1>6
    <3> QED  BY <2>1, <2>2, <3>1, <3>2, <1>5
  <2>3. CASE j <= start
    <3>1. j \in 1 .. read_offset - M /\ ~ (start < j)
      BY <2>1, <2>3, <1>1, <1>2, <1>4
    <3> QED  BY <2>1, <3>1, <1>3, <1>5
  <2>4. start \in Int
    BY <1>1, <1>2, <1>4
  <2> QED  BY <2>1, <2>2, <2>3, <2>4
<1> QED  BY <1>7, <1>8 DEF M

LEMMA SendKeeps ==
    ASSUME HelloInv, NEW b \in Bytes, Send(b)
    PROVE  HelloInv'
<1>1. /\ log' = Append(log, b)
      /\ UNCHANGED <<taken, read_offset, worker_id, open, delivered>>
  BY DEF Send
<1>2. log \in Seq(Bytes) /\ taken \in Nat /\ taken <= Len(log) /\ Len(log) \in Nat
  BY DEF HelloInv, HelloTypes
<1>3. /\ log' \in Seq(Bytes) /\ Len(log') = Len(log) + 1
      /\ \A k \in 1 .. taken : log'[k] = log[k]
  BY <1>1, <1>2
<1>4. HelloTypes'
  <2>1. taken' \in 0 .. Len(log')
    BY <1>1, <1>2, <1>3
  <2> QED  BY <2>1, <1>1, <1>3 DEF HelloInv, HelloTypes, HelloSize, MagicLen
<1>5. open' => taken' = HelloBase' + read_offset'
  BY <1>1 DEF HelloInv, HelloBase, HelloSize, MagicLen
<1>6. OpenWhileRight'
  <2>1. OpenWhileRight' <=> (open <=> \A k \in 1 .. taken :
           Place(k) <= MagicLen => log[k] = Magic[Place(k)])
    BY <1>1, <1>3 DEF OpenWhileRight, Place, HelloSize, MagicLen
  <2> QED  BY <2>1 DEF HelloInv, OpenWhileRight
<1>7. IdsAsSent'
  <2>1. SUFFICES ASSUME open PROVE IdsAsSent'
    BY <1>1 DEF IdsAsSent
  <2>2. /\ \A h \in 1 .. Len(delivered), j \in 1 .. IdLen :
              log'[(h - 1) * HelloSize + MagicLen + j]
                 = log[(h - 1) * HelloSize + MagicLen + j]
        /\ \A j \in 1 .. read_offset - MagicLen :
              log'[HelloBase + MagicLen + j] = log[HelloBase + MagicLen + j]
    BY <2>1, <1>3, IdBytesTaken
  <2>3. /\ taken = HelloBase + read_offset
        /\ \A h \in 1 .. Len(delivered), j \in 1 .. IdLen :
              delivered[h][j] = log[(h - 1) * HelloSize + MagicLen + j]
        /\ \A j \in 1 .. read_offset - MagicLen :
              worker_id[j] = log[HelloBase + MagicLen + j]
    BY <2>1 DEF HelloInv, IdsAsSent, HelloBase
  <2>4. /\ \A h \in 1 .. Len(delivered), j \in 1 .. IdLen :
              delivered[h][j] = log'[(h - 1) * HelloSize + MagicLen + j]
        /\ \A j \in 1 .. read_offset - MagicLen :
              worker_id[j] = log'[HelloBase + MagicLen + j]
    BY <2>2, <2>3
  <2> QED  BY <2>3, <2>4, <1>1 DEF IdsAsSent, HelloBase
<1> QED  BY <1>4, <1>5, <1>6, <1>7 DEF HelloInv

LEMMA BadHelloKeeps ==
    ASSUME HelloInv, NEW n \in 1 .. HelloSize, BadHello(n)
    PROVE  HelloInv'
<1>1. /\ Portion(n) /\ open' = FALSE /\ ~ MagicMatches(n) /\ read_offset' = 0
      /\ worker_id' = [j \in 1 .. IdLen |-> 0] /\ delivered' = delivered
  BY DEF BadHello
<1>2. log' = log /\ taken' = taken + n /\ taken + n <= Len(log) /\ taken \in Nat
  BY <1>1, PortionFacts
<1>3. HelloTypes'
  <2>1. taken' \in 0 .. Len(log') /\ n \in Nat
    BY <1>2, HelloSizes DEF HelloInv, HelloTypes
  <2>2. read_offset' \in 0 .. HelloSize - 1
    BY <1>1, HelloSizes
  <2>3. worker_id' \in [1 .. IdLen -> Bytes]
    BY <1>1, HelloSizes
  <2> QED  BY <2>1, <2>2, <2>3, <1>1, <1>2 DEF HelloInv, HelloTypes, HelloSize, MagicLen
<1>4. OpenWhileRight'
  BY <1>1, AcceptKeeps
<1>5. IdsAsSent' /\ ~ open'
  BY <1>1 DEF IdsAsSent
<1> QED  BY <1>3, <1>4, <1>5 DEF HelloInv

LEMMA PartOfHelloKeeps ==
    ASSUME HelloInv, NEW n \in 1 .. HelloSize, PartOfHello(n)
    PROVE  HelloInv'
<1>1. /\ Portion(n) /\ MagicMatches(n) /\ read_offset + n # HelloSize
      /\ worker_id' = StoreId(n) /\ read_offset' = read_offset + n
      /\ open' = open /\ delivered' = delivered
  BY DEF PartOfHello
<1>2. /\ open /\ log' = log /\ taken' = taken + n /\ taken + n <= Len(log) /\ taken \in Nat
      /\ taken = HelloBase + read_offset /\ HelloBase \in Nat /\ read_offset \in Nat
      /\ read_offset + n <= HelloSize /\ n \in Nat /\ HelloSize \in Nat
  BY <1>1, PortionFacts, HelloSizes
<1>3. HelloBase' = HelloBase
  BY <1>1 DEF HelloBase, HelloSize, MagicLen
<1>4. HelloTypes'
  <2>1. taken' \in 0 .. Len(log')
    BY <1>2 DEF HelloInv, HelloTypes
  <2>2. read_offset' \in 0 .. HelloSize - 1
    BY <1>1, <1>2
  <2>3. worker_id' \in [1 .. IdLen -> Bytes]
    BY <1>1, IdGoesOn
  <2> QED  BY <2>1, <2>2, <2>3, <1>1, <1>2 DEF HelloInv, HelloTypes, HelloSize, MagicLen
<1>5. taken' = HelloBase' + read_offset'
  BY <1>1, <1>2, <1>3
<1>6. OpenWhileRight'
  BY <1>1, <1>2, AcceptKeeps
<1>7. IdsAsSent'
  <2>1. \A j \in 1 .. read_offset' - MagicLen :
           worker_id'[j] = log'[HelloBase' + MagicLen + j]
    <3>1. \A j \in 1 .. read_offset + n - MagicLen :
             StoreId(n)[j] = log[HelloBase + MagicLen + j]
      BY <1>1, IdGoesOn
    <3>2. read_offset' - MagicLen = read_offset + n - MagicLen
      BY <1>1, <1>2, HelloSizes
    <3>3. \A j \in 1 .. read_offset' - MagicLen :
             worker_id'[j] = log[HelloBase + MagicLen + j]
      BY <3>1, <3>2, <1>1
    <3> QED  BY <3>3, <1>2, <1>3
  <2>2. \A h \in 1 .. Len(delivered), j \in 1 .. IdLen :
           delivered[h][j] = log[(h - 1) * HelloSize + MagicLen + j]
    BY <1>2 DEF HelloInv, IdsAsSent
  <2> QED  BY <2>1, <2>2, <1>1, <1>2, <1>5 DEF IdsAsSent, HelloBase, HelloSize,
              MagicLen
<1> QED  BY <1>4, <1>5, <1>6, <1>7 DEF HelloInv

LEMMA HelloCompleteKeeps ==
    ASSUME HelloInv, NEW n \in 1 .. HelloSize, HelloComplete(n)
    PROVE  HelloInv'
<1> DEFINE L == Len(delivered)
<1>1. /\ Portion(n) /\ MagicMatches(n) /\ read_offset + n = HelloSize
      /\ worker_id' = StoreId(n) /\ read_offset' = 0
      /\ open' = open /\ delivered' = Append(delivered, worker_id')
  BY DEF HelloComplete
<1>2. /\ open /\ log' = log /\ taken' = taken + n /\ taken + n <= Len(log) /\ taken \in Nat
      /\ taken = HelloBase + read_offset /\ HelloBase \in Nat /\ read_offset \in Nat
      /\ n \in Nat /\ HelloSize \in Nat /\ HelloSize > 0
      /\ MagicLen \in Nat /\ IdLen \in Nat
      /\ HelloSize = MagicLen + IdLen
  BY <1>1, PortionFacts, HelloSizes
<1>3. worker_id' \in [1 .. IdLen -> Bytes]
  BY <1>1, IdGoesOn
<1>4. /\ delivered \in Seq([1 .. IdLen -> Bytes]) /\ L \in Nat
      /\ delivered' \in Seq([1 .. IdLen -> Bytes]) /\ Len(delivered') = L + 1
      /\ delivered'[L + 1] = worker_id' /\ \A h \in 1 .. L : delivered'[h] = delivered[h]
  BY <1>1, <1>3 DEF HelloInv, HelloTypes
<1> HIDE DEF L
<1>5. HelloBase' = HelloBase + HelloSize
  <2>1. (L + 1) * HelloSize = L * HelloSize + HelloSize
    BY <1>2, <1>4, Times
  <2>2. HelloBase' = Len(delivered') * HelloSize
    BY DEF HelloBase, HelloSize, MagicLen
  <2> QED  BY <2>1, <2>2, <1>4 DEF HelloBase, L
<1>6. HelloTypes'
  <2>1. taken' \in 0 .. Len(log')
    BY <1>2 DEF HelloInv, HelloTypes
  <2>2. read_offset' \in 0 .. HelloSize - 1
    BY <1>1, <1>2
  <2> QED  BY <2>1, <2>2, <1>1, <1>2, <1>3, <1>4 DEF HelloInv, HelloTypes, HelloSize,
              MagicLen
<1>7. taken' = HelloBase' + read_offset'
  BY <1>1, <1>2, <1>5
<1>8. OpenWhileRight'
  BY <1>1, <1>2, AcceptKeeps
<1>9. IdsAsSent'
  <2>1. ASSUME NEW h \in 1 .. L + 1, NEW j \in 1 .. IdLen
        PROVE  delivered'[h][j] = log[(h - 1) * HelloSize + MagicLen + j]
    <3>1. CASE h \in 1 .. L
      <4>1. delivered[h][j] = log[(h - 1) * HelloSize + MagicLen + j]
        BY <3>1, <1>2 DEF HelloInv, IdsAsSent, L
      <4> QED  BY <3>1, <4>1, <1>4
    <3>2. CASE h = L + 1
      <4>1. j \in 1 .. read_offset + n - MagicLen
        BY <1>1, <1>2
      <4>2. worker_id'[j] = log[HelloBase + MagicLen + j]
        BY <4>1, <1>1, IdGoesOn
      <4>3. h - 1 = L
        BY <3>2, <1>4
      <4> QED  BY <3>2, <4>2, <4>3, <1>4 DEF HelloBase, L
    <3> QED  BY <3>1, <3>2, <1>4
  <2>2. \A j \in 1 .. read_offset' - MagicLen : FALSE
    BY <1>1, <1>2
  <2>3. HelloSize' = HelloSize /\ MagicLen' = MagicLen
    BY DEF HelloSize, MagicLen
  <2>4. /\ taken' = Len(delivered') * HelloSize + read_offset'
        /\ \A h \in 1 .. Len(delivered'), j \in 1 .. IdLen :
              delivered'[h][j] = log'[(h - 1) * HelloSize + MagicLen + j]
    BY <2>1, <2>3, <1>2, <1>4, <1>7 DEF HelloBase
  <2> QED  BY <2>2, <2>3, <2>4 DEF IdsAsSent
<1> QED  BY <1>6, <1>7, <1>8, <1>9 DEF HelloInv

LEMMA HelloKeeps ==
    ASSUME HelloInv, [HelloNext]_hello_vars
    PROVE  HelloInv'
<1>1. CASE HelloNext
  BY <1>1, SendKeeps, BadHelloKeeps, PartOfHelloKeeps, HelloCompleteKeeps DEF HelloNext
<1>2. CASE UNCHANGED hello_vars
  BY <1>2 DEF hello_vars, HelloInv, HelloTypes, HelloBase, OpenWhileRight, IdsAsSent,
     Place, HelloSize, MagicLen
<1> QED  BY <1>1, <1>2

LEMMA HelloStarts ==
    ASSUME HelloInit
    PROVE  HelloInv
<1>1. /\ log = <<>> /\ taken = 0 /\ read_offset = 0 /\ open = TRUE /\ delivered = <<>>
      /\ worker_id = [j \in 1 .. IdLen |-> 0]
  BY DEF HelloInit
<1>2. /\ HelloSize \in Nat /\ HelloSize > 0 /\ MagicLen \in Nat
      /\ 0 \in Bytes
  BY HelloSizes
<1>3. /\ log \in Seq(Bytes) /\ delivered \in Seq([1 .. IdLen -> Bytes])
      /\ Len(log) = 0 /\ Len(delivered) = 0
  BY <1>1
<1>4. HelloTypes
  <2>1. read_offset \in 0 .. HelloSize - 1 /\ taken \in 0 .. Len(log)
    BY <1>1, <1>2, <1>3
  <2>2. open \in BOOLEAN /\ worker_id \in [1 .. IdLen -> Bytes]
    BY <1>1, <1>2
  <2> QED  BY <2>1, <2>2, <1>3 DEF HelloTypes
<1>5. 0 * HelloSize = 0
  BY <1>2
<1>6. taken = HelloBase + read_offset
  BY <1>1, <1>3, <1>5 DEF HelloBase
<1>7. OpenWhileRight
  BY <1>1 DEF OpenWhileRight
<1>8. IdsAsSent
  <2>1. \A j \in 1 .. read_offset - MagicLen : FALSE
    BY <1>1, <1>2
  <2> QED  BY <2>1, <1>3, <1>6 DEF IdsAsSent, HelloBase
<1> QED  BY <1>4, <1>6, <1>7, <1>8 DEF HelloInv

(* on_backend accepts a peer exactly as long as the words in its stream are *)
(* right, for every word and however recv() cuts the stream.                *)
THEOREM HellosAreChecked == HelloSpec => []OpenWhileRight
<1>1. HelloInit => HelloInv
  BY HelloStarts
<1>2. HelloInv /\ [HelloNext]_hello_vars => HelloInv'
  BY HelloKeeps
<1>3. HelloInv => OpenWhileRight
  BY DEF HelloInv
<1> QED  BY <1>1, <1>2, <1>3, PTL DEF HelloSpec

(* The worker_id of each hello is the one sent, in whatever portions.       *)
THEOREM HellosCarryTheirId == HelloSpec => []IdsAsSent
<1>1. HelloInit => HelloInv
  BY HelloStarts
<1>2. HelloInv /\ [HelloNext]_hello_vars => HelloInv'
  BY HelloKeeps
<1>3. HelloInv => IdsAsSent
  BY DEF HelloInv
<1> QED  BY <1>1, <1>2, <1>3, PTL DEF HelloSpec
=============================================================================
