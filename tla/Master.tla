------------------------------- MODULE Master -------------------------------
(***************************************************************************)
(* The rustica master (src/rustica/master.c): it accepts client            *)
(* connections, passes each to an idle worker over a Unix socket, launches *)
(* workers on demand, queues connections while every worker is busy and    *)
(* stops accepting while the queue is full.                                *)
(*                                                                         *)
(* The master is one process: each handler is an action, split where a     *)
(* signal or the death of a worker in the middle can be told apart.        *)
(* Around it run the clients, the workers (worker.c, seen from their       *)
(* socket) and the postmaster, which starts and reaps the workers.         *)
(*                                                                         *)
(* The three rings of the code are sequences: the free positions of the    *)
(* wait set (EventSet implements that), idle_workers and job_queue.        *)
(***************************************************************************)
EXTENDS Integers, Sequences, FiniteSets

CONSTANTS
    MaxWorkerProcesses,  \* the max_worker_processes setting
    NumListen,           \* listening sockets (MAXLISTEN at most)
    JobQLen,             \* JOB_QLEN, 1024 in the code
    MaxEvents,           \* events one wait returns, MAXLISTEN in the code
    HelloLen,            \* bytes of a worker's hello, 12 in the code
    Clients,             \* client connections
    None,                \* no client, no worker
    MaxLaunches,         \* bound on worker_id_seq
    IdleTimeout,         \* TRUE when rustica.worker_idle_timeout # 0
    MayShutDown,         \* TRUE when SIGTERM may come
    Faults               \* the failures that may happen, see below

ASSUME MasterAssumption ==
    /\ MaxWorkerProcesses \in Nat /\ MaxWorkerProcesses >= 1
    /\ NumListen \in Nat \ {0}
    /\ JobQLen \in Nat \ {0}
    /\ MaxEvents \in Nat \ {0}
    /\ HelloLen \in 1 .. 12
    /\ MaxLaunches \in Nat
    /\ None \notin Clients /\ None \notin Nat
    /\ IdleTimeout \in BOOLEAN /\ MayShutDown \in BOOLEAN
    \* accept() fails; RegisterDynamicBackgroundWorker fails; recv() fails;
    \* a worker dies (an error in its job is rethrown, FATAL, kill)
    /\ Faults \subseteq {"accept", "launch", "recv", "crash"}

Workers == 0 .. MaxLaunches - 1      \* by worker_id

TotalSockets == 1 + NumListen + MaxWorkerProcesses
Positions == 0 .. TotalSockets - 1
LatchPos == 0
IpcPos == 1
Listeners == 2 .. NumListen + 1

VARIABLES
    \* the master
    pc,               \* "loop", inside a handler, or "down"
    batch,            \* collected events not handled yet
    hand,             \* the connection on_frontend is placing, or None
    sockets,          \* position -> type, peer, interest, read_offset
    free,             \* free positions of the wait set
    idle_workers,     \* positions of workers waiting for a job
    job_queue,        \* connections waiting for a worker
    frontend_paused,
    worker_handles,   \* workers whose handle is kept
    num_workers,
    worker_id_seq,
    worker_died, latch, shutdown_requested,   \* set by signal handlers
    \* its surroundings
    pending,          \* listener -> connections not accepted yet
    client,           \* what has become of each connection
    ipc_backlog,      \* workers connected but not accepted yet
    proc,             \* worker -> stage of its process
    rbuf,             \* worker -> bytes of hello the master has not read
    sent,             \* worker -> bytes of the current hello it has sent
    inbox             \* worker -> connections passed to it and not finished

loopVars   == <<pc, batch, hand>>
poolVars   == <<sockets, free, idle_workers>>
queueVars  == <<job_queue, frontend_paused>>
handleVars == <<worker_handles, num_workers, worker_id_seq>>
signalVars == <<worker_died, latch, shutdown_requested>>
clientVars == <<pending, client>>
workerVars == <<ipc_backlog, proc, rbuf, sent, inbox>>

vars == <<loopVars, poolVars, queueVars, handleVars, signalVars, clientVars,
          workerVars>>

MinOf(a, b) == IF a < b THEN a ELSE b
MaxOf(a, b) == IF a < b THEN b ELSE a

-----------------------------------------------------------------------------
(* The state of a socket slot: type, the worker at the other end, what the  *)
(* wait set watches it for and how much of the hello has been read.         *)
SocketType == [type : {"unset", "ipc", "frontend", "backend"},
               peer : Workers \cup {None},
               interest : {"none", "accept", "readable", "closed"},
               read_offset : 0 .. 255]

Slot(type, peer, interest, read_offset) ==
    [type |-> type, peer |-> peer, interest |-> interest, read_offset |-> read_offset]

Zeroed == Slot("unset", None, "none", 0)

\* ModifyWaitEventEx
Watch(slot, interest) == Slot(slot.type, slot.peer, interest, slot.read_offset)

Stages == {"none", "registered", "starting", "hello", "idle", "leaving",
           "busy", "exited", "stopped", "gone"}

\* The worker's end of its connection is open: a sendmsg to it succeeds.
Open(w) == proc[w] \in {"hello", "idle", "leaving", "busy"}

\* BGWH_STOPPED: the postmaster has reaped the process.
Stopped(w) == proc[w] \in {"stopped", "gone"}

Fates == {"out", "backlog", "hand", "queued", "passed", "done", "lost", "refused"}

InitialSlot(p) == IF p = IpcPos THEN Slot("ipc", None, "accept", 0)
                  ELSE IF p \in Listeners THEN Slot("frontend", None, "accept", 0)
                  ELSE Zeroed

Init ==
    /\ pc = "loop" /\ batch = {} /\ hand = None
    /\ sockets = [p \in Positions |-> InitialSlot(p)]
    /\ free = [i \in 1 .. MaxWorkerProcesses - 1 |-> NumListen + 1 + i]
    /\ idle_workers = <<>>
    /\ job_queue = <<>> /\ frontend_paused = FALSE
    /\ worker_handles = {} /\ num_workers = 0 /\ worker_id_seq = 0
    /\ worker_died = FALSE /\ latch = FALSE /\ shutdown_requested = FALSE
    /\ pending = [l \in Listeners |-> <<>>]
    /\ client = [c \in Clients |-> "out"]
    /\ ipc_backlog = <<>>
    /\ proc = [w \in Workers |-> "none"]
    /\ rbuf = [w \in Workers |-> 0]
    /\ sent = [w \in Workers |-> 0]
    /\ inbox = [w \in Workers |-> <<>>]

-----------------------------------------------------------------------------
(* The wait set                                                             *)

Hung(p) == sockets[p].type = "backend" /\ ~ Open(sockets[p].peer)

IsReady(p) ==
    \/ p = LatchPos /\ latch
    \/ sockets[p].type = "ipc" /\ ipc_backlog # <<>>
    \/ sockets[p].type = "frontend" /\ sockets[p].interest = "accept" /\ pending[p] # <<>>
    \/ Hung(p)
    \/ /\ sockets[p].type = "backend" /\ sockets[p].interest = "readable"
       /\ rbuf[sockets[p].peer] > 0

\* peer is kept to tell whom the event was about; the code keeps the slot.
EventType == [pos : Positions, peer : Workers \cup {None}, closed : BOOLEAN]
EventAt(p) == [pos |-> p, peer |-> sockets[p].peer, closed |-> Hung(p)]

\* WaitEventSetWaitEx returns at most MaxEvents of what is ready.
Collect ==
    LET ready == {p \in Positions : IsReady(p)} IN
    /\ pc = "loop" /\ batch = {} /\ ready # {}
    /\ \E P \in SUBSET ready :
          /\ Cardinality(P) = MinOf(MaxEvents, Cardinality(ready))
          /\ batch' = {EventAt(p) : p \in P}
    /\ UNCHANGED <<pc, hand, poolVars, queueVars, handleVars, signalVars,
                   clientVars, workerVars>>

\* The events of a batch come in an order the code has no say in.
Handle(e, type) ==
    /\ pc = "loop" /\ e \in batch
    /\ sockets[e.pos].type = type
    /\ batch' = batch \ {e}

\* The slot of the event was closed earlier in the batch: nothing happens.
IgnoreStale(e) ==
    /\ Handle(e, "unset") /\ e.pos # LatchPos
    /\ UNCHANGED <<pc, hand, poolVars, queueVars, handleVars, signalVars,
                   clientVars, workerVars>>

-----------------------------------------------------------------------------
(* The latch: shutdown and deaths of workers                                *)

ResetLatch(e) ==
    /\ Handle(e, "unset") /\ e.pos = LatchPos
    /\ IF shutdown_requested
       THEN pc' = "teardown" /\ UNCHANGED latch
       ELSE pc' = "latched" /\ latch' = FALSE
    /\ UNCHANGED <<hand, poolVars, queueVars, handleVars, worker_died,
                   shutdown_requested, clientVars, workerVars>>

CheckDied ==
    /\ pc = "latched"
    /\ pc' = IF worker_died THEN "scan" ELSE "loop"
    /\ worker_died' = FALSE
    /\ UNCHANGED <<batch, hand, poolVars, queueVars, handleVars, latch,
                   shutdown_requested, clientVars, workerVars>>

\* Slip: the handles are freed and the count is not corrected.
DeathNotCounted ==
    /\ pc = "scan" /\ pc' = "loop"
    /\ worker_handles' = {w \in worker_handles : ~ Stopped(w)}
    /\ UNCHANGED <<batch, hand, poolVars, queueVars, num_workers, worker_id_seq,
                   signalVars, clientVars, workerVars>>

\* Slip: the latch is reset after the work it announces, not before.
LatchResetLast ==
    LET alive == {w \in worker_handles : ~ Stopped(w)} IN
    /\ pc = "scan" /\ pc' = "loop"
    /\ worker_handles' = alive
    /\ num_workers' = MinOf(num_workers, Cardinality(alive))
    /\ latch' = FALSE
    /\ UNCHANGED <<batch, hand, poolVars, queueVars, worker_id_seq, worker_died,
                   shutdown_requested, clientVars, workerVars>>

on_worker_died ==
    LET alive == {w \in worker_handles : ~ Stopped(w)} IN
    /\ pc = "scan" /\ pc' = "loop"
    /\ worker_handles' = alive
    /\ num_workers' = MinOf(num_workers, Cardinality(alive))
    /\ UNCHANGED <<batch, hand, poolVars, queueVars, worker_id_seq, signalVars,
                   clientVars, workerVars>>

teardown ==
    /\ pc = "teardown" /\ pc' = "down"
    /\ batch' = {}
    /\ sockets' = [p \in Positions |->
                     Slot("unset", sockets[p].peer, sockets[p].interest, sockets[p].read_offset)]
    /\ job_queue' = <<>>
    /\ ipc_backlog' = <<>>
    /\ pending' = [l \in Listeners |-> <<>>]
    /\ client' = [c \in Clients |-> IF client[c] \in {"backlog", "queued"}
                                    THEN "lost" ELSE client[c]]
    /\ UNCHANGED <<hand, free, idle_workers, frontend_paused, handleVars,
                   signalVars, proc, rbuf, sent, inbox>>

-----------------------------------------------------------------------------
(* Backends                                                                 *)

\* accept() failed: the connection stays in the backlog.
AcceptFails(e) ==
    /\ "accept" \in Faults
    /\ Handle(e, "ipc") \/ Handle(e, "frontend")
    /\ UNCHANGED <<pc, hand, poolVars, queueVars, handleVars, signalVars,
                   clientVars, workerVars>>

(* The slot is filled before AddWaitEventToSetEx tells whether there is one *)
(* (EventsReachTheirOwner says there is); read_offset keeps its value.      *)
on_backend_connect(e) ==
    LET w == Head(ipc_backlog)
        p == Head(free)
    IN
    /\ Handle(e, "ipc") /\ ipc_backlog # <<>> /\ free # <<>>
    /\ sockets' = [sockets EXCEPT ![p] = Slot("backend", w, "readable", @.read_offset)]
    /\ free' = Tail(free)
    /\ ipc_backlog' = Tail(ipc_backlog)
    /\ UNCHANGED <<pc, hand, idle_workers, queueVars, handleVars, signalVars,
                   clientVars, proc, rbuf, sent, inbox>>

\* Slip: the free positions are a stack.
CloseAsStack(p, slot) ==
    /\ sockets' = [sockets EXCEPT ![p] = slot]
    /\ free' = <<p>> \o free

\* The slot after close_socket, and the wait set's free positions.
close_socket(p, slot) ==
    /\ sockets' = [sockets EXCEPT ![p] = slot]
    /\ free' = Append(free, p)

Pass(c, w) ==
    /\ inbox' = [inbox EXCEPT ![w] = Append(@, c)]
    /\ client' = [client EXCEPT ![c] = "passed"]

\* Slip: the slot is only marked unused.
ClosedNotZeroed(e) ==
    /\ Handle(e, "backend") /\ e.closed
    /\ close_socket(e.pos, Slot("unset", sockets[e.pos].peer, "none", sockets[e.pos].read_offset))
    /\ UNCHANGED <<pc, hand, idle_workers, queueVars, handleVars, signalVars,
                   clientVars, workerVars>>

BackendClosed(e) ==
    /\ Handle(e, "backend") /\ e.closed
    /\ close_socket(e.pos, Zeroed)
    /\ UNCHANGED <<pc, hand, idle_workers, queueVars, handleVars, signalVars,
                   clientVars, workerVars>>

BackendReadable(e) == Handle(e, "backend") /\ ~ e.closed

\* A complete hello was read and nothing is expected.
HelloUnexpected(e) ==
    /\ BackendReadable(e) /\ sockets[e.pos].read_offset >= HelloLen
    /\ sockets' = [sockets EXCEPT ![e.pos] = Watch(@, "closed")]
    /\ UNCHANGED <<pc, hand, free, idle_workers, queueVars, handleVars,
                   signalVars, clientVars, workerVars>>

\* The slot is zeroed, then the uint8 read_offset gets 0 + -1.
Spoilt == Slot("unset", None, "none", (0 - 1) % 256)

RecvFails(e) ==
    /\ BackendReadable(e) /\ sockets[e.pos].read_offset < HelloLen
    /\ "recv" \in Faults
    /\ close_socket(e.pos, Spoilt)
    /\ UNCHANGED <<pc, hand, idle_workers, queueVars, handleVars, signalVars,
                   clientVars, workerVars>>

\* recv() blocks until there is something to read, or the peer is gone.
Received(p) ==
    MinOf(HelloLen - sockets[p].read_offset, rbuf[sockets[p].peer])

Recv(e) ==
    /\ BackendReadable(e) /\ sockets[e.pos].read_offset < HelloLen
    /\ Received(e.pos) > 0 \/ Hung(e.pos)
    /\ rbuf' = [rbuf EXCEPT ![sockets[e.pos].peer] = @ - Received(e.pos)]

HelloDone(p) == sockets[p].read_offset + Received(p) = HelloLen

RecvPart(e) ==
    /\ Recv(e) /\ ~ HelloDone(e.pos)
    /\ sockets' = [sockets EXCEPT ![e.pos] =
                       Slot("backend", @.peer, @.interest, @.read_offset + Received(e.pos))]
    /\ UNCHANGED <<pc, hand, free, idle_workers, queueVars, handleVars,
                   signalVars, clientVars, ipc_backlog, proc, sent, inbox>>

SetListeners(interest) ==
    [p \in Positions |-> IF sockets[p].type = "frontend"
                         THEN Watch(sockets[p], interest)
                         ELSE sockets[p]]

\* Slip: the flag is cleared and the listeners are left unwatched.
ListenersStayPaused(e) ==
    LET w == sockets[e.pos].peer IN
    /\ Recv(e) /\ HelloDone(e.pos)
    /\ job_queue # <<>> /\ Open(w)
    /\ Pass(Head(job_queue), w)
    /\ job_queue' = Tail(job_queue)
    /\ frontend_paused' = FALSE
    /\ sockets' = [sockets EXCEPT ![e.pos] = Slot("backend", w, @.interest, 0)]
    /\ UNCHANGED <<pc, hand, free, idle_workers, handleVars, signalVars,
                   pending, ipc_backlog, proc, sent>>

\* Slip: job_qsize and job_qhead are left as they were.
JobStaysQueued(e) ==
    LET w == sockets[e.pos].peer IN
    /\ Recv(e) /\ HelloDone(e.pos)
    /\ job_queue # <<>> /\ Open(w)
    /\ Pass(Head(job_queue), w)
    /\ sockets' = [sockets EXCEPT ![e.pos] = Slot("backend", w, @.interest, 0)]
    /\ UNCHANGED <<pc, hand, free, idle_workers, queueVars, handleVars, signalVars,
                   pending, ipc_backlog, proc, sent>>

\* The worker is ready and gets the oldest connection waiting.
HelloTakesJob(e) ==
    LET w == sockets[e.pos].peer IN
    /\ Recv(e) /\ HelloDone(e.pos)
    /\ job_queue # <<>> /\ Open(w)
    /\ Pass(Head(job_queue), w)
    /\ job_queue' = Tail(job_queue)
    /\ frontend_paused' = FALSE
    /\ sockets' = [(IF frontend_paused THEN SetListeners("accept") ELSE sockets)
                      EXCEPT ![e.pos] = Slot("backend", w, @.interest, 0)]
    /\ UNCHANGED <<pc, hand, free, idle_workers, handleVars, signalVars,
                   pending, ipc_backlog, proc, sent>>

\* Slip: the connection leaves the queue before it is known to be passed.
JobLeavesFirst(e) ==
    /\ Recv(e) /\ HelloDone(e.pos)
    /\ job_queue # <<>> /\ ~ Open(sockets[e.pos].peer)
    /\ close_socket(e.pos, Zeroed)
    /\ job_queue' = Tail(job_queue)
    /\ client' = [client EXCEPT ![Head(job_queue)] = "lost"]
    /\ UNCHANGED <<pc, hand, idle_workers, frontend_paused, handleVars, signalVars,
                   pending, ipc_backlog, proc, sent, inbox>>

\* The worker died since the event was collected: the connection stays.
HelloFromBroken(e) ==
    /\ Recv(e) /\ HelloDone(e.pos)
    /\ job_queue # <<>> /\ ~ Open(sockets[e.pos].peer)
    /\ close_socket(e.pos, Zeroed)
    /\ UNCHANGED <<pc, hand, idle_workers, queueVars, handleVars, signalVars,
                   clientVars, ipc_backlog, proc, sent, inbox>>

\* Slip: the job queue is not looked at first.
AlwaysGoesIdle(e) ==
    /\ Recv(e) /\ HelloDone(e.pos)
    /\ sockets' = [sockets EXCEPT ![e.pos] = Slot("backend", @.peer, "closed", 0)]
    /\ idle_workers' = Append(idle_workers, e.pos)
    /\ UNCHANGED <<pc, hand, free, queueVars, handleVars, signalVars,
                   clientVars, ipc_backlog, proc, sent, inbox>>

HelloGoesIdle(e) ==
    /\ Recv(e) /\ HelloDone(e.pos)
    /\ job_queue = <<>>
    /\ sockets' = [sockets EXCEPT ![e.pos] = Slot("backend", @.peer, "closed", 0)]
    /\ idle_workers' = Append(idle_workers, e.pos)
    /\ UNCHANGED <<pc, hand, free, queueVars, handleVars, signalVars,
                   clientVars, ipc_backlog, proc, sent, inbox>>

-----------------------------------------------------------------------------
(* Frontends                                                                *)

AcceptFrontend(e) ==
    LET l == e.pos IN
    /\ Handle(e, "frontend") /\ pending[l] # <<>>
    /\ hand' = Head(pending[l])
    /\ pending' = [pending EXCEPT ![l] = Tail(@)]
    /\ client' = [client EXCEPT ![Head(pending[l])] = "hand"]
    /\ pc' = "dispatch"
    /\ UNCHANGED <<poolVars, queueVars, handleVars, signalVars, workerVars>>

\* The loop over idle_workers, one iteration an action.
PopIdle ==
    /\ pc = "dispatch" /\ idle_workers # <<>>
    /\ idle_workers' = Tail(idle_workers)

SkipClosedSlot ==
    /\ PopIdle /\ sockets[Head(idle_workers)].type # "backend"
    /\ UNCHANGED <<loopVars, sockets, free, queueVars, handleVars, signalVars,
                   clientVars, workerVars>>

CloseBroken ==
    /\ PopIdle /\ Hung(Head(idle_workers))
    /\ close_socket(Head(idle_workers), Zeroed)
    /\ UNCHANGED <<loopVars, queueVars, handleVars, signalVars, clientVars,
                   workerVars>>

\* Slip: the worker's socket is not watched again for its next hello.
DispatchStaysParked ==
    LET p == Head(idle_workers) IN
    /\ PopIdle /\ sockets[p].type = "backend" /\ ~ Hung(p)
    /\ Pass(hand, sockets[p].peer)
    /\ pc' = "loop" /\ hand' = None
    /\ UNCHANGED <<batch, sockets, free, queueVars, handleVars, signalVars,
                   pending, ipc_backlog, proc, rbuf, sent>>

DispatchToIdle ==
    LET p == Head(idle_workers) IN
    /\ PopIdle /\ sockets[p].type = "backend" /\ ~ Hung(p)
    /\ Pass(hand, sockets[p].peer)
    /\ sockets' = [sockets EXCEPT ![p] = Watch(@, "readable")]
    /\ pc' = "loop" /\ hand' = None
    /\ UNCHANGED <<batch, free, queueVars, handleVars, signalVars, pending,
                   ipc_backlog, proc, rbuf, sent>>

\* Two processes of max_worker_processes are left to others.
MayLaunch == num_workers < MaxWorkerProcesses - 2

LaunchWorker ==
    LET w == worker_id_seq IN
    /\ w \in Workers                            \* the bound MaxLaunches
    /\ worker_id_seq' = w + 1
    /\ \/ /\ proc' = [proc EXCEPT ![w] = "registered"]
          /\ worker_handles' = worker_handles \cup {w}
          /\ num_workers' = num_workers + 1
       \/ /\ "launch" \in Faults
          /\ UNCHANGED <<proc, worker_handles, num_workers>>

\* Slip: the queue fills up and the listeners go on accepting.
EnqueueNeverPauses ==
    /\ Len(job_queue) < JobQLen
    /\ job_queue' = Append(job_queue, hand)
    /\ client' = [client EXCEPT ![hand] = "queued"]
    /\ UNCHANGED <<frontend_paused, sockets>>

Enqueue ==
    /\ Len(job_queue) < JobQLen
    /\ job_queue' = Append(job_queue, hand)
    /\ client' = [client EXCEPT ![hand] = "queued"]
    /\ IF Len(job_queue') = JobQLen
       THEN frontend_paused' = TRUE /\ sockets' = SetListeners("closed")
       ELSE UNCHANGED <<frontend_paused, sockets>>

Refuse ==
    /\ Len(job_queue) >= JobQLen
    /\ client' = [client EXCEPT ![hand] = "refused"]
    /\ UNCHANGED <<queueVars, sockets>>

LaunchAndQueue ==
    /\ pc = "dispatch" /\ idle_workers = <<>>
    /\ IF MayLaunch THEN LaunchWorker ELSE UNCHANGED <<handleVars, proc>>
    /\ Enqueue \/ Refuse
    /\ pc' = "loop" /\ hand' = None
    /\ UNCHANGED <<batch, free, idle_workers, signalVars, pending, ipc_backlog,
                   rbuf, sent, inbox>>

MasterNext ==
    \/ Collect \/ CheckDied \/ on_worker_died \/ teardown
    \/ \E e \in batch :
          \/ IgnoreStale(e) \/ ResetLatch(e) \/ AcceptFails(e)
          \/ on_backend_connect(e) \/ AcceptFrontend(e)
          \/ BackendClosed(e) \/ HelloUnexpected(e) \/ RecvFails(e)
          \/ RecvPart(e) \/ HelloTakesJob(e) \/ HelloFromBroken(e)
          \/ HelloGoesIdle(e)
    \/ SkipClosedSlot \/ CloseBroken \/ DispatchToIdle \/ LaunchAndQueue

-----------------------------------------------------------------------------
(* Clients and the postmaster                                               *)

Connect(c, l) ==
    /\ client[c] = "out" /\ pc # "down"
    /\ client' = [client EXCEPT ![c] = "backlog"]
    /\ pending' = [pending EXCEPT ![l] = Append(@, c)]
    /\ UNCHANGED <<loopVars, poolVars, queueVars, handleVars, signalVars,
                   workerVars>>

on_sigterm ==
    /\ MayShutDown /\ ~ shutdown_requested
    /\ shutdown_requested' = TRUE
    /\ latch' = TRUE
    /\ UNCHANGED <<loopVars, poolVars, queueVars, handleVars, worker_died,
                   clientVars, workerVars>>

\* The postmaster signals bgw_notify_pid when a worker starts or is reaped.
on_sigusr1 == worker_died' = TRUE /\ latch' = TRUE /\ UNCHANGED shutdown_requested

Stage(w, from, to) == proc[w] \in from /\ proc' = [proc EXCEPT ![w] = to]

StartWorker(w) ==
    /\ Stage(w, {"registered"}, "starting")
    /\ on_sigusr1
    /\ UNCHANGED <<loopVars, poolVars, queueVars, handleVars, clientVars,
                   ipc_backlog, rbuf, sent, inbox>>

\* The process is reaped (or was never forked), then the master is told.
Reap(w) ==
    /\ \/ Stage(w, {"exited"}, "stopped")
       \/ "crash" \in Faults /\ Stage(w, {"registered"}, "stopped")
    /\ UNCHANGED <<loopVars, poolVars, queueVars, handleVars, signalVars,
                   clientVars, ipc_backlog, rbuf, sent, inbox>>

NotifyStopped(w) ==
    /\ Stage(w, {"stopped"}, "gone")
    /\ on_sigusr1
    /\ UNCHANGED <<loopVars, poolVars, queueVars, handleVars, clientVars,
                   ipc_backlog, rbuf, sent, inbox>>

-----------------------------------------------------------------------------
(* The workers, as the master sees them (worker.c)                          *)

ConnectMaster(w) ==
    /\ pc # "down"
    /\ Stage(w, {"starting"}, "hello")
    /\ ipc_backlog' = Append(ipc_backlog, w)
    /\ UNCHANGED <<loopVars, poolVars, queueVars, handleVars, signalVars,
                   clientVars, rbuf, sent, inbox>>

\* on_writeable: send() takes some of what is left of the hello.
SendHello(w) ==
    \E k \in 1 .. HelloLen - sent[w] :
       /\ proc[w] = "hello"
       /\ rbuf' = [rbuf EXCEPT ![w] = @ + k]
       /\ sent' = [sent EXCEPT ![w] = IF @ + k = HelloLen THEN 0 ELSE @ + k]
       /\ proc' = [proc EXCEPT ![w] = IF sent[w] + k = HelloLen THEN "idle" ELSE @]
       /\ UNCHANGED <<loopVars, poolVars, queueVars, handleVars, signalVars,
                      clientVars, ipc_backlog, inbox>>

\* The master closed its end, or is gone.
MasterClosed(w) ==
    /\ \A i \in 1 .. Len(ipc_backlog) : ipc_backlog[i] # w
    /\ \A p \in Positions : sockets[p].type = "backend" => sockets[p].peer # w

on_readable(w) ==
    /\ inbox[w] # <<>> /\ ~ MasterClosed(w)
    /\ Stage(w, {"idle"}, "busy")
    /\ UNCHANGED <<loopVars, poolVars, queueVars, handleVars, signalVars,
                   clientVars, ipc_backlog, rbuf, sent, inbox>>

\* The job ends, its connection is closed and the next hello is due.
FinishJob(w) ==
    /\ Stage(w, {"busy"}, "hello")
    /\ client' = [client EXCEPT ![Head(inbox[w])] = "done"]
    /\ inbox' = [inbox EXCEPT ![w] = Tail(@)]
    /\ UNCHANGED <<loopVars, poolVars, queueVars, handleVars, signalVars,
                   pending, ipc_backlog, rbuf, sent>>

\* The wait timed out: a connection passed from now on is lost.
WaitTimesOut(w) ==
    /\ IdleTimeout /\ inbox[w] = <<>> /\ ~ MasterClosed(w)
    /\ Stage(w, {"idle"}, "leaving")
    /\ UNCHANGED <<loopVars, poolVars, queueVars, handleVars, signalVars,
                   clientVars, ipc_backlog, rbuf, sent, inbox>>

SeeClosed(w) ==
    /\ MasterClosed(w)
    /\ Stage(w, {"hello", "idle"}, "leaving")
    /\ UNCHANGED <<loopVars, poolVars, queueVars, handleVars, signalVars,
                   clientVars, ipc_backlog, rbuf, sent, inbox>>

Exits(w, from) ==
    LET held == {inbox[w][i] : i \in 1 .. Len(inbox[w])} IN
    /\ Stage(w, from, "exited")
    /\ client' = [c \in Clients |-> IF c \in held THEN "lost" ELSE client[c]]
    /\ inbox' = [inbox EXCEPT ![w] = <<>>]
    /\ sent' = [sent EXCEPT ![w] = 0]
    /\ UNCHANGED <<loopVars, poolVars, queueVars, handleVars, signalVars,
                   pending, ipc_backlog, rbuf>>

Leave(w) == Exits(w, {"leaving"})

Die(w) == "crash" \in Faults /\ Exits(w, {"starting", "hello", "idle", "busy"})

WorkerNext(w) ==
    \/ StartWorker(w) \/ ConnectMaster(w) \/ SendHello(w) \/ on_readable(w)
    \/ FinishJob(w) \/ SeeClosed(w) \/ Leave(w) \/ Reap(w) \/ NotifyStopped(w)

Next ==
    \/ MasterNext
    \/ \E c \in Clients, l \in Listeners : Connect(c, l)
    \/ on_sigterm
    \/ \E w \in Workers : WorkerNext(w) \/ WaitTimesOut(w) \/ Die(w)

Spec == Init /\ [][Next]_vars

(* The master runs whenever it is not waiting for an event, and started     *)
(* processes make progress: jobs end, dead processes are reaped.  Nothing   *)
(* obliges a client to connect, a wait to time out or a fault to happen.    *)
FairSpec == Spec /\ WF_vars(MasterNext) /\ \A w \in Workers : WF_vars(WorkerNext(w))

-----------------------------------------------------------------------------
(* Properties                                                               *)

(* Every variable has the range its C type and the protocol give it.        *)
TypeOK ==
    /\ pc \in {"loop", "latched", "scan", "dispatch", "teardown", "down"}
    /\ batch \subseteq EventType
    /\ hand \in Clients \cup {None}
    /\ sockets \in [Positions -> SocketType]
    /\ free \in Seq(Positions)
    /\ idle_workers \in Seq(Positions)
    /\ job_queue \in Seq(Clients)
    /\ frontend_paused \in BOOLEAN
    /\ worker_handles \subseteq Workers
    /\ num_workers \in Nat
    /\ worker_id_seq \in Nat
    /\ worker_died \in BOOLEAN /\ latch \in BOOLEAN
    /\ shutdown_requested \in BOOLEAN
    /\ pending \in [Listeners -> Seq(Clients)]
    /\ client \in [Clients -> Fates]
    /\ ipc_backlog \in Seq(Workers)
    /\ proc \in [Workers -> Stages]
    /\ rbuf \in [Workers -> Nat]
    /\ sent \in [Workers -> Nat]
    /\ inbox \in [Workers -> Seq(Clients)]

(* on_frontend, on_backend: a connection is queued only when no worker is   *)
(* in the idle queue, and a worker enters the idle queue only when no       *)
(* connection is queued, so work and idle workers never wait for each other *)
WorkConserved == job_queue # <<>> => idle_workers = <<>>

(* The master stops accepting exactly while the job queue is full: a        *)
(* listener left unwatched with room in the queue would be deaf for ever,   *)
(* one watched with none would have its connections closed.                 *)
FlowControl ==
    pc # "down" =>
       /\ frontend_paused <=> Len(job_queue) = JobQLen
       /\ \A l \in Listeners :
             sockets[l].interest = IF frontend_paused THEN "closed" ELSE "accept"

(* A worker whose hello was read and that has not been given a connection   *)
(* is watched for nothing but its death, so it is never forgotten: the idle *)
(* queue holds its position.  Not the reverse: an entry outlives a worker   *)
(* that dies in the queue, and whoever connects next to its position is     *)
(* taken for idle (304-306).  That takes a backlog of workers that died     *)
(* before they were accepted, four launches at least.                       *)
(* Only a slot that a failing recv left unreadable parks its worker unread. *)
ParkedAreQueued ==
    \A p \in Positions :
       /\ sockets[p].type = "backend" /\ sockets[p].interest = "closed"
       /\ sockets[p].read_offset < HelloLen
       => \E i \in 1 .. Len(idle_workers) : idle_workers[i] = p

(* num_workers, which caps the launches, counts the kept handles; a handle  *)
(* is kept for every worker that still takes one of the processes; and two  *)
(* processes are always left to others.                                     *)
HandlesCounted ==
    /\ num_workers = Cardinality(worker_handles)
    /\ num_workers <= MaxOf(MaxWorkerProcesses - 2, 0)
    /\ \A w \in Workers : proc[w] = "none" \/ Stopped(w) \/ w \in worker_handles

(* The latch is reset before worker_died is read and worker_died is cleared *)
(* before the handles are scanned: a death the scan may have missed is      *)
(* still announced by the flag, and the flag by the latch.                  *)
DeathsAnnounced ==
    pc \notin {"teardown", "down"} =>
       /\ (\E w \in worker_handles : proc[w] = "gone") => worker_died \/ pc = "scan"
       /\ worker_died => latch \/ pc = "latched"

(* An event collected for one worker is never applied to another that got   *)
(* its slot while the batch was handled, and a worker that connects finds a  *)
(* slot: on_backend_connect fills sockets[NextWaitEventPos()] (234) before   *)
(* it looks whether there is one.  It needs that one wait returns all there *)
(* is (MaxEvents >= TotalSockets): the dead are then closed as fast as the   *)
(* next are accepted.                                                       *)
EventsReachTheirOwner ==
    \A e \in batch :
       /\ sockets[e.pos].type = "backend" => sockets[e.pos].peer = e.peer
       /\ e.pos = IpcPos => free # <<>>

(* close_socket leaves a slot from which the next worker's hello is read    *)
(* from its first byte, unless it was called for a failing recv.            *)
Unused == {Zeroed} \cup (IF "recv" \in Faults THEN {Spoilt} ELSE {})

FreeSlotsReset ==
    pc # "down" => \A i \in 1 .. Len(free) : sockets[free[i]] \in Unused

\* The process of the worker has ended, or never came to be.
Ended(w) == proc[w] \in {"exited", "stopped", "gone"}

Line == INSTANCE Dispatch WITH
           waiting <- job_queue \o (IF hand = None THEN <<>> ELSE <<hand>>),
           holding <- inbox,
           serving <- pc # "down",
           ended <- {w \in Workers : Ended(w)}

(* The master implements Dispatch: first accepted, first passed, and only   *)
(* to a worker that is still there.  No connection leaves the line unserved *)
(* before the master exits, unless JobQLen wait before it: one whose        *)
(* sendmsg found a dead worker stays with the master (310, 423).            *)
DispatchSpec == Line!Spec

(* Without idle timeouts and faults every connection in the backlog is      *)
(* accepted and its job done: queued connections get a worker, and paused   *)
(* listeners are resumed.                                                   *)
EveryJobDone ==
    \A c \in Clients : client[c] = "backlog" ~> client[c] = "done" \/ shutdown_requested
=============================================================================
