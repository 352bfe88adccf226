------------------------------- MODULE Worker -------------------------------
(***************************************************************************)
(* One worker process (worker.c): its event loop, the hello, and the life  *)
(* of a job: transaction, module, instance, context, guest, clean-up.  The *)
(* master and the client are the environment.                              *)
(***************************************************************************)
EXTENDS Integers, Sequences

CONSTANTS
    HelloLen,     \* portions of the hello, 12 bytes in the code
    MaxJobs,      \* bound: jobs the master sends
    MaxCalls,     \* bound: recv and send calls of a guest in one job
    MaxSignals,   \* bound: notifications signalled to the worker
    ExternalFDs,  \* wait sets PostgreSQL lets the process create for jobs
    Faults        \* what may go wrong, a subset of FaultKinds

\* The statements of on_readable that may raise an error, in their order.
Steps == <<"database", "connect", "load", "instantiate", "waitset", "context", "entry">>

FaultKinds == {Steps[i] : i \in 1 .. Len(Steps)}
                \cup {"startup", "recvmsg", "guest", "timeout", "sigterm", "master"}

ASSUME WorkerAssumption ==
    /\ HelloLen \in Nat \ {0}
    /\ {MaxJobs, MaxCalls, MaxSignals, ExternalFDs} \subseteq Nat
    /\ Faults \subseteq FaultKinds

VARIABLES
    pc,             \* where the process is, "gone" when it has ended
    cause,          \* why it ended
    events,         \* events of the batch not handled yet
    interest,       \* what wait_set watches the master's socket for
    sent,           \* portions of the hello sent
    latch, shutdown_requested, notifyInterruptPending,
    step,           \* index into Steps
    thrown,         \* _do_rethrow: PG_FINALLY was entered by an error
    spi_connected,
    exec_env,       \* made by rst_module_instantiate
    prepared,       \* ctx->anyref_array is set
    tx,             \* the transaction: "none", "clean", "dirty" with writes
    client,         \* the client's descriptor is open
    watched,        \* what context.wait_set watches the client for
    guest,          \* how the guest's code ended, "none" if it has not
    calls,          \* recv and send calls left to the guest
    wait_sets,      \* context.wait_set of every job so far: none is freed
    committed,      \* how the guests had ended whose writes were committed
    inbox,          \* jobs in the socket's buffer
    idle,           \* a hello has arrived and no job was sent for it yet
    jobs, signals,  \* jobs and notifications so far
    master,         \* the master's end is open
    peer            \* what the client's socket is ready for

loopVars == <<events, interest, sent>>
flagVars == <<latch, shutdown_requested, notifyInterruptPending>>
jobVars == <<step, thrown, spi_connected, exec_env, prepared, tx, client,
             watched, guest, calls, wait_sets, committed>>
worldVars == <<inbox, idle, jobs, signals, master, peer>>
vars == <<pc, cause, loopVars, flagVars, jobVars, worldVars>>

Init ==
    /\ pc = "startup" /\ cause = "none"
    /\ events = <<>> /\ interest = "write" /\ sent = 0
    /\ latch = FALSE /\ shutdown_requested = FALSE /\ notifyInterruptPending = FALSE
    /\ step = 1 /\ thrown = FALSE /\ spi_connected = FALSE /\ exec_env = FALSE
    /\ prepared = FALSE /\ tx = "none" /\ client = FALSE /\ watched = "none"
    /\ guest = "none" /\ calls = 0 /\ wait_sets = 0 /\ committed = {}
    /\ inbox = 0 /\ idle = FALSE /\ jobs = 0 /\ signals = 0
    /\ master = TRUE /\ peer = {}

Goto(l) == pc' = l /\ UNCHANGED cause
Ends(why) == pc' = "gone" /\ cause' = why
Leaves(why) == pc' = "teardown" /\ cause' = why

-----------------------------------------------------------------------------
(* The event loop                                                           *)

startup ==
    /\ pc = "startup"
    /\ Goto("wait") \/ ("startup" \in Faults /\ Ends("error"))
    /\ UNCHANGED <<loopVars, flagVars, jobVars, worldVars>>

\* What epoll reports of the socket; main_loop looks at the end of file first.
SocketEvent ==
    IF ~ master THEN {"closed"}
    ELSE {e \in {"io"} : interest = "write" \/ inbox > 0}

\* A set latch is reported alone or beside the socket, in either order.
Batches ==
    IF latch
    THEN {<<"latch">>} \cup {<<"latch", e>> : e \in SocketEvent}
                       \cup {<<e, "latch">> : e \in SocketEvent}
    ELSE {<<e>> : e \in SocketEvent}

Wait ==
    /\ pc = "wait"
    /\ events' \in Batches
    /\ Goto("batch")
    /\ UNCHANGED <<interest, sent, flagVars, jobVars, worldVars>>

\* state == WAIT_READ always holds: WAIT_READ and WAIT_WRITE are both 0.
TimesOut ==
    /\ pc = "wait" /\ "timeout" \in Faults /\ Batches = {}
    /\ Leaves("timeout")
    /\ UNCHANGED <<loopVars, flagVars, jobVars, worldVars>>

Handle(e) ==
    /\ pc = "batch" /\ events # <<>> /\ Head(events) = e
    /\ events' = Tail(events)

LatchSet ==
    /\ Handle("latch")
    /\ IF shutdown_requested
       THEN Leaves("shutdown") /\ UNCHANGED latch
       ELSE Goto("batch") /\ latch' = FALSE
    /\ UNCHANGED <<interest, sent, shutdown_requested, notifyInterruptPending,
                   jobVars, worldVars>>

SocketClosed ==
    /\ Handle("closed") /\ Leaves("closed")
    /\ UNCHANGED <<interest, sent, flagVars, jobVars, worldVars>>

\* Slip: the count of the hello just sent is kept for the next one.
SentKept(n) == sent + n

SentAfter(n) == IF sent + n = HelloLen THEN 0 ELSE sent + n

on_writeable ==
    /\ Handle("io") /\ interest = "write" /\ Goto("batch")
    /\ IF master
       THEN \E n \in 1 .. HelloLen - sent :
               LET whole == sent + n = HelloLen IN
               /\ sent' = SentAfter(n)
               /\ interest' = IF whole THEN "read" ELSE "write"
               /\ idle' = whole
       ELSE UNCHANGED <<sent, interest, idle>>       \* send() fails
    /\ UNCHANGED <<flagVars, jobVars, inbox, jobs, signals, master, peer>>

\* The head of on_readable: the job's descriptor is received.
Receive ==
    /\ Handle("io") /\ interest = "read"
    /\ Goto("job")
    /\ inbox' = inbox - 1 /\ client' = TRUE /\ peer' = {}
    /\ step' = 1 /\ guest' = "none" /\ calls' = MaxCalls
    /\ UNCHANGED <<interest, sent, flagVars, thrown, spi_connected, exec_env,
                   prepared, tx, watched, wait_sets, committed,
                   idle, jobs, signals, master>>

ReceiveFails ==
    /\ Handle("io") /\ interest = "read"
    /\ "recvmsg" \in Faults /\ Ends("fatal")
    /\ UNCHANGED <<interest, sent, flagVars, jobVars, worldVars>>

on_notification_received ==
    /\ pc = "batch" /\ events = <<>>
    /\ Goto("wait")
    /\ notifyInterruptPending' = FALSE
    /\ UNCHANGED <<loopVars, latch, shutdown_requested, jobVars, worldVars>>

teardown ==
    /\ pc = "teardown"
    /\ Goto("gone")
    /\ UNCHANGED <<loopVars, flagVars, jobVars, worldVars>>

-----------------------------------------------------------------------------
(* A job                                                                    *)

At(s) == pc = "job" /\ Steps[step] = s

MayFail(s) == s \in Faults \/ (s = "waitset" /\ wait_sets = ExternalFDs)

\* Slip: the context is prepared with the last step, the lookup of the entry.
PreparesLate == At("entry")

Prepares == At("context")

Succeeds ==
    /\ pc = "job"
    /\ ~ (At("waitset") /\ wait_sets = ExternalFDs)
    /\ IF step = Len(Steps) THEN Goto("guest") /\ UNCHANGED step
                            ELSE step' = step + 1 /\ UNCHANGED <<pc, cause>>
    /\ spi_connected' = (spi_connected \/ At("connect"))
    /\ tx' = IF At("connect") THEN "clean" ELSE tx
    /\ exec_env' = (exec_env \/ At("instantiate"))
    /\ prepared' = (prepared \/ Prepares)
    /\ wait_sets' = IF At("waitset") THEN wait_sets + 1 ELSE wait_sets
    /\ watched' = IF At("waitset") THEN "close" ELSE watched
    /\ UNCHANGED <<loopVars, flagVars, thrown, client, guest, calls, committed, worldVars>>

\* An error in the connect step may come before or after the transaction opens.
Throws ==
    /\ pc = "job" /\ MayFail(Steps[step])
    /\ thrown' = TRUE /\ Goto("finally")
    /\ tx' \in IF At("connect") THEN {"none", "clean"} ELSE {tx}
    /\ UNCHANGED <<loopVars, flagVars, step, spi_connected, exec_env, prepared,
                   client, watched, guest, calls, wait_sets, committed, worldVars>>

GuestWrites ==
    /\ pc = "guest" /\ tx' = "dirty"
    /\ UNCHANGED <<pc, cause, loopVars, flagVars, step, thrown, spi_connected,
                   exec_env, prepared, client, watched, guest, calls,
                   wait_sets, committed, worldVars>>

\* env_recv and env_send up to their wait.
GuestCalls ==
    /\ pc = "guest" /\ calls > 0
    /\ calls' = calls - 1
    /\ watched' \in {"read", "write"}
    /\ Goto("io")
    /\ UNCHANGED <<loopVars, flagVars, step, thrown, spi_connected, exec_env,
                   prepared, tx, client, guest, wait_sets, committed, worldVars>>

\* -1 for a set latch, 0 for a closed client, else what recv() or send() did.
\* The latch stays set: it is reset in the event loop only.
CallReturns ==
    /\ pc = "io"
    /\ latch \/ peer \cap {"closed", watched} # {}
    /\ peer' = IF latch \/ "closed" \in peer THEN peer ELSE peer \ {watched}
    /\ Goto("guest")
    /\ UNCHANGED <<loopVars, flagVars, jobVars, inbox, idle, jobs, signals, master>>

GuestEnds(how) ==
    /\ pc = "guest"
    /\ how # "returned" => "guest" \in Faults
    /\ guest' = how /\ thrown' = (how = "threw")
    /\ Goto("finally")
    /\ UNCHANGED <<loopVars, flagVars, step, spi_connected, exec_env, prepared,
                   tx, client, watched, calls, wait_sets, committed, worldVars>>

\* The locals set inside PG_TRY are not volatile: after an error PG_FINALLY
\* may read the values they had when PG_TRY began.
Read(local) == IF thrown THEN {local, FALSE} ELSE {local}

Crashes ==
    /\ pc = "finally" /\ TRUE \in Read(exec_env) /\ ~ prepared
    /\ Ends("crash")
    /\ UNCHANGED <<loopVars, flagVars, jobVars, worldVars>>

\* Slip: everything but an error is committed, a trap of the guest too.
CommitsUnlessThrown == ~ thrown

Commits == guest = "returned" /\ ~ thrown

Commit(connected) ==
    IF connected
    THEN /\ tx' = "none"
         /\ committed' = IF tx = "dirty" /\ Commits
                         THEN committed \cup {guest} ELSE committed
    ELSE UNCHANGED <<tx, committed>>

\* Slip: the master's socket stays watched for jobs.
ReadsOn == interest

AsksAgain == "write"

Finally ==
    /\ pc = "finally"
    /\ FALSE \in Read(exec_env) \/ prepared
    /\ \E connected \in Read(spi_connected) : Commit(connected)
    /\ exec_env' = FALSE /\ prepared' = FALSE /\ watched' = "none"
    /\ spi_connected' = FALSE /\ client' = FALSE /\ thrown' = FALSE
    /\ interest' = AsksAgain
    /\ IF thrown THEN Ends("error") ELSE Goto("batch")
    /\ UNCHANGED <<events, sent, flagVars, step, guest, calls, wait_sets, worldVars>>

-----------------------------------------------------------------------------
(* The master, the client and signals                                       *)

Alive == pc # "gone"

SendJob ==
    /\ Alive /\ master /\ idle /\ jobs < MaxJobs
    /\ inbox' = inbox + 1 /\ jobs' = jobs + 1 /\ idle' = FALSE
    /\ UNCHANGED <<pc, cause, loopVars, flagVars, jobVars, signals, master, peer>>

MasterGone ==
    /\ Alive /\ master /\ "master" \in Faults
    /\ master' = FALSE
    /\ UNCHANGED <<pc, cause, loopVars, flagVars, jobVars, inbox, idle, jobs, signals, peer>>

ClientMoves ==
    /\ client
    /\ \E e \in {"read", "write", "closed"} \ peer : peer' = peer \cup {e}
    /\ UNCHANGED <<pc, cause, loopVars, flagVars, jobVars, inbox, idle, jobs, signals, master>>

\* Slip: the handler only sets the flag.
FlagOnly == latch

SetLatch == TRUE

on_sigusr1 ==
    /\ Alive /\ signals < MaxSignals
    /\ signals' = signals + 1
    /\ notifyInterruptPending' = TRUE /\ latch' = SetLatch
    /\ UNCHANGED <<pc, cause, loopVars, shutdown_requested, jobVars,
                   inbox, idle, jobs, master, peer>>

on_sigterm ==
    /\ Alive /\ "sigterm" \in Faults
    /\ shutdown_requested' = TRUE /\ latch' = TRUE
    /\ UNCHANGED <<pc, cause, loopVars, notifyInterruptPending, jobVars, worldVars>>

WorkerNext ==
    \/ startup \/ Wait \/ LatchSet \/ SocketClosed \/ on_writeable
    \/ Receive \/ on_notification_received \/ teardown
    \/ Succeeds \/ Throws \/ GuestCalls \/ CallReturns \/ Finally \/ Crashes
    \/ \E how \in {"returned", "trapped", "threw"} : GuestEnds(how)

Next ==
    \/ WorkerNext
    \/ TimesOut \/ ReceiveFails \/ GuestWrites
    \/ SendJob \/ MasterGone \/ ClientMoves \/ on_sigusr1 \/ on_sigterm

Spec == Init /\ [][Next]_vars

(* The process is scheduled and guests end; a client that stays connected   *)
(* goes on sending and reading, as recv and send wait without a limit.      *)
FairSpec == Spec /\ WF_vars(WorkerNext) /\ WF_vars(ClientMoves)

-----------------------------------------------------------------------------
(* Properties                                                               *)

(* Between two jobs nothing of a job is left, what its guest wrote has been *)
(* committed only if its code returned normally, whatever on_readable's     *)
(* locals read as after an error (644, 719-726), and the socket is watched  *)
(* for the next job exactly when the hello that asks for it has been sent   *)
(* (PG_FINALLY of on_readable, on_writeable).                               *)
CleanBetweenJobs ==
    pc \in {"wait", "batch"} =>
       /\ tx = "none" /\ ~ spi_connected /\ ~ exec_env /\ ~ prepared
       /\ ~ client /\ watched = "none" /\ ~ thrown
       /\ committed \subseteq {"returned"}
       /\ interest = "write" => ~ idle /\ inbox = 0
       /\ master /\ interest = "read" => sent = 0 /\ (idle <=> inbox = 0)

(* A worker crashes in PG_FINALLY only on an error raised after the module  *)
(* was instantiated and before rst_init_context_for_jsonb has run (673-692, *)
(* 710): the context freed there does not exist yet.  Wait sets of finished *)
(* jobs, never freed, make such an error certain in the long run.           *)
CrashesInTheWindow ==
    cause = "crash" =>
       /\ Steps[step] \in {"waitset", "context"}
       /\ Steps[step] \in Faults \/ wait_sets = ExternalFDs

(* A worker leaves for a shutdown only if it was told to.                    *)
LeftForCause == pc = "gone" /\ (cause = "shutdown" => shutdown_requested)

(* Every job that reaches the worker's socket is taken, its client's          *)
(* connection closed in the end, notifications or not, and the next job asked  *)
(* for with a whole hello; unless the worker leaves, as an error of the job    *)
(* makes it, and an idle timeout, a shutdown or the end of the master.         *)
EveryJobEnds == (inbox > 0) ~> (LeftForCause \/ (idle /\ ~ client))

(* A notification that interrupts a job or a batch is handled in the end:   *)
(* no signal is lost between the latch, the flag and the wait.              *)
NotificationsHandled == notifyInterruptPending ~> (~ notifyInterruptPending \/ pc = "gone")
=============================================================================
