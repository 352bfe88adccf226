---------------------------- MODULE WorkerProofs ----------------------------
(***************************************************************************)
(* Proofs about the worker (worker.c): what a job leaves behind, and where *)
(* the clean-up of a failed job can crash, for every length of the hello,  *)
(* every set of faults and every limit on the wait sets.                   *)
(***************************************************************************)
EXTENDS Worker, TLAPS

\* What a batch may hold: at most one event of the socket, the latch once.
NoEvent == {<<>>, <<"latch">>}
OnlyOf(e) == {<<e>>, <<"latch", e>>, <<e, "latch">>}
EventBatches == NoEvent \cup OnlyOf("io") \cup OnlyOf("closed")

Places == {"startup", "wait", "batch", "job", "guest", "io", "finally",
           "teardown", "gone"}

TypeInv ==
    /\ pc \in Places
    /\ events \in EventBatches
    /\ interest \in {"read", "write"}
    /\ sent \in 0 .. HelloLen - 1
    /\ latch \in BOOLEAN /\ shutdown_requested \in BOOLEAN
    /\ notifyInterruptPending \in BOOLEAN /\ thrown \in BOOLEAN
    /\ spi_connected \in BOOLEAN /\ exec_env \in BOOLEAN /\ prepared \in BOOLEAN
    /\ client \in BOOLEAN /\ idle \in BOOLEAN /\ master \in BOOLEAN
    /\ step \in 1 .. 7
    /\ tx \in {"none", "clean", "dirty"}
    /\ wait_sets \in 0 .. ExternalFDs
    /\ inbox \in {0, 1}

\* One job at a time: a worker that has not asked has none waiting, one that
\* has asked waits for it or has it, and an event "io" has its cause.
Protocol ==
    /\ idle => inbox = 0
    /\ interest = "write" => ~ idle /\ inbox = 0
    /\ interest = "read" => sent = 0
    /\ events \in OnlyOf("io") => interest = "write" \/ inbox = 1
    /\ pc = "startup" => events = <<>>

InJob == pc \in {"job", "guest", "io", "finally"}

\* What on_readable has made of a job, by the statement it has reached.
Progress ==
    InJob =>
       /\ interest = "read" /\ ~ idle /\ inbox = 0 /\ events \in NoEvent
       /\ spi_connected <=> step > 2
       /\ exec_env <=> step > 4
       /\ prepared <=> step > 6
       /\ pc = "job" /\ step < 3 => tx = "none"
       /\ pc \in {"guest", "io"} => step = 7
       /\ pc = "finally" => thrown \/ step = 7
       /\ pc # "finally" => ~ thrown
       /\ pc = "finally" /\ step < 7 =>
             Steps[step] \in Faults \/ wait_sets = ExternalFDs

\* Nothing of a job before the first one and after each.
Clean ==
    pc \in {"startup", "wait", "batch"} =>
       /\ tx = "none" /\ ~ spi_connected /\ ~ exec_env /\ ~ prepared
       /\ ~ client /\ watched = "none" /\ ~ thrown

Asked ==
    pc \in {"startup", "wait", "batch"} /\ master /\ interest = "read" =>
       (idle \/ inbox = 1)

Crashed ==
    cause = "crash" => pc = "gone" /\ CrashesInTheWindow

IInv ==
    /\ TypeInv /\ Protocol /\ Progress /\ Clean /\ Asked /\ Crashed
    /\ committed \subseteq {"returned"}

-----------------------------------------------------------------------------
(* The operators of the model                                               *)

(* on_readable's statements by their number.                                *)
LEMMA StepNumbers ==
    /\ Steps[1] = "database" /\ Steps[2] = "connect" /\ Steps[3] = "load"
    /\ Steps[4] = "instantiate" /\ Steps[5] = "waitset" /\ Steps[6] = "context"
    /\ Steps[7] = "entry" /\ Len(Steps) = 7
  BY DEF Steps

LEMMA StepNames ==
    ASSUME TypeInv
    PROVE  /\ At("connect") <=> pc = "job" /\ step = 2
           /\ At("instantiate") <=> pc = "job" /\ step = 4
           /\ At("waitset") <=> pc = "job" /\ step = 5
           /\ At("context") <=> pc = "job" /\ step = 6
<1>1. step \in {1, 2, 3, 4, 5, 6, 7}
  BY SMTT(30) DEF TypeInv
<1> QED
  BY <1>1, StepNumbers DEF At

(* main_loop gets from one wait a batch that the handlers expect.           *)
LEMMA BatchesOfOneWait ==
    ASSUME NEW b \in Batches
    PROVE  /\ b \in EventBatches
           /\ b \in OnlyOf("io") => interest = "write" \/ inbox > 0
<1>1. SocketEvent \subseteq {"closed", "io"}
  BY DEF SocketEvent
<1>2. "io" \in SocketEvent => interest = "write" \/ inbox > 0
  BY DEF SocketEvent
<1>3. b = <<"latch">> \/ \E e \in SocketEvent :
         b = <<e>> \/ b = <<"latch", e>> \/ b = <<e, "latch">>
  BY DEF Batches
<1>4. CASE b = <<"latch">>
  BY <1>4 DEF EventBatches, NoEvent, OnlyOf
<1>5. ASSUME NEW e \in SocketEvent,
             b = <<e>> \/ b = <<"latch", e>> \/ b = <<e, "latch">>
      PROVE  b \in OnlyOf(e)
  BY <1>5 DEF OnlyOf
<1>6. OnlyOf("io") \cap OnlyOf("closed") = {}
  BY DEF OnlyOf
<1> QED
  BY <1>1, <1>2, <1>3, <1>4, <1>5, <1>6 DEF EventBatches

(* A handled event leaves at most a set latch beside the socket's event.    *)
LEMMA HandledBatches ==
    ASSUME TypeInv, NEW e, Handle(e)
    PROVE  /\ events' \in EventBatches
           /\ events' \in OnlyOf("io") => events \in OnlyOf("io")
           /\ e = "io" => events \in OnlyOf("io") /\ events' \in NoEvent
           /\ pc = "batch"
<1>1. events' = Tail(events) /\ events # <<>> /\ e = Head(events) /\ pc = "batch"
  BY DEF Handle
<1>2. \/ events = <<"latch">>
      \/ \E s \in {"io", "closed"} :
            events = <<s>> \/ events = <<"latch", s>> \/ events = <<s, "latch">>
  BY <1>1 DEF TypeInv, EventBatches, NoEvent, OnlyOf
<1>3. CASE events = <<"latch">>
  <2>1. events' = <<>> /\ e = "latch"
    BY <1>1, <1>3
  <2> QED
    BY <1>1, <2>1 DEF EventBatches, NoEvent, OnlyOf
<1>4. ASSUME NEW s \in {"io", "closed"}, events = <<s>>
      PROVE  events' = <<>> /\ e = s
  BY <1>1, <1>4
<1>5. ASSUME NEW s \in {"io", "closed"}, events = <<"latch", s>>
      PROVE  events' = <<s>> /\ e = "latch"
  BY <1>1, <1>5
<1>6. ASSUME NEW s \in {"io", "closed"}, events = <<s, "latch">>
      PROVE  events' = <<"latch">> /\ e = s
  BY <1>1, <1>6
<1> QED
  BY <1>1, <1>2, <1>3, <1>4, <1>5, <1>6 DEF EventBatches, NoEvent, OnlyOf

-----------------------------------------------------------------------------
(* Each step keeps the invariant                                            *)

LEMMA WorkerInit == Init => IInv
<1> SUFFICES ASSUME Init PROVE IInv
  OBVIOUS
<1>1. HelloLen \in Nat \ {0} /\ ExternalFDs \in Nat
  BY WorkerAssumption DEF WorkerAssumption
<1>2. TypeInv
  <2>1. 0 \in 0 .. HelloLen - 1 /\ 0 \in 0 .. ExternalFDs /\ 1 \in 1 .. 7
    BY <1>1
  <2>2. <<>> \in EventBatches
    BY DEF EventBatches, NoEvent
  <2> QED
    BY <2>1, <2>2 DEF Init, TypeInv, Places
<1>3. <<>> \notin OnlyOf("io")
  BY DEF OnlyOf
<1> QED
  BY <1>2, <1>3 DEF Init, IInv, Protocol, Progress, InJob, Clean, Asked, Crashed

LEMMA SendJobKeeps ==
    ASSUME IInv, SendJob PROVE IInv'
<1>1. inbox' = 1 /\ idle' = FALSE /\ idle /\ pc # "gone" /\ inbox = 0
  BY DEF SendJob, Alive, IInv, TypeInv, Protocol
<1>2. UNCHANGED <<pc, cause, events, interest, sent, latch, shutdown_requested,
                  notifyInterruptPending, step, thrown, spi_connected, exec_env,
                  prepared, tx, client, watched, wait_sets, committed, master>>
  BY DEF SendJob, loopVars, flagVars, jobVars
<1>3. ~ InJob
  BY <1>1 DEF IInv, Progress
<1>4. TypeInv'
  <2>1. inbox' \in {0, 1} /\ idle' \in BOOLEAN
    BY <1>1
  <2>2. TypeInv
    BY DEF IInv
  <2> QED
    BY <1>2, <2>1, <2>2 DEF TypeInv
<1>5. Protocol' /\ Progress' /\ Clean' /\ Asked' /\ Crashed'
  BY <1>1, <1>2, <1>3 DEF IInv, Protocol, Progress, InJob, Clean, Asked, Crashed
<1> QED
  BY <1>2, <1>4, <1>5 DEF IInv

(* The end of the master, the client and the signals touch none of it but    *)
(* the master's end and the two flags.                                       *)
LEMMA OthersKeep ==
    ASSUME IInv, MasterGone \/ ClientMoves \/ on_sigusr1 \/ on_sigterm \/ UNCHANGED vars
    PROVE  IInv'
<1>1. UNCHANGED <<pc, cause, events, interest, sent, step, thrown, spi_connected,
                  exec_env, prepared, tx, client, watched, wait_sets, committed,
                  inbox, idle>>
  BY DEF MasterGone, ClientMoves, on_sigusr1, on_sigterm, vars, loopVars,
         flagVars, jobVars, worldVars
<1>2. /\ latch' \in BOOLEAN /\ shutdown_requested' \in BOOLEAN
      /\ notifyInterruptPending' \in BOOLEAN /\ master' \in BOOLEAN
      /\ master' => master
  <2>1. TypeInv
    BY DEF IInv
  <2>2. CASE MasterGone
    BY <2>1, <2>2 DEF TypeInv, MasterGone, flagVars
  <2>3. CASE ClientMoves
    BY <2>1, <2>3 DEF TypeInv, ClientMoves, flagVars
  <2>4. CASE on_sigusr1
    BY <2>1, <2>4 DEF TypeInv, on_sigusr1, SetLatch
  <2>5. CASE on_sigterm
    BY <2>1, <2>5 DEF TypeInv, on_sigterm, worldVars
  <2>6. CASE UNCHANGED vars
    BY <2>1, <2>6 DEF TypeInv, vars, flagVars, worldVars
  <2> QED
    BY <2>2, <2>3, <2>4, <2>5, <2>6
<1>3. TypeInv'
  BY <1>1, <1>2 DEF IInv, TypeInv
<1>4. Protocol' /\ Progress' /\ Clean' /\ Asked'
  BY <1>1, <1>2 DEF IInv, Protocol, Progress, InJob, Clean, Asked
<1>5. Crashed'
  BY <1>1 DEF IInv, Crashed, CrashesInTheWindow
<1> QED
  BY <1>1, <1>3, <1>4, <1>5 DEF IInv

(* What the steps of the event loop outside a job have in common: no job     *)
(* variable moves and no job begins.                                         *)
LEMMA LoopKeeps ==
    ASSUME IInv, UNCHANGED <<jobVars, inbox, master>>,
           pc \in {"startup", "wait", "batch", "teardown"},
           pc' \in {"wait", "batch", "teardown", "gone"},
           pc' \in {"wait", "batch"} => pc \in {"startup", "wait", "batch"},
           cause' # "crash" \/ UNCHANGED cause,
           TypeInv', Protocol', Asked'
    PROVE  IInv'
<1>1. UNCHANGED <<step, thrown, spi_connected, exec_env, prepared, tx, client,
                  watched, wait_sets, committed>>
  BY DEF jobVars
<1>2. Progress'
  BY DEF Progress, InJob
<1>3. Clean'
  BY <1>1 DEF IInv, Clean
<1>4. cause # "crash" /\ cause' # "crash"
  BY DEF IInv, Crashed
<1> QED
  BY <1>1, <1>2, <1>3, <1>4 DEF IInv, Crashed

LEMMA QuietLoopKeeps ==
    ASSUME IInv, startup \/ TimesOut \/ on_notification_received \/ teardown
    PROVE  IInv'
<1>1. UNCHANGED <<jobVars, inbox, master, events, interest, sent, latch,
                  shutdown_requested, idle>>
  BY DEF startup, TimesOut, on_notification_received, teardown, loopVars,
         flagVars, worldVars
<1>2. /\ pc \in {"startup", "wait", "batch", "teardown"}
      /\ pc' \in {"wait", "batch", "teardown", "gone"}
      /\ pc' \in {"wait", "batch"} => pc \in {"startup", "wait", "batch"}
      /\ cause' # "crash" \/ UNCHANGED cause
      /\ notifyInterruptPending' \in BOOLEAN
  BY DEF startup, TimesOut, on_notification_received, teardown, Goto, Ends,
         Leaves, IInv, TypeInv, flagVars
<1>3. TypeInv'
  BY <1>1, <1>2 DEF IInv, TypeInv, Places, jobVars
<1>4. Protocol' /\ Asked'
  BY <1>1, <1>2 DEF IInv, Protocol, Asked
<1> QED
  BY <1>1, <1>2, <1>3, <1>4, LoopKeeps

LEMMA WaitKeeps ==
    ASSUME IInv, Wait PROVE IInv'
<1>1. /\ pc = "wait" /\ pc' = "batch" /\ events' \in Batches
      /\ UNCHANGED <<cause, interest, sent, latch, shutdown_requested,
                     notifyInterruptPending, jobVars, inbox, idle, master>>
  BY DEF Wait, Goto, flagVars, worldVars
<1>2. /\ events' \in EventBatches
      /\ events' \in OnlyOf("io") => interest = "write" \/ inbox = 1
  <2>1. inbox > 0 => inbox = 1
    BY DEF IInv, TypeInv
  <2> QED
    BY <1>1, <2>1, BatchesOfOneWait
<1>3. TypeInv'
  BY <1>1, <1>2 DEF IInv, TypeInv, Places, jobVars
<1>4. Protocol' /\ Asked'
  BY <1>1, <1>2 DEF IInv, Protocol, Asked
<1> QED
  BY <1>1, <1>3, <1>4, LoopKeeps

LEMMA LatchOrClosedKeeps ==
    ASSUME IInv, LatchSet \/ SocketClosed PROVE IInv'
<1>1. PICK e : Handle(e)
  BY DEF LatchSet, SocketClosed
<1>2. /\ UNCHANGED <<interest, sent, shutdown_requested, notifyInterruptPending,
                     jobVars, inbox, idle, master>>
      /\ latch' \in BOOLEAN
      /\ pc' \in {"batch", "teardown"}
      /\ cause' # "crash" \/ UNCHANGED cause
  BY DEF LatchSet, SocketClosed, Leaves, Goto, flagVars, worldVars, IInv, TypeInv
<1>3. /\ events' \in EventBatches /\ pc = "batch"
      /\ events' \in OnlyOf("io") => events \in OnlyOf("io")
  BY <1>1, HandledBatches DEF IInv
<1>4. TypeInv'
  BY <1>2, <1>3 DEF IInv, TypeInv, Places, jobVars
<1>5. Protocol' /\ Asked'
  BY <1>2, <1>3 DEF IInv, Protocol, Asked
<1> QED
  BY <1>2, <1>3, <1>4, <1>5, LoopKeeps

LEMMA WriteableKeeps ==
    ASSUME IInv, on_writeable PROVE IInv'
<1>1. /\ Handle("io") /\ interest = "write" /\ pc' = "batch"
      /\ UNCHANGED <<cause, latch, shutdown_requested, notifyInterruptPending,
                     jobVars, inbox, master>>
  BY DEF on_writeable, Goto, flagVars
<1>2. pc = "batch" /\ events' \in NoEvent
  BY <1>1, HandledBatches DEF IInv
<1>3. events' \in EventBatches /\ events' \notin OnlyOf("io")
  BY <1>2 DEF EventBatches, NoEvent, OnlyOf
<1>4. sent \in 0 .. HelloLen - 1 /\ HelloLen \in Nat \ {0} /\ ~ idle /\ inbox = 0
  BY <1>1, WorkerAssumption DEF WorkerAssumption, IInv, TypeInv, Protocol
<1>5. \/ master /\ sent' = 0 /\ interest' = "read" /\ idle' = TRUE
      \/ master /\ sent' \in 0 .. HelloLen - 1 /\ interest' = "write" /\ idle' = FALSE
      \/ ~ master /\ UNCHANGED <<sent, interest, idle>>
  <2>1. CASE ~ master
    BY <2>1 DEF on_writeable
  <2>2. ASSUME NEW n \in 1 .. HelloLen - sent
        PROVE  \/ sent + n = HelloLen /\ SentAfter(n) = 0
               \/ sent + n # HelloLen /\ SentAfter(n) \in 0 .. HelloLen - 1
    BY <1>4, SMTT(30) DEF SentAfter
  <2>3. CASE master
    <3>1. PICK n \in 1 .. HelloLen - sent :
             /\ sent' = SentAfter(n)
             /\ interest' = IF sent + n = HelloLen THEN "read" ELSE "write"
             /\ idle' = (sent + n = HelloLen)
      BY <2>3 DEF on_writeable
    <3>2. CASE sent + n = HelloLen
      BY <2>2, <2>3, <3>1, <3>2
    <3>3. CASE sent + n # HelloLen
      BY <2>2, <2>3, <3>1, <3>3
    <3> QED
      BY <3>2, <3>3
  <2> QED
    BY <2>1, <2>3
<1>6. TypeInv'
  <2>1. sent' \in 0 .. HelloLen - 1 /\ interest' \in {"read", "write"} /\ idle' \in BOOLEAN
    <3>1. 0 \in 0 .. HelloLen - 1
      BY <1>4
    <3> QED
      BY <1>4, <1>5, <3>1 DEF IInv, TypeInv
  <2>2. TypeInv
    BY DEF IInv
  <2> QED
    BY <1>1, <1>3, <2>1, <2>2 DEF TypeInv, Places, jobVars
<1>7. Protocol'
  BY <1>1, <1>3, <1>4, <1>5 DEF Protocol
<1>8. Asked'
  BY <1>1, <1>5 DEF Asked
<1> QED
  BY <1>1, <1>2, <1>6, <1>7, <1>8, LoopKeeps

LEMMA ReceiveFailsKeeps ==
    ASSUME IInv, ReceiveFails PROVE IInv'
<1>1. /\ Handle("io") /\ pc' = "gone" /\ cause' = "fatal"
      /\ UNCHANGED <<interest, sent, latch, shutdown_requested,
                     notifyInterruptPending, jobVars, inbox, idle, master>>
  BY DEF ReceiveFails, Ends, flagVars, worldVars
<1>2. /\ pc = "batch" /\ events' \in EventBatches
      /\ events' \in OnlyOf("io") => events \in OnlyOf("io")
  BY <1>1, HandledBatches DEF IInv
<1>3. TypeInv'
  BY <1>1, <1>2 DEF IInv, TypeInv, Places, jobVars
<1>4. Protocol' /\ Asked'
  BY <1>1, <1>2 DEF IInv, Protocol, Asked
<1> QED
  BY <1>1, <1>2, <1>3, <1>4, LoopKeeps

(* A job begins clean, on a socket that has nothing else to read.           *)
LEMMA ReceiveKeeps ==
    ASSUME IInv, Receive PROVE IInv'
<1>1. /\ Handle("io") /\ interest = "read" /\ pc' = "job"
      /\ inbox' = inbox - 1 /\ client' = TRUE /\ step' = 1
      /\ UNCHANGED <<cause, interest, sent, latch, shutdown_requested,
                     notifyInterruptPending, thrown, spi_connected, exec_env,
                     prepared, tx, watched, wait_sets, committed, idle, master>>
  BY DEF Receive, Goto, flagVars
<1>2. /\ pc = "batch" /\ events \in OnlyOf("io") /\ events' \in NoEvent
      /\ events' \in EventBatches /\ events' \notin OnlyOf("io")
  <2>1. pc = "batch" /\ events \in OnlyOf("io") /\ events' \in NoEvent
    BY <1>1, HandledBatches DEF IInv
  <2> QED
    BY <2>1 DEF EventBatches, NoEvent, OnlyOf
<1>3. inbox' = 0 /\ ~ idle
  BY <1>1, <1>2 DEF IInv, Protocol
<1>4. TypeInv'
  <2>1. /\ inbox' \in {0, 1} /\ step' \in 1 .. 7
        /\ client' \in BOOLEAN
        /\ pc' \in Places
    <3>1. inbox' \in {0, 1} /\ step' \in 1 .. 7
      <4>1. inbox' = 0 /\ step' = 1
        BY <1>1, <1>3
      <4> QED
        BY <4>1
    <3>2. client' \in BOOLEAN
      BY <1>1
    <3>3. pc' \in Places
      BY <1>1 DEF Places
    <3> QED
      BY <3>1, <3>2, <3>3
  <2>2. TypeInv
    BY DEF IInv
  <2> QED
    BY <1>1, <1>2, <2>1, <2>2 DEF TypeInv
<1>5. Protocol'
  BY <1>1, <1>2, <1>3 DEF IInv, Protocol
<1>6. Progress'
  <2>1. tx = "none" /\ ~ spi_connected /\ ~ exec_env /\ ~ prepared /\ ~ thrown
    BY <1>2 DEF IInv, Clean
  <2>2. ~ (step' > 2) /\ ~ (step' > 4) /\ ~ (step' > 6)
    BY <1>1
  <2> QED
    BY <1>1, <1>2, <1>3, <2>1, <2>2 DEF Progress
<1>7. Clean' /\ Asked'
  BY <1>1 DEF Clean, Asked
<1>8. Crashed'
  BY <1>1, <1>2 DEF IInv, Crashed
<1> QED
  BY <1>1, <1>4, <1>5, <1>6, <1>7, <1>8 DEF IInv

(* What the steps inside a job have in common: the hello, the batch and the  *)
(* master's socket wait until on_readable returns.                           *)
LEMMA JobKeeps ==
    ASSUME IInv, InJob, pc' \in {"job", "guest", "io", "finally"},
           UNCHANGED <<cause, loopVars, flagVars, client, committed, inbox, idle, master>>,
           TypeInv', Progress'
    PROVE  IInv'
<1>1. UNCHANGED <<events, interest>> /\ UNCHANGED sent
  BY DEF loopVars
<1>2. Protocol'
  BY <1>1 DEF IInv, Protocol
<1>3. Clean' /\ Asked'
  BY DEF Clean, Asked
<1>4. Crashed'
  BY DEF IInv, Crashed, InJob
<1> QED
  BY <1>2, <1>3, <1>4 DEF IInv

LEMMA SucceedsKeeps ==
    ASSUME IInv, Succeeds PROVE IInv'
<1>1. /\ pc = "job" /\ InJob
      /\ UNCHANGED <<cause, loopVars, flagVars, thrown, client, committed,
                     inbox, idle, master>>
  BY DEF Succeeds, Goto, InJob, worldVars
<1>2. /\ TypeInv /\ Progress /\ step \in {1, 2, 3, 4, 5, 6, 7}
      /\ ExternalFDs \in Nat /\ wait_sets \in 0 .. ExternalFDs
  BY WorkerAssumption DEF WorkerAssumption, IInv, TypeInv
<1>3. /\ spi_connected' = (spi_connected \/ step = 2)
      /\ exec_env' = (exec_env \/ step = 4)
      /\ prepared' = (prepared \/ step = 6)
      /\ tx' = IF step = 2 THEN "clean" ELSE tx
  BY <1>1, <1>2, StepNames DEF Succeeds, Prepares
<1>4. wait_sets' \in 0 .. ExternalFDs
  <2>1. CASE step = 5
    <3>1. wait_sets # ExternalFDs /\ wait_sets' = wait_sets + 1
      BY <1>1, <1>2, <2>1, StepNames DEF Succeeds
    <3> QED
      BY <1>2, <3>1
  <2>2. CASE step # 5
    BY <1>2, <2>2, StepNames DEF Succeeds
  <2> QED
    BY <2>1, <2>2
<1>5. \/ step = 7 /\ step' = 7 /\ pc' = "guest"
      \/ step < 7 /\ step' = step + 1 /\ pc' = "job"
  BY <1>1, <1>2, StepNumbers DEF Succeeds, Goto
<1>6. TypeInv'
  <2>1. step' \in 1 .. 7
    BY <1>2, <1>5
  <2>2. tx' \in {"none", "clean", "dirty"}
    BY <1>2, <1>3 DEF TypeInv
  <2>3. spi_connected' \in BOOLEAN /\ exec_env' \in BOOLEAN /\ prepared' \in BOOLEAN
    BY <1>3
  <2>4. pc' \in Places
    BY <1>5 DEF Places
  <2> QED
    BY <1>1, <1>2, <1>4, <2>1, <2>2, <2>3, <2>4 DEF TypeInv, loopVars, flagVars
<1>7. Progress'
  <2>1. /\ spi_connected <=> step > 2
        /\ exec_env <=> step > 4
        /\ prepared <=> step > 6
        /\ step < 3 => tx = "none"
        /\ ~ thrown /\ interest = "read" /\ ~ idle /\ inbox = 0 /\ events \in NoEvent
    BY <1>1, <1>2 DEF Progress
  <2>2. /\ spi_connected' <=> step' > 2
        /\ exec_env' <=> step' > 4
        /\ prepared' <=> step' > 6
    <3>1. /\ step' > 2 <=> step > 2 \/ step = 2
          /\ step' > 4 <=> step > 4 \/ step = 4
          /\ step' > 6 <=> step > 6 \/ step = 6
      BY <1>2, <1>5
    <3> QED
      BY <1>3, <2>1, <3>1, Zenon
  <2>3. step' < 3 => tx' = "none"
    BY <1>2, <1>3, <1>5, <2>1
  <2> QED
    BY <1>1, <1>5, <2>1, <2>2, <2>3 DEF Progress, loopVars
<1> QED
  BY <1>1, <1>5, <1>6, <1>7, JobKeeps

(* An error leaves the statement where it was raised on record.             *)
LEMMA ThrowsKeeps ==
    ASSUME IInv, Throws PROVE IInv'
<1>1. /\ pc = "job" /\ InJob /\ thrown' = TRUE /\ pc' = "finally"
      /\ UNCHANGED <<cause, loopVars, flagVars, step, spi_connected, exec_env,
                     prepared, client, wait_sets, committed, inbox, idle, master>>
  BY DEF Throws, Goto, InJob, worldVars
<1>2. tx' \in {"none", "clean", tx}
  BY DEF Throws
<1>3. TypeInv'
  <2>1. TypeInv
    BY DEF IInv
  <2>2. tx' \in {"none", "clean", "dirty"}
    BY <1>2, <2>1 DEF TypeInv
  <2>3. pc' \in Places /\ thrown' \in BOOLEAN
    BY <1>1 DEF Places
  <2> QED
    BY <1>1, <2>1, <2>2, <2>3 DEF TypeInv, loopVars, flagVars
<1>4. Steps[step] \in Faults \/ wait_sets = ExternalFDs
  BY DEF Throws, MayFail
<1>5. Progress'
  BY <1>1, <1>4 DEF IInv, Progress, loopVars
<1> QED
  BY <1>1, <1>3, <1>5, JobKeeps

(* The guest's code: its writes, its calls, and how it ends.                *)
LEMMA GuestKeeps ==
    ASSUME IInv,
           GuestWrites \/ GuestCalls \/ CallReturns
              \/ \E how \in {"returned", "trapped", "threw"} : GuestEnds(how)
    PROVE  IInv'
<1>1. /\ pc \in {"guest", "io"} /\ InJob
      /\ UNCHANGED <<cause, loopVars, flagVars, client, committed, inbox, idle,
                     master, step, spi_connected, exec_env, prepared, wait_sets>>
  BY DEF GuestWrites, GuestCalls, CallReturns, GuestEnds, Goto, InJob, jobVars, worldVars
<1>2. /\ pc' \in {"guest", "io", "finally"}
      /\ thrown' \in BOOLEAN
      /\ pc' # "finally" => thrown' = thrown
      /\ tx' \in {tx, "dirty"}
  <2>1. CASE GuestWrites
    BY <1>1, <2>1 DEF GuestWrites, IInv, TypeInv
  <2>2. CASE GuestCalls
    BY <2>2 DEF GuestCalls, Goto, IInv, TypeInv
  <2>3. CASE CallReturns
    BY <2>3 DEF CallReturns, Goto, IInv, TypeInv, jobVars
  <2>4. ASSUME NEW how, GuestEnds(how)
        PROVE  pc' = "finally" /\ thrown' \in BOOLEAN /\ tx' = tx
    BY <2>4 DEF GuestEnds, Goto
  <2> QED
    BY <2>1, <2>2, <2>3, <2>4
<1>3. TypeInv'
  <2>1. TypeInv
    BY DEF IInv
  <2>2. tx' \in {"none", "clean", "dirty"}
    BY <1>2, <2>1 DEF TypeInv
  <2>3. pc' \in Places
    BY <1>2 DEF Places
  <2> QED
    BY <1>1, <1>2, <2>1, <2>2, <2>3 DEF TypeInv, loopVars, flagVars
<1>4. Progress'
  <2>1. /\ interest = "read" /\ ~ idle /\ inbox = 0 /\ events \in NoEvent
        /\ spi_connected <=> step > 2
        /\ exec_env <=> step > 4
        /\ prepared <=> step > 6
        /\ step = 7 /\ ~ thrown
    BY <1>1 DEF IInv, Progress
  <2>2. /\ spi_connected' <=> step' > 2
        /\ exec_env' <=> step' > 4
        /\ prepared' <=> step' > 6
    BY <1>1, <2>1, Zenon
  <2>3. step' = 7 /\ ~ (step' < 7)
    BY <1>1, <2>1
  <2> QED
    BY <1>1, <1>2, <2>1, <2>2, <2>3 DEF Progress, loopVars
<1> QED
  BY <1>1, <1>2, <1>3, <1>4, JobKeeps

(* A crash meets an execution environment without a context: an error of    *)
(* the steps in between.                                                     *)
LEMMA CrashesKeeps ==
    ASSUME IInv, Crashes PROVE IInv'
<1>1. /\ pc = "finally" /\ ~ prepared /\ pc' = "gone" /\ cause' = "crash"
      /\ UNCHANGED <<loopVars, flagVars, jobVars, inbox, idle, master>>
  BY DEF Crashes, Ends, worldVars
<1>2. exec_env
  <2>1. TRUE \in Read(exec_env) /\ exec_env \in BOOLEAN
    BY DEF Crashes, IInv, TypeInv
  <2> QED
    BY <2>1 DEF Read
<1>3. TypeInv /\ Progress /\ InJob
  BY <1>1 DEF IInv, InJob
<1>4. step \in {5, 6}
  <2>1. step > 4 /\ ~ (step > 6)
    BY <1>1, <1>2, <1>3 DEF Progress
  <2> QED
    BY <1>3, <2>1 DEF TypeInv
<1>5. Steps[step] \in Faults \/ wait_sets = ExternalFDs
  BY <1>1, <1>3, <1>4 DEF Progress
<1>6. CrashesInTheWindow'
  BY <1>1, <1>4, <1>5, StepNumbers DEF CrashesInTheWindow, jobVars
<1>7. TypeInv'
  BY <1>1, <1>3 DEF TypeInv, Places, loopVars, flagVars, jobVars
<1>8. Protocol' /\ Progress' /\ Clean' /\ Asked' /\ Crashed'
  BY <1>1, <1>6 DEF IInv, Protocol, Progress, InJob, Clean, Asked, Crashed, loopVars
<1> QED
  BY <1>1, <1>7, <1>8 DEF IInv, jobVars

(* PG_FINALLY returns to the loop only for a job that raised no error: it    *)
(* was connected, and its transaction is closed.                             *)
LEMMA FinallyKeeps ==
    ASSUME IInv, Finally PROVE IInv'
<1>1. /\ pc = "finally" /\ InJob
      /\ exec_env' = FALSE /\ prepared' = FALSE /\ watched' = "none"
      /\ spi_connected' = FALSE /\ client' = FALSE /\ thrown' = FALSE
      /\ interest' = "write"
      /\ UNCHANGED <<events, sent, latch, shutdown_requested,
                     notifyInterruptPending, step, wait_sets, inbox, idle, master>>
  BY DEF Finally, AsksAgain, InJob, flagVars, worldVars
<1>2. TypeInv /\ Progress
  BY DEF IInv
<1>3. \/ thrown /\ pc' = "gone" /\ cause' = "error"
      \/ ~ thrown /\ pc' = "batch" /\ cause' = cause
  BY DEF Finally, Ends, Goto
<1>4. cause # "crash" /\ cause' # "crash"
  BY <1>1, <1>3 DEF IInv, Crashed
<1>5. PICK connected \in Read(spi_connected) : Commit(connected)
  BY DEF Finally
<1>6. tx' \in {"none", tx} /\ (~ thrown => tx' = "none")
  <2>1. tx' = "none" \/ (~ connected /\ tx' = tx)
    BY <1>5 DEF Commit
  <2>2. ~ thrown => connected
    <3>1. ~ thrown => step > 2 /\ connected = spi_connected
      BY <1>1, <1>2, <1>5 DEF Progress, Read
    <3> QED
      BY <1>1, <1>2, <3>1 DEF Progress
  <2> QED
    BY <2>1, <2>2
<1>7. committed' \subseteq {"returned"}
  BY <1>5 DEF Commit, Commits, IInv
<1>8. TypeInv'
  <2>1. tx' \in {"none", "clean", "dirty"}
    BY <1>2, <1>6 DEF TypeInv
  <2>2. /\ exec_env' \in BOOLEAN /\ prepared' \in BOOLEAN /\ spi_connected' \in BOOLEAN
        /\ client' \in BOOLEAN /\ thrown' \in BOOLEAN
    BY <1>1
  <2>3. pc' \in Places /\ interest' \in {"read", "write"}
    BY <1>1, <1>3 DEF Places
  <2> QED
    BY <1>1, <1>2, <2>1, <2>2, <2>3 DEF TypeInv
<1>9. /\ ~ idle' /\ inbox' = 0 /\ events' \in NoEvent
      /\ events' \notin OnlyOf("io")
  <2>1. ~ idle /\ inbox = 0 /\ events \in NoEvent
    BY <1>1, <1>2 DEF Progress
  <2> QED
    BY <1>1, <2>1 DEF NoEvent, OnlyOf
<1>10. Protocol' /\ Asked'
  BY <1>1, <1>3, <1>9 DEF Protocol, Asked
<1>11. Progress' /\ Clean'
  BY <1>1, <1>3, <1>6 DEF Progress, InJob, Clean
<1> QED
  BY <1>4, <1>7, <1>8, <1>10, <1>11 DEF IInv, Crashed

LEMMA WorkerStep == IInv /\ [Next]_vars => IInv'
<1> SUFFICES ASSUME IInv, [Next]_vars PROVE IInv'
  OBVIOUS
<1>1. CASE WorkerNext
  BY <1>1, QuietLoopKeeps, WaitKeeps, LatchOrClosedKeeps, WriteableKeeps,
     ReceiveKeeps, SucceedsKeeps, ThrowsKeeps, GuestKeeps, FinallyKeeps,
     CrashesKeeps DEF WorkerNext
<1>2. CASE TimesOut \/ ReceiveFails \/ GuestWrites \/ SendJob
  BY <1>2, QuietLoopKeeps, ReceiveFailsKeeps, GuestKeeps, SendJobKeeps
<1>3. CASE MasterGone \/ ClientMoves \/ on_sigusr1 \/ on_sigterm \/ UNCHANGED vars
  BY <1>3, OthersKeep
<1> QED
  BY <1>1, <1>2, <1>3 DEF Next

-----------------------------------------------------------------------------
(* The properties of the worker, for every value of its constants            *)

(* Whatever fails in a job, the event loop goes on only with nothing of it   *)
(* left: no transaction, connection, environment, context or descriptor; and *)
(* what was committed was written by a guest that returned.  The hello asks  *)
(* for one job at a time (on_readable and on_writeable of worker.c).         *)
THEOREM WorkerClean == Spec => []CleanBetweenJobs
<1>1. IInv => CleanBetweenJobs
  <2> SUFFICES ASSUME IInv, pc \in {"wait", "batch"} PROVE CleanBetweenJobs
    BY DEF CleanBetweenJobs
  <2>1. /\ tx = "none" /\ ~ spi_connected /\ ~ exec_env /\ ~ prepared
        /\ ~ client /\ watched = "none" /\ ~ thrown
        /\ committed \subseteq {"returned"}
    BY DEF IInv, Clean
  <2>2. interest = "write" => ~ idle /\ inbox = 0
    BY DEF IInv, Protocol
  <2>3. master /\ interest = "read" => sent = 0 /\ (idle <=> inbox = 0)
    BY DEF IInv, Protocol, Asked
  <2> QED
    BY <2>1, <2>2, <2>3 DEF CleanBetweenJobs
<1> QED
  BY WorkerInit, WorkerStep, <1>1, PTL DEF Spec

(* PG_FINALLY of on_readable crashes only between the instance and its       *)
(* context, on an error raised there: one that may come at any time, or the  *)
(* one that comes for certain once the wait sets of earlier jobs have used   *)
(* up the process's descriptors.                                             *)
THEOREM WorkerCrashes == Spec => []CrashesInTheWindow
<1>1. IInv => CrashesInTheWindow
  BY DEF IInv, Crashed, CrashesInTheWindow
<1> QED
  BY WorkerInit, WorkerStep, <1>1, PTL DEF Spec

(* The variables keep their types; the master's socket never holds two jobs, *)
(* and the wait sets never exceed what PostgreSQL reserves.                  *)
THEOREM WorkerTypes == Spec => []TypeInv
<1>1. IInv => TypeInv
  BY DEF IInv
<1> QED
  BY WorkerInit, WorkerStep, <1>1, PTL DEF Spec
=============================================================================
