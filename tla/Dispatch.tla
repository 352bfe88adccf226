------------------------------ MODULE Dispatch ------------------------------
(***************************************************************************)
(* What the rustica master promises of client connections: they wait in    *)
(* one line, in the order in which they were accepted, each is given to    *)
(* one worker that is still there, which takes what it is given in that     *)
(* order.  One leaves the line unserved only when JobQLen others wait       *)
(* before it or when the master stops, and a worker's hands only when it is *)
(* done or when that worker is gone.  That a worker is given one at a time  *)
(* is not promised: see ParkedAreQueued in Master.                          *)
(***************************************************************************)
EXTENDS Integers, Sequences

CONSTANTS Clients, Workers, JobQLen

VARIABLES waiting,   \* accepted connections no worker has, oldest first
          holding,   \* worker -> the connections it has been given
          serving,   \* the master has not stopped
          ended      \* the workers that are gone for good

vars == <<waiting, holding, serving, ended>>

Init ==
    /\ waiting = <<>> /\ serving = TRUE
    /\ holding = [w \in Workers |-> <<>>] /\ ended = {}

Accept(c) ==
    /\ serving
    /\ waiting' = Append(waiting, c)
    /\ UNCHANGED <<holding, serving, ended>>

Assign(w) ==
    /\ serving /\ waiting # <<>> /\ w \notin ended
    /\ holding' = [holding EXCEPT ![w] = Append(@, Head(waiting))]
    /\ waiting' = Tail(waiting)
    /\ UNCHANGED <<serving, ended>>

Finish(w) ==
    /\ holding[w] # <<>> /\ w \notin ended
    /\ holding' = [holding EXCEPT ![w] = Tail(@)]
    /\ UNCHANGED <<waiting, serving, ended>>

\* The worker is gone, with what it had.
Lose(w) ==
    /\ w \notin ended
    /\ ended' = ended \cup {w}
    /\ holding' = [holding EXCEPT ![w] = <<>>]
    /\ UNCHANGED <<waiting, serving>>

Refuse ==
    /\ serving /\ Len(waiting) > JobQLen
    /\ waiting' = SubSeq(waiting, 1, Len(waiting) - 1)
    /\ UNCHANGED <<holding, serving, ended>>

\* The master exits, once: the connections that waited are closed.
Stop ==
    /\ serving /\ serving' = FALSE
    /\ waiting' = <<>>
    /\ UNCHANGED <<holding, ended>>

Next ==
    \/ \E c \in Clients : Accept(c)
    \/ \E w \in Workers : Assign(w) \/ Finish(w) \/ Lose(w)
    \/ Refuse \/ Stop

Spec == Init /\ [][Next]_vars
=============================================================================
