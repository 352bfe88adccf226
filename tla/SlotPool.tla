------------------------------ MODULE SlotPool ------------------------------
(***************************************************************************)
(* What WaitEventSetEx (event_set.c) promises the rustica master: a pool   *)
(* of numbered positions.  A position is taken from the front of the       *)
(* waiting line, is owned by one registered descriptor until it is given   *)
(* back, and then waits behind every position that was free before it.     *)
(***************************************************************************)
EXTENDS Integers, Sequences

CONSTANTS NSpace,     \* number of positions (wait_set->nevents_space)
          Fds,        \* what can be registered: descriptors and the latch
          Interests   \* the event masks it can be registered for

VARIABLES free,       \* the free positions, longest free first
          owner       \* position -> {<<fd, interest>>}, or {} when free

vars == <<free, owner>>

Positions == 0 .. NSpace - 1

Init ==
    /\ free = [i \in 1 .. NSpace |-> i - 1]
    /\ owner = [p \in Positions |-> {}]

Take(fd, interest) ==
    /\ Len(free) > 0
    /\ owner' = [owner EXCEPT ![Head(free)] = {<<fd, interest>>}]
    /\ free' = Tail(free)

Change(p, interest) ==
    /\ \E o \in owner[p] : owner' = [owner EXCEPT ![p] = {<<o[1], interest>>}]
    /\ free' = free

Give(p) ==
    /\ owner[p] # {}
    /\ owner' = [owner EXCEPT ![p] = {}]
    /\ free' = Append(free, p)

Next ==
    \/ \E fd \in Fds, interest \in Interests : Take(fd, interest)
    \/ \E p \in Positions, interest \in Interests : Change(p, interest)
    \/ \E p \in Positions : Give(p)

Spec == Init /\ [][Next]_vars
=============================================================================
