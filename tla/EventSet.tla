------------------------------ MODULE EventSet ------------------------------
(***************************************************************************)
(* WaitEventSetEx of src/rustica/event_set.c: PostgreSQL's WaitEventSet    *)
(* only ever appends, so the extension keeps a ring of free positions      *)
(* beside it and, before each addition, points wait_set->nevents at the    *)
(* position PostgreSQL is to use.                                          *)
(***************************************************************************)
EXTENDS Integers, Sequences

CONSTANTS NSpace, Fds, Interests

\* CreateWaitEventSetEx is called with 1 + listeners + max_worker_processes.
ASSUME NSpaceAssumption == NSpace \in Nat \ {0}

VARIABLES slots,    \* WaitEventSetEx.slots: the ring of positions
          head,     \* the next position to hand out is slots[head]
          tail,     \* the next position given back is stored at slots[tail]
          used,     \* how many positions are in use
          nevents,  \* WaitEventSet.nevents, where PostgreSQL appends
          events    \* WaitEventSet.events: position -> {<<fd, mask>>} or {}

vars == <<slots, head, tail, used, nevents, events>>

Positions == 0 .. NSpace - 1

-----------------------------------------------------------------------------
(* Slips of the kind these functions invite; each breaks a property below.  *)

\* The freed position overwrites the next one to hand out.
DeleteAtHead(pos) ==
    /\ events[pos] # {}
    /\ slots' = [slots EXCEPT ![head] = pos]
    /\ tail' = (tail + 1) % NSpace
    /\ used' = used - 1 /\ nevents' = used - 1
    /\ events' = [events EXCEPT ![pos] = {}]
    /\ UNCHANGED head

\* A stack: the freed position is the next one handed out.
DeleteAsStack(pos) ==
    LET top == (head + NSpace - 1) % NSpace IN
    /\ events[pos] # {}
    /\ slots' = [slots EXCEPT ![top] = pos]
    /\ head' = top
    /\ used' = used - 1 /\ nevents' = used - 1
    /\ events' = [events EXCEPT ![pos] = {}]
    /\ UNCHANGED tail

\* PostgreSQL's own append position is trusted.
AddAtNevents(fd, mask) ==
    /\ used # NSpace
    /\ events' = [events EXCEPT ![nevents] = {<<fd, mask>>}]
    /\ head' = (head + 1) % NSpace
    /\ used' = used + 1 /\ nevents' = used + 1
    /\ UNCHANGED <<slots, tail>>

-----------------------------------------------------------------------------
\* CreateWaitEventSetEx: every position is free, in order.
Init ==
    /\ slots = [i \in Positions |-> i]
    /\ head = 0
    /\ tail = 0
    /\ used = 0
    /\ nevents = 0
    /\ events = [p \in Positions |-> {}]

\* NextWaitEventPos: -1 when every position is in use.
NextWaitEventPos == IF used = NSpace THEN -1 ELSE slots[head]

(* PostgreSQL's AddWaitEventToSet stores the event at position nevents,     *)
(* which the code has just set to slots[head]; its own increment of nevents *)
(* is overwritten.  With no free position the call returns -1.              *)
AddWaitEventToSetEx(fd, mask) ==
    /\ used # NSpace
    /\ events' = [events EXCEPT ![slots[head]] = {<<fd, mask>>}]
    /\ head' = (head + 1) % NSpace
    /\ used' = used + 1
    /\ nevents' = used + 1
    /\ UNCHANGED <<slots, tail>>

ModifyWaitEventEx(pos, mask) ==
    /\ \E e \in events[pos] : events' = [events EXCEPT ![pos] = {<<e[1], mask>>}]
    /\ UNCHANGED <<slots, head, tail, used, nevents>>

(* The caller owns pos: master.c deletes sockets[i].pos of a live backend.  *)
DeleteWaitEventEx(pos) ==
    /\ events[pos] # {}
    /\ slots' = [slots EXCEPT ![tail] = pos]
    /\ tail' = (tail + 1) % NSpace
    /\ used' = used - 1
    /\ nevents' = used - 1
    /\ events' = [events EXCEPT ![pos] = {}]
    /\ UNCHANGED head

Next ==
    \/ \E fd \in Fds, mask \in Interests : AddWaitEventToSetEx(fd, mask)
    \/ \E pos \in Positions, mask \in Interests : ModifyWaitEventEx(pos, mask)
    \/ \E pos \in Positions : DeleteWaitEventEx(pos)

Spec == Init /\ [][Next]_vars

-----------------------------------------------------------------------------
(* The free positions in ring order: slots[head], slots[head + 1], ...      *)
NFree == NSpace - used
FreeRing == [i \in 1 .. NFree |-> slots[(head + i - 1) % NSpace]]

(* Every variable has the range its C type and the ring give it.            *)
TypeOK ==
    /\ slots \in [Positions -> Positions]
    /\ head \in Positions
    /\ tail \in Positions
    /\ used \in 0 .. NSpace
    /\ nevents \in 0 .. NSpace
    /\ events \in [Positions -> {{}} \cup {{o} : o \in Fds \X Interests}]

(* The ring of free positions (slots, head, tail, used) never forgets a     *)
(* position and never holds one twice or one in use: its entries are        *)
(* distinct and are exactly the positions no event is registered at,        *)
(* whatever the order in which positions are added and deleted.             *)
FreeRingExact ==
    /\ \A i, j \in 1 .. NFree : FreeRing[i] = FreeRing[j] => i = j
    /\ \A p \in Positions :
          (events[p] = {}) <=> \E i \in 1 .. NFree : FreeRing[i] = p

(* AddWaitEventToSetEx never overwrites another registration (its owner     *)
(* would lose every later wake-up), and it uses the position that           *)
(* NextWaitEventPos announced, where master.c has already filled sockets[]. *)
AddIsWhereAnnounced ==
    [][\A p \in Positions : (used' = used + 1 /\ events'[p] # events[p])
          => (events[p] = {} /\ p = NextWaitEventPos)]_vars

(* The abstract pool, its waiting line read off the ring.                   *)
Pool == INSTANCE SlotPool WITH free <- FreeRing, owner <- events

(* event_set.c implements the pool: positions are handed out and returned   *)
(* exactly as SlotPool says, first freed first reused.                      *)
PoolSpec == Pool!Spec
=============================================================================
