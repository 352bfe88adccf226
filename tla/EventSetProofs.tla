--------------------------- MODULE EventSetProofs ---------------------------
(***************************************************************************)
(* Proofs about the ring of free positions of event_set.c, for every       *)
(* number of positions.                                                    *)
(***************************************************************************)
EXTENDS EventSet, FiniteSets, FiniteSetTheorems, SequenceTheorems, TLAPS

(* The next returned position goes right behind the last free one.         *)
TailFollows == tail = (head + NFree) % NSpace

InUse == {p \in Positions : events[p] # {}}

(* used, which decides when the set is full, counts the registrations.     *)
UsedCounts == used = Cardinality(InUse)

IInv == TypeOK /\ TailFollows /\ UsedCounts /\ FreeRingExact

-----------------------------------------------------------------------------
(* An index short of two turns of the ring is reduced by at most one turn, *)
(* so all of the ring's arithmetic is linear.                              *)
Wrap(x) == IF x < NSpace THEN x ELSE x - NSpace

LEMMA Turn ==
    ASSUME NEW x \in 0 .. 2 * NSpace - 1
    PROVE  x % NSpace = Wrap(x)
<1>1. CASE x < NSpace
  BY <1>1, NSpaceAssumption, SMT DEF Wrap
<1>2. CASE x >= NSpace
  BY <1>2, NSpaceAssumption, SMT DEF Wrap
<1> QED
  BY <1>1, <1>2, NSpaceAssumption

LEMMA NextIndex ==
    ASSUME NEW h \in Positions
    PROVE  (h + 1) % NSpace = Wrap(h + 1) /\ Wrap(h + 1) \in Positions
<1>1. PICK x \in 0 .. 2 * NSpace - 1 : x = h + 1
  BY NSpaceAssumption DEF Positions
<1>2. x % NSpace = Wrap(x)
  BY Turn
<1>3. (h + 1) % NSpace = Wrap(h + 1)
  BY <1>1, <1>2
<1>4. Wrap(h + 1) \in Positions
  BY NSpaceAssumption DEF Wrap, Positions
<1> QED
  BY <1>3, <1>4

(* The entries of the ring, and the place behind the last one.             *)
LEMMA RingLinear ==
    ASSUME NEW h \in Positions, NEW u \in 0 .. NSpace, NEW s
    PROVE  /\ [i \in 1 .. NSpace - u |-> s[(h + i - 1) % NSpace]]
                = [i \in 1 .. NSpace - u |-> s[Wrap(h + i - 1)]]
           /\ (h + (NSpace - u)) % NSpace = Wrap(h + (NSpace - u))
<1>1. ASSUME NEW i \in 1 .. NSpace - u
      PROVE  (h + i - 1) % NSpace = Wrap(h + i - 1)
  <2>1. PICK x \in 0 .. 2 * NSpace - 1 : x = h + i - 1
    BY NSpaceAssumption DEF Positions
  <2>2. x % NSpace = Wrap(x)
    BY Turn
  <2> QED
    BY <2>1, <2>2
<1>2. (h + (NSpace - u)) % NSpace = Wrap(h + (NSpace - u))
  <2>1. PICK x \in 0 .. 2 * NSpace - 1 : x = h + (NSpace - u)
    BY NSpaceAssumption DEF Positions
  <2>2. x % NSpace = Wrap(x)
    BY Turn
  <2> QED
    BY <2>1, <2>2
<1> QED
  BY <1>1, <1>2

(* AddWaitEventToSetEx takes the first entry and shifts the others.        *)
LEMMA AddShiftsRing ==
    ASSUME TypeOK, TailFollows, NEW fd, NEW mask, AddWaitEventToSetEx(fd, mask)
    PROVE  /\ used \in 0 .. NSpace - 1
           /\ used' = used + 1
           /\ FreeRing[1] = slots[head]
           /\ \A i \in 1 .. NSpace - used' : FreeRing'[i] = FreeRing[i + 1]
           /\ head' \in Positions
           /\ TailFollows'
<1> USE NSpaceAssumption
<1>1. /\ used \in 0 .. NSpace - 1
      /\ used' = used + 1
      /\ slots' = slots
      /\ tail' = tail
      /\ head \in Positions
  BY DEF TypeOK, AddWaitEventToSetEx
<1>2. head' = Wrap(head + 1) /\ head' \in Positions
  BY <1>1, NextIndex DEF AddWaitEventToSetEx
<1>3. FreeRing = [i \in 1 .. NSpace - used |-> slots[Wrap(head + i - 1)]]
  BY <1>1, RingLinear DEF FreeRing, NFree
<1>4. FreeRing' = [i \in 1 .. NSpace - used' |-> slots[Wrap(head' + i - 1)]]
  BY <1>1, <1>2, RingLinear DEF FreeRing, NFree
<1>5. FreeRing[1] = slots[head]
  BY <1>1, <1>3 DEF Wrap, Positions
<1>6. ASSUME NEW i \in 1 .. NSpace - used'
      PROVE  FreeRing'[i] = FreeRing[i + 1]
  <2>1. Wrap(head' + i - 1) = Wrap(head + (i + 1) - 1)
    BY <1>1, <1>2 DEF Wrap, Positions
  <2> QED
    BY <1>1, <1>3, <1>4, <2>1
<1>7. TailFollows'
  <2>1. tail = Wrap(head + (NSpace - used))
    BY <1>1, RingLinear DEF TailFollows, NFree
  <2>2. (head' + (NSpace - used')) % NSpace = Wrap(head' + (NSpace - used'))
    BY <1>1, <1>2, RingLinear
  <2>3. Wrap(head' + (NSpace - used')) = Wrap(head + (NSpace - used))
    BY <1>1, <1>2 DEF Wrap, Positions
  <2> QED
    BY <1>1, <2>1, <2>2, <2>3 DEF TailFollows, NFree
<1> QED
  BY <1>1, <1>2, <1>5, <1>6, <1>7

LEMMA InUseFinite == IsFiniteSet(InUse)
<1>1. IsFiniteSet(Positions)
  BY NSpaceAssumption, FS_Interval DEF Positions
<1> QED
  BY <1>1, FS_Subset DEF InUse

(* DeleteWaitEventEx appends the position to the ring.                     *)
LEMMA DeleteAppendsRing ==
    ASSUME TypeOK, TailFollows, UsedCounts,
           NEW pos \in Positions, DeleteWaitEventEx(pos)
    PROVE  /\ used \in 1 .. NSpace
           /\ used' = used - 1
           /\ FreeRing'[NSpace - used + 1] = pos
           /\ \A i \in 1 .. NSpace - used : FreeRing'[i] = FreeRing[i]
           /\ tail' \in Positions
           /\ TailFollows'
<1> USE NSpaceAssumption
<1>1. used \in 1 .. NSpace
  <2>1. InUse # {}
    BY DEF InUse, DeleteWaitEventEx
  <2>2. Cardinality(InUse) # 0
    BY <2>1, InUseFinite, FS_EmptySet
  <2> QED
    BY <2>2 DEF UsedCounts, TypeOK
<1>2. /\ used' = used - 1
      /\ used' \in 0 .. NSpace
      /\ slots' = [slots EXCEPT ![tail] = pos]
      /\ head' = head
      /\ head \in Positions
      /\ tail \in Positions
      /\ slots \in [Positions -> Positions]
  BY <1>1 DEF TypeOK, DeleteWaitEventEx
<1>3. tail' = Wrap(tail + 1) /\ tail' \in Positions
  BY <1>2, NextIndex DEF DeleteWaitEventEx
<1>4. tail = Wrap(head + (NSpace - used))
  <2>1. used \in 0 .. NSpace
    BY <1>1
  <2>2. (head + (NSpace - used)) % NSpace = Wrap(head + (NSpace - used))
    BY <1>2, <2>1, RingLinear
  <2> QED
    BY <2>2 DEF TailFollows, NFree
<1>5. FreeRing = [i \in 1 .. NSpace - used |-> slots[Wrap(head + i - 1)]]
  BY <1>1, <1>2, RingLinear DEF FreeRing, NFree
<1>6. FreeRing' = [i \in 1 .. NSpace - used' |-> slots'[Wrap(head + i - 1)]]
  BY <1>2, RingLinear DEF FreeRing, NFree
<1>7. FreeRing'[NSpace - used + 1] = pos
  <2>1. Wrap(head + (NSpace - used + 1) - 1) = tail
    BY <1>1, <1>2, <1>4 DEF Wrap, Positions
  <2>2. NSpace - used + 1 \in 1 .. NSpace - used'
    BY <1>1, <1>2
  <2>3. FreeRing'[NSpace - used + 1] = slots'[tail]
    BY <1>6, <2>1, <2>2
  <2> QED
    BY <1>2, <2>3
<1>8. ASSUME NEW i \in 1 .. NSpace - used
      PROVE  FreeRing'[i] = FreeRing[i]
  <2>1. Wrap(head + i - 1) # tail /\ Wrap(head + i - 1) \in Positions
    BY <1>1, <1>2, <1>4, SMTT(30) DEF Wrap, Positions
  <2>2. i \in 1 .. NSpace - used'
    BY <1>1, <1>2
  <2> QED
    BY <1>2, <1>5, <1>6, <2>1, <2>2
<1>9. TailFollows'
  <2>1. (head + (NSpace - used')) % NSpace = Wrap(head + (NSpace - used'))
    BY <1>2, RingLinear
  <2>2. Wrap(head + (NSpace - used')) = Wrap(tail + 1)
    BY <1>1, <1>2, <1>4, SMTT(30) DEF Wrap, Positions
  <2> QED
    BY <1>2, <1>3, <2>1, <2>2 DEF TailFollows, NFree
<1> QED
  BY <1>1, <1>2, <1>3, <1>7, <1>8, <1>9
-----------------------------------------------------------------------------
LEMMA InitInvariant == Init => IInv
<1> SUFFICES ASSUME Init PROVE IInv
  OBVIOUS
<1> USE NSpaceAssumption
<1>1. used = 0 /\ head = 0 /\ tail = 0
  BY DEF Init
<1>2. TypeOK
  BY DEF Init, TypeOK, Positions
<1>3. TailFollows
  <2>1. (head + (NSpace - used)) % NSpace = Wrap(head + (NSpace - used))
    BY <1>2, RingLinear DEF TypeOK
  <2>2. Wrap(head + (NSpace - used)) = 0
    BY <1>1 DEF Wrap
  <2> QED
    BY <1>1, <2>1, <2>2 DEF TailFollows, NFree
<1>4. UsedCounts
  <2>1. InUse = {}
    BY DEF Init, InUse
  <2> QED
    BY <1>1, <2>1, FS_EmptySet DEF UsedCounts
<1>5. FreeRingExact
  <2>1. FreeRing = [i \in 1 .. NSpace - used |-> slots[Wrap(head + i - 1)]]
    BY <1>2, RingLinear DEF FreeRing, NFree, TypeOK
  <2>2. ASSUME NEW i \in 1 .. NSpace
        PROVE  FreeRing[i] = i - 1
    <3>1. Wrap(head + i - 1) = i - 1 /\ i - 1 \in Positions
      BY <1>1 DEF Wrap, Positions
    <3>2. slots[i - 1] = i - 1
      BY <3>1 DEF Init
    <3>3. i \in 1 .. NSpace - used
      BY <1>1
    <3> QED
      BY <2>1, <3>1, <3>2, <3>3
  <2>3. \A p \in Positions : p + 1 \in 1 .. NSpace /\ FreeRing[p + 1] = p
    BY <2>2 DEF Positions
  <2>4. NFree = NSpace
    BY <1>1 DEF NFree
  <2> QED
    BY <2>2, <2>3, <2>4 DEF FreeRingExact, Init
<1> QED
  BY <1>2, <1>3, <1>4, <1>5 DEF IInv

LEMMA AddInvariant ==
    ASSUME IInv, NEW fd \in Fds, NEW mask \in Interests,
           AddWaitEventToSetEx(fd, mask)
    PROVE  IInv'
<1> USE NSpaceAssumption
<1> DEFINE p == slots[head]
<1>1. TypeOK /\ TailFollows /\ UsedCounts /\ FreeRingExact
  BY DEF IInv
<1>2. /\ used \in 0 .. NSpace - 1
      /\ used' = used + 1
      /\ FreeRing[1] = p
      /\ \A i \in 1 .. NSpace - used' : FreeRing'[i] = FreeRing[i + 1]
      /\ head' \in Positions
      /\ TailFollows'
  BY <1>1, AddShiftsRing
<1>3. p \in Positions
  BY <1>1 DEF TypeOK
<1>4. events' = [events EXCEPT ![p] = {<<fd, mask>>}]
  BY DEF AddWaitEventToSetEx
<1>5. events[p] = {}
  <2>1. 1 \in 1 .. NFree
    BY <1>2 DEF NFree
  <2> QED
    BY <1>1, <1>2, <1>3, <2>1 DEF FreeRingExact
<1>6. TypeOK'
  BY <1>1, <1>2, <1>3, <1>4 DEF TypeOK, AddWaitEventToSetEx
<1>7. UsedCounts'
  <2>1. InUse' = InUse \cup {p}
    BY <1>1, <1>3, <1>4 DEF InUse, TypeOK
  <2>2. p \notin InUse
    BY <1>5 DEF InUse
  <2>3. Cardinality(InUse \cup {p}) = Cardinality(InUse) + 1
    BY <2>2, InUseFinite, FS_AddElement
  <2> QED
    BY <1>1, <1>2, <2>1, <2>3 DEF UsedCounts
<1>8. FreeRingExact'
  <2>1. ASSUME NEW i \in 1 .. NFree', NEW j \in 1 .. NFree',
               FreeRing'[i] = FreeRing'[j]
        PROVE  i = j
    <3>1. /\ i \in 1 .. NSpace - used' /\ j \in 1 .. NSpace - used'
          /\ i + 1 \in 1 .. NFree /\ j + 1 \in 1 .. NFree
      BY <1>2 DEF NFree
    <3>2. FreeRing[i + 1] = FreeRing[j + 1]
      BY <1>2, <2>1, <3>1
    <3>3. i + 1 = j + 1
      BY <1>1, <3>1, <3>2 DEF FreeRingExact
    <3> QED
      BY <3>1, <3>3
  <2>2. ASSUME NEW q \in Positions, events'[q] = {}
        PROVE  \E i \in 1 .. NFree' : FreeRing'[i] = q
    <3>1. q # p /\ events[q] = {}
      BY <1>1, <1>3, <1>4, <2>2 DEF TypeOK
    <3>2. PICK i \in 1 .. NFree : FreeRing[i] = q
      BY <1>1, <3>1 DEF FreeRingExact
    <3>3. i # 1
      BY <1>2, <3>1, <3>2
    <3>4. i - 1 \in 1 .. NFree' /\ i - 1 \in 1 .. NSpace - used'
      BY <1>2, <3>3 DEF NFree
    <3>5. FreeRing'[i - 1] = FreeRing[(i - 1) + 1]
      BY <1>2, <3>4
    <3>6. (i - 1) + 1 = i
      BY <1>2 DEF NFree
    <3> QED
      BY <3>2, <3>4, <3>5, <3>6
  <2>3. ASSUME NEW q \in Positions, NEW i \in 1 .. NFree', FreeRing'[i] = q
        PROVE  events'[q] = {}
    <3>1. /\ i \in 1 .. NSpace - used'
          /\ i + 1 \in 1 .. NFree
          /\ i + 1 # 1
          /\ 1 \in 1 .. NFree
      BY <1>2 DEF NFree
    <3>2. FreeRing[i + 1] = q
      BY <1>2, <2>3, <3>1
    <3>3. q # p
      BY <1>1, <1>2, <3>1, <3>2 DEF FreeRingExact
    <3>4. events[q] = {}
      BY <1>1, <3>1, <3>2 DEF FreeRingExact
    <3> QED
      BY <1>1, <1>4, <3>3, <3>4 DEF TypeOK
  <2> QED
    BY <2>1, <2>2, <2>3 DEF FreeRingExact
<1> QED
  BY <1>2, <1>6, <1>7, <1>8 DEF IInv

LEMMA DeleteInvariant ==
    ASSUME IInv, NEW pos \in Positions, DeleteWaitEventEx(pos)
    PROVE  IInv'
<1> USE NSpaceAssumption
<1> DEFINE n == NSpace - used
<1>1. TypeOK /\ TailFollows /\ UsedCounts /\ FreeRingExact
  BY DEF IInv
<1>2. /\ used \in 1 .. NSpace
      /\ used' = used - 1
      /\ FreeRing'[n + 1] = pos
      /\ \A i \in 1 .. n : FreeRing'[i] = FreeRing[i]
      /\ tail' \in Positions
      /\ TailFollows'
  BY <1>1, DeleteAppendsRing
<1>3. /\ events[pos] # {}
      /\ events' = [events EXCEPT ![pos] = {}]
  BY DEF DeleteWaitEventEx
<1>4. /\ n \in 0 .. NSpace - 1
      /\ NFree = n
      /\ 1 .. NFree' = 1 .. n \cup {n + 1}
  BY <1>2 DEF NFree
<1>5. TypeOK'
  BY <1>1, <1>2, <1>3 DEF TypeOK, DeleteWaitEventEx
<1>6. UsedCounts'
  <2>1. InUse' = InUse \ {pos}
    BY <1>1, <1>3 DEF InUse, TypeOK
  <2>2. pos \in InUse
    BY <1>3 DEF InUse
  <2>3. Cardinality(InUse \ {pos}) = Cardinality(InUse) - 1
    BY <2>2, InUseFinite, FS_RemoveElement
  <2> QED
    BY <1>1, <1>2, <2>1, <2>3 DEF UsedCounts
<1>7. \A i \in 1 .. n : FreeRing[i] # pos
  BY <1>1, <1>3, <1>4 DEF FreeRingExact
<1>8. FreeRingExact'
  <2>1. ASSUME NEW i \in 1 .. NFree', NEW j \in 1 .. NFree',
               FreeRing'[i] = FreeRing'[j]
        PROVE  i = j
    <3>1. CASE i \in 1 .. n /\ j \in 1 .. n
      BY <1>1, <1>2, <1>4, <2>1, <3>1 DEF FreeRingExact
    <3>2. CASE i = n + 1 \/ j = n + 1
      BY <1>2, <1>4, <1>7, <2>1, <3>2
    <3> QED
      BY <1>4, <3>1, <3>2
  <2>2. ASSUME NEW q \in Positions, events'[q] = {}
        PROVE  \E i \in 1 .. NFree' : FreeRing'[i] = q
    <3>1. CASE q = pos
      BY <1>2, <1>4, <3>1
    <3>2. CASE q # pos
      <4>1. events[q] = {}
        BY <1>1, <1>3, <2>2, <3>2 DEF TypeOK
      <4>2. PICK i \in 1 .. n : FreeRing[i] = q
        BY <1>1, <1>4, <4>1 DEF FreeRingExact
      <4> QED
        BY <1>2, <1>4, <4>2
    <3> QED
      BY <3>1, <3>2
  <2>3. ASSUME NEW q \in Positions, NEW i \in 1 .. NFree', FreeRing'[i] = q
        PROVE  events'[q] = {}
    <3>1. CASE i = n + 1
      BY <1>1, <1>2, <1>3, <2>3, <3>1 DEF TypeOK
    <3>2. CASE i \in 1 .. n
      <4>1. FreeRing[i] = q
        BY <1>2, <2>3, <3>2
      <4>2. events[q] = {}
        BY <1>1, <1>4, <3>2, <4>1 DEF FreeRingExact
      <4> QED
        BY <1>1, <1>3, <4>2 DEF TypeOK
    <3> QED
      BY <1>4, <3>1, <3>2
  <2> QED
    BY <2>1, <2>2, <2>3 DEF FreeRingExact
<1> QED
  BY <1>2, <1>5, <1>6, <1>8 DEF IInv

LEMMA ModifyInvariant ==
    ASSUME IInv, NEW pos \in Positions, NEW mask \in Interests,
           ModifyWaitEventEx(pos, mask)
    PROVE  IInv'
<1>1. PICK e \in events[pos] : events' = [events EXCEPT ![pos] = {<<e[1], mask>>}]
  BY DEF ModifyWaitEventEx
<1>2. UNCHANGED <<slots, head, tail, used, nevents>>
  BY DEF ModifyWaitEventEx
<1>3. TypeOK
  BY DEF IInv
<1>4. e \in Fds \X Interests
  BY <1>3, <1>1 DEF TypeOK
<1>5. TypeOK'
  BY <1>1, <1>2, <1>3, <1>4 DEF TypeOK
<1>6. \A q \in Positions : events'[q] = {} <=> events[q] = {}
  BY <1>1, <1>3 DEF TypeOK
<1>7. InUse' = InUse
  BY <1>6 DEF InUse
<1>8. FreeRing' = FreeRing
  BY <1>2 DEF FreeRing, NFree
<1>9. TailFollows' /\ UsedCounts'
  BY <1>2, <1>7 DEF IInv, TailFollows, UsedCounts, NFree
<1>10. FreeRingExact'
  <2>1. NFree' = NFree
    BY <1>2 DEF NFree
  <2>2. FreeRingExact
    BY DEF IInv
  <2> QED
    BY <1>6, <1>8, <2>1, <2>2 DEF FreeRingExact
<1> QED
  BY <1>5, <1>9, <1>10 DEF IInv

LEMMA NextInvariant == IInv /\ [Next]_vars => IInv'
<1> SUFFICES ASSUME IInv, [Next]_vars PROVE IInv'
  OBVIOUS
<1>1. CASE \E fd \in Fds, mask \in Interests : AddWaitEventToSetEx(fd, mask)
  BY <1>1, AddInvariant
<1>2. CASE \E pos \in Positions, mask \in Interests : ModifyWaitEventEx(pos, mask)
  BY <1>2, ModifyInvariant
<1>3. CASE \E pos \in Positions : DeleteWaitEventEx(pos)
  BY <1>3, DeleteInvariant
<1>4. CASE UNCHANGED vars
  <2>1. UNCHANGED <<slots, head, tail, used, nevents, events>>
    BY <1>4 DEF vars
  <2>2. FreeRing' = FreeRing /\ InUse' = InUse /\ NFree' = NFree
    BY <2>1 DEF FreeRing, InUse, NFree
  <2>3. TypeOK' /\ TailFollows' /\ UsedCounts'
    BY <2>1, <2>2 DEF IInv, TypeOK, TailFollows, UsedCounts
  <2>4. FreeRingExact'
    BY <2>1, <2>2 DEF IInv, FreeRingExact
  <2> QED
    BY <2>3, <2>4 DEF IInv
<1> QED
  BY <1>1, <1>2, <1>3, <1>4 DEF Next

(* event_set.c keeps its variables in range and its ring of free positions *)
(* exact: no position is lost, duplicated, or both free and in use.        *)
THEOREM RingInvariant == Spec => [](TypeOK /\ FreeRingExact)
<1>1. Spec => []IInv
  BY InitInvariant, NextInvariant, PTL DEF Spec
<1>2. IInv => TypeOK /\ FreeRingExact
  BY DEF IInv
<1> QED
  BY <1>1, <1>2, PTL

-----------------------------------------------------------------------------
(* An addition never overwrites a registration and goes where              *)
(* NextWaitEventPos said: master.c fills sockets[NextWaitEventPos()] first.*)
THEOREM AdditionsAreAnnounced == Spec => AddIsWhereAnnounced
<1> DEFINE A == \A p \in Positions : (used' = used + 1 /\ events'[p] # events[p])
                    => (events[p] = {} /\ p = NextWaitEventPos)
<1>1. IInv /\ [Next]_vars => [A]_vars
  <2> SUFFICES ASSUME IInv, Next, NEW p \in Positions,
                      used' = used + 1, events'[p] # events[p]
               PROVE  events[p] = {} /\ p = NextWaitEventPos
    OBVIOUS
  <2>1. TypeOK /\ TailFollows /\ FreeRingExact
    BY DEF IInv
  <2>2. used \in 0 .. NSpace /\ used' # used /\ used' # used - 1
    BY <2>1, NSpaceAssumption DEF TypeOK
  <2>3. PICK fd \in Fds, mask \in Interests : AddWaitEventToSetEx(fd, mask)
    BY <2>2 DEF Next, ModifyWaitEventEx, DeleteWaitEventEx
  <2>4. used \in 0 .. NSpace - 1 /\ FreeRing[1] = slots[head]
    BY <2>1, <2>3, AddShiftsRing
  <2>5. 1 \in 1 .. NFree
    BY <2>4, NSpaceAssumption DEF NFree
  <2>6. p = slots[head]
    BY <2>1, <2>3 DEF AddWaitEventToSetEx, TypeOK
  <2>7. events[p] = {}
    BY <2>1, <2>4, <2>5, <2>6 DEF FreeRingExact
  <2>8. NextWaitEventPos = slots[head]
    BY <2>4, NSpaceAssumption DEF NextWaitEventPos
  <2> QED
    BY <2>6, <2>7, <2>8
<1>2. Spec => []IInv
  BY InitInvariant, NextInvariant, PTL DEF Spec
<1> QED
  BY <1>1, <1>2, PTL DEF Spec, AddIsWhereAnnounced

(* The ring as the abstract waiting line.                                  *)
RingSeq == FreeRing \in Seq(Positions) /\ Len(FreeRing) = NFree

LEMMA RingIsSeq == TypeOK => RingSeq
<1> SUFFICES ASSUME TypeOK PROVE RingSeq
  OBVIOUS
<1>1. \A i \in 1 .. NFree : FreeRing[i] \in Positions
  <2>1. FreeRing = [i \in 1 .. NSpace - used |-> slots[Wrap(head + i - 1)]]
    BY RingLinear DEF FreeRing, NFree, TypeOK
  <2>2. \A i \in 1 .. NSpace - used : Wrap(head + i - 1) \in Positions
    BY NSpaceAssumption DEF TypeOK, Wrap, Positions
  <2> QED
    BY <2>1, <2>2 DEF NFree, TypeOK
<1>2. NFree \in Nat
  BY NSpaceAssumption DEF NFree, TypeOK
<1>3. FreeRing \in [1 .. NFree -> Positions]
  BY <1>1 DEF FreeRing
<1> QED
  BY <1>2, <1>3 DEF RingSeq

LEMMA RingIsSeqNext == TypeOK' => RingSeq'
BY RingIsSeq, PTL

(* event_set.c implements SlotPool: positions are handed out in the order  *)
(* in which they became free.                                              *)
THEOREM ImplementsPool == Spec => PoolSpec
<1> USE NSpaceAssumption
<1>1. Init => Pool!Init
  <2> SUFFICES ASSUME Init PROVE Pool!Init
    OBVIOUS
  <2>1. TypeOK /\ used = 0 /\ head = 0
    BY DEF Init, TypeOK, Positions
  <2>2. FreeRing = [i \in 1 .. NSpace - used |-> slots[Wrap(head + i - 1)]]
    BY <2>1, RingLinear DEF FreeRing, NFree, TypeOK
  <2>3. \A i \in 1 .. NSpace : Wrap(head + i - 1) = i - 1 /\ i - 1 \in Positions
    BY <2>1 DEF Wrap, Positions
  <2>4. FreeRing = [i \in 1 .. NSpace |-> i - 1]
    BY <2>1, <2>2, <2>3 DEF Init
  <2> QED
    BY <2>4 DEF Pool!Init, Pool!Positions, Init, Positions
<1>2. IInv /\ [Next]_vars => [Pool!Next]_(Pool!vars)
  <2> SUFFICES ASSUME IInv, [Next]_vars PROVE [Pool!Next]_(Pool!vars)
    OBVIOUS
  <2>1. /\ TypeOK /\ TailFollows /\ UsedCounts
        /\ FreeRing \in Seq(Positions) /\ Len(FreeRing) = NFree
    BY RingIsSeq DEF IInv, RingSeq
  <2>2. TypeOK' /\ FreeRing' \in Seq(Positions) /\ Len(FreeRing') = NFree'
    <3>1. TypeOK'
      BY NextInvariant DEF IInv
    <3> QED
      BY <3>1, RingIsSeqNext DEF RingSeq
  <2>3. ASSUME NEW fd \in Fds, NEW mask \in Interests, AddWaitEventToSetEx(fd, mask)
        PROVE  Pool!Take(fd, mask)
    <3>1. /\ used \in 0 .. NSpace - 1
          /\ used' = used + 1
          /\ FreeRing[1] = slots[head]
          /\ \A i \in 1 .. NSpace - used' : FreeRing'[i] = FreeRing[i + 1]
      BY <2>1, <2>3, AddShiftsRing
    <3>2. FreeRing # <<>> /\ Len(FreeRing) > 0
      BY <2>1, <3>1 DEF NFree
    <3>3. Head(FreeRing) = slots[head]
      BY <2>1, <3>1, <3>2
    <3>4. /\ Tail(FreeRing) \in Seq(Positions)
          /\ Len(Tail(FreeRing)) = Len(FreeRing) - 1
          /\ \A i \in 1 .. Len(Tail(FreeRing)) : Tail(FreeRing)[i] = FreeRing[i + 1]
      BY <2>1, <3>2, HeadTailProperties
    <3>5. Len(FreeRing') = Len(Tail(FreeRing))
      BY <2>1, <2>2, <3>1, <3>4 DEF NFree
    <3>6. \A i \in 1 .. Len(FreeRing') : FreeRing'[i] = Tail(FreeRing)[i]
      BY <2>1, <2>2, <3>1, <3>4, <3>5 DEF NFree
    <3>7. FreeRing' = Tail(FreeRing)
      BY <2>2, <3>4, <3>5, <3>6, SeqEqual
    <3> QED
      BY <2>3, <3>2, <3>3, <3>7 DEF Pool!Take, AddWaitEventToSetEx
  <2>4. ASSUME NEW pos \in Positions, NEW mask \in Interests,
               ModifyWaitEventEx(pos, mask)
        PROVE  Pool!Change(pos, mask)
    BY <2>4 DEF Pool!Change, ModifyWaitEventEx, FreeRing, NFree
  <2>5. ASSUME NEW pos \in Positions, DeleteWaitEventEx(pos)
        PROVE  Pool!Give(pos)
    <3>1. /\ used \in 1 .. NSpace
          /\ used' = used - 1
          /\ FreeRing'[NSpace - used + 1] = pos
          /\ \A i \in 1 .. NSpace - used : FreeRing'[i] = FreeRing[i]
      BY <2>1, <2>5, DeleteAppendsRing
    <3>2. /\ Append(FreeRing, pos) \in Seq(Positions)
          /\ Len(Append(FreeRing, pos)) = Len(FreeRing) + 1
          /\ \A i \in 1 .. Len(FreeRing) : Append(FreeRing, pos)[i] = FreeRing[i]
          /\ Append(FreeRing, pos)[Len(FreeRing) + 1] = pos
      BY <2>1, AppendProperties
    <3>3. /\ Len(FreeRing) = NSpace - used
          /\ Len(FreeRing') = Len(FreeRing) + 1
      BY <2>1, <2>2, <3>1 DEF NFree
    <3>4. ASSUME NEW i \in 1 .. Len(FreeRing')
          PROVE  FreeRing'[i] = Append(FreeRing, pos)[i]
      <4>1. CASE i \in 1 .. NSpace - used
        BY <3>1, <3>2, <3>3, <4>1
      <4>2. CASE i = NSpace - used + 1
        BY <3>1, <3>2, <3>3, <4>2
      <4> QED
        BY <3>1, <3>3, <4>1, <4>2
    <3>5. FreeRing' = Append(FreeRing, pos)
      BY <2>1, <2>2, <3>2, <3>3, <3>4, SeqEqual
    <3> QED
      BY <2>5, <3>5 DEF Pool!Give, DeleteWaitEventEx
  <2>6. CASE UNCHANGED vars
    BY <2>6 DEF vars, Pool!vars, FreeRing, NFree
  <2> QED
    BY <2>3, <2>4, <2>5, <2>6 DEF Next, Pool!Next, Pool!Positions, Positions
<1>3. Spec => []IInv
  BY InitInvariant, NextInvariant, PTL DEF Spec
<1> QED
  BY <1>1, <1>2, <1>3, PTL DEF Spec, PoolSpec, Pool!Spec
=============================================================================
