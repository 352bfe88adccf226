---------------------------- MODULE CompileProofs ----------------------------
(***************************************************************************)
(* Proofs about rustica.compile_wasm (compiler.c): what its calls leave,    *)
(* whose environment and whose map of type ids they work with, and when     *)
(* they bring the process down, for every number of calls, however deep     *)
(* they are nested, and every build.                                        *)
(***************************************************************************)
EXTENDS Compile, SequenceTheorems, TLAPS

Environments == {Null, Caller} \cup (1 .. MaxDepth)
Frames == [at : 1 .. 16, empty : BOOLEAN, prev : Environments, nested : BOOLEAN]

\* What the blocks of PG_FINALLY free, and what only LLVM's calls would.
Things == FinallyFrees \cup Aot

TypeInv ==
    /\ stack \in Seq(Frames) /\ Len(stack) \in 0 .. MaxDepth
    /\ held \subseteq Things \X (0 .. MaxDepth)
    /\ crashed \in BOOLEAN

\* What is held above the call under way, and while that call only has its
\* map, at its own depth, are earlier calls' structures of LLVM.
OnlyAotAbove ==
    \A h \in held :
       h[2] > Depth \/ (stack # <<>> /\ h[2] = Depth /\ stack[Depth].at = 1) => h[1] \in Aot

LostToRegisters == \A h \in held : h[2] = 0 => StaleLocals

\* The environment the thread was in when the call at a depth began.
EnvOf(d) == IF d = 1 THEN Caller ELSE d - 1

\* PG_TRY runs without one, and the guest in that of its own call.
EnvIsRight ==
    /\ stack = <<>> => env_tls = Caller
    /\ stack # <<>> =>
          env_tls = IF stack[Depth].at = 1 THEN EnvOf(Depth)
                    ELSE IF stack[Depth].at = 11 THEN Depth ELSE Null
    /\ \A i \in 1 .. Depth : stack[i].at > 1 => stack[i].prev = EnvOf(i)

\* A call that has another call made waits in its guest; a new one has made none.
WaitsInGuest ==
    /\ \A i \in 1 .. Depth - 1 : stack[i].at = 11 /\ stack[i].nested
    /\ stack # <<>> /\ stack[Depth].at = 1 => ~ stack[Depth].nested

MapIsOwn ==
    stack # <<>> /\ ~ crashed =>
       IF stack[Depth].nested THEN tid_map \in {Null, Freed, Depth + 1}
       ELSE IF stack[Depth].empty THEN tid_map_len = 0
       ELSE tid_map = Depth /\ tid_map_len = 1

IInv == TypeInv /\ OnlyAotAbove /\ LostToRegisters /\ EnvIsRight /\ WaitsInGuest /\ MapIsOwn

-----------------------------------------------------------------------------
(* The stack of calls                                                       *)

(* rst_compile's steps by their number.                                     *)
LEMMA StepNames ==
    ASSUME NEW f \in Frames
    PROVE  /\ f.at \in 1 .. 16
           /\ Steps[f.at] = "map" <=> f.at = 1
           /\ Steps[f.at] = "signature" <=> f.at = 8
           /\ Steps[f.at] = "exec_env" <=> f.at = 10
           /\ Steps[f.at] = "get_queries" <=> f.at = 11
           /\ Steps[f.at] = "finally" <=> f.at = 16
<1>1. f.at \in {1, 2, 3, 4, 5, 6, 7, 8, 9, 10, 11, 12, 13, 14, 15, 16}
  BY SMTT(30) DEF Frames
<1> QED
  BY <1>1, SMTT(30) DEF Steps

LEMMA TopOfStack ==
    ASSUME TypeInv, Depth > 0
    PROVE  /\ Depth \in 1 .. MaxDepth /\ MaxDepth \in Nat /\ stack # <<>>
           /\ Last(stack) = stack[Depth] /\ stack[Depth] \in Frames
           /\ \A i \in 1 .. Depth : stack[i] \in Frames
<1>1. /\ stack \in Seq(Frames) /\ Depth \in 1 .. MaxDepth /\ MaxDepth \in Nat
      /\ Depth = Len(stack)
  BY CompileAssumption DEF TypeInv, Depth
<1>2. \A i \in 1 .. Depth : stack[i] \in Frames
  BY <1>1, ElementOfSeq
<1>3. stack # <<>> /\ Depth \in 1 .. Depth
  BY <1>1
<1> QED
  BY <1>1, <1>2, <1>3 DEF Last

LEMMA EmptyStack ==
    ASSUME TypeInv
    PROVE  /\ Depth \in 0 .. MaxDepth /\ MaxDepth \in Nat
           /\ stack = <<>> <=> ~ (Depth > 0)
  BY CompileAssumption DEF TypeInv, Depth

(* Popping a call leaves the ones below as they were.                       *)
LEMMA Popped ==
    ASSUME TypeInv, Depth > 0, stack' = Front(stack)
    PROVE  /\ stack' \in Seq(Frames) /\ Depth' = Depth - 1
           /\ \A i \in 1 .. Depth' : stack'[i] = stack[i]
           /\ stack' = <<>> <=> Depth = 1
<1>1. stack' = SubSeq(stack, 1, Len(stack) - 1)
  BY DEF Front
<1>2. stack \in Seq(Frames) /\ Len(stack) \in Nat /\ Len(stack) > 0
  BY CompileAssumption DEF TypeInv, Depth
<1>3. \A i \in 1 .. Len(stack) - 1 : stack[i] \in Frames
  BY <1>2, ElementOfSeq
<1>4. /\ stack' \in Seq(Frames) /\ Len(stack') = Len(stack) - 1
      /\ \A i \in 1 .. Len(stack') : stack'[i] = stack[i]
  <2>1. 1 \in Int /\ Len(stack) - 1 \in Int
    BY <1>2
  <2>2. /\ stack' \in Seq(Frames)
        /\ Len(stack') = IF 1 <= Len(stack) - 1 THEN Len(stack) - 1 - 1 + 1 ELSE 0
        /\ \A i \in 1 .. Len(stack) - 1 - 1 + 1 : stack'[i] = stack[1 + i - 1]
    BY <1>1, <1>3, <2>1, SubSeqProperties
  <2>3. Len(stack') = Len(stack) - 1
    <3>1. CASE Len(stack) = 1
      BY <2>2, <3>1
    <3>2. CASE Len(stack) > 1
      BY <2>2, <3>2
    <3> QED
      <4> DEFINE n == Len(stack)
      <4>1. n \in Nat /\ n > 0
        BY <1>2
      <4> HIDE DEF n
      <4>2. n = 1 \/ n > 1
        BY <4>1
      <4> QED
        BY <3>1, <3>2, <4>2 DEF n
  <2>4. ASSUME NEW i \in 1 .. Len(stack')
        PROVE  stack'[i] = stack[i]
    <3>1. i \in 1 .. Len(stack) - 1 - 1 + 1 /\ 1 + i - 1 = i
      BY <1>2, <2>3
    <3> QED
      BY <2>2, <3>1
  <2> QED
    BY <2>2, <2>3, <2>4
<1>5. Depth = Len(stack) /\ Depth' = Len(stack')
  BY DEF Depth
<1>6. stack' = <<>> <=> Len(stack') = 0
  BY <1>4, EmptySeq
<1> QED
  BY <1>2, <1>4, <1>5, <1>6

(* A step of the call under way moves that call alone.                      *)
LEMMA Moved ==
    ASSUME TypeInv, Depth > 0, NEW at \in 1 .. 16, NEW prev \in Environments,
           stack' = [stack EXCEPT ![Depth] =
                        Frame(at, stack[Depth].empty, prev, stack[Depth].nested)]
    PROVE  /\ stack' \in Seq(Frames) /\ Depth' = Depth
           /\ stack'[Depth].at = at /\ stack'[Depth].prev = prev
           /\ stack'[Depth].empty = stack[Depth].empty
           /\ stack'[Depth].nested = stack[Depth].nested
           /\ \A i \in 1 .. Depth : i # Depth => stack'[i] = stack[i]
           /\ stack' # <<>>
<1>1. stack \in Seq(Frames) /\ Len(stack) \in Nat \ {0} /\ stack[Depth] \in Frames
  BY TopOfStack DEF TypeInv, Depth
<1> DEFINE f == Frame(at, stack[Depth].empty, prev, stack[Depth].nested)
<1>2. /\ f \in Frames /\ f.at = at /\ f.prev = prev
      /\ f.empty = stack[Depth].empty /\ f.nested = stack[Depth].nested
  BY <1>1 DEF Frames, Frame
<1> HIDE DEF f
<1>3. stack' = [stack EXCEPT ![Depth] = f]
  BY DEF f
<1>4. Depth = Len(stack) /\ Depth \in 1 .. Len(stack)
  BY <1>1 DEF Depth
<1>5. /\ stack' \in Seq(Frames) /\ Len(stack') = Len(stack)
      /\ \A i \in 1 .. Len(stack) : stack'[i] = IF i = Depth THEN f ELSE stack[i]
  BY <1>1, <1>2, <1>3, <1>4, ExceptSeq
<1>6. Depth' = Depth /\ stack'[Depth] = f
  BY <1>4, <1>5 DEF Depth
<1>7. stack' # <<>>
  BY <1>1, <1>5
<1> QED
  BY <1>2, <1>4, <1>5, <1>6, <1>7

(* A call begins on top of the stack, and the one below learns of it.       *)
LEMMA Pushed ==
    ASSUME TypeInv, NEW empty \in BOOLEAN,
           stack' = Append([i \in 1 .. Depth |->
                              Frame(stack[i].at, stack[i].empty, stack[i].prev, TRUE)],
                           Frame(1, empty, Null, FALSE))
    PROVE  /\ stack' \in Seq(Frames) /\ Depth' = Depth + 1 /\ stack' # <<>>
           /\ stack'[Depth + 1] = Frame(1, empty, Null, FALSE)
           /\ \A i \in 1 .. Depth :
                 stack'[i] = Frame(stack[i].at, stack[i].empty, stack[i].prev, TRUE)
<1> DEFINE below == [i \in 1 .. Depth |->
                       Frame(stack[i].at, stack[i].empty, stack[i].prev, TRUE)]
           top == Frame(1, empty, Null, FALSE)
<1>1. Depth \in Nat /\ Depth = Len(stack) /\ stack \in Seq(Frames)
  BY DEF TypeInv, Depth
<1>2. \A i \in 1 .. Depth :
         Frame(stack[i].at, stack[i].empty, stack[i].prev, TRUE) \in Frames
  <2> SUFFICES ASSUME NEW i \in 1 .. Depth
               PROVE  Frame(stack[i].at, stack[i].empty, stack[i].prev, TRUE) \in Frames
    OBVIOUS
  <2>1. stack[i] \in Frames
    BY <1>1, ElementOfSeq
  <2> QED
    BY <2>1 DEF Frames, Frame
<1>3. top \in Frames
  BY DEF Frames, Frame, Environments
<1>4. below \in Seq(Frames) /\ Len(below) = Depth
  <2>1. below \in [1 .. Depth -> Frames] /\ DOMAIN below = 1 .. Depth /\ Depth \in Nat
    <3>1. below \in [1 .. Depth -> Frames]
      BY <1>2
    <3>2. DOMAIN below = 1 .. Depth
      OBVIOUS
    <3>3. Depth \in Nat
      BY <1>1
    <3> QED
      BY <3>1, <3>2, <3>3
  <2> HIDE DEF below
  <2>2. below \in Seq(Frames)
    BY <2>1, SeqDef
  <2>3. DOMAIN below = 1 .. Len(below) /\ Len(below) \in Nat
    BY <2>2, LenProperties
  <2> QED
    BY <2>1, <2>2, <2>3
<1>5. \A i \in 1 .. Depth : below[i] = Frame(stack[i].at, stack[i].empty, stack[i].prev, TRUE)
  OBVIOUS
<1>6. stack' = Append(below, top)
  OBVIOUS
<1> HIDE DEF below, top
<1>7. /\ stack' \in Seq(Frames) /\ Len(stack') = Depth + 1 /\ stack' # <<>>
      /\ stack'[Depth + 1] = top
      /\ \A i \in 1 .. Depth : stack'[i] = below[i]
  <2>1. /\ stack' \in Seq(Frames) /\ Len(stack') = Len(below) + 1 /\ stack' # <<>>
        /\ stack'[Len(below) + 1] = top
        /\ \A i \in 1 .. Len(below) : stack'[i] = below[i]
    <3>1. Append(below, top) \in Seq(Frames)
      BY <1>3, <1>4, AppendProperties
    <3>2. Len(Append(below, top)) = Len(below) + 1
      BY <1>3, <1>4, AppendProperties
    <3>3. Append(below, top) # <<>>
      BY <1>3, <1>4, AppendProperties
    <3>4. Append(below, top)[Len(below) + 1] = top
      BY <1>3, <1>4, AppendProperties
    <3>5. \A i \in 1 .. Len(below) : Append(below, top)[i] = below[i]
      BY <1>3, <1>4, AppendProperties
    <3> QED
      BY <1>6, <3>1, <3>2, <3>3, <3>4, <3>5, Zenon
  <2> QED
    BY <1>4, <2>1
<1> QED
  BY <1>5, <1>7 DEF top, Depth

-----------------------------------------------------------------------------
(* Each step keeps the invariant                                            *)

LEMMA InitInvariant == Init => IInv
<1> SUFFICES ASSUME Init PROVE IInv
  OBVIOUS
<1>1. stack = <<>> /\ Depth = 0
  BY DEF Init, Depth
<1>2. TypeInv
  <2>1. stack \in Seq(Frames) /\ Len(stack) \in 0 .. MaxDepth
    BY <1>1, EmptySeq, CompileAssumption
  <2>2. held = {} /\ crashed \in BOOLEAN
    BY DEF Init
  <2> QED
    BY <2>1, <2>2 DEF TypeInv
<1> QED
  BY <1>1, <1>2 DEF Init, IInv, OnlyAotAbove, LostToRegisters, EnvIsRight, WaitsInGuest, MapIsOwn

LEMMA CallKeeps == ASSUME IInv, Call PROVE IInv'
<1>1. TypeInv
  BY DEF IInv
<1>2. /\ Depth \in 0 .. MaxDepth - 1 /\ MaxDepth \in Nat
      /\ stack = <<>> <=> Depth = 0
      /\ \A i \in 1 .. Depth : stack[i].at = 11
  <2>1. /\ Depth \in 0 .. MaxDepth /\ MaxDepth \in Nat
        /\ stack = <<>> <=> Depth = 0
    BY <1>1, EmptyStack
  <2>2. CASE Depth = 0
    BY <2>1, <2>2, CompileAssumption
  <2>3. CASE Depth > 0
    <3>1. Now = "get_queries" /\ Depth < MaxDepth
      BY <2>1, <2>3 DEF Call
    <3>2. stack[Depth].at = 11
      <4>1. stack[Depth] \in Frames /\ Now = Steps[stack[Depth].at]
        BY <1>1, <2>3, TopOfStack DEF Now
      <4> QED
        BY <3>1, <4>1, StepNames
    <3>3. \A i \in 1 .. Depth - 1 : stack[i].at = 11
      BY DEF IInv, WaitsInGuest
    <3> QED
      BY <2>1, <3>1, <3>2, <3>3
  <2> QED
    BY <2>1, <2>2, <2>3
<1>3. PICK empty \in BOOLEAN :
         /\ stack' = Append([i \in 1 .. Depth |->
                               Frame(stack[i].at, stack[i].empty, stack[i].prev, TRUE)],
                            Frame(1, empty, Null, FALSE))
         /\ tid_map_len' = MapLength(empty)
         /\ tid_map' = MapPointer(empty)
  BY DEF Call
<1>4. UNCHANGED <<env_tls, held, crashed>>
  BY DEF Call
<1>5. /\ stack' \in Seq(Frames) /\ Depth' = Depth + 1 /\ stack' # <<>>
      /\ stack'[Depth'] = Frame(1, empty, Null, FALSE)
      /\ \A i \in 1 .. Depth :
            stack'[i] = Frame(stack[i].at, stack[i].empty, stack[i].prev, TRUE)
  <2>1. /\ stack' \in Seq(Frames) /\ Depth' = Depth + 1 /\ stack' # <<>>
        /\ stack'[Depth + 1] = Frame(1, empty, Null, FALSE)
        /\ \A i \in 1 .. Depth :
              stack'[i] = Frame(stack[i].at, stack[i].empty, stack[i].prev, TRUE)
    BY <1>1, <1>3, Pushed
  <2> QED
    BY <2>1
<1>6. /\ stack'[Depth'].at = 1 /\ stack'[Depth'].empty = empty /\ ~ stack'[Depth'].nested
      /\ \A i \in 1 .. Depth : /\ stack'[i].at = 11 /\ stack'[i].nested
                               /\ stack'[i].prev = stack[i].prev
  <2>1. /\ stack'[Depth'].at = 1 /\ stack'[Depth'].empty = empty
        /\ ~ stack'[Depth'].nested
    BY <1>5 DEF Frame
  <2>2. ASSUME NEW i \in 1 .. Depth
        PROVE  stack'[i].at = 11 /\ stack'[i].nested /\ stack'[i].prev = stack[i].prev
    <3>1. stack'[i] = Frame(stack[i].at, stack[i].empty, stack[i].prev, TRUE) /\ stack[i].at = 11
      BY <1>2, <1>5
    <3> QED
      BY <3>1 DEF Frame
  <2> QED
    BY <2>1, <2>2
<1>7. TypeInv'
  <2>1. Len(stack') \in 0 .. MaxDepth
    <3>1. Len(stack') = Depth'
      BY DEF Depth
    <3> QED
      BY <1>2, <1>5, <3>1
  <2> QED
    BY <1>1, <1>4, <1>5, <2>1 DEF TypeInv
<1>8. OnlyAotAbove' /\ LostToRegisters'
  <2>1. ASSUME NEW h \in held, h[2] > Depth' \/ h[2] = Depth'
        PROVE  h[1] \in Aot
    <3>1. h[2] \in 0 .. MaxDepth
      BY <1>1 DEF TypeInv
    <3>2. h[2] > Depth
      BY <1>2, <1>5, <2>1, <3>1
    <3> QED
      BY <3>2 DEF IInv, OnlyAotAbove
  <2> QED
    BY <1>4, <2>1 DEF IInv, OnlyAotAbove, LostToRegisters
<1>9. EnvIsRight'
  <2>1. env_tls = EnvOf(Depth')
    <3>1. CASE Depth = 0
      BY <1>2, <1>5, <3>1 DEF IInv, EnvIsRight, EnvOf
    <3>2. CASE Depth > 0
      <4>1. Depth \in 1 .. Depth /\ stack # <<>>
        BY <1>2, <3>2
      <4>2. env_tls = Depth
        BY <1>2, <4>1 DEF IInv, EnvIsRight
      <4> QED
        BY <1>2, <1>5, <3>2, <4>2 DEF EnvOf
    <3> QED
      BY <1>2, <3>1, <3>2
  <2>2. ASSUME NEW i \in 1 .. Depth', stack'[i].at > 1
        PROVE  stack'[i].prev = EnvOf(i)
    <3>1. i \in 1 .. Depth
      <4>1. i # Depth'
        BY <1>6, <2>2
      <4> QED
        BY <1>2, <1>5, <4>1
    <3>2. stack[i].at > 1
      BY <1>2, <3>1
    <3> QED
      BY <1>6, <3>1, <3>2 DEF IInv, EnvIsRight
  <2> QED
    BY <1>4, <1>5, <1>6, <2>1, <2>2 DEF EnvIsRight
<1>10. WaitsInGuest'
  <2>1. Depth' - 1 = Depth
    BY <1>2, <1>5
  <2> QED
    BY <1>6, <2>1 DEF WaitsInGuest
<1>11. MapIsOwn'
  BY <1>3, <1>5, <1>6 DEF MapIsOwn, MapLength, MapPointer
<1> QED
  BY <1>7, <1>8, <1>9, <1>10, <1>11 DEF IInv

(* A step inside a call: nothing is held in another call's name, and the     *)
(* thread is in the environment the next step runs in.                       *)
LEMMA MoveKeeps ==
    ASSUME IInv, Depth > 0, NEW at \in 2 .. 16,
           stack' = [stack EXCEPT ![Depth] =
                        Frame(at, stack[Depth].empty, EnvOf(Depth), stack[Depth].nested)],
           held' \subseteq held \cup (Things \X {Depth}),
           env_tls' = IF at = 11 THEN Depth ELSE Null,
           UNCHANGED <<tid_map, tid_map_len, crashed>>
    PROVE  IInv'
<1>1. TypeInv
  BY DEF IInv
<1>2. Depth \in 1 .. MaxDepth /\ MaxDepth \in Nat /\ EnvOf(Depth) \in Environments /\ at \in 1 .. 16
  BY <1>1, TopOfStack DEF EnvOf, Environments
<1>3. /\ stack' \in Seq(Frames) /\ Depth' = Depth /\ stack' # <<>>
      /\ stack'[Depth].at = at /\ stack'[Depth].prev = EnvOf(Depth)
      /\ stack'[Depth].empty = stack[Depth].empty
      /\ stack'[Depth].nested = stack[Depth].nested
      /\ \A i \in 1 .. Depth : i # Depth => stack'[i] = stack[i]
  BY <1>1, <1>2, Moved
<1>4. TypeInv'
  <2>1. Things \X {Depth} \subseteq Things \X (0 .. MaxDepth)
    <3>1. Depth \in 0 .. MaxDepth
      BY <1>2
    <3> QED
      BY <3>1
  <2>2. Len(stack') \in 0 .. MaxDepth
    <3>1. Len(stack') = Depth
      BY <1>3 DEF Depth
    <3> QED
      BY <1>2, <3>1
  <2> QED
    BY <1>1, <1>3, <2>1, <2>2 DEF TypeInv
<1>5. OnlyAotAbove' /\ LostToRegisters'
  <2>1. ASSUME NEW h \in held', h[2] > Depth \/ h[2] = 0
        PROVE  h \in held
    <3>1. ~ (Depth > Depth) /\ Depth # 0
      BY <1>2
    <3> QED
      BY <2>1, <3>1
  <2>2. OnlyAotAbove'
    BY <1>3, <2>1 DEF IInv, OnlyAotAbove
  <2>3. LostToRegisters'
    BY <2>1 DEF IInv, LostToRegisters
  <2> QED
    BY <2>2, <2>3
<1>6. EnvIsRight'
  <2>1. \A i \in 1 .. Depth : stack'[i].at > 1 => stack'[i].prev = EnvOf(i)
    BY <1>3 DEF IInv, EnvIsRight
  <2>2. at # 1
    OBVIOUS
  <2> QED
    BY <1>3, <2>1, <2>2 DEF EnvIsRight
<1>7. WaitsInGuest'
  <2>1. \A i \in 1 .. Depth - 1 : stack'[i] = stack[i]
    BY <1>2, <1>3
  <2>2. \A i \in 1 .. Depth - 1 : stack[i].at = 11 /\ stack[i].nested
    BY DEF IInv, WaitsInGuest
  <2>3. stack'[Depth'].at # 1 /\ Depth' = Depth
    BY <1>3
  <2> QED
    BY <2>1, <2>2, <2>3 DEF WaitsInGuest
<1>8. MapIsOwn'
  <2>1. stack # <<>>
    BY <1>1, TopOfStack
  <2> QED
    BY <1>3, <2>1 DEF IInv, MapIsOwn
<1> QED
  BY <1>4, <1>5, <1>6, <1>7, <1>8 DEF IInv

(* Now, in terms of the number of the step.                                 *)
LEMMA NowIs ==
    ASSUME TypeInv, Depth > 0
    PROVE  /\ stack[Depth].at \in 1 .. 16
           /\ Now = "map" <=> stack[Depth].at = 1
           /\ Now = "signature" <=> stack[Depth].at = 8
           /\ Now = "exec_env" <=> stack[Depth].at = 10
           /\ Now = "get_queries" <=> stack[Depth].at = 11
           /\ Now = "finally" <=> stack[Depth].at = 16
<1>1. Last(stack) = stack[Depth] /\ stack[Depth] \in Frames
  BY TopOfStack
<1>2. Now = Steps[stack[Depth].at]
  BY <1>1 DEF Now
<1> QED
  BY <1>1, <1>2, StepNames

LEMMA GotoMoves ==
    ASSUME IInv, Depth > 0, NEW at, Goto(at), stack[Depth].at > 1
    PROVE  stack' = [stack EXCEPT ![Depth] =
                       Frame(at, stack[Depth].empty, EnvOf(Depth), stack[Depth].nested)]
<1>1. stack[Depth].prev = EnvOf(Depth)
  <2>1. Depth \in 1 .. Depth
    BY TopOfStack DEF IInv
  <2> QED
    BY <2>1 DEF IInv, EnvIsRight
<1> QED
  BY <1>1 DEF Goto

LEMMA MapMadeKeeps == ASSUME IInv, MapMade PROVE IInv'
<1>1. Depth > 0 /\ TypeInv /\ stack[Depth].at = 1 /\ stack # <<>>
  BY NowIs, TopOfStack DEF MapMade, IInv
<1>2. env_tls = EnvOf(Depth)
  BY <1>1 DEF IInv, EnvIsRight
<1>3. stack' = [stack EXCEPT ![Depth] =
                   Frame(2, stack[Depth].empty, EnvOf(Depth), stack[Depth].nested)]
  BY <1>2 DEF MapMade
<1>4. env_tls' = Null /\ UNCHANGED <<tid_map, tid_map_len, held, crashed>>
  BY DEF MapMade
<1>5. 2 \in 2 .. 16 /\ 2 # 11
  OBVIOUS
<1> QED
  BY <1>1, <1>3, <1>4, <1>5, MoveKeeps

LEMMA WorksKeeps == ASSUME IInv, Works PROVE IInv'
<1>1. Depth > 0 /\ TypeInv /\ stack # <<>> /\ Last(stack) = stack[Depth]
  BY TopOfStack DEF Works, IInv
<1> DEFINE at == stack[Depth].at
<1>2. /\ at \in 2 .. 15 /\ at # 8
      /\ Now = "exec_env" <=> at = 10
      /\ Now = "get_queries" <=> at = 11
  <2>1. at \in 1 .. 16 /\ at # 1 /\ at # 8 /\ at # 16
    BY <1>1, NowIs DEF Works
  <2> QED
    BY <1>1, <2>1, NowIs
<1>3. Goto(at + 1)
  BY <1>1 DEF Works, Step
<1>4. stack' = [stack EXCEPT ![Depth] =
                   Frame(at + 1, stack[Depth].empty, EnvOf(Depth), stack[Depth].nested)]
  <2>1. at > 1
    BY <1>2
  <2> QED
    BY <1>1, <1>3, <2>1, GotoMoves
<1>5. held' \subseteq held \cup (Things \X {Depth})
  <2>1. Takes(Now) \subseteq Things
    BY DEF Takes, Makes, Things, FinallyFrees, Aot
  <2>2. Mine(Takes(Now)) \subseteq Things \X {Depth}
    BY <2>1 DEF Mine
  <2> QED
    BY <2>2 DEF Works
<1>6. env_tls' = IF at + 1 = 11 THEN Depth ELSE Null
  <2>1. env_tls = IF at = 11 THEN Depth ELSE Null
    BY <1>1, <1>2 DEF IInv, EnvIsRight
  <2>2. env_tls' = IF at = 10 THEN Depth ELSE IF at = 11 THEN Null ELSE env_tls
    BY <1>2 DEF Works
  <2>3. at + 1 = 11 <=> at = 10
    BY <1>2
  <2> QED
    BY <2>1, <2>2, <2>3
<1>7. UNCHANGED <<tid_map, tid_map_len, crashed>>
  BY DEF Works
<1>8. at + 1 \in 2 .. 16
  BY <1>2
<1> QED
  BY <1>1, <1>4, <1>5, <1>6, <1>7, <1>8, MoveKeeps

LEMMA HasQueriesKeeps == ASSUME IInv, HasQueries PROVE IInv'
<1>1. Depth > 0 /\ TypeInv /\ stack # <<>> /\ Last(stack) = stack[Depth]
  BY TopOfStack DEF HasQueries, IInv
<1>2. stack[Depth].at = 8
  BY <1>1, NowIs DEF HasQueries
<1>3. PICK at \in {9, 15} : Goto(at)
  BY <1>1, <1>2 DEF HasQueries, Step, NoQueries
<1>4. stack' = [stack EXCEPT ![Depth] =
                   Frame(at, stack[Depth].empty, EnvOf(Depth), stack[Depth].nested)]
  BY <1>1, <1>2, <1>3, GotoMoves
<1>5. env_tls = Null
  BY <1>1, <1>2 DEF IInv, EnvIsRight
<1>6. UNCHANGED <<tid_map, tid_map_len, env_tls, held, crashed>>
  BY DEF HasQueries
<1>7. at \in 2 .. 16 /\ at # 11
  OBVIOUS
<1> QED
  BY <1>1, <1>4, <1>5, <1>6, <1>7, MoveKeeps

(* A call that ends, how ever it ends, leaves no more than the structures of *)
(* LLVM and what its registers have lost, and the environment it met.        *)
LEMMA PopKeeps ==
    ASSUME IInv, Depth > 0, stack' = Front(stack), env_tls' = EnvOf(Depth),
           crashed' \in BOOLEAN, held' \subseteq Things \X (0 .. MaxDepth),
           ~ crashed' => tid_map' \in {Null, Freed, Depth},
           \A h \in held' : \/ h[2] = 0 /\ StaleLocals
                            \/ h \in held /\ (h[2] = Depth => h[1] \in Aot)
    PROVE  IInv'
<1>1. TypeInv /\ Depth \in 1 .. MaxDepth /\ MaxDepth \in Nat /\ stack # <<>>
  BY TopOfStack DEF IInv
<1>2. /\ stack' \in Seq(Frames) /\ Depth' = Depth - 1
      /\ \A i \in 1 .. Depth' : stack'[i] = stack[i]
      /\ stack' = <<>> <=> Depth = 1
  BY <1>1, Popped
<1>3. \A i \in 1 .. Depth' : stack'[i].at = 11 /\ stack'[i].nested /\ i \in 1 .. Depth
  BY <1>1, <1>2 DEF IInv, WaitsInGuest
<1>4. Depth > 1 => Depth' \in 1 .. Depth' /\ stack' # <<>>
  BY <1>1, <1>2
<1>5. TypeInv'
  <2>1. Len(stack') \in 0 .. MaxDepth
    <3>1. Len(stack') = Depth'
      BY DEF Depth
    <3> QED
      BY <1>1, <1>2, <3>1
  <2> QED
    BY <1>2, <2>1 DEF TypeInv
<1>6. OnlyAotAbove'
  <2> SUFFICES ASSUME NEW h \in held',
                      h[2] > Depth' \/ (stack' # <<>> /\ h[2] = Depth' /\ stack'[Depth'].at = 1)
               PROVE  h[1] \in Aot
    BY DEF OnlyAotAbove
  <2>1. h[2] \in 0 .. MaxDepth
    OBVIOUS
  <2>2. h[2] > Depth'
    BY <1>1, <1>2, <1>3, <1>4
  <2>3. h[2] = Depth \/ h[2] > Depth
    BY <1>1, <1>2, <2>1, <2>2
  <2>4. h[2] # 0
    BY <1>1, <2>1, <2>3
  <2> QED
    BY <2>3, <2>4 DEF IInv, OnlyAotAbove
<1>7. LostToRegisters'
  BY DEF IInv, LostToRegisters
<1>8. EnvIsRight'
  <2>1. CASE Depth = 1
    <3>1. Depth' = 0 /\ stack' = <<>> /\ env_tls' = Caller
      BY <1>2, <2>1 DEF EnvOf
    <3> QED
      BY <3>1 DEF EnvIsRight
  <2>2. CASE Depth > 1
    <3>1. env_tls' = Depth' /\ stack' # <<>> /\ stack'[Depth'].at = 11
      BY <1>2, <1>3, <1>4, <2>2 DEF EnvOf
    <3>2. \A i \in 1 .. Depth' : stack'[i].at > 1 => stack'[i].prev = EnvOf(i)
      BY <1>2, <1>3 DEF IInv, EnvIsRight
    <3> QED
      BY <3>1, <3>2 DEF EnvIsRight
  <2> QED
    BY <1>1, <2>1, <2>2
<1>9. WaitsInGuest'
  <2>1. \A i \in 1 .. Depth' - 1 : i \in 1 .. Depth'
    BY <1>1, <1>2
  <2>2. stack' # <<>> => stack'[Depth'].at = 11
    BY <1>1, <1>2, <1>3, <1>4
  <2> QED
    BY <1>3, <2>1, <2>2 DEF WaitsInGuest
<1>10. MapIsOwn'
  <2> SUFFICES ASSUME stack' # <<>>, ~ crashed'
               PROVE  stack'[Depth'].nested /\ tid_map' \in {Null, Freed, Depth' + 1}
    BY DEF MapIsOwn
  <2>1. Depth > 1 /\ Depth' + 1 = Depth
    BY <1>1, <1>2
  <2> QED
    BY <1>3, <1>4, <2>1
<1> QED
  BY <1>5, <1>6, <1>7, <1>8, <1>9, <1>10 DEF IInv

(* What PG_FINALLY does in common on both its ways.                         *)
LEMMA PutsBackOwn ==
    ASSUME IInv, Depth > 0, stack[Depth].at > 1
    PROVE  PutsBack(Last(stack)) = EnvOf(Depth)
<1>1. Depth \in 1 .. Depth /\ Last(stack) = stack[Depth]
  BY TopOfStack DEF IInv
<1> QED
  BY <1>1 DEF PutsBack, IInv, EnvIsRight

LEMMA FreedIsFreed ==
    ASSUME TypeInv, Depth > 0, NEW h \in held \ Mine(FinallyFrees)
    PROVE  h \in held /\ (h[2] = Depth => h[1] \in Aot)
<1>1. h[1] \in Things /\ h = <<h[1], h[2]>>
  BY DEF TypeInv
<1>2. h[2] = Depth => h[1] \notin FinallyFrees
  BY <1>1 DEF Mine
<1> QED
  BY <1>1, <1>2 DEF Things

LEMMA FinallyKeeps == ASSUME IInv, Finally PROVE IInv'
<1>1. Depth > 0 /\ TypeInv /\ stack' = Front(stack)
  BY DEF Finally, IInv
<1>2. stack[Depth].at > 1
  BY <1>1, NowIs DEF Finally
<1>3. env_tls' = EnvOf(Depth)
  BY <1>1, <1>2, PutsBackOwn DEF Finally
<1>4. /\ held' = held \ Mine(FinallyFrees) /\ crashed' \in BOOLEAN
      /\ ~ crashed' => tid_map' = Null
  BY DEF Finally, FreesMap
<1>5. held' \subseteq Things \X (0 .. MaxDepth)
  BY <1>1, <1>4 DEF TypeInv
<1>6. \A h \in held' : h \in held /\ (h[2] = Depth => h[1] \in Aot)
  BY <1>1, <1>4, FreedIsFreed
<1> QED
  BY <1>1, <1>3, <1>4, <1>5, <1>6, PopKeeps

LEMMA FailsKeeps == ASSUME IInv, Fails PROVE IInv'
<1>1. /\ Depth > 0 /\ TypeInv /\ stack' = Front(stack) /\ crashed' \in BOOLEAN
      /\ ~ crashed' => tid_map' = Null
  BY DEF Fails, FreesMap, IInv
<1>2. stack[Depth].at > 1
  <2>1. stack[Depth].at \in 1 .. 16 /\ stack[Depth].at # 1
    BY <1>1, NowIs DEF Fails
  <2> QED
    BY <2>1
<1>3. env_tls' = EnvOf(Depth)
  BY <1>1, <1>2, PutsBackOwn DEF Fails
<1>4. PICK lost \in IF StaleLocals THEN SUBSET FinallyFrees ELSE {{}} :
         held' = (held \ Mine(FinallyFrees)) \cup {<<h[1], 0>> : h \in held \cap Mine(lost)}
  BY DEF Fails
<1>5. \A h \in held' : \/ h \in held \ Mine(FinallyFrees)
                       \/ h[1] \in Things /\ h = <<h[1], 0>> /\ StaleLocals
  <2>1. \A h \in held : h[1] \in Things
    BY <1>1 DEF TypeInv
  <2>2. CASE StaleLocals
    BY <1>4, <2>1, <2>2
  <2>3. CASE ~ StaleLocals
    <3>1. lost = {}
      BY <1>4, <2>3
    <3>2. Mine(lost) = {}
      BY <3>1 DEF Mine
    <3> QED
      BY <1>4, <3>2
  <2> QED
    BY <2>2, <2>3
<1>6. held' \subseteq Things \X (0 .. MaxDepth)
  <2>1. 0 \in 0 .. MaxDepth
    BY CompileAssumption
  <2> QED
    BY <1>1, <1>5, <2>1 DEF TypeInv
<1>7. \A h \in held' : \/ h[2] = 0 /\ StaleLocals
                       \/ h \in held /\ (h[2] = Depth => h[1] \in Aot)
  BY <1>1, <1>5, FreedIsFreed
<1> QED
  BY <1>1, <1>3, <1>6, <1>7, PopKeeps

LEMMA MapFailsKeeps == ASSUME IInv, MapFails PROVE IInv'
<1>1. Depth > 0 /\ TypeInv /\ stack # <<>> /\ stack' = Front(stack) /\ stack[Depth].at = 1
  BY NowIs, TopOfStack DEF MapFails, IInv
<1>2. env_tls' = EnvOf(Depth)
  BY <1>1 DEF MapFails, IInv, EnvIsRight
<1>3. held' = held /\ crashed' \in BOOLEAN /\ held' \subseteq Things \X (0 .. MaxDepth)
  BY <1>1 DEF MapFails, TypeInv
<1>5. tid_map' \in {Null, Freed, Depth}
  <2>1. ~ stack[Depth].nested /\ ~ stack[Depth].empty /\ ~ crashed
    BY <1>1, TopOfStack DEF MapFails, IInv, WaitsInGuest
  <2>2. tid_map = Depth
    BY <1>1, <2>1 DEF IInv, MapIsOwn
  <2> QED
    BY <2>2 DEF MapFails
<1>4. \A h \in held' : h \in held /\ (h[2] = Depth => h[1] \in Aot)
  BY <1>1, <1>3 DEF IInv, OnlyAotAbove
<1> QED
  BY <1>1, <1>2, <1>3, <1>4, <1>5, PopKeeps

LEMMA CompileStep == IInv /\ [Next]_vars => IInv'
<1> SUFFICES ASSUME IInv, [Next]_vars PROVE IInv'
  OBVIOUS
<1>1. CASE Next
  BY <1>1, CallKeeps, MapMadeKeeps, WorksKeeps, HasQueriesKeeps, FinallyKeeps,
     FailsKeeps, MapFailsKeeps DEF Next
<1>2. CASE UNCHANGED vars
  <2>1. /\ UNCHANGED <<stack, tid_map, tid_map_len, env_tls, held, crashed>>
        /\ Depth' = Depth
    BY <1>2 DEF vars, Depth
  <2>2. TypeInv' /\ OnlyAotAbove' /\ LostToRegisters'
    BY <2>1 DEF IInv, TypeInv, OnlyAotAbove, LostToRegisters
  <2>3. EnvIsRight' /\ WaitsInGuest' /\ MapIsOwn'
    BY <2>1 DEF IInv, EnvIsRight, WaitsInGuest, MapIsOwn
  <2> QED
    BY <2>2, <2>3 DEF IInv
<1> QED
  BY <1>1, <1>2

-----------------------------------------------------------------------------
(* The properties of compile_wasm, for every value of its constants         *)

(* A call of compile_wasm leaves behind only what it made for LLVM, which    *)
(* nothing frees when it fails, and what its registers have lost, in a build *)
(* that keeps locals there: PG_FINALLY frees the module, the instance, its  *)
(* environment and the tuple descriptor wherever the call failed.           *)
THEOREM CompileLeavesNothing == Spec => []NothingLeft
<1>1. IInv => NothingLeft
  BY DEF IInv, OnlyAotAbove, LostToRegisters, NothingLeft
<1> QED
  BY InitInvariant, CompileStep, <1>1, PTL DEF Spec

(* Calls nested in a guest or not, failing or not: each puts back the       *)
(* execution environment that the thread was in when it began.              *)
THEOREM CompilePutsEnvironmentBack == Spec => []EnvironmentBack
<1>1. IInv => EnvironmentBack
  <2> SUFFICES ASSUME IInv PROVE EnvironmentBack
    OBVIOUS
  <2>1. stack = <<>> => env_tls = Caller
    BY DEF IInv, EnvIsRight
  <2>2. DOMAIN stack = 1 .. Depth
    BY LenProperties DEF IInv, TypeInv, Depth
  <2>3. \A i \in DOMAIN stack : stack[i].at > 1 => stack[i].prev = IF i = 1 THEN Caller ELSE i - 1
    BY <2>2 DEF IInv, EnvIsRight, EnvOf
  <2> QED
    BY <2>1, <2>3 DEF EnvironmentBack
<1> QED
  BY InitInvariant, CompileStep, <1>1, PTL DEF Spec

(* A guest's question for an OID is answered from the map of its own call,  *)
(* as long as it has had no other module compiled; after that its call has  *)
(* no map, or the one of the last call it made, which failed before PG_TRY. *)
THEOREM CompileAnswersFromOwnMap == Spec => []AnsweredFromOwnMap
<1>1. IInv => AnsweredFromOwnMap
  <2> SUFFICES ASSUME IInv, stack # <<>>, ~ crashed
               PROVE  IF Last(stack).nested THEN tid_map \in {Null, Freed, Depth + 1}
                      ELSE IF Last(stack).empty THEN tid_map_len = 0
                      ELSE tid_map = Depth /\ tid_map_len = 1
    BY DEF AnsweredFromOwnMap
  <2>1. Last(stack) = stack[Depth]
    BY EmptyStack, TopOfStack DEF IInv
  <2> QED
    BY <2>1 DEF IInv, MapIsOwn
<1> QED
  BY InitInvariant, CompileStep, <1>1, PTL DEF Spec

(* pfree(tid_map) meets a null or a dangling pointer only in a call without *)
(* a map, or in one whose guest had another module compiled.                *)
THEOREM CompileCrashesWithoutMap == Spec => CrashesWithoutMap
<1>1. ASSUME IInv, [Next]_vars, crashed', ~ crashed
      PROVE  Last(stack).empty \/ Last(stack).nested
  <2>1. Finally \/ Fails
    BY <1>1 DEF Next, vars, Call, MapMade, Works, HasQueries, MapFails
  <2>2. Depth > 0 /\ FreesMap
    BY <2>1 DEF Finally, Fails
  <2>3. Last(stack) = stack[Depth] /\ Depth \in 1 .. MaxDepth /\ stack # <<>>
    BY <1>1, <2>2, TopOfStack DEF IInv
  <2>4. tid_map # Depth
    BY <1>1, <2>2, <2>3 DEF FreesMap, Null, Freed
  <2> QED
    BY <1>1, <2>3, <2>4 DEF IInv, MapIsOwn
<1>2. IInv /\ [Next]_vars
         => [crashed' /\ ~ crashed => Last(stack).empty \/ Last(stack).nested]_vars
  BY <1>1
<1> QED
  BY InitInvariant, CompileStep, <1>2, PTL DEF Spec, CrashesWithoutMap
=============================================================================
