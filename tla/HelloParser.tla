---------------------------- MODULE HelloParser ----------------------------
(***************************************************************************)
(* How on_backend (master.c) reads a hello: the bytes of a fixed word, then *)
(* those of worker_id, in whatever portions recv() returns them.  Master    *)
(* counts the bytes of a hello; here they are compared and stored.          *)
(***************************************************************************)
EXTENDS Integers, Sequences, FiniteSetsExt

CONSTANTS Magic,      \* BACKEND_HELLO, 8 bytes in the code
          IdLen,      \* bytes of worker_id, 4 in the code
          Bytes,
          MaxSent     \* bound on the bytes the peer sends

ASSUME HelloAssumption ==
    /\ Magic \in Seq(Bytes)
    /\ IdLen \in Nat \ {0}
    /\ 0 \in Bytes              \* memset

VARIABLES log,          \* bytes the peer has sent so far
          taken,        \* how many of them recv() has returned
          read_offset,
          worker_id,
          open,         \* FALSE once close_socket was called
          delivered     \* worker_id of each complete hello

hello_vars == <<log, taken, read_offset, worker_id, open, delivered>>

MagicLen == Len(Magic)
HelloSize == MagicLen + IdLen

HelloInit ==
    /\ log = <<>> /\ taken = 0
    /\ read_offset = 0
    /\ worker_id = [j \in 1 .. IdLen |-> 0]
    /\ open = TRUE
    /\ delivered = <<>>

\* Whoever connected sends a byte; a worker sends its hello again and again.
Send(b) ==
    /\ Len(log) < MaxSent
    /\ log' = Append(log, b)
    /\ UNCHANGED <<taken, read_offset, worker_id, open, delivered>>

-----------------------------------------------------------------------------
(* recv() returned n bytes, at most those missing from the hello.           *)
Portion(n) ==
    /\ open
    /\ n <= Min({HelloSize - read_offset, Len(log) - taken})
    /\ taken' = taken + n
    /\ UNCHANGED log

buf(i) == log[taken + i]

\* Slip: every portion is compared from the start of the word.
MagicFromStart(n) ==
    \A i \in 1 .. Min({MagicLen - read_offset, n}) : Magic[i] = buf(i)

\* The leading bytes that belong to the word, none when it was read before.
Compared(n) == Max({0, Min({MagicLen - read_offset, n})})

MagicMatches(n) ==
    \A i \in 1 .. Compared(n) : Magic[read_offset + i] = buf(i)

\* Slip: a portion of the id is always stored at its first byte.
StoreAtStart(n) ==
    [j \in 1 .. IdLen |-> IF j <= n - Compared(n) THEN buf(Compared(n) + j)
                                                  ELSE worker_id[j]]

\* memcpy of what follows the word to its place in worker_id.
StoreId(n) ==
    LET start == Max({0, read_offset - MagicLen}) IN
    [j \in 1 .. IdLen |-> IF start < j /\ j <= start + n - Compared(n)
                          THEN buf(Compared(n) + j - start)
                          ELSE worker_id[j]]

BadHello(n) ==
    /\ Portion(n) /\ ~ MagicMatches(n)
    /\ open' = FALSE
    /\ read_offset' = 0
    /\ worker_id' = [j \in 1 .. IdLen |-> 0]
    /\ UNCHANGED delivered

PartOfHello(n) ==
    /\ Portion(n) /\ MagicMatches(n)
    /\ read_offset + n # HelloSize
    /\ worker_id' = StoreId(n)
    /\ read_offset' = read_offset + n
    /\ UNCHANGED <<open, delivered>>

HelloComplete(n) ==
    /\ Portion(n) /\ MagicMatches(n)
    /\ read_offset + n = HelloSize
    /\ worker_id' = StoreId(n)
    /\ delivered' = Append(delivered, worker_id')
    /\ read_offset' = 0
    /\ UNCHANGED open

HelloNext ==
    \/ \E b \in Bytes : Send(b)
    \/ \E n \in 1 .. HelloSize : BadHello(n) \/ PartOfHello(n) \/ HelloComplete(n)

HelloSpec == HelloInit /\ [][HelloNext]_hello_vars

-----------------------------------------------------------------------------
\* Byte k of a stream of hellos: its place in the hello.
Place(k) == ((k - 1) % HelloSize) + 1

(* on_backend accepts a peer exactly as long as the words in its stream are *)
(* right, however recv() cuts the stream: a wrong byte closes the socket    *)
(* with the portion that brings it, and nothing else does.                  *)
OpenWhileRight ==
    open <=> \A k \in 1 .. taken : Place(k) <= MagicLen => log[k] = Magic[Place(k)]

(* The worker_id of each complete hello is the bytes behind its word, in    *)
(* their order, whatever portions they came in; the bytes of an unfinished  *)
(* id already have their place.                                             *)
IdsAsSent ==
    open =>
       /\ taken = Len(delivered) * HelloSize + read_offset
       /\ \A h \in 1 .. Len(delivered), j \in 1 .. IdLen :
             delivered[h][j] = log[(h - 1) * HelloSize + MagicLen + j]
       /\ \A j \in 1 .. read_offset - MagicLen :
             worker_id[j] = log[Len(delivered) * HelloSize + MagicLen + j]
=============================================================================
