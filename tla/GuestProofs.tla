---------------------------- MODULE GuestProofs ----------------------------
(***************************************************************************)
(* What a guest is handed by its two event sources, for every stream a      *)
(* client sends, every size of the guest's buffer, every set of functions   *)
(* it exports and every JSON document.                                       *)
(***************************************************************************)
EXTENDS GuestEvents, FiniteSetTheorems, SequenceTheorems, TLAPS

Call == (Spans \cup Marks) \X Int \X Int

(* The parser's position lies in the buffer, and the buffer in the stream.  *)
HttpTypes ==
    /\ stream \in Streams /\ stream \in Seq(Spans \cup Marks)
    /\ base \in Nat /\ limit \in Nat /\ at \in Nat /\ span \in Nat
    /\ 1 <= base /\ base <= at /\ at <= limit /\ limit <= Len(stream) + 1
    /\ span <= at
    /\ given \in Seq(Call)
    /\ nested \in BOOLEAN

\* The bytes of the open span are bytes of one kind, up to where llhttp is.
SpanInv ==
    span # 0 => /\ at > 1 /\ stream[at - 1] \in Spans
                /\ \A b \in span .. at - 1 : stream[b] = stream[at - 1]

\* llhttp goes on, or a callback it made does.
Executing == pc \in {"llhttp", "callback"}

(* What llhttp is in the middle of says where it is.                        *)
ThenInv ==
    /\ pc \in {"guest", "llhttp", "callback", "over", "crashed"}
    /\ then \in {"none", "closed", "marked", "flushed"}
    /\ pc = "guest" => then = "none"
    /\ pc = "callback" => then # "none"
    /\ then = "marked" => span = 0
    /\ then \in {"closed", "flushed"} => span # 0
    /\ Executing /\ then \in {"closed", "marked"} => at < limit /\ stream[at] \in Marks
    /\ Executing /\ then = "flushed" => at = limit

\* A view is right, begins behind all earlier ones, and skips nothing.
Sound(g) ==
    /\ \A i \in 1 .. Len(g) :
          \A b \in g[i][2] .. g[i][3] : b \in 1 .. Len(stream) /\ stream[b] = g[i][1]
    /\ \A i, j \in 1 .. Len(g) : i < j => g[i][3] < g[j][2]
    /\ \A i \in 1 .. Len(g) : \A b \in 1 .. g[i][3] :
          stream[b] \in exported => \E j \in 1 .. i : g[j][2] <= b /\ b <= g[j][3]

\* The calls hand out all that was wanted of the first d bytes and no byte behind.
Covers(g, d) ==
    /\ \A i \in 1 .. Len(g) : g[i][3] <= d
    /\ \A b \in 1 .. d :
          stream[b] \in exported => \E i \in 1 .. Len(g) : g[i][2] <= b /\ b <= g[i][3]

(* The last byte that has been handed out, were there a function for each:  *)
(* an open span is still to come, the one being closed is not.              *)
Reached ==
    IF then = "marked" THEN at
    ELSE IF pc = "llhttp" /\ then = "none" /\ span # 0 THEN span - 1
    ELSE at - 1

GivenInv ==
    /\ Sound(given)
    /\ pc = "guest" \/ Executing => Covers(given, Reached)

(* The buffer is there unless a callback has taken it away.                 *)
BufferInv ==
    /\ Executing /\ ~ nested => current_buf = Buf
    /\ CrashesWhenNested

HttpInv == HttpTypes /\ SpanInv /\ ThenInv /\ GivenInv /\ BufferInv

-----------------------------------------------------------------------------
(* Spans and marks are told apart, and a span goes on or a mark follows it. *)
LEMMA SpanOrMark == Spans \cap Marks = {}
BY DEF Spans, Marks

LEMMA SpanGoesOn ==
    ASSUME HttpTypes, NEW k \in 1 .. Len(stream) - 1, stream[k] \in Spans,
           stream[k + 1] \in Spans
    PROVE  stream[k + 1] = stream[k]
BY HttpAssumption, SpanOrMark DEF HttpTypes

(* A view of all bytes behind those handed out is right and skips none.     *)
LEMMA OneMore ==
    ASSUME NEW g \in Seq(Call), NEW f \in Spans \cup Marks, NEW first \in Int,
           NEW last \in Int, first - 1 <= last,
           Sound(g), Covers(g, first - 1),
           \A b \in first .. last : b \in 1 .. Len(stream) /\ stream[b] = f
    PROVE  /\ Append(g, <<f, first, last>>) \in Seq(Call)
           /\ Sound(Append(g, <<f, first, last>>))
           /\ Covers(Append(g, <<f, first, last>>), last)
<1> DEFINE v == <<f, first, last>>
           h == Append(g, v)
           n == Len(g)
<1>1. v \in Call /\ v[1] = f /\ v[2] = first /\ v[3] = last
  BY DEF Call
<1>2. h \in Seq(Call) /\ Len(h) = n + 1 /\ n \in Nat
  BY <1>1
<1>3. \A i \in 1 .. n : h[i] = g[i]
  OBVIOUS
<1>4. h[n + 1] = v
  OBVIOUS
<1>5. \A i \in 1 .. n : g[i] \in Call /\ g[i][2] \in Int /\ g[i][3] \in Int
  BY DEF Call
<1> HIDE DEF h, v, n
<1>6. \A i \in 1 .. n : g[i][3] <= first - 1
  BY DEF Covers, n
<1>7. Sound(h)
  <2>1. ASSUME NEW i \in 1 .. n + 1, NEW b \in h[i][2] .. h[i][3]
        PROVE  b \in 1 .. Len(stream) /\ stream[b] = h[i][1]
    <3>1. CASE i \in 1 .. n
      BY <2>1, <3>1, <1>3 DEF Sound, n
    <3>2. CASE i = n + 1
      BY <2>1, <3>2, <1>4, <1>1
    <3> QED  BY <3>1, <3>2, <1>2
  <2>2. ASSUME NEW i \in 1 .. n + 1, NEW j \in 1 .. n + 1, i < j
        PROVE  h[i][3] < h[j][2]
    <3>1. i \in 1 .. n
      BY <2>2, <1>2
    <3>2. CASE j \in 1 .. n
      BY <2>2, <3>1, <3>2, <1>3 DEF Sound, n
    <3>3. CASE j = n + 1
      BY <3>1, <3>3, <1>3, <1>4, <1>1, <1>5, <1>6
    <3> QED  BY <3>2, <3>3, <1>2
  <2>3. ASSUME NEW i \in 1 .. n + 1, NEW b \in 1 .. h[i][3], stream[b] \in exported
        PROVE  \E j \in 1 .. i : h[j][2] <= b /\ b <= h[j][3]
    <3>1. CASE i \in 1 .. n
      <4>1. PICK j \in 1 .. i : g[j][2] <= b /\ b <= g[j][3]
        BY <2>3, <3>1, <1>3 DEF Sound, n
      <4> QED  BY <4>1, <3>1, <1>2, <1>3
    <3>2. CASE i = n + 1 /\ b < first
      <4>1. b \in 1 .. first - 1
        BY <2>3, <3>2
      <4>2. PICK j \in 1 .. n : g[j][2] <= b /\ b <= g[j][3]
        BY <2>3, <4>1 DEF Covers, n
      <4> QED  BY <4>2, <3>2, <1>2, <1>3
    <3>3. CASE i = n + 1 /\ b >= first
      BY <2>3, <3>3, <1>1, <1>2, <1>4
    <3>4. b \in Int
      OBVIOUS
    <3> QED  BY <3>1, <3>2, <3>3, <3>4, <1>2
  <2> QED  BY <2>1, <2>2, <2>3, <1>2 DEF Sound
<1>8. Covers(h, last)
  <2>1. ASSUME NEW i \in 1 .. n + 1
        PROVE  h[i][3] <= last
    <3>1. CASE i \in 1 .. n
      BY <3>1, <1>3, <1>5, <1>6
    <3>2. CASE i = n + 1
      BY <3>2, <1>4, <1>1
    <3> QED  BY <3>1, <3>2, <1>2
  <2>2. ASSUME NEW b \in 1 .. last, stream[b] \in exported
        PROVE  \E i \in 1 .. n + 1 : h[i][2] <= b /\ b <= h[i][3]
    <3>1. CASE b < first
      <4>1. b \in 1 .. first - 1
        BY <2>2, <3>1
      <4>2. PICK j \in 1 .. n : g[j][2] <= b /\ b <= g[j][3]
        BY <2>2, <4>1 DEF Covers, n
      <4>3. h[j] = g[j] /\ j \in 1 .. n + 1
        BY <1>2, <1>3
      <4> QED  BY <4>2, <4>3
    <3>2. CASE b >= first
      BY <3>2, <2>2, <1>1, <1>2, <1>4
    <3> QED  BY <3>1, <3>2
  <2> QED  BY <2>1, <2>2, <1>2 DEF Covers
<1> QED  BY <1>2, <1>7, <1>8 DEF h, v

(* Bytes for which there is no function need no call.                       *)
LEMMA NoneWanted ==
    ASSUME NEW g \in Seq(Call), NEW d \in Int, NEW last \in Int, d <= last,
           Covers(g, d),
           \A b \in d + 1 .. last : stream[b] \notin exported
    PROVE  Covers(g, last)
<1>1. \A i \in 1 .. Len(g) : g[i] \in Call /\ g[i][3] \in Int
  BY DEF Call
<1>2. \A i \in 1 .. Len(g) : g[i][3] <= last
  BY <1>1 DEF Covers
<1>3. ASSUME NEW b \in 1 .. last, stream[b] \in exported
      PROVE  b \in 1 .. d
  BY <1>3
<1> QED  BY <1>2, <1>3 DEF Covers

(* What is said of the calls after a step is said of the same stream.       *)
LEMMA GivenAfter ==
    ASSUME UNCHANGED <<stream, exported>>, Sound(given'),
           (pc = "guest" \/ Executing)' => Covers(given', Reached')
    PROVE  GivenInv'
BY DEF GivenInv, Sound, Covers

(* The smaller of two numbers.                                              *)
LEMMA MinOfTwo ==
    ASSUME NEW a \in Int, NEW b \in Int
    PROVE  Min({a, b}) \in {a, b} /\ Min({a, b}) <= a /\ Min({a, b}) <= b
<1>1. \E x \in {a, b} : \A y \in {a, b} : x <= y
  <2>1. CASE a <= b
    BY <2>1
  <2>2. CASE b <= a
    BY <2>2
  <2> QED  BY <2>1, <2>2
<1> QED  BY <1>1 DEF Min

(* llhttp comes to a callback: the function is called with all that was not *)
(* handed out before, if the guest has it and there is a buffer to view.    *)
LEMMA CallBackKeeps ==
    ASSUME HttpInv, pc = "llhttp", then = "none",
           UNCHANGED <<stream, exported, base, limit, at, span, error, current_buf, nested>>,
           NEW f \in Spans \cup Marks, NEW first \in Int, NEW last \in Int,
           NEW next \in {"closed", "marked", "flushed"},
           CallBack(f, <<f, first, last>>, next),
           first = Reached + 1, first - 1 <= last,
           \A b \in first .. last : b \in 1 .. Len(stream) /\ stream[b] = f,
           next = "marked" => span = 0 /\ last = at /\ at < limit /\ stream[at] \in Marks,
           next = "closed" => span # 0 /\ last = at - 1 /\ at < limit /\ stream[at] \in Marks,
           next = "flushed" => span # 0 /\ last = at - 1 /\ at = limit
    PROVE  HttpInv'
<1> USE DEF HttpInv
<1>1. Sound(given) /\ Covers(given, first - 1)
  BY DEF GivenInv, Executing, HttpTypes, Reached
<1>2. given \in Seq(Call)
  BY DEF HttpTypes
<1>3. SpanInv'
  BY DEF SpanInv
<1>4. CASE f \notin exported
  <2>1. pc' = "llhttp" /\ then' = next /\ given' = given
    BY <1>4 DEF CallBack
  <2>2. Covers(given, last)
    <3>1. \A b \in (first - 1) + 1 .. last : stream[b] \notin exported
      BY <1>4
    <3> QED  BY <3>1, <1>1, <1>2, NoneWanted
  <2>3. HttpTypes'
    BY <2>1 DEF HttpTypes
  <2>4. ThenInv'
    BY <2>1 DEF ThenInv, Executing
  <2>5. Reached' = last
    BY <2>1 DEF Reached
  <2>6. GivenInv'
    BY <2>1, <2>2, <2>5, <1>1, GivenAfter
  <2>7. BufferInv'
    BY <2>1 DEF BufferInv, CrashesWhenNested, Executing
  <2> QED  BY <2>3, <1>3, <2>4, <2>6, <2>7
<1>5. CASE f \in exported /\ f \in Spans /\ current_buf = NULL
  <2>1. pc' = "crashed" /\ then' = then /\ given' = given
    BY <1>5 DEF CallBack
  <2>2. nested
    BY <1>5 DEF BufferInv, Executing, Buf, NULL
  <2>3. HttpTypes'
    BY <2>1 DEF HttpTypes
  <2>4. ThenInv'
    BY <2>1 DEF ThenInv, Executing
  <2>5. GivenInv'
    BY <2>1, <1>1, GivenAfter DEF Executing
  <2>6. BufferInv'
    BY <2>1, <2>2 DEF BufferInv, CrashesWhenNested, Executing
  <2> QED  BY <2>3, <1>3, <2>4, <2>5, <2>6
<1>6. CASE f \in exported /\ ~ (f \in Spans /\ current_buf = NULL)
  <2>1. pc' = "callback" /\ then' = next /\ given' = Append(given, <<f, first, last>>)
    BY <1>6 DEF CallBack
  <2>2. given' \in Seq(Call) /\ Sound(given') /\ Covers(given', last)
    BY <2>1, <1>1, <1>2, OneMore
  <2>3. HttpTypes'
    BY <2>2 DEF HttpTypes
  <2>4. ThenInv'
    BY <2>1 DEF ThenInv, Executing
  <2>5. Reached' = last
    BY <2>1 DEF Reached
  <2>6. GivenInv'
    BY <2>2, <2>5, GivenAfter
  <2>7. BufferInv'
    BY <2>1 DEF BufferInv, CrashesWhenNested, Executing
  <2> QED  BY <2>3, <1>3, <2>4, <2>6, <2>7
<1> QED  BY <1>4, <1>5, <1>6

(* The guest reads into its buffer and calls the parser's natives.          *)
LEMMA GuestRuns ==
    ASSUME HttpInv, Receive \/ env_llhttp_execute \/ env_llhttp_finish \/ env_llhttp_resume
    PROVE  HttpInv'
<1> USE DEF HttpInv
<1>1. UNCHANGED <<stream, exported, given, at>> /\ pc = "guest" /\ then = "none"
  BY DEF Receive, env_llhttp_execute, env_llhttp_finish, env_llhttp_resume, ThenInv
<1>2. Sound(given) /\ Covers(given, at - 1)
  BY <1>1 DEF GivenInv, Reached
<1>3. CASE Receive
  <2>1. PICK n \in 1 .. Min({BufferSize, Len(stream) + 1 - at}) :
           base' = at /\ limit' = at + n
    BY <1>3 DEF Receive
  <2>2. Len(stream) \in Nat
    BY DEF HttpTypes
  <2>3. n \in Nat /\ n <= Len(stream) + 1 - at
    <3>1. BufferSize \in Int /\ Len(stream) + 1 - at \in Int
      BY <2>2, HttpAssumption DEF HttpTypes
    <3>2. Min({BufferSize, Len(stream) + 1 - at}) \in Int
      BY <3>1, MinOfTwo
    <3>3. Min({BufferSize, Len(stream) + 1 - at}) <= Len(stream) + 1 - at
      BY <3>1, MinOfTwo
    <3> QED  BY <3>1, <3>2, <3>3
  <2>4. HttpTypes'
    BY <2>1, <2>2, <2>3, <1>1, <1>3 DEF HttpTypes, Receive
  <2>5. SpanInv' /\ ThenInv' /\ BufferInv'
    BY <1>1, <1>3 DEF Receive, SpanInv, ThenInv, BufferInv, CrashesWhenNested, Executing
  <2>6. Reached' = at - 1
    BY <1>1, <1>3 DEF Receive, Reached
  <2>7. GivenInv'
    BY <2>6, <1>1, <1>2, GivenAfter
  <2> QED  BY <2>4, <2>5, <2>7
<1>4. CASE env_llhttp_execute /\ error = "HPE_OK"
  <2>1. /\ pc' = "llhttp" /\ then' = "none" /\ current_buf' = Buf /\ nested' = FALSE
        /\ span' = IF span = 0 THEN 0 ELSE at
        /\ UNCHANGED <<base, limit>>
    BY <1>4 DEF env_llhttp_execute, Named
  <2>2. HttpTypes'
    <3>1. span' \in Nat /\ span' <= at
      BY <2>1 DEF HttpTypes
    <3> QED  BY <3>1, <2>1, <1>1 DEF HttpTypes
  <2>3. SpanInv'
    BY <2>1, <1>1 DEF SpanInv, HttpTypes
  <2>4. ThenInv' /\ BufferInv'
    BY <2>1, <1>1 DEF ThenInv, BufferInv, CrashesWhenNested, Executing
  <2>5. Reached' = at - 1
    BY <2>1, <1>1 DEF Reached, HttpTypes
  <2>6. GivenInv'
    BY <2>5, <1>1, <1>2, GivenAfter
  <2> QED  BY <2>2, <2>3, <2>4, <2>6
<1>5. CASE (env_llhttp_execute /\ error # "HPE_OK") \/ env_llhttp_finish \/ env_llhttp_resume
  <2>1. /\ pc' \in {"guest", "over"} /\ then' = "none" /\ nested' \in BOOLEAN
        /\ UNCHANGED <<base, limit, span>>
    BY <1>1, <1>5 DEF env_llhttp_execute, env_llhttp_finish, env_llhttp_resume, Returns,
       maybe_call_on_error, HttpTypes
  <2>2. HttpTypes'
    BY <2>1, <1>1 DEF HttpTypes
  <2>3. SpanInv' /\ ThenInv' /\ BufferInv'
    BY <2>1, <1>1 DEF SpanInv, ThenInv, BufferInv, CrashesWhenNested, Executing
  <2>4. Reached' = at - 1
    BY <2>1, <1>1 DEF Reached
  <2>5. GivenInv'
    BY <2>4, <1>1, <1>2, GivenAfter
  <2> QED  BY <2>2, <2>3, <2>5
<1> QED  BY <1>3, <1>4, <1>5

(* After a reset the guest begins with a stream nothing was handed out of.  *)
LEMMA NothingGiven ==
    /\ <<>> \in Seq(Call)
    /\ Sound(<<>>)
    /\ Covers(<<>>, 0)
BY DEF Sound, Covers

LEMMA ResetKeeps ==
    ASSUME HttpInv, env_llhttp_reset
    PROVE  HttpInv'
<1>1. /\ UNCHANGED <<stream, exported, pc, then, nested, current_buf>> /\ pc = "guest"
      /\ at' = 1 /\ base' = 1 /\ limit' = 1 /\ span' = 0 /\ given' = <<>>
  BY DEF env_llhttp_reset
<1>2. HttpTypes'
  BY <1>1, NothingGiven DEF HttpInv, HttpTypes
<1>3. SpanInv' /\ ThenInv' /\ BufferInv'
  BY <1>1 DEF HttpInv, SpanInv, ThenInv, BufferInv, CrashesWhenNested, Executing
<1>4. Reached' = 0
  BY <1>1 DEF HttpInv, ThenInv, Reached
<1>5. Sound(given') /\ Covers(given', 0)
  BY <1>1, NothingGiven
<1>6. GivenInv'
  BY <1>1, <1>4, <1>5, GivenAfter
<1> QED  BY <1>2, <1>3, <1>6 DEF HttpInv

(* llhttp takes a byte, or has nothing more to take.                        *)
LEMMA TakeByteKeeps ==
    ASSUME HttpInv, TakeByte
    PROVE  HttpInv'
<1> USE DEF HttpInv
<1>1. /\ pc = "llhttp" /\ then = "none" /\ at < limit /\ stream[at] \in Spans
      /\ span' = IF span = 0 THEN at ELSE span
      /\ at' = at + 1
      /\ UNCHANGED <<stream, exported, base, limit, error, pc, then, current_buf, given, nested>>
  BY DEF TakeByte
<1>2. HttpTypes'
  BY <1>1 DEF HttpTypes
<1>3. SpanInv'
  <2>1. CASE span = 0
    BY <2>1, <1>1 DEF SpanInv, HttpTypes
  <2>2. CASE span # 0
    <3>1. at > 1 /\ stream[at - 1] \in Spans /\ at - 1 \in 1 .. Len(stream) - 1
      BY <2>2, <1>1 DEF SpanInv, HttpTypes
    <3>2. stream[at] = stream[at - 1]
      <4>1. (at - 1) + 1 = at
        BY DEF HttpTypes
      <4> QED  BY <4>1, <3>1, <1>1, SpanGoesOn
    <3>3. \A b \in span .. at - 1 : stream[b] = stream[at - 1]
      BY <2>2 DEF SpanInv
    <3>4. \A b \in span .. at : stream[b] = stream[at]
      BY <3>2, <3>3 DEF HttpTypes
    <3>5. at' - 1 = at /\ at' > 1 /\ span' = span
      BY <1>1, <2>2 DEF HttpTypes
    <3> QED  BY <3>4, <3>5, <1>1 DEF SpanInv
  <2> QED  BY <2>1, <2>2
<1>4. ThenInv' /\ BufferInv'
  BY <1>1 DEF ThenInv, BufferInv, CrashesWhenNested, Executing
<1>5. Reached' = Reached
  BY <1>1 DEF Reached, HttpTypes
<1>6. Sound(given) /\ Covers(given, Reached)
  BY <1>1 DEF GivenInv, Executing
<1>7. GivenInv'
  BY <1>1, <1>5, <1>6, GivenAfter
<1> QED  BY <1>2, <1>3, <1>4, <1>7

LEMMA CallsKeep ==
    ASSUME HttpInv, CloseSpan \/ Mark \/ Flush
    PROVE  HttpInv'
<1> USE DEF HttpInv
<1>1. /\ UNCHANGED <<stream, exported, base, limit, at, span, error, current_buf, nested>>
      /\ pc = "llhttp" /\ then = "none"
  BY DEF CloseSpan, Mark, Flush
<1>2. span # 0 => View(stream[at - 1], at - 1) = <<stream[at - 1], span, at - 1>>
  BY DEF View, Offset, HttpTypes
<1>3. span # 0 => /\ stream[at - 1] \in Spans /\ at - 1 \in 1 .. Len(stream)
                  /\ \A b \in span .. at - 1 :
                        b \in 1 .. Len(stream) /\ stream[b] = stream[at - 1]
  BY DEF SpanInv, HttpTypes
<1>4. /\ span # 0 => span = Reached + 1
      /\ span = 0 => at = Reached + 1
  BY <1>1 DEF Reached, HttpTypes
<1>5. at \in Int /\ span \in Int /\ span <= at
  BY DEF HttpTypes
<1>6. CASE CloseSpan
  <2>1. /\ span # 0 /\ at < limit /\ stream[at] \in Marks
        /\ CallBack(stream[at - 1], <<stream[at - 1], span, at - 1>>, "closed")
    BY <1>2, <1>6 DEF CloseSpan
  <2> QED  BY <1>1, <1>3, <1>4, <1>5, <2>1, CallBackKeeps
<1>7. CASE Flush
  <2>1. /\ span # 0 /\ at = limit
        /\ CallBack(stream[at - 1], <<stream[at - 1], span, at - 1>>, "flushed")
    BY <1>2, <1>7 DEF Flush
  <2> QED  BY <1>1, <1>3, <1>4, <1>5, <2>1, CallBackKeeps
<1>8. CASE Mark
  <2>1. /\ span = 0 /\ at < limit /\ stream[at] \in Marks
        /\ CallBack(stream[at], <<stream[at], at, at>>, "marked")
    BY <1>8 DEF Mark
  <2>2. \A b \in at .. at : b \in 1 .. Len(stream) /\ stream[b] = stream[at]
    BY <2>1 DEF HttpTypes
  <2> QED  BY <1>1, <1>4, <1>5, <2>1, <2>2, CallBackKeeps
<1> QED  BY <1>6, <1>7, <1>8

(* The callback is behind llhttp: it goes on, or its native returns.        *)
LEMMA GoneOnKeeps ==
    ASSUME HttpInv, Executing, then # "none", GoneOn,
           UNCHANGED <<stream, exported, base, limit, given, nested>>,
           then' = "none", pc' \in {"guest", "over", "llhttp"},
           pc' = "llhttp" => then # "flushed" /\ UNCHANGED current_buf
    PROVE  HttpInv'
<1> USE DEF HttpInv
<1>1. /\ at' = IF then = "marked" THEN at + 1 ELSE at
      /\ span' = IF then = "closed" THEN 0 ELSE span
  BY DEF GoneOn
<1>2. then \in {"closed", "marked", "flushed"}
  BY DEF ThenInv
<1>3. /\ Reached = IF then = "marked" THEN at ELSE at - 1
      /\ Sound(given) /\ Covers(given, Reached)
  BY DEF Reached, GivenInv
<1>4. HttpTypes'
  <2>1. then = "marked" => at < limit /\ span = 0
    BY DEF ThenInv
  <2>2. at' \in Nat /\ at <= at' /\ at' <= limit
    BY <1>1, <2>1 DEF HttpTypes
  <2>3. span' \in Nat /\ span' <= at'
    BY <1>1, <2>2 DEF HttpTypes
  <2> QED  BY <2>2, <2>3 DEF HttpTypes
<1>5. SpanInv'
  <2>1. span' # 0 => at' = at /\ span' = span
    BY <1>1 DEF ThenInv
  <2> QED  BY <2>1 DEF SpanInv
<1>6. ThenInv' /\ BufferInv'
  BY DEF ThenInv, BufferInv, CrashesWhenNested, Executing
<1>7. pc' = "llhttp" => span' = 0
  BY <1>1, <1>2 DEF ThenInv
<1>8. Reached' = Reached
  BY <1>1, <1>3, <1>7 DEF Reached, HttpTypes
<1>9. GivenInv'
  BY <1>3, <1>8, GivenAfter
<1> QED  BY <1>4, <1>5, <1>6, <1>9

(* Nothing of the guest runs any more.                                      *)
LEMMA OverKeeps ==
    ASSUME HttpInv, pc' = "over", then' \in {"none", then},
           UNCHANGED <<stream, exported, base, limit, at, span, given, nested>>
    PROVE  HttpInv'
<1> USE DEF HttpInv
<1>1. HttpTypes' /\ SpanInv'
  BY DEF HttpTypes, SpanInv
<1>2. ThenInv' /\ BufferInv'
  BY DEF ThenInv, BufferInv, CrashesWhenNested, Executing
<1>3. GivenInv'
  BY GivenAfter DEF GivenInv, Executing
<1> QED  BY <1>1, <1>2, <1>3

LEMMA AnswerKeeps ==
    ASSUME HttpInv, Answer
    PROVE  HttpInv'
<1>1. /\ pc = "callback" /\ then # "none" /\ Executing
      /\ UNCHANGED <<stream, exported, base, limit, given, nested>>
  BY DEF Answer, HttpInv, ThenInv, Executing
<1>2. PICK answer \in {"0", "1", "2", "other"} :
          IF Outcome(answer) = "HPE_OK"
          THEN pc' = "llhttp" /\ UNCHANGED <<at, span, error, then, current_buf>>
          ELSE /\ error' = Outcome(answer)
               /\ GoneOn
               /\ Returns(Outcome(answer))
  BY DEF Answer
<1>3. CASE Outcome(answer) = "HPE_OK"
  <2>1. pc' = "llhttp" /\ UNCHANGED <<at, span, error, then, current_buf>>
    BY <1>2, <1>3
  <2>2. HttpTypes' /\ SpanInv'
    BY <2>1, <1>1 DEF HttpInv, HttpTypes, SpanInv
  <2>3. ThenInv' /\ BufferInv'
    BY <2>1, <1>1 DEF HttpInv, ThenInv, BufferInv, CrashesWhenNested, Executing
  <2>4. Reached' = Reached
    BY <2>1, <1>1 DEF Reached
  <2>5. GivenInv'
    BY <2>4, <1>1, GivenAfter DEF HttpInv, GivenInv
  <2> QED  BY <2>2, <2>3, <2>5 DEF HttpInv
<1>4. CASE Outcome(answer) # "HPE_OK"
  <2>1. GoneOn /\ then' = "none" /\ pc' \in {"guest", "over"}
    BY <1>2, <1>4 DEF Returns, maybe_call_on_error
  <2> QED  BY <2>1, <1>1, GoneOnKeeps
<1> QED  BY <1>3, <1>4

LEMMA LlhttpGoesOn ==
    ASSUME HttpInv, GoOn \/ BufferDone
    PROVE  HttpInv'
<1>1. CASE GoOn
  <2>1. /\ Executing /\ then # "none" /\ GoneOn
        /\ UNCHANGED <<stream, exported, base, limit, given, nested>>
    BY <1>1 DEF GoOn, Executing
  <2>2. /\ then' = "none" /\ pc' \in {"guest", "over", "llhttp"}
        /\ pc' = "llhttp" => then # "flushed" /\ UNCHANGED current_buf
    BY <1>1 DEF GoOn, Returns, maybe_call_on_error
  <2> QED  BY <2>1, <2>2, GoneOnKeeps
<1>2. CASE BufferDone
  <2>1. /\ UNCHANGED <<stream, exported, base, limit, at, span, given, nested>>
        /\ pc = "llhttp" /\ then = "none" /\ span = 0
        /\ pc' \in {"guest", "over"} /\ then' = "none"
    BY <1>2 DEF BufferDone, Returns, maybe_call_on_error
  <2>2. HttpTypes' /\ SpanInv'
    BY <2>1 DEF HttpInv, HttpTypes, SpanInv
  <2>3. ThenInv' /\ BufferInv'
    BY <2>1 DEF HttpInv, ThenInv, BufferInv, CrashesWhenNested, Executing
  <2>4. Reached' = Reached
    BY <2>1 DEF Reached
  <2>5. GivenInv'
    BY <2>1, <2>4, GivenAfter DEF HttpInv, GivenInv, Executing
  <2> QED  BY <2>2, <2>3, <2>5 DEF HttpInv
<1> QED  BY <1>1, <1>2

LEMMA FinishInCallbackKeeps ==
    ASSUME HttpInv, FinishInCallback
    PROVE  HttpInv'
<1>1. /\ UNCHANGED <<stream, exported, base, limit, at, span, pc, then, given>>
      /\ nested' = TRUE
  BY DEF FinishInCallback
<1>2. HttpTypes' /\ SpanInv'
  BY <1>1 DEF HttpInv, HttpTypes, SpanInv
<1>3. ThenInv' /\ BufferInv'
  BY <1>1 DEF HttpInv, ThenInv, BufferInv, CrashesWhenNested, Executing
<1>4. Reached' = Reached
  BY <1>1 DEF Reached
<1>5. GivenInv'
  BY <1>1, <1>4, GivenAfter DEF HttpInv, GivenInv, Executing
<1> QED  BY <1>2, <1>3, <1>5 DEF HttpInv

LEMMA HttpInit == GuestInit => HttpInv
<1>1. SUFFICES ASSUME Init PROVE HttpInv
  BY DEF GuestInit
<1>2. stream \in Streams /\ base = 1 /\ limit = 1 /\ at = 1 /\ span = 0 /\ given = <<>>
      /\ pc = "guest" /\ then = "none" /\ nested = FALSE
  BY <1>1 DEF Init, init_llhttp
<1>3. HttpTypes
  <2>1. stream \in Seq(Spans \cup Marks)
    BY <1>2, HttpAssumption
  <2>2. Len(stream) \in Nat
    BY <2>1
  <2>3. given \in Seq(Call)
    BY <1>2, NothingGiven
  <2>4. /\ base \in Nat /\ limit \in Nat /\ at \in Nat /\ span \in Nat
        /\ 1 <= base /\ base <= at /\ at <= limit /\ limit <= Len(stream) + 1
        /\ span <= at
    <3>1. base = 1 /\ limit = 1 /\ at = 1 /\ span = 0
      BY <1>2
    <3> QED  BY <3>1, <2>2
  <2>5. stream \in Streams /\ nested \in BOOLEAN
    BY <1>2
  <2> QED  BY <2>1, <2>3, <2>4, <2>5 DEF HttpTypes
<1>4. SpanInv /\ ThenInv /\ BufferInv
  BY <1>2 DEF SpanInv, ThenInv, BufferInv, CrashesWhenNested, Executing
<1>5. GivenInv
  BY <1>2, NothingGiven DEF GivenInv, Reached
<1> QED  BY <1>3, <1>4, <1>5 DEF HttpInv

LEMMA HttpKeeps ==
    ASSUME HttpInv, [GuestNext]_guest_vars
    PROVE  HttpInv'
<1>1. CASE HttpStep
  BY <1>1, GuestRuns, ResetKeeps, TakeByteKeeps, CallsKeep, LlhttpGoesOn, AnswerKeeps, OverKeeps,
     FinishInCallbackKeeps DEF HttpStep, Next, Trap
<1>2. CASE JsonAnswered
  BY <1>2, AnswerKeeps DEF JsonAnswered
<1>3. CASE JsonTraps \/ JsonThrows
  BY <1>3, OverKeeps DEF JsonTraps, Trap, JsonThrows
<1>4. CASE UNCHANGED vars
  <2>1. HttpTypes' /\ SpanInv'
    BY <1>4 DEF vars, HttpInv, HttpTypes, SpanInv
  <2>2. ThenInv' /\ BufferInv'
    BY <1>4 DEF vars, HttpInv, ThenInv, BufferInv, CrashesWhenNested, Executing
  <2>3. Reached' = Reached
    BY <1>4 DEF vars, Reached
  <2>4. GivenInv'
    BY <1>4, <2>3, GivenAfter DEF vars, HttpInv, GivenInv, Executing
  <2> QED  BY <2>1, <2>2, <2>4 DEF HttpInv
<1> QED  BY <1>1, <1>2, <1>3, <1>4 DEF GuestNext, BodyIsJson, JsonStep, guest_vars

(* Wherever the stream is cut, the guest is handed each byte it has a       *)
(* function for once and in order, and all of them before its position.     *)
THEOREM EachByteIsGivenOnce == Spec => []EachByteOnce
<1>1. HttpInv => EachByteOnce
  <2>1. SUFFICES ASSUME HttpInv PROVE EachByteOnce
    OBVIOUS
  <2>2. Sound(given) /\ (pc = "guest" => Covers(given, at - 1))
    BY <2>1 DEF HttpInv, GivenInv, Reached, ThenInv
  <2>3. \A i \in 1 .. Len(given) : given[i][3] \in Int
    BY <2>1 DEF HttpInv, HttpTypes, Call
  <2>4. pc = "guest" =>
          /\ \A i \in 1 .. Len(given) : given[i][3] < at
          /\ \A b \in 1 .. at - 1 :
                stream[b] \in exported => \E i \in 1 .. Len(given) : Hands(i, b)
    <3>1. at \in Int
      BY <2>1 DEF HttpInv, HttpTypes
    <3> QED  BY <2>2, <2>3, <3>1 DEF Covers, Hands
  <2> QED  BY <2>2, <2>4 DEF Sound, EachByteOnce, Hands
<1> QED  BY <1>1, HttpInit, HttpKeeps, PTL DEF Spec

(* A view is made without a buffer only when a callback called the parser's *)
(* natives itself.                                                          *)
THEOREM BufferIsThere == Spec => []CrashesWhenNested
<1>1. HttpInv => CrashesWhenNested
  BY DEF HttpInv, BufferInv
<1> QED  BY <1>1, HttpInit, HttpKeeps, PTL DEF Spec

-----------------------------------------------------------------------------
(* Documents: how many of the first n tokens of d there is a function for,  *)
(* and that the calls c hand over those, in their order.                     *)
Count(d, x, n) == Cardinality({i \in 1 .. n : d[i] \in x})

HandsOver(d, x, c, n) ==
    /\ n \in 0 .. Len(d) /\ Len(c) = Count(d, x, n)
    /\ \A i \in 1 .. n : d[i] \in x => c[Count(d, x, i)] = d[i]

HandedOver(n) == HandsOver(doc, exported, calls, n)

JsonTypes ==
    /\ doc \in Seq(Json!Tokens) /\ input \in Seq(Json!Tokens \cup {Json!Raw})
    /\ calls \in Seq(Json!Tokens)
    /\ pos \in Nat \ {0}
    /\ success \in BOOLEAN /\ raw_scalar \in BOOLEAN /\ trapped \in BOOLEAN
    /\ result \in {"idle", "none", "true", "false", "error"}
    /\ result # "idle" => doc \in Docs /\ from \in {"json_parse", "jsonb_iterate"}

\* The parser is through with as many tokens of the document as it made calls.
ParseInv ==
    from = "json_parse" /\ result = "none" =>
       /\ pos <= Len(input) + 1 /\ Len(input) <= Len(doc)
       /\ \A i \in 1 .. Len(input) : input[i] = doc[i]
       /\ HandedOver(pos - 1) /\ Len(calls) = pos - 1
       /\ \A i \in 1 .. pos - 1 : calls[i] = doc[i]
       /\ ~ trapped

\* The tokens of the document the iterator is through with.
Through == IF Len(doc) # 1 THEN pos - 1 ELSE IF pos <= 2 THEN 0 ELSE 1

IterateInv ==
    from = "jsonb_iterate" /\ result = "none" =>
       /\ input = Json!JsonbTokens(doc) /\ pos <= Len(input) + 1
       /\ raw_scalar <=> Len(doc) = 1 /\ pos > 1
       /\ success <=> ~ trapped
       /\ success => HandedOver(Through)

AnswerInv ==
    /\ result = "true" => /\ HandedOver(Len(doc)) /\ ~ trapped
                          /\ from = "json_parse" => calls = doc
    /\ result = "false" => trapped \/ (from = "json_parse" /\ calls # doc)

JsonInv ==
    /\ JsonTypes /\ ParseInv /\ IterateInv /\ AnswerInv
    /\ \E n \in 0 .. Len(doc) : HandedOver(n)

LEMMA CountFacts ==
    ASSUME NEW d, NEW x, NEW n \in Nat
    PROVE  /\ Count(d, x, n) \in Nat
           /\ Count(d, x, 0) = 0
           /\ d[n + 1] \in x => Count(d, x, n + 1) = Count(d, x, n) + 1
           /\ d[n + 1] \notin x => Count(d, x, n + 1) = Count(d, x, n)
<1> DEFINE S(k) == {i \in 1 .. k : d[i] \in x}
<1>1. \A k \in Nat : IsFiniteSet(S(k))
  <2>1. SUFFICES ASSUME NEW k \in Nat PROVE IsFiniteSet(S(k))
    OBVIOUS
  <2>2. IsFiniteSet(1 .. k)
    BY FS_Interval
  <2> QED  BY <2>2, FS_Subset
<1>2. S(0) = {}
  OBVIOUS
<1>3. S(n + 1) = IF d[n + 1] \in x THEN S(n) \cup {n + 1} ELSE S(n)
  OBVIOUS
<1>4. n + 1 \notin S(n)
  OBVIOUS
<1> HIDE DEF S
<1>5. Count(d, x, n) = Cardinality(S(n)) /\ Count(d, x, n + 1) = Cardinality(S(n + 1))
      /\ Count(d, x, 0) = Cardinality(S(0))
  BY DEF Count, S
<1>6. Cardinality(S(n)) \in Nat
  BY <1>1, FS_CardinalityType
<1>7. Cardinality(S(n) \cup {n + 1}) = Cardinality(S(n)) + 1
  BY <1>1, <1>4, FS_AddElement
<1>8. Cardinality(S(0)) = 0
  BY <1>2, FS_EmptySet
<1> QED  BY <1>3, <1>5, <1>6, <1>7, <1>8

(* A token there is a function for counts more than all before it.          *)
LEMMA CountGrows ==
    ASSUME NEW d, NEW x, NEW n \in Nat, NEW m \in Nat, n <= m
    PROVE  /\ Count(d, x, n) <= Count(d, x, m)
           /\ n < m /\ d[m] \in x => Count(d, x, n) < Count(d, x, m)
<1> DEFINE S(k) == {i \in 1 .. k : d[i] \in x}
<1>1. IsFiniteSet(S(m))
  <2>1. IsFiniteSet(1 .. m)
    BY FS_Interval
  <2> QED  BY <2>1, FS_Subset
<1>2. S(n) \in SUBSET S(m)
  OBVIOUS
<1>3. n < m /\ d[m] \in x => m \in S(m) /\ m \notin S(n)
  OBVIOUS
<1>4. Count(d, x, n) \in Nat /\ Count(d, x, m) \in Nat
  BY CountFacts
<1>5. Count(d, x, n) = Cardinality(S(n)) /\ Count(d, x, m) = Cardinality(S(m))
  BY DEF Count
<1> HIDE DEF S
<1>6. Cardinality(S(n)) <= Cardinality(S(m)) /\ (Cardinality(S(n)) = Cardinality(S(m)) => S(m) = S(n))
  BY <1>1, <1>2, FS_Subset
<1> QED  BY <1>3, <1>4, <1>5, <1>6

(* The next token is handed over.                                           *)
LEMMA OneMoreToken ==
    ASSUME NEW d \in Seq(Json!Tokens), NEW x, NEW c \in Seq(Json!Tokens), NEW n \in Nat,
           n + 1 <= Len(d), HandsOver(d, x, c, n), d[n + 1] \in x
    PROVE  HandsOver(d, x, Append(c, d[n + 1]), n + 1)
<1> DEFINE e == Append(c, d[n + 1])
<1>1. Len(c) = Count(d, x, n) /\ Len(c) \in Nat
  BY DEF HandsOver
<1>2. Count(d, x, n + 1) = Len(c) + 1
  BY <1>1, CountFacts
<1>3. Len(e) = Len(c) + 1 /\ e[Len(c) + 1] = d[n + 1] /\ \A j \in 1 .. Len(c) : e[j] = c[j]
  BY <1>1
<1> HIDE DEF e
<1>4. ASSUME NEW i \in 1 .. n + 1, d[i] \in x
      PROVE  e[Count(d, x, i)] = d[i]
  <2>1. CASE i = n + 1
    BY <2>1, <1>2, <1>3
  <2>2. CASE i <= n
    <3>1. i \in 1 .. n /\ i \in Nat /\ i - 1 \in Nat
      BY <2>2
    <3>2. c[Count(d, x, i)] = d[i]
      BY <3>1, <1>4 DEF HandsOver
    <3>3. Count(d, x, i) <= Len(c)
      BY <3>1, <1>1, <2>2, CountGrows
    <3>4. Count(d, x, i) \in 1 .. Len(c)
      <4>1. Count(d, x, i - 1) < Count(d, x, i)
        BY <3>1, <1>4, CountGrows
      <4>2. Count(d, x, i) \in Nat /\ Count(d, x, i - 1) \in Nat
        BY <3>1, CountFacts
      <4> QED  BY <4>1, <4>2, <3>3, <1>1
    <3> QED  BY <3>2, <3>4, <1>3
  <2> QED  BY <2>1, <2>2
<1>5. n + 1 \in 0 .. Len(d)
  OBVIOUS
<1>6. HandsOver(d, x, e, n + 1)
  BY <1>2, <1>3, <1>4, <1>5 DEF HandsOver
<1> QED  BY <1>6 DEF e

(* A token without a function is passed over.                               *)
LEMMA TokenPassedOver ==
    ASSUME NEW d \in Seq(Json!Tokens), NEW x, NEW c, NEW n \in Nat,
           n + 1 <= Len(d), HandsOver(d, x, c, n), d[n + 1] \notin x
    PROVE  HandsOver(d, x, c, n + 1)
<1>1. Count(d, x, n + 1) = Count(d, x, n)
  BY CountFacts, Zenon
<1>2. \A i \in 1 .. n + 1 : d[i] \in x => i \in 1 .. n
  OBVIOUS
<1> QED  BY <1>1, <1>2 DEF HandsOver

LEMMA NoTokenYet ==
    ASSUME NEW d \in Seq(Json!Tokens), NEW x
    PROVE  HandsOver(d, x, <<>>, 0)
BY CountFacts DEF HandsOver

-----------------------------------------------------------------------------
(* A jsonb yields the tokens of the document, a scalar within an array.     *)
LEMMA JsonbShape ==
    ASSUME NEW d \in Docs
    PROVE  /\ d \in Seq(Json!Tokens) /\ Len(d) \in Nat /\ Len(d) > 0
           /\ Json!JsonbTokens(d) \in Seq(Json!Tokens \cup {Json!Raw})
           /\ Len(d) # 1 => Json!JsonbTokens(d) = d
           /\ Len(d) = 1 => /\ Len(Json!JsonbTokens(d)) = 3
                            /\ Json!JsonbTokens(d)[1] = Json!Raw
                            /\ Json!JsonbTokens(d)[2] = d[1]
                            /\ Json!JsonbTokens(d)[3] = "array_end"
<1>1. d \in Seq(Json!Tokens) /\ Len(d) \in Nat /\ Len(d) > 0
  BY JsonAssumption
<1>2. d \in Seq(Json!Tokens \cup {Json!Raw})
  BY <1>1
<1>3. "array_end" \in Json!Tokens
  BY DEF Json!Tokens
<1> DEFINE e == <<Json!Raw>> \o d
           f == e \o <<"array_end">>
<1>4. e \in Seq(Json!Tokens \cup {Json!Raw}) /\ Len(e) = Len(d) + 1 /\ e[1] = Json!Raw
      /\ \A i \in 1 .. Len(d) : e[i + 1] = d[i]
  BY <1>1, <1>2
<1> HIDE DEF e
<1>5. f \in Seq(Json!Tokens \cup {Json!Raw}) /\ Len(f) = Len(d) + 2
      /\ (\A i \in 1 .. Len(d) + 1 : f[i] = e[i]) /\ f[Len(d) + 2] = "array_end"
  BY <1>1, <1>3, <1>4
<1>6. CASE Len(d) = 1
  <2>1. Json!JsonbTokens(d) = f
    BY <1>6 DEF Json!JsonbTokens, e
  <2> HIDE DEF f
  <2>2. Len(f) = 3 /\ f[3] = "array_end"
    BY <1>5, <1>6
  <2>3. f[1] = Json!Raw
    BY <1>4, <1>5, <1>6
  <2>4. f[2] = d[1]
    BY <1>4, <1>5, <1>6
  <2> QED  BY <1>1, <1>5, <1>6, <2>1, <2>2, <2>3, <2>4
<1>7. CASE Len(d) # 1
  BY <1>1, <1>2, <1>7 DEF Json!JsonbTokens
<1> QED  BY <1>6, <1>7

(* A document begins: nothing has been handed over of it.                   *)
LEMMA BeginKeeps ==
    ASSUME JsonInv, Json!Begin, UNCHANGED exported
    PROVE  JsonInv'
<1>1. /\ doc' \in Docs /\ pos' = 1 /\ success' = TRUE /\ raw_scalar' = FALSE
      /\ calls' = <<>> /\ trapped' = FALSE /\ result' = "none"
      /\ \/ from' = "jsonb_iterate" /\ input' = Json!JsonbTokens(doc')
         \/ from' = "json_parse" /\ \E n \in 1 .. Len(doc') : input' = SubSeq(doc', 1, n)
  BY DEF Json!Begin
<1>2. doc' \in Seq(Json!Tokens) /\ Len(doc') \in Nat /\ Len(doc') > 0
  BY <1>1, JsonbShape
<1>3. calls' \in Seq(Json!Tokens)
  BY <1>1
<1>4. HandsOver(doc', exported', calls', 0)
  BY <1>1, <1>2, NoTokenYet
<1>5. CASE from' = "jsonb_iterate"
  <2>1. input' = Json!JsonbTokens(doc')
    BY <1>1, <1>5
  <2>2. input' \in Seq(Json!Tokens \cup {Json!Raw}) /\ Len(input') \in Nat
    BY <1>1, <2>1, JsonbShape
  <2>3. JsonTypes'
    <3>1. pos' \in Nat \ {0}
      BY <1>1
    <3>2. /\ success' \in BOOLEAN /\ raw_scalar' \in BOOLEAN /\ trapped' \in BOOLEAN
          /\ result' \in {"idle", "none", "true", "false", "error"}
          /\ doc' \in Docs
      BY <1>1
    <3> QED  BY <3>1, <3>2, <1>2, <1>3, <1>5, <2>2 DEF JsonTypes
  <2>4. ParseInv' /\ AnswerInv'
    BY <1>1, <1>5 DEF ParseInv, AnswerInv
  <2>5. Through' = 0
    BY <1>1 DEF Through
  <2>6. IterateInv'
    <3>1. 1 <= Len(input') + 1
      BY <2>2
    <3> QED  BY <1>1, <1>4, <2>1, <2>5, <3>1 DEF IterateInv, HandedOver
  <2> QED  BY <2>3, <2>4, <2>6, <1>2, <1>4 DEF JsonInv, HandedOver
<1>6. CASE from' = "json_parse"
  <2>1. PICK n \in 1 .. Len(doc') : input' = SubSeq(doc', 1, n)
    BY <1>1, <1>6
  <2>2. /\ input' \in Seq(Json!Tokens) /\ Len(input') = n
        /\ \A i \in 1 .. n : input'[i] = doc'[i]
    BY <1>2, <2>1
  <2>3. input' \in Seq(Json!Tokens \cup {Json!Raw})
    BY <2>2
  <2>4. JsonTypes'
    <3>1. pos' \in Nat \ {0}
      BY <1>1
    <3>2. /\ success' \in BOOLEAN /\ raw_scalar' \in BOOLEAN /\ trapped' \in BOOLEAN
          /\ result' \in {"idle", "none", "true", "false", "error"}
          /\ doc' \in Docs
      BY <1>1
    <3> QED  BY <3>1, <3>2, <1>2, <1>3, <1>6, <2>3 DEF JsonTypes
  <2>5. IterateInv' /\ AnswerInv'
    BY <1>1, <1>6 DEF IterateInv, AnswerInv
  <2>6. ParseInv'
    <3>1. /\ pos' <= Len(input') + 1 /\ Len(input') <= Len(doc')
          /\ \A i \in 1 .. Len(input') : input'[i] = doc'[i]
      BY <1>1, <1>2, <2>2
    <3>2. pos' - 1 = 0 /\ Len(calls') = 0 /\ ~ trapped'
      BY <1>1
    <3> QED  BY <3>1, <3>2, <1>4 DEF ParseInv, HandedOver
  <2> QED  BY <2>4, <2>5, <2>6, <1>2, <1>4 DEF JsonInv, HandedOver
<1> QED  BY <1>1, <1>5, <1>6

LEMMA ForgetKeeps ==
    ASSUME Json!Forget
    PROVE  JsonInv'
<1>1. /\ doc' = <<>> /\ from' = "none" /\ input' = <<>> /\ pos' = 1
      /\ success' = TRUE /\ raw_scalar' = FALSE
      /\ calls' = <<>> /\ trapped' = FALSE /\ result' = "idle"
  BY DEF Json!Forget
<1>2. JsonTypes'
  <2>1. pos' \in Nat \ {0}
    BY <1>1
  <2>2. /\ success' \in BOOLEAN /\ raw_scalar' \in BOOLEAN /\ trapped' \in BOOLEAN
        /\ result' = "idle"
    BY <1>1
  <2>3. /\ doc' \in Seq(Json!Tokens) /\ input' \in Seq(Json!Tokens \cup {Json!Raw})
        /\ calls' \in Seq(Json!Tokens)
    BY <1>1
  <2> QED  BY <2>1, <2>2, <2>3 DEF JsonTypes
<1>3. ParseInv' /\ IterateInv' /\ AnswerInv'
  BY <1>1 DEF ParseInv, IterateInv, AnswerInv
<1>4. doc' \in Seq(Json!Tokens)
  BY <1>1
<1>5. HandsOver(doc', exported', calls', 0)
  BY <1>1, <1>4, NoTokenYet
<1>6. 0 \in 0 .. Len(doc')
  BY <1>1
<1> QED  BY <1>2, <1>3, <1>5, <1>6 DEF JsonInv, HandedOver

LEMMA JsonStays ==
    ASSUME JsonInv, UNCHANGED <<json_vars, exported>>
    PROVE  JsonInv'
BY DEF json_vars, JsonInv, JsonTypes, ParseInv, IterateInv, AnswerInv, HandedOver, Through

(* The parser passes a token on, refuses one, or comes to the end.          *)
LEMMA ParseTokenKeeps ==
    ASSUME JsonInv, Json!ParseToken, UNCHANGED exported
    PROVE  JsonInv'
<1> DEFINE t == input[pos]
<1>1. /\ from = "json_parse" /\ result = "none" /\ pos <= Len(input) /\ pos' = pos + 1
      /\ UNCHANGED <<doc, from, input, success, raw_scalar>>
  BY DEF Json!ParseToken, Json!Given
<1>2. JsonTypes /\ doc \in Seq(Json!Tokens) /\ calls \in Seq(Json!Tokens)
      /\ pos \in Nat /\ pos >= 1 /\ Len(doc) \in Nat /\ Len(input) \in Nat
  BY DEF JsonInv, JsonTypes
<1>3. /\ Len(input) <= Len(doc) /\ \A i \in 1 .. Len(input) : input[i] = doc[i]
      /\ HandsOver(doc, exported, calls, pos - 1) /\ Len(calls) = pos - 1
      /\ \A i \in 1 .. pos - 1 : calls[i] = doc[i]
      /\ ~ trapped
  BY <1>1 DEF JsonInv, ParseInv, HandedOver
<1>4. t = doc[pos] /\ t \in Json!Tokens /\ pos \in 1 .. Len(doc)
  BY <1>1, <1>2, <1>3
<1>5. \/ t \in exported /\ calls' = Append(calls, t) /\ UNCHANGED <<trapped, result>>
      \/ t \in exported /\ calls' = Append(calls, t) /\ trapped' = TRUE /\ result' = "false"
      \/ result' = "false" /\ UNCHANGED <<calls, trapped>>
      \/ result' = "error" /\ UNCHANGED <<calls, trapped>>
  BY DEF Json!ParseToken, Json!NotFloat8
<1> HIDE DEF t
<1>6. IterateInv'
  BY <1>1 DEF IterateInv
<1>7. pos' \in Nat \ {0} /\ pos' - 1 = pos
  BY <1>1, <1>2
<1>8. CASE t \in exported /\ calls' = Append(calls, t)
  <2>1. (pos - 1) + 1 = pos /\ pos - 1 \in Nat
    BY <1>2
  <2>2. HandsOver(doc, exported, Append(calls, t), pos)
    <3>1. doc[(pos - 1) + 1] \in exported /\ (pos - 1) + 1 <= Len(doc)
      BY <1>8, <1>4, <2>1
    <3>2. HandsOver(doc, exported, Append(calls, doc[(pos - 1) + 1]), (pos - 1) + 1)
      BY <3>1, <1>2, <1>3, <2>1, OneMoreToken
    <3> QED  BY <3>2, <2>1, <1>4
  <2>3. /\ calls' \in Seq(Json!Tokens) /\ Len(calls') = pos
        /\ calls'[pos] = t /\ \A i \in 1 .. pos - 1 : calls'[i] = calls[i]
    BY <1>8, <1>2, <1>3, <1>4
  <2>4. \A i \in 1 .. pos : calls'[i] = doc[i]
    BY <2>3, <1>2, <1>3, <1>4
  <2>5. HandsOver(doc', exported', calls', pos)
    BY <2>2, <1>8, <1>1
  <2>6. CASE UNCHANGED <<trapped, result>>
    <3>1. JsonTypes'
      BY <2>6, <2>3, <1>1, <1>2, <1>7 DEF JsonTypes
    <3>2. ParseInv'
      <4>1. pos' <= Len(input') + 1 /\ Len(input') <= Len(doc')
            /\ \A i \in 1 .. Len(input') : input'[i] = doc'[i]
        BY <1>1, <1>2, <1>3
      <4> QED  BY <4>1, <2>3, <2>4, <2>5, <2>6, <1>1, <1>3, <1>7 DEF ParseInv, HandedOver
    <3>3. AnswerInv'
      BY <2>6, <1>1 DEF AnswerInv
    <3> QED  BY <3>1, <3>2, <3>3, <2>5, <1>1, <1>4, <1>6 DEF JsonInv, HandedOver
  <2>7. CASE trapped' = TRUE /\ result' = "false"
    <3>1. JsonTypes'
      BY <2>7, <2>3, <1>1, <1>2, <1>7 DEF JsonTypes
    <3>2. ParseInv' /\ AnswerInv'
      BY <2>7 DEF ParseInv, AnswerInv
    <3> QED  BY <3>1, <3>2, <2>5, <1>1, <1>4, <1>6 DEF JsonInv, HandedOver
  <2>8. UNCHANGED <<trapped, result>> \/ (trapped' = TRUE /\ result' = "false")
        \/ UNCHANGED calls
    BY <1>5
  <2>9. ~ UNCHANGED calls
    BY <2>3, <1>2, <1>3
  <2> QED  BY <2>6, <2>7, <2>8, <2>9
<1>9. CASE result' \in {"false", "error"} /\ UNCHANGED <<calls, trapped>>
  <2>1. JsonTypes'
    BY <1>9, <1>1, <1>2, <1>7 DEF JsonTypes
  <2>2. ParseInv'
    BY <1>9 DEF ParseInv
  <2>3. AnswerInv'
    <3>1. calls' # doc'
      BY <1>9, <1>1, <1>2, <1>3, <1>4
    <3> QED  BY <3>1, <1>9, <1>1 DEF AnswerInv
  <2>4. HandsOver(doc', exported', calls', pos - 1) /\ pos - 1 \in 0 .. Len(doc')
    BY <1>9, <1>1, <1>3, <1>4
  <2> QED  BY <2>1, <2>2, <2>3, <2>4, <1>6 DEF JsonInv, HandedOver
<1> QED  BY <1>5, <1>8, <1>9

LEMMA ParseEndKeeps ==
    ASSUME JsonInv, Json!ParseEnd, UNCHANGED exported
    PROVE  JsonInv'
<1>1. /\ from = "json_parse" /\ result = "none" /\ pos > Len(input)
      /\ result' = IF input = doc THEN "true" ELSE "false"
      /\ UNCHANGED <<doc, from, input, pos, success, raw_scalar, calls, trapped>>
  BY DEF Json!ParseEnd, Json!Given
<1>2. JsonTypes /\ doc \in Seq(Json!Tokens) /\ calls \in Seq(Json!Tokens)
      /\ input \in Seq(Json!Tokens \cup {Json!Raw})
      /\ pos \in Nat /\ Len(doc) \in Nat /\ Len(input) \in Nat
  BY DEF JsonInv, JsonTypes
<1>3. /\ pos <= Len(input) + 1 /\ Len(input) <= Len(doc)
      /\ \A i \in 1 .. Len(input) : input[i] = doc[i]
      /\ HandsOver(doc, exported, calls, pos - 1) /\ Len(calls) = pos - 1
      /\ \A i \in 1 .. pos - 1 : calls[i] = doc[i]
      /\ ~ trapped
  BY <1>1 DEF JsonInv, ParseInv, HandedOver
<1>4. pos - 1 = Len(input) /\ Len(calls) = Len(input)
  BY <1>1, <1>2, <1>3
<1>5. Len(input) = Len(doc) => input = doc /\ calls = doc
  BY <1>2, <1>3, <1>4
<1>6. JsonTypes'
  BY <1>1, <1>2 DEF JsonTypes
<1>7. ParseInv' /\ IterateInv'
  BY <1>1 DEF ParseInv, IterateInv
<1>8. HandsOver(doc', exported', calls', Len(input)) /\ Len(input) \in 0 .. Len(doc')
  BY <1>1, <1>2, <1>3, <1>4
<1>9. AnswerInv'
  <2>1. CASE input = doc
    BY <2>1, <1>1, <1>3, <1>5, <1>8 DEF AnswerInv, HandedOver
  <2>2. CASE input # doc
    <3>1. Len(input) # Len(doc)
      BY <2>2, <1>5
    <3>2. calls # doc
      BY <3>1, <1>4
    <3> QED  BY <2>2, <3>2, <1>1 DEF AnswerInv
  <2> QED  BY <2>1, <2>2
<1> QED  BY <1>6, <1>7, <1>8, <1>9 DEF JsonInv, HandedOver

(* The iterator's token is the next of the document, or belongs to the array *)
(* around a scalar, which is exactly what it suppresses.                     *)
LEMMA NextOfDocument ==
    ASSUME JsonTypes, IterateInv, from = "jsonb_iterate", result = "none", pos <= Len(input)
    PROVE  /\ raw_scalar' = (raw_scalar \/ input[pos] = Json!Raw) /\ pos' = pos + 1
                 /\ UNCHANGED <<doc, from, input>>
              => (raw_scalar' <=> Len(doc') = 1 /\ pos' > 1)
           /\ \/ /\ Json!Suppressed(input[pos])
                 /\ pos' = pos + 1 /\ doc' = doc => Through' = Through
              \/ /\ ~ Json!Suppressed(input[pos])
                 /\ Through \in Nat /\ Through + 1 <= Len(doc)
                 /\ input[pos] = doc[Through + 1]
                 /\ pos' = pos + 1 /\ doc' = doc => Through' = Through + 1
<1>1. doc \in Docs /\ pos \in Nat /\ pos >= 1 /\ raw_scalar \in BOOLEAN
  BY DEF JsonTypes
<1>2. input = Json!JsonbTokens(doc) /\ (raw_scalar <=> Len(doc) = 1 /\ pos > 1)
  BY DEF IterateInv
<1>3. Json!Raw \notin Json!Tokens /\ "array_end" \notin Json!Scalars /\ Json!Scalars \subseteq Json!Tokens
  BY DEF Json!Raw, Json!Tokens, Json!Scalars
<1>4. doc \in Seq(Json!Tokens) /\ Len(doc) \in Nat
  BY <1>1, JsonbShape
<1> DEFINE Moved == pos' = pos + 1 /\ doc' = doc
           Next1 == \/ Json!Suppressed(input[pos]) /\ (Moved => Through' = Through)
                    \/ /\ ~ Json!Suppressed(input[pos])
                       /\ Through \in Nat /\ Through + 1 <= Len(doc)
                       /\ input[pos] = doc[Through + 1]
                       /\ Moved => Through' = Through + 1
           Scalar == (raw_scalar \/ input[pos] = Json!Raw) <=> Len(doc) = 1
<1>5. ASSUME Len(doc) # 1 PROVE Next1 /\ Scalar
  <2>1. input = doc
    BY <1>1, <1>2, <1>5, JsonbShape
  <2>2. input[pos] = doc[pos] /\ doc[pos] \in Json!Tokens
    BY <2>1, <1>1, <1>4
  <2>3. ~ raw_scalar /\ input[pos] # Json!Raw
    BY <2>2, <1>2, <1>3, <1>5
  <2>4. ~ Json!Suppressed(input[pos])
    BY <2>3 DEF Json!Suppressed
  <2>5. Through = pos - 1 /\ (Moved => Through' = pos)
    BY <1>1, <1>5 DEF Through
  <2>6. Through \in Nat /\ Through + 1 = pos /\ pos <= Len(doc)
    BY <2>1, <2>5, <1>1
  <2>7. Next1
    BY <2>2, <2>4, <2>5, <2>6
  <2> QED  BY <2>3, <2>7, <1>5
<1>6. ASSUME Len(doc) = 1 PROVE Next1 /\ Scalar
  <2>1. /\ Len(input) = 3 /\ input[1] = Json!Raw /\ input[2] = doc[1] /\ input[3] = "array_end"
        /\ doc[1] \in Json!Scalars
    BY <1>1, <1>2, <1>6, JsonbShape, JsonAssumption
  <2>2. Through = (IF pos <= 2 THEN 0 ELSE 1)
        /\ (Moved => Through' = IF pos + 1 <= 2 THEN 0 ELSE 1)
    BY <1>6 DEF Through
  <2>3. pos = 1 \/ pos = 2 \/ pos = 3
    BY <2>1, <1>1
  <2>4. CASE pos = 1
    <3>1. Json!Suppressed(input[pos]) /\ Scalar
      BY <2>1, <2>4, <1>6 DEF Json!Suppressed
    <3>2. Through = 0 /\ (Moved => Through' = 0)
      BY <2>2, <2>4
    <3> QED  BY <3>1, <3>2
  <2>5. CASE pos = 2
    <3>1. raw_scalar /\ input[pos] # Json!Raw /\ input[pos] # "array_end"
      BY <2>1, <2>5, <1>2, <1>3, <1>6
    <3>2. ~ Json!Suppressed(input[pos])
      BY <3>1 DEF Json!Suppressed
    <3>3. Through = 0 /\ (Moved => Through' = 1)
      BY <2>2, <2>5
    <3>4. Next1
      BY <3>1, <3>2, <3>3, <2>1, <2>5, <1>6
    <3> QED  BY <3>1, <3>4, <1>6
  <2>6. CASE pos = 3
    <3>1. raw_scalar /\ Json!Suppressed(input[pos])
      BY <2>1, <2>6, <1>2, <1>6 DEF Json!Suppressed
    <3>2. Through = 1 /\ (Moved => Through' = 1)
      BY <2>2, <2>6
    <3>3. Next1
      BY <3>1, <3>2
    <3> QED  BY <3>1, <3>3, <1>6
  <2> QED  BY <2>3, <2>4, <2>5, <2>6
<1>7. Next1 /\ Scalar
  BY <1>5, <1>6
<1>8. raw_scalar' = (raw_scalar \/ input[pos] = Json!Raw) /\ pos' = pos + 1
         /\ UNCHANGED <<doc, from, input>>
      => (raw_scalar' <=> Len(doc') = 1 /\ pos' > 1)
  <2>1. SUFFICES ASSUME raw_scalar' = (raw_scalar \/ input[pos] = Json!Raw),
                        pos' = pos + 1, doc' = doc
                 PROVE  raw_scalar' <=> Len(doc') = 1 /\ pos' > 1
    OBVIOUS
  <2>2. pos' > 1
    BY <1>1, <2>1
  <2>3. raw_scalar' <=> Len(doc) = 1
    BY <1>7, <2>1, Zenon
  <2> QED  BY <2>1, <2>2, <2>3
<1> QED  BY <1>7, <1>8

LEMMA IterateTokenKeeps ==
    ASSUME JsonInv, Json!IterateToken, UNCHANGED exported
    PROVE  JsonInv'
<1> DEFINE t == input[pos]
<1>1. /\ from = "jsonb_iterate" /\ result = "none" /\ pos <= Len(input) /\ pos' = pos + 1
      /\ UNCHANGED <<doc, from, input>>
      /\ raw_scalar' = (raw_scalar \/ t = Json!Raw)
  BY DEF Json!IterateToken, Json!Given
<1>2. JsonTypes /\ doc \in Seq(Json!Tokens) /\ calls \in Seq(Json!Tokens)
      /\ pos \in Nat /\ pos >= 1 /\ Len(doc) \in Nat /\ Len(input) \in Nat /\ doc \in Docs
      /\ success \in BOOLEAN /\ trapped \in BOOLEAN
  BY <1>1 DEF JsonInv, JsonTypes
<1>3. /\ IterateInv /\ input = Json!JsonbTokens(doc)
      /\ (success <=> ~ trapped) /\ (success => HandsOver(doc, exported, calls, Through))
  BY <1>1 DEF JsonInv, IterateInv, HandedOver
<1>4. raw_scalar' <=> Len(doc') = 1 /\ pos' > 1
  BY <1>1, <1>2, <1>3, NextOfDocument
<1>5. \/ Json!Suppressed(t) /\ Through' = Through
      \/ /\ ~ Json!Suppressed(t) /\ Through \in Nat /\ Through + 1 <= Len(doc)
         /\ t = doc[Through + 1] /\ Through' = Through + 1
  BY <1>1, <1>2, <1>3, NextOfDocument
<1>6. IF ~ Json!Suppressed(t) /\ success /\ t \in exported
      THEN \/ \E ok \in BOOLEAN :
                 /\ calls' = Append(calls, t)
                 /\ success' = (success /\ ok)
                 /\ trapped' = (trapped \/ ~ ok)
                 /\ UNCHANGED result
           \/ result' = "error" /\ UNCHANGED <<calls, trapped, success>>
      ELSE UNCHANGED <<calls, success, trapped, result>>
  BY DEF Json!IterateToken, Json!StillSuccess, Json!NotFloat8
<1> HIDE DEF t
<1>7. ParseInv'
  BY <1>1 DEF ParseInv
<1>8. pos' \in Nat \ {0} /\ pos' <= Len(input') + 1 /\ raw_scalar' \in BOOLEAN
  <2>1. pos' \in Nat \ {0} /\ pos' <= Len(input') + 1
    BY <1>1, <1>2
  <2>2. raw_scalar' \in BOOLEAN
    BY <1>1
  <2> QED  BY <2>1, <2>2
<1>9. \E n \in 0 .. Len(doc) : HandsOver(doc, exported, calls, n)
  BY DEF JsonInv, HandedOver
<1>10. CASE ~ Json!Suppressed(t) /\ success /\ t \in exported
            /\ result' = "error" /\ UNCHANGED <<calls, trapped, success>>
  <2>1. JsonTypes'
    BY <1>10, <1>1, <1>2, <1>8 DEF JsonTypes
  <2>2. IterateInv' /\ AnswerInv'
    BY <1>10 DEF IterateInv, AnswerInv
  <2> QED  BY <2>1, <2>2, <1>1, <1>7, <1>9, <1>10 DEF JsonInv, HandedOver
<1>11. CASE ~ Json!Suppressed(t) /\ success /\ t \in exported /\ result' # "error"
  <2>1. PICK ok \in BOOLEAN :
            /\ calls' = Append(calls, t)
            /\ success' = (success /\ ok)
            /\ trapped' = (trapped \/ ~ ok)
            /\ UNCHANGED result
    BY <1>6, <1>11
  <2>2. Through \in Nat /\ Through + 1 <= Len(doc) /\ t = doc[Through + 1] /\ Through' = Through + 1
    BY <1>5, <1>11
  <2>3. HandsOver(doc, exported, Append(calls, t), Through + 1)
    <3>1. HandsOver(doc, exported, Append(calls, doc[Through + 1]), Through + 1)
      BY <1>2, <1>3, <1>11, <2>2, OneMoreToken
    <3> QED  BY <3>1, <2>2
  <2>4. calls' \in Seq(Json!Tokens)
    BY <2>1, <2>2, <1>2
  <2>5. success' \in BOOLEAN /\ trapped' \in BOOLEAN /\ (success' <=> ~ trapped')
    BY <2>1, <1>2, <1>3, <1>11
  <2>6. HandsOver(doc', exported', calls', Through')
    BY <2>1, <2>2, <2>3, <1>1
  <2>7. JsonTypes'
    BY <2>1, <2>4, <2>5, <1>1, <1>2, <1>8 DEF JsonTypes
  <2>8. IterateInv'
    BY <2>5, <2>6, <1>1, <1>3, <1>4, <1>8 DEF IterateInv, HandedOver
  <2>9. AnswerInv'
    BY <2>1, <1>1 DEF AnswerInv
  <2>10. Through' \in 0 .. Len(doc')
    BY <2>2, <1>1, <1>2
  <2> QED  BY <2>6, <2>7, <2>8, <2>9, <2>10, <1>7 DEF JsonInv, HandedOver
<1>12. CASE ~ (~ Json!Suppressed(t) /\ success /\ t \in exported)
  <2>1. UNCHANGED <<calls, success, trapped, result>>
    BY <1>6, <1>12
  <2>2. success => HandsOver(doc, exported, calls, Through')
    <3>1. CASE Json!Suppressed(t)
      BY <3>1, <1>3, <1>5
    <3>2. CASE ~ Json!Suppressed(t) /\ success
      <4>1. /\ Through \in Nat /\ Through + 1 <= Len(doc) /\ doc[Through + 1] \notin exported
            /\ Through' = Through + 1
        BY <3>2, <1>5, <1>12
      <4>2. HandsOver(doc, exported, calls, Through + 1)
        BY <4>1, <3>2, <1>2, <1>3, TokenPassedOver
      <4> QED  BY <4>1, <4>2
    <3> QED  BY <3>1, <3>2
  <2>3. JsonTypes'
    BY <2>1, <1>1, <1>2, <1>8 DEF JsonTypes
  <2>4. IterateInv'
    BY <2>1, <2>2, <1>1, <1>3, <1>4, <1>8 DEF IterateInv, HandedOver
  <2>5. AnswerInv'
    BY <2>1, <1>1 DEF AnswerInv
  <2> QED  BY <2>1, <2>3, <2>4, <2>5, <1>1, <1>7, <1>9 DEF JsonInv, HandedOver
<1> QED  BY <1>1, <1>6, <1>10, <1>11, <1>12

LEMMA IterateDoneKeeps ==
    ASSUME JsonInv, Json!IterateDone, UNCHANGED exported
    PROVE  JsonInv'
<1>1. /\ from = "jsonb_iterate" /\ result = "none" /\ pos > Len(input)
      /\ result' = IF success THEN "true" ELSE "false"
      /\ UNCHANGED <<doc, from, input, pos, success, raw_scalar, calls, trapped>>
  BY DEF Json!IterateDone, Json!Given
<1>2. JsonTypes /\ doc \in Docs /\ pos \in Nat /\ Len(input) \in Nat
  BY <1>1 DEF JsonInv, JsonTypes
<1>3. /\ input = Json!JsonbTokens(doc) /\ pos <= Len(input) + 1
      /\ (success <=> ~ trapped) /\ (success => HandedOver(Through))
  BY <1>1 DEF JsonInv, IterateInv
<1>4. Through = Len(doc)
  <2>1. pos = Len(input) + 1
    BY <1>1, <1>2, <1>3
  <2>2. CASE Len(doc) # 1
    <3>1. Len(input) = Len(doc)
      BY <2>2, <1>2, <1>3, JsonbShape
    <3> QED  BY <2>1, <2>2, <3>1, <1>2 DEF Through
  <2>3. CASE Len(doc) = 1
    <3>1. Len(input) = 3
      BY <2>3, <1>2, <1>3, JsonbShape
    <3> QED  BY <2>1, <2>3, <3>1 DEF Through
  <2> QED  BY <2>2, <2>3
<1>5. JsonTypes'
  BY <1>1, <1>2 DEF JsonTypes
<1>6. ParseInv' /\ IterateInv'
  BY <1>1 DEF ParseInv, IterateInv
<1>7. success => HandedOver(Len(doc))'
  BY <1>1, <1>3, <1>4 DEF HandedOver
<1>8. AnswerInv'
  BY <1>1, <1>3, <1>7 DEF AnswerInv, HandedOver
<1>9. \E n \in 0 .. Len(doc') : HandsOver(doc', exported', calls', n)
  BY <1>1 DEF JsonInv, HandedOver
<1> QED  BY <1>5, <1>6, <1>8, <1>9 DEF JsonInv, HandedOver

LEMMA ExportsFixed ==
    ASSUME [GuestNext]_guest_vars
    PROVE  UNCHANGED exported
BY DEF GuestNext, guest_vars, vars, HttpStep, BodyIsJson, JsonStep, JsonAnswered, JsonTraps,
   JsonThrows, Next, Receive, env_llhttp_execute, env_llhttp_finish, env_llhttp_resume,
   env_llhttp_reset, TakeByte, CloseSpan, Mark, Flush, GoOn, BufferDone, Answer, Trap,
   FinishInCallback

LEMMA JsonInit == GuestInit => JsonInv
<1>1. SUFFICES ASSUME Json!Init PROVE JsonInv
  BY DEF GuestInit
<1>2. /\ doc = <<>> /\ from = "none" /\ input = <<>> /\ pos = 1
      /\ success = TRUE /\ raw_scalar = FALSE
      /\ calls = <<>> /\ trapped = FALSE /\ result = "idle"
  BY <1>1 DEF Json!Init
<1>3. JsonTypes
  <2>1. pos \in Nat \ {0}
    BY <1>2
  <2>2. success \in BOOLEAN /\ raw_scalar \in BOOLEAN /\ trapped \in BOOLEAN /\ result = "idle"
    BY <1>2
  <2>3. /\ doc \in Seq(Json!Tokens) /\ input \in Seq(Json!Tokens \cup {Json!Raw})
        /\ calls \in Seq(Json!Tokens)
    BY <1>2
  <2> QED  BY <2>1, <2>2, <2>3 DEF JsonTypes
<1>4. ParseInv /\ IterateInv /\ AnswerInv
  BY <1>2 DEF ParseInv, IterateInv, AnswerInv
<1>5. doc \in Seq(Json!Tokens)
  BY <1>2
<1>6. HandsOver(doc, exported, calls, 0)
  BY <1>2, <1>5, NoTokenYet
<1>7. 0 \in 0 .. Len(doc)
  BY <1>2
<1> QED  BY <1>3, <1>4, <1>6, <1>7 DEF JsonInv, HandedOver

LEMMA JsonKeeps ==
    ASSUME JsonInv, [GuestNext]_guest_vars
    PROVE  JsonInv'
<1>1. UNCHANGED exported
  BY ExportsFixed
<1>2. CASE BodyIsJson
  BY <1>1, <1>2, BeginKeeps DEF BodyIsJson
<1>3. CASE JsonStep
  BY <1>1, <1>3, ParseTokenKeeps, ParseEndKeeps, IterateTokenKeeps, IterateDoneKeeps
     DEF JsonStep, Json!Step
<1>4. CASE JsonAnswered
  BY <1>4, ForgetKeeps DEF JsonAnswered
<1>5. CASE UNCHANGED json_vars
  BY <1>1, <1>5, JsonStays
<1> QED  BY <1>2, <1>3, <1>4, <1>5 DEF GuestNext, guest_vars, HttpStep, JsonTraps, JsonThrows

(* The native answers true exactly when the guest was given each token it   *)
(* has a function for, in the order of the document, and no call failed,    *)
(* whatever callback of the HTTP parser the document was handed over in.    *)
THEOREM TrueSaysAll == Spec => []TrueMeansAll
<1>1. JsonInv => TrueMeansAll
  <2>1. SUFFICES ASSUME JsonInv PROVE TrueMeansAll
    OBVIOUS
  <2>2. /\ doc \in Seq(Json!Tokens) /\ Len(doc) \in Nat /\ Len(calls) \in Nat
    BY <2>1 DEF JsonInv, JsonTypes
  <2> \A n : Json!Wanted(n) = Count(doc, exported, n)
    BY Zenon DEF Json!Wanted, Count, Json!Cardinality, Cardinality
  <2>3. PICK n \in 0 .. Len(doc) : HandsOver(doc, exported, calls, n)
    BY <2>1 DEF JsonInv, HandedOver
  <2>4. n \in Nat /\ n <= Len(doc) /\ Len(calls) = Count(doc, exported, n)
    BY <2>2, <2>3 DEF HandsOver
  <2>5. Len(calls) <= Json!Wanted(Len(doc))
    BY <2>2, <2>4, CountGrows
  <2>6. ASSUME NEW i \in 1 .. Len(doc), doc[i] \in exported, Json!Wanted(i) <= Len(calls)
        PROVE  calls[Json!Wanted(i)] = doc[i]
    <3>1. i \in Nat /\ Json!Wanted(i) = Count(doc, exported, i)
          /\ Count(doc, exported, i) \in Nat /\ Count(doc, exported, n) \in Nat
      BY <2>2, <2>4, CountFacts
    <3>2. i <= n
      <4>1. SUFFICES ASSUME n < i PROVE FALSE
        BY <3>1, <2>4
      <4>2. Count(doc, exported, n) < Count(doc, exported, i)
        BY <4>1, <3>1, <2>4, <2>6, CountGrows
      <4> QED  BY <4>2, <3>1, <2>4, <2>6
    <3>3. i \in 1 .. n
      BY <3>1, <3>2, <2>4
    <3> QED  BY <3>1, <3>3, <2>3, <2>6 DEF HandsOver
  <2>7. result = "true" => /\ Len(calls) = Json!Wanted(Len(doc)) /\ ~ trapped
                           /\ from = "json_parse" => calls = doc
    BY <2>1, <2>2 DEF JsonInv, AnswerInv, HandedOver, HandsOver
  <2>8. result = "false" => trapped \/ (from = "json_parse" /\ calls # doc)
    BY <2>1 DEF JsonInv, AnswerInv
  <2> QED  BY <2>5, <2>6, <2>7, <2>8 DEF TrueMeansAll, Json!TrueMeansAll
<1> QED  BY <1>1, JsonInit, JsonKeeps, PTL DEF Spec
=============================================================================
