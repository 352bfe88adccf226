------------------------------ MODULE HttpParse ------------------------------
(***************************************************************************)
(* A request handed to the guest by llhttp (worker.c): the guest receives    *)
(* the bytes in buffers and passes them on, llhttp calls back, and each      *)
(* callback becomes a call of a function the guest exports, whose answer     *)
(* goes on, fails or pauses the parser.                                      *)
(*                                                                         *)
(* llhttp is external: it marks the bytes of a span between two callbacks    *)
(* without data, flushes an open span at the end of what it was given, and   *)
(* keeps its error until it is resumed or reset.                             *)
(***************************************************************************)
EXTENDS Integers, Sequences, FiniteSetsExt

CONSTANTS
    Streams,     \* what a client sends: for each byte what llhttp sees in it
    Exports,     \* the sets of functions a guest may export
    BufferSize   \* of the guest's buffer

Spans == {"on_method", "on_url", "on_version", "on_header_field", "on_header_value", "on_body"}
Marks == {"on_message_begin", "on_method_complete", "on_url_complete", "on_version_complete",
          "on_header_field_complete", "on_header_value_complete", "on_headers_complete",
          "on_message_complete"}

ASSUME HttpAssumption ==
    /\ Streams \subseteq Seq(Spans \cup Marks)
    /\ \A s \in Streams : \A i \in 1 .. Len(s) - 1 :
          s[i] \in Spans => s[i + 1] = s[i] \/ s[i + 1] \in Marks
    /\ BufferSize \in Nat \ {0}

VARIABLES
    stream, exported,
    base, limit,    \* the guest's buffer holds the bytes base .. limit - 1
    at,             \* the next byte llhttp takes, also what get_error_pos tells
    span,           \* where the open span begins in the buffer, 0 if none is
    error,          \* llhttp's
    pc,             \* who runs: the guest, llhttp, the guest in a callback, or nobody any more
    then,           \* what llhttp does once the callback is back
    current_buf,    \* NULL, or the buffer being executed
    given,          \* the calls the guest had: function and bytes as it finds them
    nested          \* a callback of this execution has called llhttp_finish

vars == <<stream, exported, base, limit, at, span, error, pc, then, current_buf, given,
          nested>>

NULL == "NULL"
Buf == "buf"

(* init_llhttp: a callback is set for each function the guest exports.       *)
init_llhttp ==
    /\ at = 1 /\ span = 0 /\ error = "HPE_OK" /\ current_buf = NULL

Init ==
    /\ stream \in Streams /\ exported \in Exports
    /\ base = 1 /\ limit = 1
    /\ init_llhttp
    /\ pc = "guest" /\ then = "none" /\ given = <<>> /\ nested = FALSE

NoError(e) == e \in {"HPE_OK", "HPE_PAUSED"}

(* The native is about to return e to the guest, which goes on unless        *)
(* on_error is called first and traps: a warning, but the trap is pending.   *)
maybe_call_on_error(e) ==
    \/ pc' = "guest"
    \/ pc' = "over" /\ ~ NoError(e) /\ "on_error" \in exported

Returns(e) ==
    /\ maybe_call_on_error(e) /\ then' = "none"
    /\ current_buf' = NULL

(* The guest reads on where it stopped.                                      *)
Receive ==
    /\ pc = "guest" /\ at = limit
    /\ \E n \in 1 .. Min({BufferSize, Len(stream) + 1 - at}) :
          base' = at /\ limit' = at + n
    /\ UNCHANGED <<stream, exported, at, span, error, pc, then, current_buf, given, nested>>

\* Slip: the buffer is named only for the first execution of it.
NamedOnce == IF at = base THEN Buf ELSE NULL

Named == Buf

(* llhttp_execute with the rest of the buffer.  A parser in error gives its   *)
(* error again.                                                              *)
env_llhttp_execute ==
    /\ pc = "guest" /\ at < limit
    /\ nested' = FALSE
    /\ IF error = "HPE_OK"
       THEN /\ current_buf' = Named
            /\ pc' = "llhttp" /\ then' = "none"
            /\ span' = IF span = 0 THEN 0 ELSE at
       ELSE Returns(error) /\ UNCHANGED span
    /\ UNCHANGED <<stream, exported, base, limit, at, error, given>>

\* What a callback with data hands out: where the span begins in the buffer.
\* Slip: counted from where this execution began in it.
OffsetInView(pos) == pos - at

Offset(pos) == pos - base

\* The guest finds the bytes in the buffer it is handed.
View(f, last) == <<f, base + Offset(span), last>>

(* llhttp_cb_impl and llhttp_data_cb_impl, in a parser that has been given a  *)
(* function for f.  A view of a buffer that is NULL cannot be made.          *)
CallBack(f, call, next) ==
    IF f \notin exported
    THEN /\ pc' = "llhttp" /\ then' = next /\ UNCHANGED given
    ELSE IF f \in Spans /\ current_buf = NULL
    THEN /\ pc' = "crashed" /\ UNCHANGED <<given, then>>
    ELSE /\ pc' = "callback" /\ given' = Append(given, call) /\ then' = next

(* llhttp takes a byte of a span, or closes the span before a mark, or comes  *)
(* to a mark, or flushes what is open at the end of the buffer.              *)
TakeByte ==
    /\ pc = "llhttp" /\ then = "none" /\ at < limit /\ stream[at] \in Spans
    /\ span' = IF span = 0 THEN at ELSE span
    /\ at' = at + 1
    /\ UNCHANGED <<stream, exported, base, limit, error, pc, then, current_buf, given, nested>>

CloseSpan ==
    /\ pc = "llhttp" /\ then = "none" /\ at < limit /\ stream[at] \in Marks /\ span # 0
    /\ CallBack(stream[at - 1], View(stream[at - 1], at - 1), "closed")
    /\ UNCHANGED <<stream, exported, base, limit, at, span, error, current_buf, nested>>

Mark ==
    /\ pc = "llhttp" /\ then = "none" /\ at < limit /\ stream[at] \in Marks /\ span = 0
    /\ CallBack(stream[at], <<stream[at], at, at>>, "marked")
    /\ UNCHANGED <<stream, exported, base, limit, at, span, error, current_buf, nested>>

Flush ==
    /\ pc = "llhttp" /\ then = "none" /\ at = limit /\ span # 0
    /\ CallBack(stream[at - 1], View(stream[at - 1], at - 1), "flushed")
    /\ UNCHANGED <<stream, exported, base, limit, at, span, error, current_buf, nested>>

\* The callback is behind llhttp, which goes on.
GoneOn ==
    /\ at' = IF then = "marked" THEN at + 1 ELSE at
    /\ span' = IF then = "closed" THEN 0 ELSE span

GoOn ==
    /\ pc = "llhttp" /\ then # "none"
    /\ GoneOn
    /\ IF then = "flushed" THEN Returns("HPE_OK")
       ELSE then' = "none" /\ UNCHANGED <<pc, current_buf>>
    /\ UNCHANGED <<stream, exported, base, limit, error, given, nested>>

BufferDone ==
    /\ pc = "llhttp" /\ then = "none" /\ at = limit /\ span = 0
    /\ Returns("HPE_OK")
    /\ UNCHANGED <<stream, exported, base, limit, at, span, error, given, nested>>

\* What the callback makes of the guest's answer.
Outcome(answer) ==
    CASE answer = "0" -> "HPE_OK"
      [] answer = "2" -> "HPE_PAUSED"
      [] answer \in {"1", "other"} -> "HPE_USER"

(* The guest's function is back.  A parser that pauses or fails remembers     *)
(* where, and its native returns.                                            *)
Answer ==
    /\ pc = "callback"
    /\ \E answer \in {"0", "1", "2", "other"} :
          IF Outcome(answer) = "HPE_OK"
          THEN pc' = "llhttp" /\ UNCHANGED <<at, span, error, then, current_buf>>
          ELSE /\ error' = Outcome(answer)
               /\ GoneOn
               /\ Returns(Outcome(answer))
    /\ UNCHANGED <<stream, exported, base, limit, given, nested>>

(* The guest's function traps: the parser fails, and with the trap pending    *)
(* nothing of the guest is left but a call of on_error.                       *)
Trap ==
    /\ pc = "callback"
    /\ error' = "HPE_USER" /\ pc' = "over" /\ then' = "none" /\ current_buf' = NULL
    /\ UNCHANGED <<stream, exported, base, limit, at, span, given, nested>>

BetweenMessages == at = 1 \/ stream[at - 1] = "on_message_complete"

(* llhttp_finish: nothing of a parser in error, else the stream may end only  *)
(* between messages, which is not kept as llhttp's error.                    *)
env_llhttp_finish ==
    /\ pc = "guest"
    /\ Returns(IF error = "HPE_OK" /\ ~ BetweenMessages THEN "HPE_INVALID_EOF_STATE" ELSE "HPE_OK")
    /\ UNCHANGED <<stream, exported, base, limit, at, span, error, given, nested>>

\* The same from within a callback: the execution around it loses its buffer.
FinishInCallback ==
    /\ pc = "callback"
    /\ current_buf' = NULL /\ nested' = TRUE
    /\ UNCHANGED <<stream, exported, base, limit, at, span, error, pc, then, given>>

Resumed(e) == IF e = "HPE_PAUSED" THEN "HPE_OK" ELSE e

env_llhttp_resume ==
    /\ pc = "guest" /\ error # "HPE_OK"
    /\ error' = Resumed(error)
    /\ UNCHANGED <<stream, exported, base, limit, at, span, pc, then, current_buf, given, nested>>

(* llhttp_reset, after which the guest begins with another client's bytes.    *)
env_llhttp_reset ==
    /\ pc = "guest"
    /\ at' = 1 /\ base' = 1 /\ limit' = 1 /\ span' = 0 /\ error' = "HPE_OK"
    /\ given' = <<>>
    /\ UNCHANGED <<stream, exported, pc, then, current_buf, nested>>

Next ==
    \/ Receive \/ env_llhttp_execute \/ env_llhttp_finish \/ env_llhttp_resume \/ env_llhttp_reset
    \/ TakeByte \/ CloseSpan \/ Mark \/ Flush \/ GoOn \/ BufferDone
    \/ Answer \/ Trap \/ FinishInCallback

-----------------------------------------------------------------------------
(* Properties                                                               *)

\* Byte b is one of those the call i hands out.
Hands(i, b) == given[i][2] <= b /\ b <= given[i][3]

(* Wherever the stream is cut, the parser paused and executed on, the views   *)
(* the guest is handed are the bytes of the stream, each once and in order:   *)
(* a byte goes to the function it is for, a view begins behind all earlier    *)
(* ones, and none is skipped.  Whenever the guest runs it has been given all   *)
(* before the position it is told, and nothing behind.                        *)
EachByteOnce ==
    /\ \A i \in 1 .. Len(given) :
          \A b \in given[i][2] .. given[i][3] : b \in 1 .. Len(stream) /\ stream[b] = given[i][1]
    /\ \A i, j \in 1 .. Len(given) : i < j => given[i][3] < given[j][2]
    /\ \A i \in 1 .. Len(given) : \A b \in 1 .. given[i][3] :
          stream[b] \in exported => \E j \in 1 .. i : Hands(j, b)
    /\ pc = "guest" =>
          /\ \A i \in 1 .. Len(given) : given[i][3] < at
          /\ \A b \in 1 .. at - 1 : stream[b] \in exported => \E i \in 1 .. Len(given) : Hands(i, b)

(* A view is made without a buffer only if a callback called the parser's     *)
(* natives itself.                                                           *)
CrashesWhenNested == pc = "crashed" => nested
=============================================================================
