---------------------------- MODULE GuestEvents ----------------------------
(***************************************************************************)
(* One guest under both of its event sources: the callbacks of the HTTP      *)
(* parser (HttpParse) and, while it is in one for a piece of a body, a JSON   *)
(* document handed to it as calls (JsonEvents).  They share the functions it  *)
(* exports, and the exceptions: a trap under the JSON unwinds the callback    *)
(* around it, an error of PostgreSQL jumps over llhttp altogether.            *)
(***************************************************************************)
EXTENDS HttpParse

CONSTANT Docs

VARIABLES doc, from, input, pos, success, raw_scalar, calls, trapped, result

Json == INSTANCE JsonEvents WITH at <- pos

\* Documents are well-formed as far as it matters: one of one token is a scalar.
ASSUME JsonAssumption ==
    \A d \in Docs : /\ d \in Seq(Json!Tokens) /\ Len(d) > 0
                    /\ Len(d) = 1 => d[1] \in Json!Scalars

json_vars == <<doc, from, input, pos, success, raw_scalar, calls, trapped, result>>

guest_vars == <<vars, json_vars>>

GuestInit == Init /\ Json!Init

\* The guest is in a callback for a piece of a body.
InBody == pc = "callback" /\ given[Len(given)][1] = "on_body"

BodyIsJson == InBody /\ Json!Begin /\ UNCHANGED vars

JsonStep == Json!Step /\ UNCHANGED vars

(* The native is back in the callback, which returns an answer of its own if  *)
(* nothing trapped.                                                          *)
JsonAnswered ==
    /\ result \in {"true", "false"} /\ ~ trapped
    /\ Answer
    /\ Json!Forget

JsonTraps ==
    /\ result \in {"true", "false"} /\ trapped
    /\ Trap
    /\ UNCHANGED json_vars

(* The error leaves llhttp in the middle and the buffer it was given in       *)
(* current_buf, with nothing left to run that would see either.               *)
JsonThrows ==
    /\ result = "error" /\ pc = "callback"
    /\ pc' = "over"
    /\ UNCHANGED <<stream, exported, base, limit, at, span, error, then, current_buf, given,
                   nested, json_vars>>

HttpStep == result = "idle" /\ Next /\ UNCHANGED json_vars

GuestNext == HttpStep \/ BodyIsJson \/ JsonStep \/ JsonAnswered \/ JsonTraps \/ JsonThrows

Spec == GuestInit /\ [][GuestNext]_guest_vars

-----------------------------------------------------------------------------
(* Properties                                                               *)

(* What JsonEvents says of a document holds for each that is handed over in   *)
(* a callback: the native returns true exactly when the guest was given, in    *)
(* the document's order, each token it has a function for, and no call failed. *)
TrueMeansAll == Json!TrueMeansAll
=============================================================================
