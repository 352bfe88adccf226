----------------------------- MODULE JsonEvents -----------------------------
(***************************************************************************)
(* JSON handed to the guest as calls of its exported functions (jsonb.c):   *)
(* from a text, by PostgreSQL's parser and its semantic actions, and from a  *)
(* jsonb value, by an iterator.  The two fail differently: a parser whose    *)
(* action fails stops, the iterator goes to its end without calling any more. *)
(* The module is composed with HttpParse in GuestEvents.                     *)
(***************************************************************************)
EXTENDS Integers, Sequences, FiniteSets

CONSTANT Docs    \* documents, each the sequence of its tokens

VARIABLES
    exported,     \* the guest's functions, looked up when it was initialised
    doc,
    from,         \* json_parse or jsonb_iterate
    input,        \* the tokens the source yields
    at,
    success, raw_scalar,
    calls,        \* what the guest was called with, in order
    trapped,      \* one of the calls failed
    result        \* what the native returns: true, false or an error

vars == <<doc, from, input, at, success, raw_scalar, calls, trapped, result>>

Scalars == {"push_string", "push_number", "push_bool", "push_null"}
Tokens == Scalars \cup {"object_start", "object_field_start", "object_end", "array_start",
                       "array_end"}
Raw == "raw"     \* the array a jsonb wraps around a scalar

\* A jsonb that is a scalar is an array with a flag.
JsonbTokens(d) == IF Len(d) = 1 THEN <<Raw>> \o d \o <<"array_end">> ELSE d

Init ==
    /\ doc = <<>> /\ from = "none" /\ input = <<>> /\ at = 1
    /\ success = TRUE /\ raw_scalar = FALSE
    /\ calls = <<>> /\ trapped = FALSE /\ result = "idle"

(* The guest calls json_parse with a text, which may be cut off anywhere, or  *)
(* jsonb_iterate.                                                            *)
Begin ==
    /\ result = "idle" /\ result' = "none"
    /\ doc' \in Docs
    /\ \/ from' = "jsonb_iterate" /\ input' = JsonbTokens(doc')
       \/ from' = "json_parse" /\ \E n \in 1 .. Len(doc') : input' = SubSeq(doc', 1, n)
    /\ at' = 1
    /\ success' = TRUE /\ raw_scalar' = FALSE
    /\ calls' = <<>> /\ trapped' = FALSE

\* The guest is done with the answer.
Forget ==
    /\ doc' = <<>> /\ from' = "none" /\ input' = <<>> /\ at' = 1
    /\ success' = TRUE /\ raw_scalar' = FALSE
    /\ calls' = <<>> /\ trapped' = FALSE /\ result' = "idle"

Given == <<doc, from, input>>

\* Slip: a scalar's array is told apart only at its start.
EndsAnyway(t) == t = Raw

\* The iterator does not pass on the array around a scalar.
Suppressed(t) == t = Raw \/ (raw_scalar /\ t = "array_end")

\* PostgreSQL refuses a number that is no float8, whoever wants it.
NotFloat8(t) == t = "push_number" /\ result' = "error" /\ UNCHANGED <<calls, trapped>>

(* rst_json_parse: one semantic action after the other, the first that fails, *)
(* or for which there is no function, is the last.                           *)
ParseToken ==
    /\ from = "json_parse" /\ result = "none" /\ at <= Len(input)
    /\ LET t == input[at] IN
       \/ /\ t \in exported
          /\ calls' = Append(calls, t)
          /\ \/ UNCHANGED <<trapped, result>>
             \/ trapped' = TRUE /\ result' = "false"
       \/ t \notin exported /\ result' = "false" /\ UNCHANGED <<calls, trapped>>
       \/ NotFloat8(t)
    /\ at' = at + 1
    /\ UNCHANGED <<Given, success, raw_scalar>>

\* The text ends: where the document does, or too early.
ParseEnd ==
    /\ from = "json_parse" /\ result = "none" /\ at > Len(input)
    /\ result' = IF input = doc THEN "true" ELSE "false"
    /\ UNCHANGED <<Given, at, success, raw_scalar, calls, trapped>>

\* Slip: the outcome of a call is not looked at.
NeverMind(ok) == success

StillSuccess(ok) == success /\ ok

\* rst_jsonb_iterate: a token is passed on if all went well and one may.
IterateToken ==
    /\ from = "jsonb_iterate" /\ result = "none" /\ at <= Len(input)
    /\ LET t == input[at] IN
       /\ raw_scalar' = (raw_scalar \/ t = Raw)
       /\ IF ~ Suppressed(t) /\ success /\ t \in exported
          THEN \/ \E ok \in BOOLEAN :
                     /\ calls' = Append(calls, t)
                     /\ success' = StillSuccess(ok)
                     /\ trapped' = (trapped \/ ~ ok)
                     /\ UNCHANGED result
               \/ NotFloat8(t) /\ UNCHANGED success
          ELSE UNCHANGED <<calls, success, trapped, result>>
    /\ at' = at + 1
    /\ UNCHANGED Given

IterateDone ==
    /\ from = "jsonb_iterate" /\ result = "none" /\ at > Len(input)
    /\ result' = IF success THEN "true" ELSE "false"
    /\ UNCHANGED <<Given, at, success, raw_scalar, calls, trapped>>

Step == ParseToken \/ ParseEnd \/ IterateToken \/ IterateDone

-----------------------------------------------------------------------------
(* Properties                                                               *)

\* How many of the first n tokens of the document the guest has a function for.
Wanted(n) == Cardinality({i \in 1 .. n : doc[i] \in exported})

(* The native returns true exactly when the guest was given, in the order of   *)
(* the document, each token it has a function for, a scalar without an array  *)
(* around it, and no call failed; the parser besides wants a function for     *)
(* every token of a text that is whole.                                       *)
TrueMeansAll ==
    /\ Len(calls) <= Wanted(Len(doc))
    /\ \A i \in 1 .. Len(doc) :
          doc[i] \in exported /\ Wanted(i) <= Len(calls) => calls[Wanted(i)] = doc[i]
    /\ result = "true" => Len(calls) = Wanted(Len(doc)) /\ ~ trapped
    /\ result = "true" /\ from = "json_parse" => calls = doc
    /\ result = "false" => trapped \/ (from = "json_parse" /\ calls # doc)
=============================================================================
