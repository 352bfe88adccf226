------------------------------- MODULE Objects -------------------------------
(***************************************************************************)
(* The host objects behind the external references a guest holds           *)
(* (datatypes.c; query.c and jsonb.c make them).  A host object that points  *)
(* into another embeds a node of the environment's list of local references, *)
(* which makes the other a root of the collector for as long as the first    *)
(* one is there.                                                            *)
(***************************************************************************)
EXTENDS Integers, Sequences, FiniteSets, SequencesExt

CONSTANTS
    MaxObjects,   \* bound: objects made in a run
    Length,       \* of the arrays
    Kinds         \* the kinds the guest makes

ASSUME ObjectsAssumption ==
    /\ MaxObjects \in Nat /\ Length \in Nat
    /\ Kinds \subseteq {"portal", "tuptable", "tuple", "datum", "text", "string", "array"}

Ids == 1 .. MaxObjects
None == 0
Frame == 0     \* the node on the stack of an array converter

VARIABLES
    kind,        \* of every object made so far
    into,        \* the object whose memory its body points into
    ref,         \* the object its node references
    values,      \* the objects the elements of an array were copied from
    ref_set,     \* the objects its reference set holds
    refs,        \* the local references, the current one last
    guest,       \* the objects the guest can reach
    pending,     \* a host object whose external reference is being made
    garbage,     \* objects the collector found and has not finalized
    alive,       \* host objects not freed
    body,        \* portals and tables the host objects still know of
    open         \* portals and tables PostgreSQL still has

vars == <<kind, into, ref, values, ref_set, refs, guest, pending, garbage, alive, body, open>>

Init ==
    /\ kind = <<>> /\ into = <<>> /\ ref = <<>> /\ values = <<>> /\ ref_set = <<>>
    /\ refs = <<>> /\ guest = {} /\ pending = None
    /\ garbage = {} /\ alive = {} /\ body = {} /\ open = {}

\* The guest runs: neither a native nor the collector is in the middle of something.
Running == pending = None /\ garbage = {} /\ ~ Contains(refs, Frame)

-----------------------------------------------------------------------------
(* Objects are made and freed                                               *)

Empty == [n \in 1 .. Length |-> None]
Elements(f) == {f[n] : n \in DOMAIN f} \ {None}

\* The new object's node becomes the current one.
Pushed(i) == Append(refs, i)

\* Slip: what a body points into is not kept.
Unreferenced(t) == None

Keeps(t) == t

(* rst_obj_new: an object that points into t references it; an array refer- *)
(* ences its set.                                                           *)
rst_obj_new(k, t) ==
    LET i == Len(kind) + 1  set == IF k = "array" THEN Empty ELSE <<>> IN
    /\ k \in Kinds /\ i \in Ids
    /\ kind' = Append(kind, k)
    /\ into' = Append(into, t)
    /\ ref' = Append(ref, Keeps(t))
    /\ values' = Append(values, set) /\ ref_set' = Append(ref_set, set)
    /\ refs' = IF Keeps(t) # None \/ k = "array" THEN Pushed(i) ELSE refs
    /\ alive' = alive \cup {i}
    /\ pending' = i

\* rst_externref_of_obj: the reference is made, and has a finalizer.
rst_externref_of_obj ==
    /\ pending # None /\ garbage = {}
    /\ guest' = guest \cup {pending} /\ pending' = None
    /\ UNCHANGED <<kind, into, ref, values, ref_set, refs, garbage, alive, body, open>>

\* What the nodes of the list reach: a reference, or the members of a set.
Rooted == (UNION {{ref[i]} \cup Elements(ref_set[i]) : i \in {refs[n] : n \in DOMAIN refs} \ {Frame}})
          \ {None}

Unreachable == (alive \ {pending}) \ (guest \cup Rooted)

\* Any allocation may set the collector going.
Collect ==
    /\ garbage = {} /\ Unreachable # {}
    /\ garbage' = Unreachable
    /\ UNCHANGED <<kind, into, ref, values, ref_set, refs, guest, pending, alive, body, open>>

Referencing(i) == ref[i] # None \/ kind[i] = "array"

\* Slip: a freed object's node stays.
NodeStays(i) == refs

\* Slip: the node is taken for the current one.
PopsCurrent(i) == Front(refs)

Place(i) == CHOOSE n \in DOMAIN refs : refs[n] = i

\* wasm_runtime_remove_local_obj_ref: wherever in the list it is.
Removed(i) == RemoveAt(refs, Place(i))

(* obj_finalizer, in whatever order the collector meets the objects.        *)
obj_finalizer ==
    \E i \in garbage :
       /\ garbage' = garbage \ {i}
       /\ alive' = alive \ {i}
       /\ body' = body \ {i} /\ open' = open \ (body \cap {i})
       /\ refs' = IF Referencing(i) THEN Removed(i) ELSE refs
       /\ UNCHANGED <<kind, into, ref, values, ref_set, guest, pending>>

\* The guest lets go of an object.
Drop ==
    /\ Running
    /\ \E i \in guest : guest' = guest \ {i}
    /\ UNCHANGED <<kind, into, ref, values, ref_set, refs, pending, garbage, alive, body, open>>

-----------------------------------------------------------------------------
(* What the natives make                                                    *)

Held(k) == {i \in guest : kind[i] = k}

env_cursor_open ==
    /\ Running
    /\ rst_obj_new("portal", None)
    /\ body' = body \cup {pending'} /\ open' = open \cup {pending'}
    /\ UNCHANGED <<guest, garbage>>

\* No rows: the object has no table.
env_cursor_fetch ==
    /\ Running
    /\ Held("portal") \cap body # {}
    /\ rst_obj_new("tuptable", None)
    /\ \/ UNCHANGED <<body, open>>
       \/ body' = body \cup {pending'} /\ open' = open \cup {pending'}
    /\ UNCHANGED <<guest, garbage>>

Forgets(i) == body \ {i}

env_cursor_close ==
    /\ Running
    /\ \E i \in Held("portal") \cap body :
          open' = open \ {i} /\ body' = Forgets(i)
    /\ UNCHANGED <<kind, into, ref, values, ref_set, refs, guest, pending, garbage, alive>>

env_tuple_table_get ==
    /\ Running
    /\ \E t \in Held("tuptable") \cap body : rst_obj_new("tuple", t)
    /\ UNCHANGED <<guest, garbage, body, open>>

\* A column of the tuple that is not passed by value: pg_datum_to_wasm_obj.
pg_datum_to_wasm_obj ==
    /\ Running
    /\ \E t \in Held("tuple") : rst_obj_new("datum", t)
    /\ UNCHANGED <<guest, garbage, body, open>>

(* A column that is an array: its struct is a local reference from before   *)
(* the elements are allocated until the struct is complete.                 *)
ArrayColumn ==
    /\ Running /\ Held("tuple") # {}
    /\ refs' = Append(refs, Frame)
    /\ UNCHANGED <<kind, into, ref, values, ref_set, guest, pending, garbage, alive, body, open>>

ArrayConverted ==
    /\ Contains(refs, Frame) /\ garbage = {}
    /\ refs' = Front(refs)
    /\ UNCHANGED <<kind, into, ref, values, ref_set, guest, pending, garbage, alive, body, open>>

NewText ==
    /\ Running
    /\ rst_obj_new("text", None)
    /\ UNCHANGED <<guest, garbage, body, open>>

\* The string points into the text, unless the text had to be detoasted.
jsonb_value_new_string ==
    /\ Running
    /\ \E t \in Held("text") \cup Held("datum"), copied \in BOOLEAN :
          rst_obj_new("string", IF copied THEN None ELSE t)
    /\ UNCHANGED <<guest, garbage, body, open>>

\* Arrays and objects: a set of references beside the values.
jsonb_value_new_array ==
    /\ Running
    /\ rst_obj_new("array", None)
    /\ UNCHANGED <<guest, garbage, body, open>>

SetMember(a, n, m) == [ref_set EXCEPT ![a][n] = m]

(* Setting an element, or setting it again: the value is copied.  The code     *)
(* checks that the target refers to others (jsonb.c:114), neither that it is an *)
(* array nor the index: those are taken to be right, as the guest passes them. *)
jsonb_value_array_set ==
    /\ Running
    /\ \E a \in Held("array"), n \in 1 .. Length, m \in Held("array") \cup Held("string") :
          /\ ref_set' = SetMember(a, n, m)
          /\ values' = [values EXCEPT ![a][n] = m]
    /\ UNCHANGED <<kind, into, ref, refs, guest, pending, garbage, alive, body, open>>

Next == rst_externref_of_obj \/ Collect \/ obj_finalizer \/ Drop
        \/ env_cursor_open \/ env_cursor_fetch \/ env_cursor_close
        \/ env_tuple_table_get \/ pg_datum_to_wasm_obj \/ ArrayColumn \/ ArrayConverted
        \/ NewText \/ jsonb_value_new_string \/ jsonb_value_new_array \/ jsonb_value_array_set

Spec == Init /\ [][Next]_vars

-----------------------------------------------------------------------------
(* Properties                                                               *)

(* No object that is not itself garbage points into freed memory: a row      *)
(* outlives the table the guest has let go of as long as one of its columns  *)
(* does, and a text the JSON values made from it, however the collector       *)
(* orders its finalizers and in however many runs.                           *)
BodiesReadable ==
    \A i \in alive :
       /\ into[i] # None => into[i] \in alive \ garbage
       /\ i \notin garbage => Elements(values[i]) \subseteq alive \ garbage
       /\ i \in body => i \in open

(* The list of local references is just the nodes embedded in the host       *)
(* objects that reference others, each once, and a converter's node, if one   *)
(* is at work, on top: it is the one the converter pops.                      *)
ListIsExact ==
    /\ {refs[n] : n \in DOMAIN refs} \ {Frame} = {i \in alive : Referencing(i)}
    /\ IsInjective(refs)
    /\ Contains(refs, Frame) => Last(refs) = Frame

(* The arrays that reach themselves through their members, and all they keep. *)
InCycle == {a \in alive : kind[a] = "array" /\
               \E walk \in [1 .. MaxObjects + 1 -> alive] :
                  walk[1] = a /\ \A n \in 1 .. MaxObjects : walk[n + 1] \in Elements(ref_set[walk[n]])}

(* When the guest holds nothing there is always something to collect, until  *)
(* nothing is left: except a JSON array made a member of itself, which keeps   *)
(* itself, its members and what they point into until the instance is gone.   *)
SomethingToCollect ==
    guest = {} /\ pending = None /\ alive # {} => Unreachable # {} \/ InCycle # {}
=============================================================================
