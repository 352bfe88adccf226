---------------------------- MODULE ObjectsProofs ----------------------------
(***************************************************************************)
(* Proofs about the host objects (datatypes.c): what the list of local      *)
(* references holds, and that no body is read after the memory it points    *)
(* into was freed, for every number of objects and every length of array.   *)
(***************************************************************************)
EXTENDS Objects, SequenceTheorems, TLAPS

Made == 1 .. Len(kind)
Refs == 0 .. MaxObjects

(* The sequences of what is known of the objects have one entry for each,   *)
(* and only an array has a set of references.                               *)
TypeInv ==
    /\ Len(kind) \in 0 .. MaxObjects
    /\ kind \in Seq(Kinds) /\ into \in Seq(Refs) /\ ref = into
    /\ Len(into) = Len(kind) /\ Len(ref_set) = Len(kind) /\ values = ref_set
    /\ ref_set \in Seq([1 .. Length -> Refs] \cup {<<>>})
    /\ \A i \in Made : IF kind[i] = "array" THEN ref_set[i] \in [1 .. Length -> Refs]
                       ELSE ref_set[i] = <<>>
    /\ refs \in Seq(Refs)

(* What is being collected is not freed yet, and the guest has none of it.  *)
LifeInv ==
    /\ alive \subseteq Made /\ garbage \subseteq alive
    /\ guest \subseteq alive \ garbage
    /\ pending \in (alive \ garbage) \cup {None}
    /\ body \subseteq open

(* What an object points into is neither freed nor being collected, even if *)
(* the object itself is: its node stays in the list until it is finalized.  *)
RootsInv ==
    \A i \in alive :
       /\ into[i] # None => into[i] \in alive \ garbage
       /\ Elements(ref_set[i]) \subseteq alive \ garbage

(* ListIsExact, by the places in the list.                                  *)
Nodes(s) == {s[n] : n \in 1 .. Len(s)}
EachOnce(s) == \A m, n \in 1 .. Len(s) : s[m] = s[n] => m = n
FrameOnTop(s) == \A n \in 1 .. Len(s) : s[n] = Frame => n = Len(s)

ListInv ==
    /\ Nodes(refs) \ {Frame} = {i \in alive : Referencing(i)}
    /\ EachOnce(refs) /\ FrameOnTop(refs)

IInv == TypeInv /\ LifeInv /\ RootsInv /\ ListInv

-----------------------------------------------------------------------------
(* The list                                                                 *)

(* An element taken out of a sequence leaves the others in their order.     *)
LEMMA RemoveAtFacts ==
    ASSUME NEW S, NEW s \in Seq(S), NEW k \in 1 .. Len(s)
    PROVE  /\ RemoveAt(s, k) \in Seq(S)
           /\ Len(RemoveAt(s, k)) = Len(s) - 1
           /\ \A n \in 1 .. Len(s) - 1 :
                 RemoveAt(s, k)[n] = IF n < k THEN s[n] ELSE s[n + 1]
<1> DEFINE a == SubSeq(s, 1, k - 1)
           b == SubSeq(s, k + 1, Len(s))
<1>1. a \in Seq(S) /\ Len(a) = k - 1 /\ \A n \in 1 .. k - 1 : a[n] = s[n]
  OBVIOUS
<1>2. b \in Seq(S) /\ Len(b) = Len(s) - k /\ \A n \in 1 .. Len(s) - k : b[n] = s[n + k]
  <2>1. Len(s) \in Nat /\ k + 1 \in 1 .. Len(s) + 1 /\ Len(s) \in 0 .. Len(s)
    OBVIOUS
  <2>2. b \in Seq(S)
    BY <2>1
  <2>3. Len(b) = Len(s) - k
    BY <2>1
  <2>4. \A n \in 1 .. Len(s) - k : b[n] = s[n + k]
    BY <2>1, <2>3
  <2> QED
    BY <2>2, <2>3, <2>4
<1>3. RemoveAt(s, k) = a \o b
  BY DEF RemoveAt
<1> HIDE DEF a, b
<1>4. a \o b \in Seq(S) /\ Len(a \o b) = Len(s) - 1
  <2>1. a \in Seq(S) /\ b \in Seq(S)
    BY <1>1, <1>2
  <2>2. a \o b \in Seq(S) /\ Len(a \o b) = Len(a) + Len(b)
    BY <2>1, ConcatProperties
  <2>3. Len(s) \in Nat /\ k \in Int
    OBVIOUS
  <2> QED
    BY <1>1, <1>2, <2>2, <2>3
<1>5. ASSUME NEW n \in 1 .. Len(s) - 1
      PROVE  (a \o b)[n] = IF n < k THEN s[n] ELSE s[n + 1]
  <2>1. CASE n < k
    <3>1. n \in 1 .. Len(a)
      BY <1>1, <2>1
    <3>2. (a \o b)[n] = a[n]
      BY <1>1, <1>2, <3>1
    <3> QED
      BY <1>1, <2>1, <3>1, <3>2
  <2>2. CASE ~ (n < k)
    <3>1. n - (k - 1) \in 1 .. Len(s) - k
      BY <2>2
    <3>2. (a \o b)[n] = b[n - (k - 1)]
      BY <1>1, <1>2, <2>2, <3>1
    <3>3. b[n - (k - 1)] = s[(n - (k - 1)) + k]
      BY <1>2, <3>1
    <3>4. (n - (k - 1)) + k = n + 1
      OBVIOUS
    <3> QED
      BY <2>2, <3>2, <3>3, <3>4
  <2> QED
    BY <2>1, <2>2
<1> QED
  BY <1>3, <1>4, <1>5

(* What ListInv says by places is what ListIsExact says.                    *)
LEMMA ByPlaces ==
    ASSUME refs \in Seq(Refs)
    PROVE  ListIsExact <=> ListInv
<1>1. DOMAIN refs = 1 .. Len(refs) /\ Len(refs) \in Nat
  OBVIOUS
<1>2. {refs[n] : n \in DOMAIN refs} = Nodes(refs)
  BY <1>1 DEF Nodes
<1>3. IsInjective(refs) <=> EachOnce(refs)
  BY <1>1 DEF IsInjective, EachOnce
<1>4. EachOnce(refs) => ((Contains(refs, Frame) => Last(refs) = Frame) <=> FrameOnTop(refs))
  <2> SUFFICES ASSUME EachOnce(refs)
               PROVE  (Contains(refs, Frame) => Last(refs) = Frame) <=> FrameOnTop(refs)
    OBVIOUS
  <2>1. \A n \in 1 .. Len(refs) : Len(refs) \in 1 .. Len(refs)
    BY <1>1
  <2> QED
    BY <2>1 DEF EachOnce, FrameOnTop, Contains, Last
<1> QED
  BY <1>2, <1>3, <1>4 DEF ListIsExact, ListInv

(* A node of something not in the list becomes the current one.             *)
LEMMA PushedFacts ==
    ASSUME NEW s \in Seq(Refs), NEW x \in Refs, EachOnce(s), x \notin Nodes(s),
           \A n \in 1 .. Len(s) : s[n] # Frame
    PROVE  /\ Append(s, x) \in Seq(Refs)
           /\ Nodes(Append(s, x)) = Nodes(s) \cup {x}
           /\ EachOnce(Append(s, x)) /\ FrameOnTop(Append(s, x))
<1> DEFINE t == Append(s, x)
<1>1. /\ t \in Seq(Refs) /\ Len(t) = Len(s) + 1 /\ Len(s) \in Nat
      /\ t[Len(s) + 1] = x /\ \A n \in 1 .. Len(s) : t[n] = s[n]
  OBVIOUS
<1>2. \A n \in 1 .. Len(t) : n \in 1 .. Len(s) \/ n = Len(s) + 1
  BY <1>1
<1>3. \A n \in 1 .. Len(s) : s[n] # x
  BY DEF Nodes
<1> HIDE DEF t
<1>4. Nodes(t) = Nodes(s) \cup {x}
  <2>1. \A n \in 1 .. Len(s) : n \in 1 .. Len(t)
    BY <1>1
  <2>2. Len(s) + 1 \in 1 .. Len(t)
    BY <1>1
  <2> QED
    BY <1>1, <1>2, <2>1, <2>2 DEF Nodes
<1>5. EachOnce(t)
  BY <1>1, <1>2, <1>3 DEF EachOnce
<1>6. FrameOnTop(t)
  BY <1>1, <1>2 DEF FrameOnTop
<1> QED
  BY <1>1, <1>4, <1>5, <1>6 DEF t

(* The finalizer takes out one node, wherever it is.                        *)
LEMMA RemovedFacts ==
    ASSUME NEW i, i # Frame, refs \in Seq(Refs), EachOnce(refs), FrameOnTop(refs),
           i \in Nodes(refs)
    PROVE  /\ Removed(i) \in Seq(Refs)
           /\ Nodes(Removed(i)) = Nodes(refs) \ {i}
           /\ EachOnce(Removed(i)) /\ FrameOnTop(Removed(i))
<1> DEFINE k == Place(i)
           r == Removed(i)
<1>1. k \in 1 .. Len(refs) /\ refs[k] = i /\ Len(refs) \in Nat
  BY DEF Place, Nodes
<1>2. /\ r \in Seq(Refs) /\ Len(r) = Len(refs) - 1
      /\ \A n \in 1 .. Len(refs) - 1 : r[n] = IF n < k THEN refs[n] ELSE refs[n + 1]
  BY <1>1, RemoveAtFacts DEF Removed
<1> HIDE DEF k, r
<1>3. Nodes(r) = Nodes(refs) \ {i}
  <2>1. ASSUME NEW n \in 1 .. Len(r)
        PROVE  r[n] \in Nodes(refs) \ {i}
    <3>1. n \in 1 .. Len(refs) /\ n + 1 \in 1 .. Len(refs) /\ n \in 1 .. Len(refs) - 1
      BY <1>1, <1>2
    <3>2. CASE n < k
      BY <1>1, <1>2, <3>1, <3>2 DEF Nodes, EachOnce
    <3>3. CASE ~ (n < k)
      <4>1. n + 1 # k
        BY <1>1, <3>3
      <4> QED
        BY <1>1, <1>2, <3>1, <3>3, <4>1 DEF Nodes, EachOnce
    <3> QED
      BY <3>2, <3>3
  <2>2. ASSUME NEW m \in 1 .. Len(refs), refs[m] # i
        PROVE  \E n \in 1 .. Len(r) : r[n] = refs[m]
    <3>1. m # k
      BY <1>1, <2>2
    <3>2. CASE m < k
      <4>1. m \in 1 .. Len(refs) - 1
        BY <1>1, <3>2
      <4> QED
        BY <1>2, <3>2, <4>1
    <3>3. CASE ~ (m < k)
      <4>1. m - 1 \in 1 .. Len(refs) - 1 /\ ~ (m - 1 < k) /\ (m - 1) + 1 = m
        BY <1>1, <3>1, <3>3
      <4> QED
        BY <1>2, <4>1
    <3> QED
      BY <3>2, <3>3
  <2>3. Nodes(r) \subseteq Nodes(refs) \ {i}
    BY <2>1 DEF Nodes
  <2>4. Nodes(refs) \ {i} \subseteq Nodes(r)
    BY <2>2 DEF Nodes
  <2> QED
    BY <2>3, <2>4
<1>4. EachOnce(r)
  <2> SUFFICES ASSUME NEW m \in 1 .. Len(r), NEW n \in 1 .. Len(r), r[m] = r[n]
               PROVE  m = n
    BY DEF EachOnce
  <2>1. /\ m \in 1 .. Len(refs) /\ m + 1 \in 1 .. Len(refs) /\ m \in 1 .. Len(refs) - 1
        /\ n \in 1 .. Len(refs) /\ n + 1 \in 1 .. Len(refs) /\ n \in 1 .. Len(refs) - 1
    BY <1>1, <1>2
  <2>2. r[m] = IF m < k THEN refs[m] ELSE refs[m + 1]
    BY <1>2, <2>1
  <2>3. r[n] = IF n < k THEN refs[n] ELSE refs[n + 1]
    BY <1>2, <2>1
  <2>4. \A p, q \in 1 .. Len(refs) : refs[p] = refs[q] => p = q
    BY DEF EachOnce
  <2>5. CASE m < k
    <3>1. CASE n < k
      BY <2>1, <2>2, <2>3, <2>4, <2>5, <3>1
    <3>2. CASE ~ (n < k)
      <4>1. m = n + 1
        BY <2>1, <2>2, <2>3, <2>4, <2>5, <3>2
      <4> QED
        BY <1>1, <2>1, <2>5, <3>2, <4>1
    <3> QED
      BY <3>1, <3>2
  <2>6. CASE ~ (m < k)
    <3>1. CASE n < k
      <4>1. m + 1 = n
        BY <2>1, <2>2, <2>3, <2>4, <2>6, <3>1
      <4> QED
        BY <1>1, <2>1, <2>6, <3>1, <4>1
    <3>2. CASE ~ (n < k)
      <4>1. m + 1 = n + 1
        BY <2>1, <2>2, <2>3, <2>4, <2>6, <3>2
      <4> QED
        BY <2>1, <4>1
    <3> QED
      BY <3>1, <3>2
  <2> QED
    BY <2>5, <2>6
<1>5. FrameOnTop(r)
  <2> SUFFICES ASSUME NEW n \in 1 .. Len(r), r[n] = Frame
               PROVE  n = Len(r)
    BY DEF FrameOnTop
  <2>1. n \in 1 .. Len(refs) /\ n + 1 \in 1 .. Len(refs) /\ n \in 1 .. Len(refs) - 1
    BY <1>1, <1>2
  <2>2. CASE n < k
    <3>1. refs[n] = Frame
      BY <1>2, <2>1, <2>2
    <3>2. n = Len(refs)
      BY <2>1, <3>1 DEF FrameOnTop
    <3> QED
      BY <1>1, <2>2, <3>2
  <2>3. CASE ~ (n < k)
    <3>1. refs[n + 1] = Frame
      BY <1>2, <2>1, <2>3
    <3>2. n + 1 = Len(refs)
      BY <2>1, <3>1 DEF FrameOnTop
    <3> QED
      BY <1>1, <1>2, <2>1, <3>2
  <2> QED
    BY <2>2, <2>3
<1> QED
  BY <1>2, <1>3, <1>4, <1>5 DEF r

-----------------------------------------------------------------------------
(* An object is made                                                        *)

(* Its sequences grow by one entry; whatever it points into the guest has.  *)
LEMMA NewObject ==
    ASSUME IInv, Running, NEW k, NEW t \in guest \cup {None}, rst_obj_new(k, t),
           UNCHANGED garbage
    PROVE  /\ TypeInv' /\ RootsInv' /\ ListInv'
           /\ alive' = alive \cup {Len(kind) + 1} /\ pending' = Len(kind) + 1
           /\ Len(kind') = Len(kind) + 1 /\ Len(kind) \in Nat
<1> DEFINE i == Len(kind) + 1
           set == IF k = "array" THEN Empty ELSE <<>>
<1>1. garbage = {} /\ pending = None /\ \A n \in 1 .. Len(refs) : refs[n] # Frame
  BY DEF Running, Contains
<1>2. /\ k \in Kinds /\ i \in 1 .. MaxObjects /\ Len(kind) \in Nat
      /\ MaxObjects \in Nat /\ Length \in Nat
  BY ObjectsAssumption DEF rst_obj_new, Ids, IInv, TypeInv
<1>3. t \in Refs /\ (t # None => t \in alive)
  <2>1. CASE t = None
    BY <1>2, <2>1 DEF Refs, None
  <2>2. CASE t \in guest
    BY <1>2, <2>2 DEF IInv, LifeInv, Made, Refs
  <2> QED
    BY <2>1, <2>2
<1>4. /\ kind' = Append(kind, k) /\ into' = Append(into, t) /\ ref' = Append(ref, t)
      /\ values' = Append(values, set) /\ ref_set' = Append(ref_set, set)
      /\ refs' = IF t # None \/ k = "array" THEN Append(refs, i) ELSE refs
      /\ alive' = alive \cup {i} /\ pending' = i
  BY DEF rst_obj_new, Keeps, Pushed
<1>5. /\ kind \in Seq(Kinds) /\ into \in Seq(Refs) /\ refs \in Seq(Refs)
      /\ ref_set \in Seq([1 .. Length -> Refs] \cup {<<>>})
      /\ Len(into) = Len(kind) /\ Len(ref_set) = Len(kind)
      /\ ref = into /\ values = ref_set
  BY DEF IInv, TypeInv
<1>6. Empty \in [1 .. Length -> Refs] /\ set \in [1 .. Length -> Refs] \cup {<<>>}
  BY <1>2 DEF Empty, Refs, None
<1>7. Elements(set) = {}
  BY <1>2 DEF Elements, Empty
<1> HIDE DEF i, set
<1>8. /\ kind' \in Seq(Kinds) /\ Len(kind') = Len(kind) + 1
      /\ kind'[Len(kind) + 1] = k /\ \A j \in 1 .. Len(kind) : kind'[j] = kind[j]
  BY <1>2, <1>4, <1>5
<1>9. /\ into' \in Seq(Refs) /\ Len(into') = Len(kind) + 1 /\ ref' = into'
      /\ into'[Len(kind) + 1] = t /\ \A j \in 1 .. Len(kind) : into'[j] = into[j]
  BY <1>3, <1>4, <1>5
<1>10. /\ ref_set' \in Seq([1 .. Length -> Refs] \cup {<<>>}) /\ values' = ref_set'
       /\ Len(ref_set') = Len(kind) + 1
       /\ ref_set'[Len(kind) + 1] = set /\ \A j \in 1 .. Len(kind) : ref_set'[j] = ref_set[j]
  <2> DEFINE Sets == [1 .. Length -> Refs] \cup {<<>>}
  <2>1. ref_set \in Seq(Sets) /\ set \in Sets
    BY <1>5, <1>6
  <2> HIDE DEF Sets
  <2>2. /\ Append(ref_set, set) \in Seq(Sets) /\ Len(Append(ref_set, set)) = Len(ref_set) + 1
        /\ Append(ref_set, set)[Len(ref_set) + 1] = set
        /\ \A j \in 1 .. Len(ref_set) : Append(ref_set, set)[j] = ref_set[j]
    BY <2>1
  <2> QED
    BY <1>4, <1>5, <2>2 DEF Sets
<1>11. alive \subseteq 1 .. Len(kind) /\ i \notin alive /\ i # Frame /\ i \in Refs
  BY <1>2 DEF IInv, LifeInv, Made, i, Frame, Refs
<1>12. refs' \in Seq(Refs) /\ ListInv'
  <2>1. /\ Nodes(refs) \ {Frame} = {j \in alive : Referencing(j)}
        /\ EachOnce(refs) /\ FrameOnTop(refs)
    BY DEF IInv, ListInv
  <2> DEFINE After(j) == ref'[j] # None \/ kind'[j] = "array"
  <2>a. {j \in alive' : Referencing(j)'} = {j \in alive' : After(j)}
    BY DEF Referencing
  <2>2. \A j \in alive : After(j) <=> Referencing(j)
    BY <1>5, <1>8, <1>9, <1>11 DEF Referencing
  <2>3. After(i) <=> t # None \/ k = "array"
    BY <1>8, <1>9 DEF i
  <2> HIDE DEF After
  <2>4. CASE t # None \/ k = "array"
    <3>1. i \notin Nodes(refs)
      BY <1>11, <2>1
    <3>2. /\ Append(refs, i) \in Seq(Refs)
          /\ Nodes(Append(refs, i)) = Nodes(refs) \cup {i}
          /\ EachOnce(Append(refs, i)) /\ FrameOnTop(Append(refs, i))
      BY <1>1, <1>5, <1>11, <2>1, <3>1, PushedFacts
    <3>3. {j \in alive' : Referencing(j)'} = {j \in alive : Referencing(j)} \cup {i}
      BY <1>4, <2>a, <2>2, <2>3, <2>4
    <3>4. refs' = Append(refs, i)
      BY <1>4, <2>4
    <3>5. Nodes(refs') \ {Frame} = {j \in alive' : Referencing(j)'}
      BY <1>11, <2>1, <3>2, <3>3, <3>4
    <3> QED
      BY <3>2, <3>4, <3>5 DEF ListInv
  <2>5. CASE ~ (t # None \/ k = "array")
    <3>1. {j \in alive' : Referencing(j)'} = {j \in alive : Referencing(j)}
      BY <1>4, <2>a, <2>2, <2>3, <2>5
    <3>2. refs' = refs
      BY <1>4, <2>5
    <3> QED
      BY <1>5, <2>1, <3>1, <3>2 DEF ListInv
  <2> QED
    BY <2>4, <2>5
<1>13. TypeInv'
  <2>1. \A j \in 1 .. Len(kind') : IF kind'[j] = "array" THEN ref_set'[j] \in [1 .. Length -> Refs]
                                   ELSE ref_set'[j] = <<>>
    <3> SUFFICES ASSUME NEW j \in 1 .. Len(kind')
                 PROVE  IF kind'[j] = "array" THEN ref_set'[j] \in [1 .. Length -> Refs]
                        ELSE ref_set'[j] = <<>>
      OBVIOUS
    <3>1. CASE j \in 1 .. Len(kind)
      BY <1>8, <1>10, <3>1 DEF IInv, TypeInv, Made
    <3>2. CASE j = Len(kind) + 1
      BY <1>6, <1>8, <1>10, <3>2 DEF set
    <3> QED
      BY <1>2, <1>8, <3>1, <3>2
  <2>2. Len(kind') \in 0 .. MaxObjects
    BY <1>2, <1>8 DEF i
  <2> QED
    BY <1>8, <1>9, <1>10, <1>12, <2>1, <2>2 DEF TypeInv, Made
<1>14. RootsInv'
  <2> SUFFICES ASSUME NEW j \in alive'
               PROVE  /\ into'[j] # None => into'[j] \in alive' \ garbage'
                      /\ Elements(ref_set'[j]) \subseteq alive' \ garbage'
    BY DEF RootsInv
  <2>1. garbage' = {}
    BY <1>1
  <2>2. CASE j \in alive
    BY <1>4, <1>9, <1>10, <1>11, <2>1, <2>2 DEF IInv, RootsInv
  <2>3. CASE j = i
    BY <1>3, <1>4, <1>7, <1>9, <1>10, <2>1, <2>3 DEF i
  <2> QED
    BY <1>4, <2>2, <2>3
<1> QED
  BY <1>2, <1>4, <1>8, <1>12, <1>13, <1>14 DEF i

(* It is not yet the guest's, and nothing of it is known to PostgreSQL but   *)
(* what the native just opened.                                              *)
LEMMA NewObjectInv ==
    ASSUME IInv, Running, NEW k, NEW t \in guest \cup {None}, rst_obj_new(k, t),
           UNCHANGED <<guest, garbage>>,
           \/ UNCHANGED <<body, open>>
           \/ body' = body \cup {pending'} /\ open' = open \cup {pending'}
    PROVE  IInv'
<1>1. /\ TypeInv' /\ RootsInv' /\ ListInv'
      /\ alive' = alive \cup {Len(kind) + 1} /\ pending' = Len(kind) + 1
      /\ Len(kind') = Len(kind) + 1 /\ Len(kind) \in Nat
  BY NewObject
<1>2. garbage' = {} /\ guest' = guest /\ garbage = {}
  BY DEF Running
<1>3. LifeInv
  BY DEF IInv
<1>4. alive' \subseteq 1 .. Len(kind')
  <2>1. alive \subseteq 1 .. Len(kind)
    BY <1>3 DEF LifeInv, Made
  <2>2. \A j \in alive : j \in 1 .. Len(kind')
    BY <1>1, <2>1
  <2>3. Len(kind) + 1 \in 1 .. Len(kind')
    BY <1>1
  <2> QED
    BY <1>1, <2>2, <2>3
<1>5. body' \subseteq open'
  BY <1>3 DEF LifeInv
<1> QED
  BY <1>1, <1>2, <1>3, <1>4, <1>5 DEF IInv, LifeInv, Made

LEMMA NativesMakeObjects ==
    ASSUME IInv
    PROVE  /\ env_cursor_open => IInv'
           /\ env_cursor_fetch => IInv'
           /\ env_tuple_table_get => IInv'
           /\ pg_datum_to_wasm_obj => IInv'
           /\ NewText => IInv'
           /\ jsonb_value_new_string => IInv'
           /\ jsonb_value_new_array => IInv'
<1>1. \A k : Held(k) \subseteq guest
  BY DEF Held
<1>2. env_cursor_open => IInv'
  BY NewObjectInv DEF env_cursor_open
<1>3. env_cursor_fetch => IInv'
  BY NewObjectInv DEF env_cursor_fetch
<1>4. ASSUME env_tuple_table_get
      PROVE  IInv'
  <2>1. PICK t \in Held("tuptable") \cap body : rst_obj_new("tuple", t)
    BY <1>4 DEF env_tuple_table_get
  <2> QED
    BY <1>1, <1>4, <2>1, NewObjectInv DEF env_tuple_table_get
<1>5. ASSUME pg_datum_to_wasm_obj
      PROVE  IInv'
  <2>1. PICK t \in Held("tuple") : rst_obj_new("datum", t)
    BY <1>5 DEF pg_datum_to_wasm_obj
  <2> QED
    BY <1>1, <1>5, <2>1, NewObjectInv DEF pg_datum_to_wasm_obj
<1>6. NewText => IInv'
  BY NewObjectInv DEF NewText
<1>7. ASSUME jsonb_value_new_string
      PROVE  IInv'
  <2>1. PICK t \in Held("text") \cup Held("datum"), copied \in BOOLEAN :
           rst_obj_new("string", IF copied THEN None ELSE t)
    BY <1>7 DEF jsonb_value_new_string
  <2>2. (IF copied THEN None ELSE t) \in guest \cup {None}
    BY <1>1
  <2> QED
    BY <1>7, <2>1, <2>2, NewObjectInv DEF jsonb_value_new_string
<1>8. jsonb_value_new_array => IInv'
  BY NewObjectInv DEF jsonb_value_new_array
<1> QED
  BY <1>2, <1>3, <1>4, <1>5, <1>6, <1>7, <1>8

-----------------------------------------------------------------------------
(* Objects are collected                                                    *)

(* Every node is a root of the collector, those of unreachable objects too: *)
(* what an object points into is not collected along with it.               *)
LEMMA NothingPointsToGarbage ==
    ASSUME IInv, NEW i \in alive
    PROVE  /\ into[i] # None => into[i] \in Rooted
           /\ Elements(ref_set[i]) \subseteq Rooted
<1>1. i \in Made /\ i # Frame /\ ref = into
  BY DEF IInv, LifeInv, TypeInv, Made, Frame
<1>2. ASSUME Referencing(i)
      PROVE  ({ref[i]} \cup Elements(ref_set[i])) \ {None} \subseteq Rooted
  <2>1. i \in Nodes(refs) \ {Frame}
    BY <1>1, <1>2 DEF IInv, ListInv
  <2>2. Nodes(refs) = {refs[n] : n \in DOMAIN refs}
    <3>1. DOMAIN refs = 1 .. Len(refs)
      BY DEF IInv, TypeInv
    <3> QED
      BY <3>1 DEF Nodes
  <2> DEFINE Below(x) == {ref[x]} \cup Elements(ref_set[x])
  <2>3. Rooted = (UNION {Below(x) : x \in Nodes(refs) \ {Frame}}) \ {None}
    BY <2>2 DEF Rooted
  <2> HIDE DEF Below
  <2>4. Below(i) \ {None} \subseteq Rooted
    <3> SUFFICES ASSUME NEW e \in Below(i), e # None
                 PROVE  e \in Rooted
      OBVIOUS
    <3>1. \E x \in Nodes(refs) \ {Frame} : e \in Below(x)
      BY <2>1, Zenon
    <3> QED
      BY <2>3, <3>1
  <2> QED
    BY <2>4 DEF Below
<1>3. None \notin Elements(ref_set[i])
  BY DEF Elements
<1>4. CASE Referencing(i)
  BY <1>1, <1>2, <1>3, <1>4
<1>5. CASE ~ Referencing(i)
  <2>1. into[i] = None /\ ref_set[i] = <<>>
    BY <1>1, <1>5 DEF Referencing, IInv, TypeInv
  <2>2. Elements(ref_set[i]) = {}
    BY <2>1 DEF Elements
  <2> QED
    BY <2>1, <2>2
<1> QED
  BY <1>4, <1>5

LEMMA CollectorSafe ==
    ASSUME IInv, Collect
    PROVE  IInv'
<1>1. /\ garbage = {} /\ garbage' = (alive \ {pending}) \ (guest \cup Rooted)
      /\ UNCHANGED <<kind, into, ref, values, ref_set, refs, guest, pending, alive, body, open>>
  BY DEF Collect, Unreachable
<1>2. TypeInv' /\ ListInv'
  <2>1. TypeInv /\ ListInv
    BY DEF IInv
  <2>2. TypeInv'
    BY <1>1, <2>1 DEF TypeInv, Made
  <2>3. ListInv'
    BY <1>1, <2>1 DEF ListInv, Referencing
  <2> QED
    BY <2>2, <2>3
<1>3. LifeInv'
  BY <1>1 DEF IInv, LifeInv, Made
<1>4. RootsInv'
  <2> SUFFICES ASSUME NEW i \in alive
               PROVE  /\ into[i] # None => into[i] \in alive \ garbage'
                      /\ Elements(ref_set[i]) \subseteq alive \ garbage'
    BY <1>1 DEF RootsInv
  <2>1. /\ into[i] # None => into[i] \in alive
        /\ Elements(ref_set[i]) \subseteq alive
    BY DEF IInv, RootsInv
  <2> QED
    BY <1>1, <2>1, NothingPointsToGarbage
<1> QED
  BY <1>2, <1>3, <1>4 DEF IInv

(* One finalizer of several: in between, objects not finalized yet still     *)
(* have their nodes in the list.                                             *)
LEMMA FinalizerSafe ==
    ASSUME IInv, obj_finalizer
    PROVE  IInv'
<1>1. PICK i \in garbage :
         /\ garbage' = garbage \ {i} /\ alive' = alive \ {i}
         /\ body' = body \ {i} /\ open' = open \ (body \cap {i})
         /\ refs' = IF Referencing(i) THEN Removed(i) ELSE refs
         /\ UNCHANGED <<kind, into, ref, values, ref_set, guest, pending>>
  BY DEF obj_finalizer
<1>2. i \in alive /\ i # Frame /\ refs \in Seq(Refs)
  BY DEF IInv, LifeInv, TypeInv, Made, Frame
<1>3. /\ Nodes(refs) \ {Frame} = {j \in alive : Referencing(j)}
      /\ EachOnce(refs) /\ FrameOnTop(refs)
  BY DEF IInv, ListInv
<1>4. refs' \in Seq(Refs) /\ ListInv'
  <2>1. {j \in alive' : Referencing(j)'} = {j \in alive : Referencing(j)} \ {i}
    BY <1>1 DEF Referencing
  <2>2. CASE Referencing(i)
    <3>1. i \in Nodes(refs)
      BY <1>2, <1>3, <2>2
    <3>2. /\ refs' \in Seq(Refs) /\ Nodes(refs') = Nodes(refs) \ {i}
          /\ EachOnce(refs') /\ FrameOnTop(refs')
      BY <1>1, <1>2, <1>3, <2>2, <3>1, RemovedFacts
    <3>3. Nodes(refs') \ {Frame} = {j \in alive' : Referencing(j)'}
      BY <1>3, <2>1, <3>2
    <3> QED
      BY <3>2, <3>3 DEF ListInv
  <2>3. CASE ~ Referencing(i)
    <3>1. refs' = refs
      BY <1>1, <2>3
    <3>2. {j \in alive' : Referencing(j)'} = {j \in alive : Referencing(j)}
      BY <2>1, <2>3
    <3> QED
      BY <1>2, <1>3, <3>1, <3>2 DEF ListInv
  <2> QED
    BY <2>2, <2>3
<1>5. TypeInv'
  BY <1>1, <1>4 DEF IInv, TypeInv, Made
<1>6. LifeInv'
  BY <1>1 DEF IInv, LifeInv, Made
<1>7. RootsInv'
  BY <1>1 DEF IInv, RootsInv
<1> QED
  BY <1>4, <1>5, <1>6, <1>7 DEF IInv

-----------------------------------------------------------------------------
(* The rest                                                                 *)

(* The guest's references come and go; cursors are closed.                  *)
LEMMA GuestSafe ==
    ASSUME IInv, rst_externref_of_obj \/ Drop \/ env_cursor_close
    PROVE  IInv'
<1>1. UNCHANGED <<kind, into, ref, values, ref_set, refs, garbage, alive>>
  BY DEF rst_externref_of_obj, Drop, env_cursor_close
<1>2. TypeInv /\ RootsInv /\ ListInv
  BY DEF IInv
<1>3. TypeInv'
  BY <1>1, <1>2 DEF TypeInv, Made
<1>4. RootsInv'
  BY <1>1, <1>2 DEF RootsInv
<1>5. ListInv'
  BY <1>1, <1>2 DEF ListInv, Referencing
<1>6. LifeInv'
  <2>1. CASE rst_externref_of_obj
    BY <2>1 DEF rst_externref_of_obj, IInv, LifeInv, Made
  <2>2. CASE Drop
    BY <2>2 DEF Drop, IInv, LifeInv, Made
  <2>3. CASE env_cursor_close
    BY <2>3 DEF env_cursor_close, Forgets, IInv, LifeInv, Made
  <2> QED
    BY <2>1, <2>2, <2>3
<1> QED
  BY <1>3, <1>4, <1>5, <1>6 DEF IInv

(* The converter's node is pushed and popped; no native makes an object in  *)
(* between, so it is still the current one.                                 *)
LEMMA ArraysSafe ==
    ASSUME IInv, ArrayColumn \/ ArrayConverted
    PROVE  IInv'
<1>1. UNCHANGED <<kind, into, ref, values, ref_set, guest, pending, garbage, alive, body, open>>
  BY DEF ArrayColumn, ArrayConverted
<1>2. /\ Nodes(refs) \ {Frame} = {j \in alive : Referencing(j)}
      /\ EachOnce(refs) /\ FrameOnTop(refs) /\ refs \in Seq(Refs)
  BY DEF IInv, ListInv, TypeInv
<1>3. /\ refs' \in Seq(Refs) /\ Nodes(refs') \ {Frame} = Nodes(refs) \ {Frame}
      /\ EachOnce(refs') /\ FrameOnTop(refs')
  <2>1. CASE ArrayColumn
    <3>1. refs' = Append(refs, Frame) /\ \A n \in 1 .. Len(refs) : refs[n] # Frame
      BY <2>1 DEF ArrayColumn, Running, Contains
    <3>2. Frame \in Refs /\ Frame \notin Nodes(refs)
      BY <3>1, ObjectsAssumption DEF Frame, Refs, Nodes
    <3> QED
      BY <1>2, <3>1, <3>2, PushedFacts
  <2>2. CASE ArrayConverted
    <3>1. refs' = SubSeq(refs, 1, Len(refs) - 1) /\ \E n \in 1 .. Len(refs) : refs[n] = Frame
      BY <2>2 DEF ArrayConverted, Front, Contains
    <3>2. refs[Len(refs)] = Frame /\ Len(refs) \in Nat /\ Len(refs) > 0
      BY <1>2, <3>1 DEF FrameOnTop
    <3>3. /\ refs' \in Seq(Refs) /\ Len(refs') = Len(refs) - 1
          /\ \A n \in 1 .. Len(refs) - 1 : refs'[n] = refs[n]
      <4>1. Len(refs) - 1 \in 0 .. Len(refs)
        BY <3>2
      <4>2. SubSeq(refs, 1, Len(refs) - 1) \in Seq(Refs)
        BY <1>2, <4>1
      <4>3. Len(SubSeq(refs, 1, Len(refs) - 1)) = Len(refs) - 1
        BY <1>2, <3>2
      <4>4. \A n \in 1 .. Len(refs) - 1 : SubSeq(refs, 1, Len(refs) - 1)[n] = refs[n]
        BY <1>2, <4>3
      <4> QED
        BY <3>1, <4>2, <4>3, <4>4
    <3>4. \A n \in 1 .. Len(refs') : n \in 1 .. Len(refs) /\ n # Len(refs) /\ refs'[n] = refs[n]
      BY <3>2, <3>3
    <3>5. \A n \in 1 .. Len(refs) : n \in 1 .. Len(refs') \/ n = Len(refs)
      BY <3>2, <3>3
    <3>6. Nodes(refs') \ {Frame} = Nodes(refs) \ {Frame}
      BY <3>2, <3>4, <3>5 DEF Nodes
    <3>7. EachOnce(refs')
      BY <1>2, <3>4 DEF EachOnce
    <3>8. FrameOnTop(refs')
      BY <1>2, <3>4 DEF FrameOnTop
    <3> QED
      BY <3>3, <3>6, <3>7, <3>8
  <2> QED
    BY <2>1, <2>2
<1>4. TypeInv'
  BY <1>1, <1>3 DEF IInv, TypeInv, Made
<1>5. ListInv'
  BY <1>1, <1>2, <1>3 DEF ListInv, Referencing
<1>6. LifeInv' /\ RootsInv'
  BY <1>1 DEF IInv, LifeInv, RootsInv, Made
<1> QED
  BY <1>4, <1>5, <1>6 DEF IInv

(* The set keeps what the guest had when it copied the value.               *)
LEMMA SetSafe ==
    ASSUME IInv, jsonb_value_array_set
    PROVE  IInv'
<1>1. PICK a \in Held("array"), n \in 1 .. Length, m \in Held("array") \cup Held("string") :
         /\ ref_set' = [ref_set EXCEPT ![a][n] = m]
         /\ values' = [values EXCEPT ![a][n] = m]
  BY DEF jsonb_value_array_set, SetMember
<1>2. /\ UNCHANGED <<kind, into, ref, refs, guest, pending, garbage, alive, body, open>>
      /\ garbage = {}
  BY DEF jsonb_value_array_set, Running
<1>3. /\ a \in Made /\ kind[a] = "array" /\ m \in alive /\ m \in Refs
      /\ Len(kind) \in Nat /\ alive \subseteq Made
  BY ObjectsAssumption DEF Held, IInv, LifeInv, TypeInv, Made, Refs
<1> DEFINE set == [ref_set[a] EXCEPT ![n] = m]
           Sets == [1 .. Length -> Refs] \cup {<<>>}
<1>4. ref_set[a] \in [1 .. Length -> Refs]
  BY <1>3 DEF IInv, TypeInv
<1>5. set \in [1 .. Length -> Refs]
  BY <1>3, <1>4
<1>6. Elements(set) \subseteq Elements(ref_set[a]) \cup {m}
  BY <1>3, <1>4, <1>5 DEF Elements
<1>7. ref_set' = [ref_set EXCEPT ![a] = set] /\ values' = ref_set'
  BY <1>1 DEF IInv, TypeInv
<1> HIDE DEF set
<1>8. /\ ref_set' \in Seq(Sets) /\ Len(ref_set') = Len(kind)
      /\ ref_set'[a] = set /\ \A i \in Made : i # a => ref_set'[i] = ref_set[i]
  <2>1. ref_set \in Seq(Sets) /\ Len(ref_set) = Len(kind)
    BY DEF IInv, TypeInv
  <2>2. set \in Sets
    BY <1>5
  <2> HIDE DEF Sets
  <2>3. a \in 1 .. Len(ref_set)
    BY <1>3, <2>1 DEF Made
  <2>4. [ref_set EXCEPT ![a] = set] \in Seq(Sets)
    BY <2>1, <2>2, <2>3
  <2>5. Len([ref_set EXCEPT ![a] = set]) = Len(ref_set)
    BY <2>1, <2>2, <2>3
  <2>6. \A i \in 1 .. Len(ref_set) : [ref_set EXCEPT ![a] = set][i] = IF i = a THEN set ELSE ref_set[i]
    BY <2>1, <2>3
  <2> QED
    BY <1>7, <2>1, <2>3, <2>4, <2>5, <2>6 DEF Made
<1>9. TypeInv'
  BY <1>2, <1>3, <1>5, <1>7, <1>8 DEF IInv, TypeInv, Made
<1>10. ListInv' /\ LifeInv'
  BY <1>2 DEF IInv, ListInv, LifeInv, Referencing, Made
<1>11. RootsInv'
  <2> SUFFICES ASSUME NEW i \in alive
               PROVE  /\ into[i] # None => into[i] \in alive \ garbage
                      /\ Elements(ref_set'[i]) \subseteq alive \ garbage
    BY <1>2 DEF RootsInv
  <2>1. /\ into[i] # None => into[i] \in alive \ garbage
        /\ Elements(ref_set[i]) \subseteq alive \ garbage
    BY DEF IInv, RootsInv
  <2>2. CASE i = a
    BY <1>2, <1>3, <1>6, <1>8, <2>1, <2>2
  <2>3. CASE i # a
    BY <1>3, <1>8, <2>1, <2>3
  <2> QED
    BY <2>2, <2>3
<1> QED
  BY <1>9, <1>10, <1>11 DEF IInv

LEMMA NoObjectYet == Init => IInv
<1> SUFFICES ASSUME Init PROVE IInv
  OBVIOUS
<1>1. TypeInv
  BY ObjectsAssumption DEF Init, TypeInv, Made
<1>2. LifeInv /\ RootsInv
  BY DEF Init, LifeInv, RootsInv
<1>3. ListInv
  BY DEF Init, ListInv, Nodes, EachOnce, FrameOnTop
<1> QED
  BY <1>1, <1>2, <1>3 DEF IInv

LEMMA StepSafe == IInv /\ [Next]_vars => IInv'
<1> SUFFICES ASSUME IInv, [Next]_vars PROVE IInv'
  OBVIOUS
<1>1. CASE UNCHANGED vars
  <2>1. TypeInv' /\ LifeInv' /\ RootsInv'
    BY <1>1 DEF vars, IInv, TypeInv, LifeInv, RootsInv, Made
  <2>2. ListInv'
    BY <1>1 DEF vars, IInv, ListInv, Referencing
  <2> QED
    BY <2>1, <2>2 DEF IInv
<1> QED
  BY <1>1, NativesMakeObjects, CollectorSafe, FinalizerSafe, GuestSafe, ArraysSafe, SetSafe
  DEF Next

-----------------------------------------------------------------------------
(* The list of local references is exact: whatever is made, dropped and     *)
(* collected, in whatever order the finalizers run (obj_finalizer,          *)
(* rst_obj_new), a freed object's node never stays in it, and the node that  *)
(* an array's converter pops is its own.                                    *)
THEOREM ListStaysExact == Spec => []ListIsExact
<1>1. IInv => ListIsExact
  BY ByPlaces DEF IInv, TypeInv
<1> QED
  BY <1>1, NoObjectYet, StepSafe, PTL DEF Spec

(* No object that can still be read points into memory that was freed, or   *)
(* is about to be.                                                          *)
THEOREM OwnersOutlive == Spec => []BodiesReadable
<1>1. IInv => BodiesReadable
  BY DEF IInv, TypeInv, LifeInv, RootsInv, BodiesReadable
<1> QED
  BY <1>1, NoObjectYet, StepSafe, PTL DEF Spec
=============================================================================
