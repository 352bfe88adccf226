-------------------------------- MODULE Text --------------------------------
(***************************************************************************)
(* Texts as a guest sees them (text.c, stringbuilder.c): UTF-8 in the        *)
(* database, UTF-16 code units and characters to the guest, built in a       *)
(* StringInfo that takes single bytes too, so that a text may be damaged.    *)
(***************************************************************************)
EXTENDS Integers, Sequences, SequencesExt, FiniteSetsExt

CONSTANTS
    Loose,     \* the bytes a guest writes one at a time
    MaxBytes   \* bound: of the builder and the text together

(* One character of each length in UTF-8, and the one that ends a C string.  *)
Width == [nul |-> 1, a |-> 1, e |-> 2, euro |-> 3, clef |-> 4]
Chars == DOMAIN Width

\* A byte is told apart by the character it is of and its place in it.
Bytes == {<<c, i>> \in Chars \X (1 .. 4) : i <= Width[c]}

ASSUME TextAssumption == Loose \subseteq Bytes /\ MaxBytes \in Nat

VARIABLES
    sb,        \* the builder's bytes
    txt,       \* a text of the guest
    cursor,    \* where the reader of that text is; -1: none reads it
    read       \* what it has returned

vars == <<sb, txt, cursor, read>>

Encode(c) == [i \in 1 .. Width[c] |-> <<c, i>>]
EncodeAll(cs) == FlattenSeq([i \in DOMAIN cs |-> Encode(cs[i])])

\* pg_mblen looks at the first byte only, and takes a stray one for a character.
pg_mblen(b) == IF b[2] = 1 THEN Width[b[1]] ELSE 1

Garbage == "?"

CharsOf(t) == LET first == SelectSeq(t, LAMBDA b : b[2] = 1) IN [i \in DOMAIN first |-> first[i][1]]

Whole(t) == EncodeAll(CharsOf(t)) = t

\* pg_mb2wchar_with_len on bytes that are as many as the first one says.
Decode(bs) == IF bs = Encode(bs[1][1]) THEN bs[1][1] ELSE Garbage

-----------------------------------------------------------------------------
(* UTF-16                                                                   *)

\* Code units of a character: its value, or the halves of a surrogate pair.
Unit(c) == <<c, "unit">>
High(c) == <<c, "high">>
Low(c) == <<c, "low">>

UnitsFor(ch) == IF ch < 4 THEN 1 ELSE 2

\* Slip: a character cut off by the end of the text is counted.
CountsTheRest(ch) == UnitsFor(ch)

\* A character cut off by the end of the text is not counted.
CutOff(ch) == 0

utf16_count_code_units(t) ==
    LET count[at \in 0 .. Len(t)] ==
            IF at = Len(t) THEN 0
            ELSE LET ch == pg_mblen(t[at + 1]) IN
                 IF at + ch > Len(t) THEN CutOff(ch) ELSE UnitsFor(ch) + count[at + ch]
    IN count[0]

Error == <<"error", "none">>

\* What is read where the bytes of the text have ended.
Outside == <<"outside", "none">>

(* utf16_char_code_at walks to the character that holds the unit and relies    *)
(* on the number of units alone not to leave the text.                       *)
utf16_char_code_at(t, i) ==
    LET size == utf16_count_code_units(t)
        index == IF i < 0 THEN i + size ELSE i
        walk[at \in 0 .. Len(t) + 3, units \in 0 .. 2 * Len(t)] ==
            IF at >= Len(t) THEN Outside
            ELSE LET ch == pg_mblen(t[at + 1])
                     past == units + UnitsFor(ch)
                     c == Decode(SubSeq(t, at + 1, at + ch))
                 IN IF past <= index THEN walk[at + ch, past]
                    ELSE IF at + ch > Len(t) THEN Outside
                    ELSE IF ch < 4 THEN Unit(c)
                    ELSE IF past - 1 = index THEN Low(c) ELSE High(c)
    IN IF index < 0 \/ index >= size THEN Error ELSE walk[0, 0]

utf16(t) == [i \in 1 .. utf16_count_code_units(t) |-> utf16_char_code_at(t, i - 1)]

\* Each half of a surrogate pair stands beside the other.
Paired(us) ==
    \A i \in DOMAIN us :
       /\ us[i][2] = "high" => i < Len(us) /\ us[i + 1][2] = "low"
       /\ us[i][2] = "low" => i > 1 /\ us[i - 1][2] = "high"

(* utf16_from_char_code_array: a length other than 0 is adjusted and then not  *)
(* looked at, so that everything from the start on is converted; <<Error>> is  *)
(* the exception it sets.                                                    *)
utf16_from_char_code_array(us, s, length) ==
    LET start == IF s < 0 THEN s + Len(us) ELSE s
        tail == SubSeq(us, start + 1, Len(us))
    IN IF start \notin 0 .. Len(us) THEN <<Error>>
       ELSE IF length = 0 THEN <<>>
       ELSE IF ~ Paired(tail) THEN <<Error>>
       ELSE FlattenSeq([i \in DOMAIN tail |-> IF tail[i][2] = "low" THEN <<>> ELSE Encode(tail[i][1])])

-----------------------------------------------------------------------------
(* The builder and the reader                                               *)

(* pg_mbcharcliplen: the bytes of the first characters, none for a negative    *)
(* number of them, and only up to a byte that is zero.                       *)
pg_mbcharcliplen(t, limit) ==
    LET clip[at \in 0 .. Len(t) + 4, n \in 0 .. Len(t) + 4] ==
            IF at >= Len(t) \/ n >= limit \/ t[at + 1][1] = "nul" THEN at
            ELSE clip[at + pg_mblen(t[at + 1]), n + 1]
    IN clip[0, 0]

\* Slip: the length counts from the start of the text.
LengthFromStart(t, start, len) == pg_mbcharcliplen(t, len) - pg_mbcharcliplen(t, start)

ClippedTo(t, start, len) ==
    LET from == pg_mbcharcliplen(t, start)
    IN pg_mbcharcliplen(SubSeq(t, from + 1, Len(t)), len)

Substring(t, start, len) ==
    LET from == pg_mbcharcliplen(t, start)
    IN SubSeq(t, from + 1, from + ClippedTo(t, start, len))

Init == sb = <<>> /\ txt = <<>> /\ cursor = -1 /\ read = <<>>

Writes(bytes) ==
    /\ Len(sb) + Len(bytes) + Len(txt) <= MaxBytes
    /\ sb' = sb \o bytes
    /\ UNCHANGED <<txt, cursor, read>>

\* pg_unicode_to_server refuses a code point of zero.
sb_write_char == \E c \in Chars \ {"nul"} : Writes(Encode(c))

sb_write_byte == \E b \in Loose : Writes(<<b>>)

sb_write_string == Writes(txt)

\* Where a damaged text is clipped, past its end perhaps, is PostgreSQL's.
sb_write_substring ==
    \E start \in -1 .. 2, len \in 1 .. 2 : Whole(txt) /\ Writes(Substring(txt, start, len))

\* The bytes of the text as a bytea; out of bounds is an error.
sb_write_bytes ==
    \E start \in 0 .. Len(txt), len \in 1 .. 2 :
       start + len <= Len(txt) /\ Writes(SubSeq(txt, start + 1, start + len))

(* The guest makes a text and goes on with it and a reader of it, keeping the   *)
(* builder or letting it go.                                                 *)
MakesText(t) ==
    /\ sb' \in {sb, <<>>}
    /\ txt' = t
    /\ Len(sb') + Len(txt') <= MaxBytes
    /\ cursor' = -1 /\ read' = <<>>

sb_to_string == MakesText(sb)

utf16_from_code_point == \E c \in Chars : MakesText(Encode(c))

\* The units of the text, from the guest's array.
FromUnits ==
    \E s \in -2 .. 2, length \in -1 .. 1 :
       LET t == utf16_from_char_code_array(utf16(txt), s, length)
       IN Whole(txt) /\ t # <<Error>> /\ MakesText(t)

sb_new ==
    /\ sb # <<>> /\ sb' = <<>>
    /\ UNCHANGED <<txt, cursor, read>>

\* A reader shares the bytes of its text.
sb_read_text ==
    /\ cursor' = 0 /\ read' = <<>>
    /\ UNCHANGED <<sb, txt>>

(* A character that is cut off by the end is read as a question mark, byte by  *)
(* byte; at the end there is -1 and nothing moves.                           *)
sb_read_char ==
    /\ cursor \in 0 .. Len(txt) - 1
    /\ LET ch == pg_mblen(txt[cursor + 1]) IN
       IF cursor + ch <= Len(txt)
       THEN /\ read' = Append(read, Decode(SubSeq(txt, cursor + 1, cursor + ch)))
            /\ cursor' = cursor + ch
       ELSE /\ read' = Append(read, Garbage)
            /\ cursor' = cursor + 1
    /\ UNCHANGED <<sb, txt>>

Next ==
    \/ sb_new \/ sb_write_char \/ sb_write_byte \/ sb_write_string \/ sb_write_substring
    \/ sb_write_bytes \/ sb_to_string \/ utf16_from_code_point \/ FromUnits
    \/ sb_read_text \/ sb_read_char

Spec == Init /\ [][Next]_vars

-----------------------------------------------------------------------------
(* Properties                                                               *)

\* The code units of a sequence of characters, by definition.
Utf16Of(cs) == FlattenSeq([i \in DOMAIN cs |->
                  IF cs[i] = "clef" THEN <<High(cs[i]), Low(cs[i])>> ELSE <<Unit(cs[i])>>])

(* A whole text is to the guest the code units of its characters, and made   *)
(* again from them.  Of any text, damaged or not, every index below the length *)
(* it reports, or from its end (195), finds a unit of it: the walk that checks  *)
(* nothing (199) never reads past the last byte; and wherever the text is cut,  *)
(* its units stay those it had, as far as it reaches.                        *)
UnitsAgree ==
    LET us == utf16(txt) IN
    /\ Whole(txt) => us = Utf16Of(CharsOf(txt)) /\ utf16_from_char_code_array(us, 0, -1) = txt
    /\ \A i \in DOMAIN us :
          us[i] \notin {Error, Outside} /\ utf16_char_code_at(txt, i - 1 - Len(us)) = us[i]
    /\ \A n \in 0 .. Len(txt) - 1 : IsPrefix(utf16(SubSeq(txt, 1, n)), us)

(* What a reader returns of a whole text is its characters, one each; a        *)
(* damaged one is read to its end all the same.  Substrings are counted in      *)
(* characters, but end where a zero byte is.                                 *)
ReadsWhatIsWritten ==
    /\ Whole(txt) => IsPrefix(read, CharsOf(txt)) /\ (cursor = Len(txt) => read = CharsOf(txt))
    /\ cursor <= Len(txt)
    /\ Whole(txt) /\ ~ Contains(CharsOf(txt), "nul") =>
          \A start \in 0 .. 3, len \in 0 .. 3 :
             LET cs == SubSeq(CharsOf(txt), start + 1, Min({start + len, Len(CharsOf(txt))}))
             IN Substring(txt, start, len) = EncodeAll(cs)
=============================================================================
