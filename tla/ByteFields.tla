----------------------------- MODULE ByteFields -----------------------------
(***************************************************************************)
(* Fields of the byte formats: how they are written, and how a parser with *)
(* a cursor takes them again.  The four parsers of the code (format.rs and *)
(* store.rs by offset, EnvelopeByteParser, ReplayByteParser and device.rs' *)
(* ByteParser) take a field or return Err, and no caller goes on after an  *)
(* error, so they are one reader here and differ in their field lists.     *)
(*                                                                         *)
(* Integers keep their width in bytes and their little-endian order; what  *)
(* is scaled is the byte, which takes HexDigits^2 values instead of 256.   *)
(***************************************************************************)
EXTENDS Naturals, Sequences, SequencesExt

CONSTANT HexDigits      \* bound: values of a hex digit, 16 in the code

ASSUME HexDigitsAssumption == HexDigits \in Nat \ {0, 1}

Base == HexDigits * HexDigits
Byte == 0 .. (Base - 1)

\* One byte that is part of no UTF-8 string; the others are.
NotUtf8 == Base - 1

-----------------------------------------------------------------------------
(***************************************************************************)
(* Writing: to_le_bytes, a length or a count before what it counts, and a  *)
(* flag byte before an optional field (<<>> or a sequence of one).         *)
(***************************************************************************)
Little(n, width) == [i \in 1 .. width |-> (n \div Base ^ (i - 1)) % Base]

U8(n) == Little(n, 1)
U16(n) == Little(n, 2)
U32(n) == Little(n, 4)
U64(n) == Little(n, 8)

WithLen(bytes) == U32(Len(bytes)) \o bytes
WithCount(encoded) == U32(Len(encoded)) \o FlattenSeq(encoded)
Flagged(encoded) == IF encoded = <<>> THEN U8(0) ELSE U8(1) \o encoded[1]

-----------------------------------------------------------------------------
(***************************************************************************)
(* A field to read: its name, what it is, the width of the array, or of    *)
(* the number, length or count it starts with, the values that number may  *)
(* have, and the fields inside it.                                         *)
(***************************************************************************)
Field(name, is, width, allowed, inner) ==
    [name |-> name, is |-> is, width |-> width, allowed |-> allowed, inner |-> inner]

Magic(bytes) == Field("magic", "magic", Len(bytes), {bytes}, <<>>)
Number(name, width, allowed) == Field(name, "number", width, allowed, <<>>)
Array(name, len) == Field(name, "array", len, {}, <<>>)
Counted(name, width, lens) == Field(name, "counted", width, lens, <<>>)
Text(name, lens) == Field(name, "text", 4, lens, <<>>)
Maybe(name, inner) == Field(name, "maybe", 1, {0, 1}, inner)
Repeated(name, counts, inner) == Field(name, "repeated", 4, counts, inner)
TillEnd(name, inner) == Field(name, "till_end", 0, {}, inner)
Rest(name) == Field(name, "rest", 0, {}, <<>>)

(***************************************************************************)
(* The state of a parser: whether it is still going, the bytes it has      *)
(* taken, and the values of the fields so far, by name.                    *)
(***************************************************************************)
Parser(at) == [ok |-> TRUE, at |-> at, out |-> <<>>]
Rejected == [ok |-> FALSE, at |-> 0, out |-> <<>>]

Slice(bytes, at, len) == SubSeq(bytes, at + 1, at + len)
Fits(bytes, at, len) == at + len <= Len(bytes)
NumberAt(bytes, at, width) ==
    FoldRight(LAMBDA b, n : b + Base * n, Slice(bytes, at, width), 0)

Utf8(bytes) == \A i \in DOMAIN bytes : bytes[i] # NotUtf8

RECURSIVE ReadFields(_, _, _), ReadMany(_, _, _, _, _)

\* Reads inner up to `times` times, or until the input ends.
ReadMany(inner, bytes, r, times, tillEnd) ==
    LET After(one) == [one EXCEPT !.out = Append(r.out, one.out)]
    IN  IF ~r.ok \/ times = 0 \/ (tillEnd /\ r.at = Len(bytes)) THEN r
        ELSE ReadMany(inner, bytes, After(ReadFields(inner, bytes, r.at)), times - 1, tillEnd)

\* What is left to read of a field whose first f.width bytes are the number.
ReadRest(f, bytes, next, number) ==
    LET Got(len) == [ok |-> TRUE, at |-> next + len, out |-> Slice(bytes, next, len)]
        tillEnd == f.is = "till_end"
    IN  CASE f.is \in {"till_end", "maybe", "repeated"} ->
                IF tillEnd \/ number \in f.allowed
                THEN ReadMany(f.inner, bytes, Parser(next),
                              IF tillEnd THEN Len(bytes) ELSE number, tillEnd)
                ELSE Rejected
          [] f.is \in {"counted", "text"} ->
                IF /\ number \in f.allowed
                   /\ Fits(bytes, next, number)
                   /\ f.is = "text" => Utf8(Slice(bytes, next, number))
                THEN Got(number) ELSE Rejected
          [] f.is = "number" ->
                IF number \in f.allowed THEN [Parser(next) EXCEPT !.out = number] ELSE Rejected
          [] f.is = "rest" -> Got(Len(bytes) - next)

ReadField(f, bytes, from) ==
    LET next == from + f.width
        array == Slice(bytes, from, f.width)
    IN  IF ~Fits(bytes, from, f.width) THEN Rejected
        ELSE IF f.is = "array" \/ (f.is = "magic" /\ array \in f.allowed)
        THEN [Parser(next) EXCEPT !.out = array]
        ELSE IF f.is = "magic" THEN Rejected
        ELSE ReadRest(f, bytes, next, NumberAt(bytes, from, f.width))

\* The fields one after the other, from offset `from`.
ReadFields(fields, bytes, from) ==
    LET Named(r, f, one) ==
            [one EXCEPT !.out = IF one.ok /\ f.is # "magic"
                                THEN r.out @@ (f.name :> one.out) ELSE r.out]
        Take(r, f) == IF r.ok THEN Named(r, f, ReadField(f, bytes, r.at)) ELSE r
    IN  FoldLeft(Take, Parser(from), fields)

\* All of the bytes: is_empty() at the end, or the trailing garbage check.
ReadAll(fields, bytes) ==
    LET Whole(r) == IF r.ok /\ r.at = Len(bytes) THEN r ELSE Rejected
    IN  Whole(ReadFields(fields, bytes, 0))
=============================================================================
