------------------------------- MODULE Coding -------------------------------
(***************************************************************************)
(* The encoding of numbers in a sample index (server/db/coding.rs): signed *)
(* numbers are folded onto unsigned ones, and those take one to five       *)
(* bytes, the low bits first.  The program's words have 32 bits, and its   *)
(* bytes carry 7 of them and a mark that more bytes follow.                *)
(***************************************************************************)
EXTENDS Integers, Sequences
LOCAL INSTANCE FiniteSetsExt

CONSTANTS Bits,    \* of a word
          Group    \* bits that a byte carries

ASSUME CodingAssumption ==
  /\ Group \in Nat \ {0}
  /\ Bits \in (4 * Group + 1)..(5 * Group)

Word     == 0..(2^Bits - 1)
Signed   == -(2^(Bits - 1))..(2^(Bits - 1) - 1)
More     == 2^Group             \* the mark, and the number of values of a group
Byte     == 0..(2 * More - 1)

-----------------------------------------------------------------------------

\* (i << 1) ^ (i >> 31): the shift to the right is all ones if i is negative,
\* which complements the other.
Zigzag32(i) ==
  LET doubled == (2 * i) % 2^Bits
  IN  IF i >= 0 THEN doubled ELSE 2^Bits - 1 - doubled

\* (i >> 1) ^ -(i & 1).
Unzigzag32(u) == IF u % 2 = 0 THEN u \div 2 ELSE -(u \div 2) - 1

\* append_varint32: what is added to the buffer.
Varint(u) ==
  LET n == Min({k \in 1..4 : u < 2^(k * Group)} \cup {5})
  IN  [k \in 1..n |-> ((u \div 2^((k - 1) * Group)) % More)
                        + (IF k < n THEN More ELSE 0)]

NotAVarint == [ok |-> FALSE]

\* The number in the n bytes of data from index i, counted from 0.
Number(data, i, n) ==
  MapThenSumSet(LAMBDA k : (data[i + k] % More) * 2^((k - 1) * Group), 1..n)

\* How many bytes from index i a number could take.
Lengths(data, i) == {k \in 1..(Len(data) - i) : data[i + k] < More}

\* decode_varint32_slow: a byte after the fifth, or bits of the fifth beyond the
\* word, are errors, and so is the end of the data.
DecodeSlow(data, i) ==
  LET n == Min(Lengths(data, i) \cup {6})
  IN  IF n = 6 \/ (n = 5 /\ data[i + 5] >= 2^(Bits - 4 * Group)) THEN NotAVarint
      ELSE [ok |-> TRUE, value |-> Number(data, i, n), next |-> i + n]

\* decode_varint32: short numbers are tried first.
Decode(data, i) ==
  IF Lengths(data, i) \cap 1..3 = {} THEN DecodeSlow(data, i)
  ELSE LET n == Min(Lengths(data, i))
       IN  [ok |-> TRUE, value |-> Number(data, i, n), next |-> i + n]

-----------------------------------------------------------------------------

\* Every number is read back from what was written, wherever it stands, and not
\* from less than that; and what is read back is a word (the tests of coding.rs
\* try five numbers).
VarintsAreRead ==
  \A u \in Word :
    LET v == Varint(u)
        n == Len(v)
    IN  /\ \A k \in 1..n : v[k] \in Byte
        /\ \A before \in {<< >>, << 0 >>, << More >>}, after \in {<< >>, << More >>} :
             LET i == Len(before)
             IN  /\ Decode(before \o v \o after, i)
                      = [ok |-> TRUE, value |-> u, next |-> i + n]
                 /\ DecodeSlow(before \o v \o after, i)
                      = Decode(before \o v \o after, i)
        /\ \A k \in 0..(n - 1) : ~Decode(SubSeq(v, 1, k), 0).ok

WordsAreRead ==
  \A data \in [1..5 -> {0, 1, More - 1, More, More + 1, 2 * More - 1}] :
    LET d == Decode(data, 0) IN d.ok => d.value \in Word /\ d.next <= 5

SignsAreRead ==
  \A i \in Signed : Zigzag32(i) \in Word /\ Unzigzag32(Zigzag32(i)) = i
=============================================================================
