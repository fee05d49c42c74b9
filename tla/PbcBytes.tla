------------------------------ MODULE PbcBytes -------------------------------
(* The bytes of a protocol buffer: varints and zigzag (varint.c), fixed     *)
(* numbers (context.h, wmessage.c, pattern.c) and the cutting of a buffer   *)
(* into atoms (context.c). The widths are parameters: a byte has a marker   *)
(* bit and Group bits of payload, an unsigned int has Word bits. The code   *)
(* has Group = 7 and Word = 32. A number of two words is [low, hi].         *)
EXTENDS PbcMap

CONSTANTS Word, Group

ASSUME WidthsOK ==
  /\ {Word, Group} \subseteq Nat \ {0}
  /\ Word % (Group + 1) = 0

W == 2 ^ Word                \* an unsigned int is in 0..(W - 1)
Marker == 2 ^ Group          \* the bit that says another byte follows
Byte == 0..(2 * Marker - 1)
FixedBytes == Word \div (Group + 1)                  \* 4
MaxBytes == (2 * Word + Group - 1) \div Group        \* 10

Unsigned(v) == v.low + W * v.hi
Signed(low) == IF low < W \div 2 THEN low ELSE low - W
Pair(n) == [low |-> n % W, hi |-> (n \div W) % W]

(* The number with the given digits, the lowest one first. *)
OfDigits(digits, base) == FoldRight(LAMBDA d, n : d + base * n, digits, 0)

-----------------------------------------------------------------------------
(* varint.c *)

(* The least number of groups that hold n, the lowest one first; all but    *)
(* the last carry the marker.                                               *)
Groups(n) == Min({k \in 1..MaxBytes : n < Marker ^ k})

_pbcV_encode(n) ==
  [i \in 1..Groups(n) |->
     ((n \div Marker ^ (i - 1)) % Marker) + (IF i < Groups(n) THEN Marker ELSE 0)]

_pbcV_encode32(n) == _pbcV_encode(n % W)

(* Of a buffer of at least MaxBytes bytes. *)
_pbcV_decode(b) ==
  LET ends == {i \in 1..MaxBytes : b[i] < Marker}
      n == Min(ends)
  IN IF ends = {} THEN [len |-> MaxBytes, low |-> 0, hi |-> 0]
     ELSE [len |-> n] @@ Pair(OfDigits([i \in 1..n |-> b[i] % Marker], Marker))

(* Of a number n of bits bits in two's complement. *)
Zigzag(n, bits) == IF n < 2 ^ (bits - 1) THEN 2 * n ELSE 2 * (2 ^ bits - n) - 1

_pbcV_zigzag32(n) == _pbcV_encode32(Zigzag(n, Word))
_pbcV_zigzag(v) == _pbcV_encode(Zigzag(Unsigned(v), 2 * Word))

Dezigzag(n, bits) ==
  IF n % 2 = 0 THEN n \div 2 ELSE 2 ^ bits - 1 - n \div 2

_pbcV_dezigzag64(v) == Pair(Dezigzag(Unsigned(v), 2 * Word))

(* The high word is the sign of the number as it was encoded. *)
_pbcV_dezigzag32(v) ==
  [low |-> Dezigzag(v.low, Word), hi |-> IF v.low >= W \div 2 THEN W - 1 ELSE 0]

-----------------------------------------------------------------------------
(* Fixed numbers: the bytes of a word, the lowest one first. *)

int32_encode(low) ==
  [i \in 1..FixedBytes |-> (low \div (2 * Marker) ^ (i - 1)) % (2 * Marker)]

int64_encode(v) == int32_encode(v.low) \o int32_encode(v.hi)

Fixed(b, at) == OfDigits(SubSeq(b, at + 1, at + FixedBytes), 2 * Marker)

Fixed32(b, at) == [low |-> Fixed(b, at), hi |-> 0]
Fixed64(b, at) == [low |-> Fixed(b, at), hi |-> Fixed(b, at + FixedBytes)]

-----------------------------------------------------------------------------
(* context.c *)

WT_VARINT == 0
WT_BIT64 == 1
WT_LEND == 2
WT_BIT32 == 5

(* The number that begins after `at` bytes of b. It is decoded in a buffer   *)
(* whose bytes past the end of b are not initialised: tail.                 *)
NumberAt(b, at, tail) == _pbcV_decode(SubSeq(b, at + 1, Len(b)) \o tail)

(* The atom whose key takes the first `at` bytes of b, and the offset where *)
(* the next one begins; NULL if it is not whole. n is the number there.     *)
AtomAt(b, at, wire_id, n) ==
  LET cap == Len(b) - at
      wt == wire_id % 8
      Atom(v, next) == [wire_id |-> Signed(wire_id), v |-> v, next |-> next]
  IN CASE wt = WT_VARINT /\ n.len <= cap ->
            Atom([low |-> n.low, hi |-> n.hi], at + n.len)
       [] wt = WT_BIT64 /\ 2 * FixedBytes <= cap ->
            Atom(Fixed64(b, at), at + 2 * FixedBytes)
       [] wt = WT_LEND /\ (n.len + n.low) % W <= cap /\ n.hi = 0 ->
            Atom([start |-> at + n.len, end |-> at + n.len + n.low],
                 at + n.len + n.low)
       [] wt = WT_BIT32 /\ FixedBytes <= cap ->
            Atom(Fixed32(b, at), at + FixedBytes)
       [] OTHER -> NULL

(* The atom that begins after `start` bytes of b. *)
wiretype_decode(b, start, tail) ==
  LET key == NumberAt(b, start, tail)
  IN IF key.len > Len(b) - start \/ key.hi # 0 THEN NULL
     ELSE AtomAt(b, start + key.len, key.low, NumberAt(b, start + key.len, tail))

(* wire_id is an int: an id of 2 ^ 28 or more comes out negative.           *)
Wiretype(a) == a.wire_id % 8
Id(a) == a.wire_id \div 8

(* The bytes an atom of type WT_LEND spans. *)
Slice(b, a) == SubSeq(b, a.v.start + 1, a.v.end)

(* An atom and those after it; nothing if there is none. *)
Before(d, From) ==
  IF d = NULL THEN [whole |-> FALSE, a |-> <<>>]
  ELSE [From[d.next] EXCEPT !.a = <<d>> \o @]

(* The atoms of b: their number, or minus the number of those before the    *)
(* one that could not be decoded.                                           *)
_pbcC_open(b, tail) ==
  LET From[s \in 0..Len(b)] ==
        IF s = Len(b) THEN [whole |-> TRUE, a |-> <<>>]
        ELSE Before(wiretype_decode(b, s, tail), From)
      Counted(all) ==
        [count |-> IF all.whole THEN Len(all.a) ELSE -Len(all.a), a |-> all.a]
  IN Counted(From[0])
=============================================================================
