--------------------------- MODULE VariantEncode ---------------------------
(***************************************************************************)
(* Integers as bytes: protocol/src/tlv/variant_encode.cc.  Zigzag maps     *)
(* signed to unsigned numbers, small absolute values first; the variable   *)
(* length encoding writes seven bits to a byte, the lowest first, with the *)
(* top bit set on all but the last.                                        *)
(*                                                                         *)
(* w is the width in bits of the type.  Types narrower than int are        *)
(* promoted before they are negated or shifted; a type as wide as int is   *)
(* not, and negating its least value is undefined (the operators are used  *)
(* on the other values only).                                              *)
(***************************************************************************)
EXTENDS Integers, Sequences

CONSTANT IntBits   \* width of int: 32 in the code

IntBitsAssumption == IntBits \in Nat \ {0}
ASSUME IntBitsAssumption

\* b to the n-th.  (Written out, since the prover knows b^n of literals only.)
Power(b, n) ==
    LET power[i \in Nat] == IF i = 0 THEN 1 ELSE b * power[i - 1]
    IN  power[n]

\* Conversions to the unsigned and to the signed type of w bits.
Unsigned(v, w) == v % Power(2, w)
Signed(v, w) ==
    LET u == Unsigned(v, w) IN IF u >= Power(2, w - 1) THEN u - Power(2, w) ELSE u

Least(w) == -Power(2, w - 1)
Greatest(w) == Power(2, w - 1) - 1
Defined(v, w) == v # Least(w) \/ w < IntBits

\* Mutated: negative numbers take the even codes as well.
ZIGZAG_ENCODE_EVEN(v, w) == IF v >= 0 THEN Unsigned(2 * v, w) ELSE Unsigned(2 * (-v), w)

ZIGZAG_ENCODE(v, w) == IF v >= 0 THEN Unsigned(2 * v, w) ELSE Unsigned(2 * (-v) - 1, w)

\* v + 1 wraps around in a type that is not promoted.
ZIGZAG_DECODE(u, w) ==
    LET next == IF w < IntBits THEN u + 1 ELSE Unsigned(u + 1, w)
    IN  IF u % 2 = 1 THEN Signed(-Signed(next \div 2, w), w) ELSE Signed(u \div 2, w)

\* BUFLEN_UINT8 .. BUFLEN_UINT64: the most bytes a number of w bits takes.
BUFLEN(w) == w \div 7 + 1

\* VariantEncodeUint8 .. VariantEncodeUint64 into a buffer of len bytes: the
\* bytes written, none when the buffer may be too short.
VARIANT_ENCODE(u, w, len) ==
    LET last == CHOOSE k \in 0..BUFLEN(w) :
                    u < Power(128, k + 1) /\ (k = 0 \/ u >= Power(128, k))
        group(k) == (u \div Power(128, k)) % 128
    IN  IF len < BUFLEN(w) THEN <<>>
        ELSE [i \in 1..last + 1 |-> IF i <= last THEN group(i - 1) + 128 ELSE group(i - 1)]

\* VariantDecodeUint8 .. VariantDecodeUint64: the number, or -1 for false when
\* no byte within the limit ends it.  Bits past the width are shifted out.
VARIANT_DECODE(bytes, w) ==
    LET limit == IF Len(bytes) < BUFLEN(w) THEN Len(bytes) ELSE BUFLEN(w)
        ends == {i \in 1..limit : bytes[i] < 128}
        last == CHOOSE i \in ends : \A j \in ends : i <= j
        sum[i \in 0..limit] ==
            IF i = 0 THEN 0 ELSE sum[i - 1] + (bytes[i] % 128) * Power(128, i - 1)
    IN  IF ends = {} THEN -1 ELSE Unsigned(sum[last], w)
=============================================================================
