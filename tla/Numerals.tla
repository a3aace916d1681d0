------------------------------ MODULE Numerals ------------------------------
(* Numbers written in digits, the highest first. *)
EXTENDS Integers, Sequences

\* The number that the digits write in a base: one more digit at a time.
Numeral(digits, base) ==
    LET value[i \in 0..Len(digits)] == IF i = 0 THEN 0 ELSE base * value[i - 1] + digits[i]
    IN  value[Len(digits)]
=============================================================================
