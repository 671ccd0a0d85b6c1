-------------------------- MODULE WrappingIntegers --------------------------
(***************************************************************************)
(* Conversion between 64-bit absolute sequence numbers and the 32-bit      *)
(* numbers carried by TCP headers (wrapping_integers.hh, .cc).  The        *)
(* modulus, 2^32 in the code, is a parameter so that small models wrap.    *)
(* Absolute numbers count bytes of one connection and are taken to stay    *)
(* below 2^64.                                                             *)
(***************************************************************************)
EXTENDS Integers

CONSTANT Modulus

ASSUME ModulusAssumption == Modulus \in Nat \ {0}

\* The raw values a WrappingInt32 can hold.
WrappingInt32 == 0 .. Modulus - 1

wrap(n, isn) == (n + isn) % Modulus

\* The distance of n from isn, as the uint32_t subtraction computes it.
offset_from(n, isn) == (n - isn) % Modulus

\* Mutant: the comparison is reversed.
nearer_reversed(low, checkpoint) ==
    IF low + Modulus - checkpoint > checkpoint - low THEN low + Modulus ELSE low

\* Of the two candidates around the checkpoint, low <= checkpoint < low + Modulus,
\* the nearer one, and the lower one when both are equally near.
nearer(low, checkpoint) ==
    IF low + Modulus - checkpoint < checkpoint - low THEN low + Modulus ELSE low

unwrap(n, isn, checkpoint) ==
    LET offset == offset_from(n, isn)
        factor == (checkpoint - offset) \div Modulus
    IN  IF checkpoint > offset
          THEN nearer(offset + Modulus * factor, checkpoint)
          ELSE offset

\* How far two absolute numbers are apart.
distance(a, b) == IF a < b THEN b - a ELSE a - b
=============================================================================
