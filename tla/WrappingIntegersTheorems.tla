---------------------- MODULE WrappingIntegersTheorems ----------------------
(***************************************************************************)
(* What wrap and unwrap compute, for every modulus and all arguments.      *)
(***************************************************************************)
EXTENDS WrappingIntegers, TLAPS

\* Division with remainder, as % and \div are used by wrap and unwrap.
LEMMA DivMod ==
    ASSUME NEW a \in Int
    PROVE  /\ a % Modulus \in 0 .. Modulus - 1
           /\ a \div Modulus \in Int
           /\ a = Modulus * (a \div Modulus) + (a % Modulus)
BY ModulusAssumption

LEMMA ModUnique ==
    ASSUME NEW a \in Int, NEW q \in Int, NEW r \in 0 .. Modulus - 1,
           a = Modulus * q + r
    PROVE  a % Modulus = r /\ a \div Modulus = q
BY ModulusAssumption

\* The uint32_t subtraction in unwrap recovers the wrapped number modulo 2^32.
LEMMA OffsetOfWrap ==
    ASSUME NEW n \in Nat, NEW i \in WrappingInt32
    PROVE  offset_from(wrap(n, i), i) = n % Modulus
<1> DEFINE q1 == (n + i) \div Modulus
           q2 == n \div Modulus
<1>1. i \in Int /\ n + i \in Int /\ n \in Int
  BY ModulusAssumption DEF WrappingInt32
<1>2. /\ n + i = Modulus * q1 + wrap(n, i)
      /\ n = Modulus * q2 + (n % Modulus)
      /\ q1 \in Int /\ q2 \in Int /\ wrap(n, i) \in 0 .. Modulus - 1
      /\ n % Modulus \in 0 .. Modulus - 1
  BY <1>1, DivMod DEF wrap
<1> HIDE DEF q1, q2
<1>3. /\ wrap(n, i) - i = Modulus * (q2 - q1) + (n % Modulus)
      /\ wrap(n, i) - i \in Int /\ q2 - q1 \in Int
  BY <1>1, <1>2, ModulusAssumption
<1> QED
  BY <1>2, <1>3, ModUnique DEF offset_from

\* unwrap either returns the offset itself (when the checkpoint is not past it)
\* or one of the two numbers congruent to it on either side of the checkpoint.
LEMMA UnwrapCases ==
    ASSUME NEW n \in WrappingInt32, NEW i \in WrappingInt32, NEW c \in Nat
    PROVE  LET o == offset_from(n, i) IN
           /\ o \in 0 .. Modulus - 1
           /\ c <= o => unwrap(n, i, c) = o
           /\ c > o => \E f \in Nat :
                          /\ o + Modulus * f <= c
                          /\ c < o + Modulus * f + Modulus
                          /\ unwrap(n, i, c) = nearer(o + Modulus * f, c)
<1> DEFINE o == offset_from(n, i)
           f == (c - o) \div Modulus
<1>1. n - i \in Int
  BY ModulusAssumption DEF WrappingInt32
<1>2. o \in 0 .. Modulus - 1
  BY <1>1, DivMod DEF offset_from
<1>3. c <= o => unwrap(n, i, c) = o
  BY <1>2, ModulusAssumption DEF unwrap
<1>4. ASSUME c > o
      PROVE  /\ f \in Nat
             /\ o + Modulus * f <= c
             /\ c < o + Modulus * f + Modulus
             /\ unwrap(n, i, c) = nearer(o + Modulus * f, c)
  <2>1. c - o \in Int
    BY <1>2, ModulusAssumption
  <2>2. f \in Int /\ (c - o) % Modulus \in 0 .. Modulus - 1
        /\ c - o = Modulus * f + ((c - o) % Modulus)
    BY <2>1, DivMod
  <2>3. unwrap(n, i, c) = nearer(o + Modulus * f, c)
    BY <1>4 DEF unwrap
  <2> HIDE DEF f, o
  <2>4. f \in Nat
    BY <1>2, <1>4, <2>2, ModulusAssumption
  <2> QED
    BY <1>2, <2>2, <2>3, <2>4, ModulusAssumption
<1> HIDE DEF f, o
<1>5. c > o => \E g \in Nat : /\ o + Modulus * g <= c
                              /\ c < o + Modulus * g + Modulus
                              /\ unwrap(n, i, c) = nearer(o + Modulus * g, c)
  BY <1>4
<1> QED
  BY <1>2, <1>3, <1>5 DEF o

\* Distinct multiples of the modulus are at least a modulus apart.
LEMMA MultiplesApart ==
    ASSUME NEW a \in Int, NEW b \in Int, a < b
    PROVE  Modulus * a + Modulus <= Modulus * b
<1>1. b - a - 1 \in Nat
  OBVIOUS
<1>2. Modulus * (b - a - 1) >= 0
  BY <1>1, ModulusAssumption
<1>3. Modulus * (b - a - 1) = Modulus * b - Modulus * a - Modulus
  BY ModulusAssumption
<1> QED
  BY <1>2, <1>3, ModulusAssumption

\* No number that wraps to the same 32-bit value is nearer to the checkpoint
\* than the result of unwrap, and the result wraps to the value it was given
\* (wrapping_integers.cc:26).
THEOREM UnwrapClosest ==
    ASSUME NEW a \in Nat, NEW m \in Nat, NEW i \in WrappingInt32, NEW c \in Nat,
           wrap(m, i) = wrap(a, i)
    PROVE  /\ unwrap(wrap(a, i), i, c) \in Nat
           /\ wrap(unwrap(wrap(a, i), i, c), i) = wrap(a, i)
           /\ distance(unwrap(wrap(a, i), i, c), c) <= distance(m, c)
<1> DEFINE o == a % Modulus
           r == unwrap(wrap(a, i), i, c)
<1>1. a + i \in Int /\ m + i \in Int /\ i \in Int /\ a \in Int /\ m \in Int /\ o \in Int
  BY DivMod, ModulusAssumption DEF WrappingInt32
<1>2. wrap(a, i) \in WrappingInt32
  BY <1>1, DivMod DEF wrap, WrappingInt32
<1>3. o = offset_from(wrap(a, i), i) /\ m % Modulus = o
  BY OffsetOfWrap
<1>4. PICK p \in Int : m = Modulus * p + o
  BY <1>1, <1>3, DivMod
<1>5. PICK k \in Nat : r = Modulus * k + o /\ distance(r, c) <= distance(m, c)
  <2>1. CASE c <= o
    <3>1. r = o /\ o \in 0 .. Modulus - 1
      BY <1>2, <1>3, <2>1, UnwrapCases
    <3>2. p >= 0
      <4>1. SUFFICES ASSUME p < 0 PROVE FALSE
        BY <1>4
      <4>2. Modulus * p + Modulus <= Modulus * 0
        BY <1>4, <4>1, MultiplesApart
      <4> QED
        BY <1>4, <3>1, <4>2, ModulusAssumption
    <3>3. m >= o
      BY <1>1, <1>4, <3>1, <3>2, ModulusAssumption
    <3>4. r = Modulus * 0 + o /\ distance(r, c) <= distance(m, c)
      BY <1>1, <2>1, <3>1, <3>3, ModulusAssumption DEF distance
    <3> QED
      BY <3>4
  <2>2. CASE c > o
    <3>1. o \in 0 .. Modulus - 1
      BY <1>2, <1>3, UnwrapCases
    <3>2. PICK f \in Nat : /\ o + Modulus * f <= c
                           /\ c < o + Modulus * f + Modulus
                           /\ r = nearer(o + Modulus * f, c)
      BY <1>2, <1>3, <2>2, UnwrapCases
    <3>3. m <= o + Modulus * f \/ m >= o + Modulus * f + Modulus
      <4>1. CASE p = f
        BY <1>1, <1>4, <4>1, <3>1, ModulusAssumption
      <4>2. CASE p < f
        BY <1>1, <1>4, <4>2, <3>1, MultiplesApart, ModulusAssumption
      <4>3. CASE f < p
        BY <1>1, <1>4, <4>3, <3>1, MultiplesApart, ModulusAssumption
      <4> QED
        BY <4>1, <4>2, <4>3
    <3>4. distance(r, c) <= distance(m, c)
      BY <1>1, <3>1, <3>2, <3>3, ModulusAssumption DEF nearer, distance
    <3>5. r = Modulus * f + o \/ r = Modulus * (f + 1) + o
      BY <3>1, <3>2, ModulusAssumption DEF nearer
    <3> QED
      BY <3>4, <3>5
  <2> QED
    BY <1>1, <2>1, <2>2
<1> DEFINE q == (a + i) \div Modulus
           qa == a \div Modulus
<1>6. /\ a + i = Modulus * q + wrap(a, i) /\ q \in Int
      /\ a = Modulus * qa + o /\ qa \in Int
      /\ wrap(a, i) \in 0 .. Modulus - 1 /\ o \in 0 .. Modulus - 1
  BY <1>1, DivMod DEF wrap
<1> HIDE DEF q, qa, o, r
<1>7. r \in Nat
  BY <1>5, <1>6, ModulusAssumption
<1>8. r + i = Modulus * (q + k - qa) + wrap(a, i) /\ r + i \in Int /\ q + k - qa \in Int
  BY <1>1, <1>5, <1>6, <1>7, ModulusAssumption
<1>9. wrap(r, i) = wrap(a, i)
  BY <1>6, <1>8, ModUnique DEF wrap
<1> QED
  BY <1>5, <1>7, <1>9 DEF r

\* A number less than half the modulus from the checkpoint survives the round
\* trip through a header field.
THEOREM UnwrapOfWrap ==
    ASSUME NEW a \in Nat, NEW i \in WrappingInt32, NEW c \in Nat,
           2 * distance(a, c) < Modulus
    PROVE  unwrap(wrap(a, i), i, c) = a
<1> DEFINE r == unwrap(wrap(a, i), i, c)
<1>1. r \in Nat /\ wrap(r, i) = wrap(a, i) /\ distance(r, c) <= distance(a, c)
  BY UnwrapClosest
<1> HIDE DEF r
<1>2. r % Modulus = a % Modulus
  BY <1>1, OffsetOfWrap
<1>3. PICK p \in Int, q \in Int : r = Modulus * p + (a % Modulus) /\ a = Modulus * q + (a % Modulus)
  BY <1>1, <1>2, DivMod
<1>4. a % Modulus \in Int
  BY DivMod
<1>5. r - a < Modulus /\ a - r < Modulus
  BY <1>1, ModulusAssumption DEF distance
<1>6. p = q
  BY <1>1, <1>3, <1>4, <1>5, MultiplesApart, ModulusAssumption
<1> QED
  BY <1>3, <1>6 DEF r
=============================================================================
