--------------------- MODULE StreamReassemblerTheorems ----------------------
(***************************************************************************)
(* What the methods of StreamReassembler do to a map of entries and to the *)
(* output stream, for every capacity and every stream shorter than         *)
(* SizeT - 1, the value of _eof_index that stands for "not known".         *)
(***************************************************************************)
EXTENDS StreamReassembler, WellFoundedInduction, SequenceTheorems, FiniteSetTheorems, TLAPS

\* The map holds bytes of a stream of length L in place: byte i of the stream is
\* the number i.  Entries do not overlap; an entry without bytes may lie beyond
\* the stream.
IsMap(b, L) ==
    /\ b = [k \in DOMAIN b |-> b[k]]
    /\ DOMAIN b \subseteq Nat
    /\ \A k \in DOMAIN b :
          /\ b[k] \in Seq(Int)
          /\ \A j \in 1 .. Len(b[k]) : b[k][j] = k + j - 1
          /\ k + Len(b[k]) < SizeT
          /\ Len(b[k]) > 0 => k + Len(b[k]) <= L
          /\ \A l \in DOMAIN b : k < l => k + Len(b[k]) <= l

\* data is the n bytes of the stream at index.
IsPiece(data, index, n) ==
    /\ data \in Seq(Int)
    /\ Len(data) = n
    /\ \A j \in 1 .. n : data[j] = index + j - 1

------------------------------------------------------------------------------
(* Numbers, intervals and pieces.                                          *)

\* A set of natural numbers that is not empty has a least element.
LEMMA LeastNatural ==
    ASSUME NEW T, T \subseteq Nat, T # {}
    PROVE  \E x \in T : \A y \in T : x <= y
<1> DEFINE R == OpToRel(<, Nat)
<1>1. IsWellFoundedOn(R, Nat)
  BY NatLessThanWellFounded, Zenon
<1>2. \A x, y \in Nat : <<x, y>> \in R <=> x < y
  BY DEF OpToRel
<1> HIDE DEF R
<1>3. PICK x \in T : \A y \in T : <<y, x>> \notin R
  BY <1>1, WFMin, Zenon
<1>4. ASSUME NEW y \in T PROVE x <= y
  <2>1. x \in Nat /\ y \in Nat
    OBVIOUS
  <2>2. ~(y < x)
    BY <1>2, <1>3, <2>1, Zenon
  <2> QED
    BY <2>1, <2>2
<1> QED
  BY <1>4

\* So does Min, and a set of naturals with an upper bound has a greatest element.
LEMMA MinNatural ==
    ASSUME NEW T, T \subseteq Nat, T # {}
    PROVE  Min(T) \in T /\ \A y \in T : Min(T) <= y
BY LeastNatural, Zenon DEF Min

LEMMA MaxNatural ==
    ASSUME NEW T, T \subseteq Nat, T # {}, NEW n \in Nat, \A y \in T : y <= n
    PROVE  Max(T) \in T /\ \A y \in T : Max(T) >= y
<1> DEFINE U == {n - y : y \in T}
<1>1. U \subseteq Nat /\ U # {}
  <2>1. \A y \in T : n - y \in Nat
    OBVIOUS
  <2> QED
    BY <2>1, Zenon
<1>2. PICK u \in U : \A v \in U : u <= v
  BY <1>1, LeastNatural, Zenon
<1>3. PICK x \in T : u = n - x
  BY <1>2
<1>4. ASSUME NEW y \in T PROVE x >= y
  <2>1. n - y \in U /\ x \in Nat /\ y \in Nat
    OBVIOUS
  <2>2. n - x <= n - y
    BY <1>2, <1>3, <2>1
  <2> QED
    BY <2>1, <2>2
<1> QED
  BY <1>4, Zenon DEF Max

\* No sum of an index and a length in the stream wraps.
LEMMA EndOf ==
    ASSUME NEW i \in Nat, NEW n \in Nat, i + n < SizeT
    PROVE  end_of(i, n) = i + n
BY SizeTAssumption DEF end_of

LEMMA BytesArePiece ==
    ASSUME NEW i \in Int, NEW n \in Nat
    PROVE  IsPiece(Stream!Bytes(i, n), i, n)
<1> DEFINE d == [j \in 1 .. n |-> i + j - 1]
<1>1. \A j \in 1 .. n : i + j - 1 \in Int
  OBVIOUS
<1>2. d \in Seq(Int) /\ Len(d) = n
  BY <1>1, IsASeq, LenProperties
<1> QED
  BY <1>2 DEF IsPiece, Stream!Bytes

\* The bytes lo up to hi of a piece are a piece.
LEMMA SubPiece ==
    ASSUME NEW d, NEW i \in Int, NEW n \in Nat, IsPiece(d, i, n),
           NEW lo \in 0 .. n, NEW hi \in lo .. n
    PROVE  IsPiece(SubSeq(d, lo + 1, hi), i + lo, hi - lo)
<1> DEFINE z == SubSeq(d, lo + 1, hi)
<1>1. d \in Seq(Int) /\ Len(d) = n /\ \A j \in 1 .. n : d[j] = i + j - 1
  BY DEF IsPiece
<1>2. lo + 1 \in 1 .. Len(d) + 1 /\ hi \in (lo + 1) - 1 .. Len(d)
  BY <1>1
<1>3. /\ z \in Seq(Int) /\ Len(z) = hi - lo
      /\ \A j \in 1 .. hi - lo : z[j] = d[lo + j]
  BY <1>1, <1>2, SubSeqProperties
<1> HIDE DEF z
<1>4. ASSUME NEW j \in 1 .. hi - lo PROVE z[j] = i + lo + j - 1
  <2>1. lo + j \in 1 .. n /\ z[j] = d[lo + j]
    BY <1>3
  <2>2. z[j] = i + (lo + j) - 1
    BY <1>1, <2>1
  <2> QED
    BY <2>2
<1> QED
  BY <1>3, <1>4 DEF IsPiece, z

\* The numbers an entry of a map comes with.
LEMMA EntryNumbers ==
    ASSUME NEW b, NEW L, IsMap(b, L), NEW k \in DOMAIN b
    PROVE  /\ k \in Nat /\ Len(b[k]) \in Nat
           /\ end_of(k, Len(b[k])) = k + Len(b[k])
           /\ IsPiece(b[k], k, Len(b[k]))
<1>1. b[k] \in Seq(Int) /\ k \in Nat /\ k + Len(b[k]) < SizeT
  BY DEF IsMap
<1>2. Len(b[k]) \in Nat
  BY <1>1, LenProperties
<1>3. IsPiece(b[k], k, Len(b[k]))
  BY <1>1 DEF IsMap, IsPiece
<1> QED
  BY <1>1, <1>2, <1>3, EndOf

\* A number is stored when it lies in an entry.
LEMMA StoredIn ==
    ASSUME NEW b, NEW L, IsMap(b, L), NEW i
    PROVE  i \in stored(b) <=> i \in Nat /\ \E k \in DOMAIN b : k <= i /\ i < k + Len(b[k])
<1>1. ASSUME NEW k \in DOMAIN b
      PROVE  i \in k .. k + Len(b[k]) - 1 <=> i \in Nat /\ k <= i /\ i < k + Len(b[k])
  <2>1. k \in Nat /\ Len(b[k]) \in Nat
    BY EntryNumbers
  <2> QED
    BY <2>1
<1> QED
  BY <1>1 DEF stored

\* The byte found at an index is the number of the index.
LEMMA ByteAt ==
    ASSUME NEW b, NEW L, IsMap(b, L), NEW i \in stored(b)
    PROVE  byte_at(b, i) = i
<1> DEFINE k == CHOOSE k \in DOMAIN b : i \in k .. k + Len(b[k]) - 1
<1>1. \E l \in DOMAIN b : i \in l .. l + Len(b[l]) - 1
  BY DEF stored
<1>2. k \in DOMAIN b /\ i \in k .. k + Len(b[k]) - 1
  BY <1>1
<1>3. byte_at(b, i) = b[k][i - k + 1]
  BY DEF byte_at
<1> HIDE DEF k
<1>4. k \in Nat /\ Len(b[k]) \in Nat /\ IsPiece(b[k], k, Len(b[k]))
  BY <1>2, EntryNumbers
<1>5. i - k + 1 \in 1 .. Len(b[k])
  BY <1>2, <1>4
<1>6. b[k][i - k + 1] = k + (i - k + 1) - 1
  BY <1>4, <1>5 DEF IsPiece
<1>7. k + (i - k + 1) - 1 = i
  BY <1>2, <1>4
<1> QED
  BY <1>3, <1>6, <1>7

\* Any part of a map is a map.
LEMMA PartOfMap ==
    ASSUME NEW b, NEW L, IsMap(b, L), NEW S, S \subseteq DOMAIN b
    PROVE  /\ IsMap(Restrict(b, S), L)
           /\ DOMAIN Restrict(b, S) = S
           /\ \A k \in S : Restrict(b, S)[k] = b[k]
<1> DEFINE c == Restrict(b, S)
<1>1. DOMAIN c = S /\ (\A k \in S : c[k] = b[k]) /\ c = [k \in DOMAIN c |-> c[k]]
  BY DEF Restrict
<1> HIDE DEF c
<1>2. IsMap(c, L)
  BY <1>1 DEF IsMap
<1> QED
  BY <1>1, <1>2 DEF c
------------------------------------------------------------------------------
(* merge and insert.                                                       *)

\* The entries the forward loop erases lie within the substring, and the first
\* entry from index on that it leaves ends beyond the substring.
LEMMA Erased ==
    ASSUME NEW b, NEW L, IsMap(b, L), NEW index \in Nat, NEW n \in Nat, NEW data,
           Len(data) = n, index + n < SizeT
    PROVE  LET gone == repeated(b, index, data)
               rest == later(Restrict(b, DOMAIN b \ gone), index)
           IN  /\ gone \subseteq DOMAIN b
               /\ \A k \in gone : index <= k /\ k + Len(b[k]) <= index + n
               /\ rest \subseteq DOMAIN b \ gone
               /\ rest # {} => /\ Min(rest) \in rest
                               /\ \A k \in rest : Min(rest) <= k
                               /\ Min(rest) + Len(b[Min(rest)]) > index + n
<1> DEFINE gone == repeated(b, index, data)
           kept == Restrict(b, DOMAIN b \ gone)
           rest == later(kept, index)
           m == Min(rest)
           Within(j) == j + Len(b[j]) <= index + n
<1>1. \A j \in DOMAIN b : /\ j \in Nat /\ Len(b[j]) \in Nat
                          /\ repeated_interval(index, Len(data), j, Len(b[j])) <=> Within(j)
  BY EntryNumbers, EndOf DEF repeated_interval
<1>2. gone = {k \in DOMAIN b : k >= index /\ \A j \in index .. k : j \in DOMAIN b => Within(j)}
  BY <1>1 DEF repeated
<1>3. DOMAIN kept = DOMAIN b \ gone
  BY DEF Restrict
<1>4. rest = {k \in DOMAIN b \ gone : k >= index}
  BY <1>3 DEF later
<1> HIDE DEF gone, kept, rest
<1>5. ASSUME NEW k \in gone PROVE index <= k /\ k + Len(b[k]) <= index + n
  <2>1. k \in Nat /\ k >= index /\ k \in DOMAIN b
    BY <1>1, <1>2
  <2>2. k \in index .. k
    BY <2>1
  <2> QED
    BY <1>2, <2>1, <2>2
<1>6. ASSUME rest # {}
      PROVE  m \in rest /\ (\A k \in rest : m <= k) /\ m + Len(b[m]) > index + n
  <2>1. rest \subseteq Nat
    BY <1>1, <1>4
  <2>2. m \in rest /\ \A k \in rest : m <= k
    BY <1>6, <2>1, MinNatural, Zenon
  <2> HIDE DEF m
  <2>3. m \in DOMAIN b /\ m \notin gone /\ m \in Nat /\ m >= index
    BY <1>1, <1>4, <2>2
  <2>4. PICK j \in index .. m : j \in DOMAIN b /\ ~Within(j)
    BY <1>2, <2>3
  <2>5. j \notin gone
    BY <1>5, <2>4
  <2>6. j \in rest
    BY <1>4, <2>4, <2>5
  <2>7. j = m
    BY <2>2, <2>3, <2>4, <2>6
  <2>8. Len(b[m]) \in Nat
    BY <1>1, <2>3
  <2> QED
    BY <2>2, <2>3, <2>4, <2>7, <2>8
<1>7. gone \subseteq DOMAIN b /\ rest \subseteq DOMAIN b \ gone
  BY <1>2, <1>4
<1> QED
  BY <1>5, <1>6, <1>7, Zenon DEF gone, kept, rest

\* The first entry from index on ends beyond the substring.
NextReaches(c, index, n) ==
    later(c, index) # {} =>
        /\ Min(later(c, index)) \in later(c, index)
        /\ \A k \in later(c, index) : Min(later(c, index)) <= k
        /\ Min(later(c, index)) + Len(c[Min(later(c, index))]) > index + n

\* Merge forward: what is left of the substring ends at hi, where the next entry
\* starts or the substring ends, and an entry holds the part cut off.
CutAt(c, index, n, data, hi) ==
    /\ hi \in index .. index + n
    /\ IsPiece(cut_front(c, index, data), index, hi - index)
    /\ \A k \in DOMAIN c : k >= index => k >= hi
    /\ hi < index + n => hi \in DOMAIN c /\ hi + Len(c[hi]) > index + n

LEMMA CutFront ==
    ASSUME NEW c, NEW L, IsMap(c, L), NEW index \in Nat, NEW n \in Nat, NEW data,
           IsPiece(data, index, n), index + n < SizeT,
           NextReaches(c, index, n)
    PROVE  \E hi : CutAt(c, index, n, data, hi)
<1> DEFINE rest == later(c, index)
           m == Min(rest)
<1>1. Len(data) = n /\ end_of(index, Len(data)) = index + n
  BY EndOf DEF IsPiece
<1>2. rest = {k \in DOMAIN c : k >= index}
  BY DEF later
<1>3. \A k \in DOMAIN c : k \in Nat /\ Len(c[k]) \in Nat
  BY EntryNumbers
<1>4. cut_front(c, index, data) =
        IF rest # {} /\ m < index + n THEN SubSeq(data, 1, m - index) ELSE data
  BY <1>1 DEF cut_front
<1> HIDE DEF rest
<1>5. rest # {} => m \in rest /\ (\A k \in rest : m <= k) /\ m + Len(c[m]) > index + n
  BY DEF rest, NextReaches
<1> HIDE DEF m
<1>6. CASE rest # {} /\ m < index + n
  <2>1. m \in DOMAIN c /\ m \in Nat /\ m >= index
    BY <1>2, <1>3, <1>5, <1>6
  <2>2. m - index \in 0 .. n /\ 0 \in 0 .. n /\ m - index \in 0 .. n
    BY <1>6, <2>1
  <2>3. IsPiece(SubSeq(data, 0 + 1, m - index), index + 0, (m - index) - 0)
    BY <2>2, SubPiece
  <2>4. IsPiece(SubSeq(data, 1, m - index), index, m - index)
    <3>1. 0 + 1 = 1 /\ index + 0 = index /\ (m - index) - 0 = m - index
      BY <2>1
    <3> QED
      BY <2>3, <3>1
  <2>5. \A k \in DOMAIN c : k >= index => k >= m
    BY <1>2, <1>3, <1>5, <1>6, <2>1
  <2>6. CutAt(c, index, n, data, m)
    <3>1. m \in index .. index + n
      BY <1>6, <2>1
    <3>2. cut_front(c, index, data) = SubSeq(data, 1, m - index)
      BY <1>4, <1>6, Zenon
    <3>3. m + Len(c[m]) > index + n
      BY <1>5, <1>6
    <3> QED
      BY <2>1, <2>4, <2>5, <3>1, <3>2, <3>3 DEF CutAt
  <2> QED
    BY <2>6
<1>7. CASE ~(rest # {} /\ m < index + n)
  <2>1. IsPiece(data, index, (index + n) - index)
    <3>1. (index + n) - index = n
      OBVIOUS
    <3> QED
      BY <3>1
  <2>2. ASSUME NEW k \in DOMAIN c, k >= index PROVE k >= index + n
    <3>1. k \in rest
      BY <1>2, <2>2
    <3>2. m <= k /\ ~(m < index + n) /\ m \in DOMAIN c
      BY <1>2, <1>5, <1>7, <3>1
    <3> QED
      BY <1>3, <3>2
  <2>3. CutAt(c, index, n, data, index + n)
    <3> DEFINE h == index + n
    <3>1. h \in index .. index + n /\ ~(h < index + n)
      OBVIOUS
    <3>2. cut_front(c, index, data) = data
      BY <1>4, <1>7
    <3>3. \A k \in DOMAIN c : k >= index => k >= h
      BY <2>2
    <3>4. IsPiece(cut_front(c, index, data), index, h - index)
      BY <2>1, <3>2
    <3> HIDE DEF h
    <3>5. CutAt(c, index, n, data, h)
      BY <3>1, <3>3, <3>4 DEF CutAt
    <3> QED
      BY <3>5 DEF h
  <2> QED
    BY <2>3
<1> QED
  BY <1>6, <1>7

\* Merge backward: what is left of the substring starts at lo, where the entry
\* before index ends or at index.
StartsAt(c, index, lo) ==
    /\ lo \in Nat /\ index <= lo
    /\ \A k \in DOMAIN c : k < index => k + Len(c[k]) <= lo
    /\ lo > index => \E k \in DOMAIN c : k < index /\ k + Len(c[k]) = lo
    /\ lo = IF earlier(c, index) = {} \/ previous_end(c, index) <= index
              THEN index ELSE previous_end(c, index)

LEMMA CutBack ==
    ASSUME NEW c, NEW L, IsMap(c, L), NEW index \in Nat
    PROVE  \E lo : StartsAt(c, index, lo)
<1> DEFINE T == earlier(c, index)
           p == Max(T)
           end == previous_end(c, index)
<1>1. T = {k \in DOMAIN c : k < index}
  BY DEF earlier
<1>2. \A k \in DOMAIN c : /\ k \in Nat /\ Len(c[k]) \in Nat
                          /\ end_of(k, Len(c[k])) = k + Len(c[k])
  BY EntryNumbers
<1>3. end = end_of(p, Len(c[p]))
  BY DEF previous_end
<1> HIDE DEF T, end
<1>4. CASE T = {}
  <2>1. \A k \in DOMAIN c : ~(k < index)
    BY <1>1, <1>4
  <2>2. StartsAt(c, index, index)
    BY <1>4, <2>1 DEF StartsAt, T
  <2> QED
    BY <2>2
<1>5. CASE T # {}
  <2>1. T \subseteq Nat /\ \A y \in T : y <= index
    BY <1>1, <1>2
  <2>2. p \in T /\ \A y \in T : p >= y
    BY <1>5, <2>1, MaxNatural, Zenon
  <2> HIDE DEF p
  <2>3. p \in DOMAIN c /\ p < index /\ p \in Nat /\ Len(c[p]) \in Nat /\ end = p + Len(c[p])
    BY <1>1, <1>2, <1>3, <2>2
  <2>4. ASSUME NEW k \in DOMAIN c, k < index PROVE k + Len(c[k]) <= end
    <3>1. k \in T /\ p >= k /\ k \in Nat
      BY <1>1, <1>2, <2>2, <2>4
    <3>2. CASE k = p
      BY <2>3, <3>2
    <3>3. CASE k < p
      <4>1. k + Len(c[k]) <= p
        BY <2>3, <3>3 DEF IsMap
      <4> QED
        BY <1>2, <2>3, <3>1, <4>1
    <3> QED
      BY <2>3, <3>1, <3>2, <3>3
  <2>5. CASE end <= index
    <3>1. \A k \in DOMAIN c : k < index => k + Len(c[k]) <= index
      BY <1>2, <2>3, <2>4, <2>5
    <3>2. StartsAt(c, index, index)
      BY <2>5, <3>1 DEF StartsAt, end
    <3> QED
      BY <3>2
  <2>6. CASE ~(end <= index)
    <3>1. end \in Nat /\ index <= end
      BY <2>3, <2>6
    <3>2. StartsAt(c, index, end)
      BY <1>5, <2>3, <2>4, <2>6, <3>1 DEF StartsAt, end, T
    <3> QED
      BY <3>2
  <2> QED
    BY <2>5, <2>6
<1> QED
  BY <1>4, <1>5

\* What insert does to a map from which the repeated entries are gone: it adds at
\* most one entry, lo up to hi, which overlaps no other, and then the map holds
\* the whole substring.
Adds(c, index, n, data, d, lo, size) ==
    /\ lo \in Nat /\ size \in Nat
    /\ size = IF held(c, index, data) THEN 0 ELSE Len(trimmed(c, index, data).data)
    /\ size > 0 => index <= lo /\ lo + size <= index + n
    /\ \A i \in lo .. lo + size - 1 : i \notin stored(c)
    /\ stored(d) = stored(c) \union (lo .. lo + size - 1)
    /\ \A i \in index .. index + n - 1 : i \in stored(d)

\* The entry merge computes, between lo and hi.
LEMMA Trimmed ==
    ASSUME NEW c, NEW L, IsMap(c, L), NEW index \in Nat, NEW n \in Nat, NEW data,
           IsPiece(data, index, n), index + n < SizeT,
           NEW lo, StartsAt(c, index, lo), NEW hi, CutAt(c, index, n, data, hi)
    PROVE  /\ held(c, index, data) <=> index \in DOMAIN c \/ lo > hi
           /\ lo <= hi => /\ trimmed(c, index, data).index = lo
                          /\ IsPiece(trimmed(c, index, data).data, lo, hi - lo)
<1> DEFINE front == cut_front(c, index, data)
           end == previous_end(c, index)
           T == earlier(c, index)
           new == trimmed(c, index, data)
<1>1. IsPiece(front, index, hi - index) /\ hi \in index .. index + n
  BY DEF CutAt
<1>2. Len(front) = hi - index /\ hi - index \in Nat
  BY <1>1 DEF IsPiece
<1>3. end_of(index, Len(front)) = hi
  <2>1. index + (hi - index) < SizeT /\ index + (hi - index) = hi
    BY <1>1, SizeTAssumption
  <2> QED
    BY <1>2, <2>1, EndOf
<1>4. lo \in Nat /\ index <= lo /\ lo = IF T = {} \/ end <= index THEN index ELSE end
  BY DEF StartsAt
<1>5. T # {} => end \in Nat
  <2>1. T = {k \in DOMAIN c : k < index}
    BY DEF earlier
  <2>2. \A k \in DOMAIN c : /\ k \in Nat /\ Len(c[k]) \in Nat
                            /\ end_of(k, Len(c[k])) = k + Len(c[k])
    BY EntryNumbers
  <2>3. ASSUME T # {} PROVE end \in Nat
    <3> DEFINE p == Max(T)
    <3>1. T \subseteq Nat /\ \A y \in T : y <= index
      BY <2>1, <2>2
    <3>2. p \in T
      BY <2>3, <3>1, MaxNatural
    <3>3. end = end_of(p, Len(c[p]))
      BY DEF previous_end
    <3> HIDE DEF p, end, T
    <3> QED
      BY <2>1, <2>2, <3>2, <3>3
  <2> QED
    BY <2>3
<1>6. held(c, index, data) <=> index \in DOMAIN c \/ (T # {} /\ end > index /\ end > hi)
  BY <1>3 DEF held
<1>7. new = IF T = {} \/ end <= index
              THEN [index |-> index, data |-> front]
              ELSE [index |-> end, data |-> SubSeq(front, end - index + 1, Len(front))]
  BY DEF trimmed
<1> HIDE DEF front, end, T, new
<1>8. held(c, index, data) <=> index \in DOMAIN c \/ lo > hi
  BY <1>1, <1>4, <1>5, <1>6
<1>9. ASSUME lo <= hi PROVE new.index = lo /\ IsPiece(new.data, lo, hi - lo)
  <2>1. CASE T = {} \/ end <= index
    BY <1>1, <1>4, <1>7, <2>1
  <2>2. CASE ~(T = {} \/ end <= index)
    <3>1. end = lo /\ new = [index |-> end, data |-> SubSeq(front, end - index + 1, Len(front))]
      BY <1>4, <1>7, <2>2
    <3>2. lo - index \in 0 .. hi - index /\ hi - index \in lo - index .. hi - index
      BY <1>1, <1>4, <1>9
    <3>3. IsPiece(SubSeq(front, (lo - index) + 1, hi - index), index + (lo - index),
                  (hi - index) - (lo - index))
      BY <1>1, <1>2, <3>2, SubPiece
    <3>4. index + (lo - index) = lo /\ (hi - index) - (lo - index) = hi - lo
      BY <1>1, <1>4
    <3> QED
      BY <1>2, <3>1, <3>3, <3>4
  <2> QED
    BY <2>1, <2>2
<1> QED
  BY <1>8, <1>9 DEF new

\* The map with one more entry, and what insert makes of the entries left.
WithEntry(c, lo, data) ==
    [k \in DOMAIN c \union {lo} |-> IF k = lo THEN data ELSE c[k]]
AfterMerge(c, index, data) ==
    LET new == trimmed(c, index, data)
    IN  IF held(c, index, data) \/ new.index \in DOMAIN c
          THEN c ELSE WithEntry(c, new.index, new.data)

\* A map with one more entry in a gap is a map.
LEMMA OneMore ==
    ASSUME NEW c, NEW L \in Nat, IsMap(c, L), NEW lo \in Nat, NEW size \in Nat, NEW data,
           IsPiece(data, lo, size), lo + size < SizeT, size > 0 => lo + size <= L,
           lo \notin DOMAIN c,
           \A k \in DOMAIN c : k < lo => k + Len(c[k]) <= lo,
           \A k \in DOMAIN c : k > lo => lo + size <= k,
           NEW d, d = WithEntry(c, lo, data)
    PROVE  /\ IsMap(d, L)
           /\ stored(d) = stored(c) \union (lo .. lo + size - 1)
           /\ \A i \in lo .. lo + size - 1 : i \notin stored(c)
<1>1. /\ DOMAIN d = DOMAIN c \union {lo} /\ d[lo] = data
      /\ \A k \in DOMAIN c : d[k] = c[k]
      /\ d = [k \in DOMAIN d |-> d[k]]
  BY DEF WithEntry
<1>2. data \in Seq(Int) /\ Len(data) = size /\ \A j \in 1 .. size : data[j] = lo + j - 1
  BY DEF IsPiece
<1>3. \A k \in DOMAIN c : k \in Nat /\ Len(c[k]) \in Nat
  BY EntryNumbers
<1>4. IsMap(d, L)
  <2>1. DOMAIN d \subseteq Nat
    BY <1>1, <1>3
  <2>2. ASSUME NEW k \in DOMAIN d
        PROVE  /\ d[k] \in Seq(Int)
               /\ \A j \in 1 .. Len(d[k]) : d[k][j] = k + j - 1
               /\ k + Len(d[k]) < SizeT
               /\ Len(d[k]) > 0 => k + Len(d[k]) <= L
    <3>1. CASE k = lo
      BY <1>1, <1>2, <3>1
    <3>2. CASE k \in DOMAIN c
      BY <1>1, <3>2 DEF IsMap
    <3> QED
      BY <1>1, <3>1, <3>2
  <2>3. ASSUME NEW k \in DOMAIN d, NEW l \in DOMAIN d, k < l PROVE k + Len(d[k]) <= l
    <3>1. CASE k \in DOMAIN c /\ l \in DOMAIN c
      BY <1>1, <2>3, <3>1 DEF IsMap
    <3>2. CASE k = lo /\ l \in DOMAIN c
      BY <1>1, <1>2, <1>3, <2>3, <3>2
    <3>3. CASE k \in DOMAIN c /\ l = lo
      BY <1>1, <1>3, <2>3, <3>3
    <3>4. CASE k = lo /\ l = lo
      BY <2>3, <3>4
    <3> QED
      BY <1>1, <3>1, <3>2, <3>3, <3>4
  <2> QED
    BY <1>1, <2>1, <2>2, <2>3 DEF IsMap
<1>5. stored(d) = stored(c) \union (lo .. lo + size - 1)
  <2>1. \A k \in DOMAIN c : k .. k + Len(d[k]) - 1 = k .. k + Len(c[k]) - 1
    BY <1>1
  <2>2. lo .. lo + Len(d[lo]) - 1 = lo .. lo + size - 1
    BY <1>1, <1>2
  <2>3. ASSUME NEW i
        PROVE  i \in stored(d) <=> i \in stored(c) \/ i \in lo .. lo + size - 1
    <3>1. i \in stored(d) <=> \E k \in DOMAIN d : i \in k .. k + Len(d[k]) - 1
      BY Zenon DEF stored
    <3>2. i \in stored(c) <=> \E k \in DOMAIN c : i \in k .. k + Len(c[k]) - 1
      BY Zenon DEF stored
    <3> QED
      BY <1>1, <2>1, <2>2, <3>1, <3>2, Zenon
  <2> QED
    BY <2>3, Zenon
<1>6. ASSUME NEW i \in lo .. lo + size - 1, i \in stored(c) PROVE FALSE
  <2>1. PICK k \in DOMAIN c : k <= i /\ i < k + Len(c[k])
    BY <1>6, StoredIn
  <2>2. k \in Nat /\ Len(c[k]) \in Nat /\ k # lo
    BY <1>3
  <2>3. CASE k < lo
    BY <2>1, <2>2, <2>3
  <2>4. CASE k > lo
    BY <2>1, <2>2, <2>4
  <2> QED
    BY <2>2, <2>3, <2>4
<1> QED
  BY <1>4, <1>5, <1>6

\* merge and insert as a whole, from the entries that are left.
LEMMA InsertKept ==
    ASSUME NEW c, NEW L \in Nat, IsMap(c, L), NEW index \in Nat, NEW n \in Nat, NEW data,
           IsPiece(data, index, n), index + n < SizeT, n > 0 => index + n <= L,
           NextReaches(c, index, n),
           NEW d, d = AfterMerge(c, index, data)
    PROVE  IsMap(d, L) /\ \E lo, size : Adds(c, index, n, data, d, lo, size)
<1> DEFINE new == trimmed(c, index, data)
           Held == held(c, index, data)
<1>1. PICK hi : CutAt(c, index, n, data, hi)
  BY CutFront
<1>2. PICK lo : StartsAt(c, index, lo)
  BY CutBack
<1>3. /\ hi \in index .. index + n
      /\ \A k \in DOMAIN c : k >= index => k >= hi
      /\ hi < index + n => hi \in DOMAIN c /\ hi + Len(c[hi]) > index + n
  BY <1>1 DEF CutAt
<1>4. /\ lo \in Nat /\ index <= lo
      /\ \A k \in DOMAIN c : k < index => k + Len(c[k]) <= lo
      /\ lo > index => \E k \in DOMAIN c : k < index /\ k + Len(c[k]) = lo
  BY <1>2 DEF StartsAt
<1>5. /\ Held <=> index \in DOMAIN c \/ lo > hi
      /\ lo <= hi => new.index = lo /\ IsPiece(new.data, lo, hi - lo)
  BY <1>1, <1>2, Trimmed
<1>6. d = IF Held \/ new.index \in DOMAIN c THEN c ELSE WithEntry(c, new.index, new.data)
  BY DEF AfterMerge
<1>7. \A k \in DOMAIN c : k \in Nat /\ Len(c[k]) \in Nat
  BY EntryNumbers
<1> HIDE DEF new, Held
\* From hi on, an entry of c holds the substring; before lo, another does.
<1>8. ASSUME NEW i \in index .. index + n - 1, i >= hi PROVE i \in stored(c)
  <2>1. hi \in DOMAIN c /\ hi + Len(c[hi]) > index + n
    BY <1>3, <1>8
  <2>2. i \in Nat /\ hi <= i /\ i < hi + Len(c[hi])
    BY <1>3, <1>7, <1>8, <2>1
  <2> QED
    BY <2>1, <2>2, StoredIn
<1>9. ASSUME NEW i \in index .. index + n - 1, i < lo PROVE i \in stored(c)
  <2>1. PICK k \in DOMAIN c : k < index /\ k + Len(c[k]) = lo
    BY <1>4, <1>9
  <2>2. i \in Nat /\ k <= i /\ i < k + Len(c[k])
    BY <1>7, <1>9, <2>1
  <2> QED
    BY <2>1, <2>2, StoredIn
\* When both say the map has everything, it is left as it is.
<1>10. ASSUME \A i \in index .. index + n - 1 : i \in stored(c), d = c,
              0 = IF Held THEN 0 ELSE Len(new.data)
       PROVE  IsMap(d, L) /\ Adds(c, index, n, data, d, index, 0)
  <2>1. index .. index + 0 - 1 = {}
    OBVIOUS
  <2>2. stored(d) = stored(c) \union (index .. index + 0 - 1)
    BY <1>10, <2>1
  <2> QED
    BY <1>10, <2>1, <2>2 DEF Adds, Held, new
<1>11. CASE Held
  <2>1. ASSUME NEW i \in index .. index + n - 1 PROVE i \in stored(c)
    <3>1. CASE index \in DOMAIN c
      <4>1. i >= hi
        BY <1>3, <3>1
      <4> QED
        BY <1>8, <4>1
    <3>2. CASE lo > hi
      <4>1. i < lo \/ i >= hi
        BY <1>3, <1>4, <3>2
      <4> QED
        BY <1>8, <1>9, <4>1
    <3> QED
      BY <1>5, <1>11, <3>1, <3>2
  <2> QED
    BY <1>6, <1>10, <1>11, <2>1
<1>12. CASE ~Held /\ lo \in DOMAIN c
  <2>1. lo <= hi /\ lo # index
    BY <1>3, <1>4, <1>5, <1>12
  <2>2. lo = hi
    BY <1>3, <1>4, <1>12, <2>1
  <2>3. new.index = lo /\ IsPiece(new.data, lo, 0)
    BY <1>3, <1>5, <2>1, <2>2
  <2>4. Len(new.data) = 0
    BY <2>3 DEF IsPiece
  <2>5. ASSUME NEW i \in index .. index + n - 1 PROVE i \in stored(c)
    <3>1. i < lo \/ i >= hi
      BY <1>3, <2>2
    <3> QED
      BY <1>8, <1>9, <3>1
  <2> QED
    BY <1>6, <1>10, <1>12, <2>3, <2>4, <2>5
<1>13. CASE ~Held /\ lo \notin DOMAIN c
  <2> DEFINE size == hi - lo
  <2>1. lo <= hi
    BY <1>3, <1>4, <1>5, <1>13
  <2>2. new.index = lo /\ IsPiece(new.data, lo, size)
    BY <1>5, <2>1
  <2>3. d = WithEntry(c, lo, new.data)
    BY <1>6, <1>13, <2>2
  <2>4. /\ size \in Nat /\ lo + size = hi /\ lo + size < SizeT
        /\ size > 0 => lo + size <= L
    BY <1>3, <1>4, <2>1, SizeTAssumption
  <2>5. ASSUME NEW k \in DOMAIN c, k < lo PROVE k + Len(c[k]) <= lo
    BY <1>3, <1>4, <1>7, <2>1, <2>5
  <2>6. ASSUME NEW k \in DOMAIN c, k > lo PROVE lo + size <= k
    BY <1>3, <1>4, <1>7, <2>4, <2>6
  <2> HIDE DEF size
  <2>7. /\ IsMap(d, L)
        /\ stored(d) = stored(c) \union (lo .. lo + size - 1)
        /\ \A i \in lo .. lo + size - 1 : i \notin stored(c)
    BY <1>4, <1>13, <2>2, <2>3, <2>4, <2>5, <2>6, OneMore
  <2>8. ASSUME NEW i \in index .. index + n - 1 PROVE i \in stored(d)
    <3>1. i < lo \/ i >= hi \/ i \in lo .. lo + size - 1
      BY <1>3, <1>4, <2>4
    <3> QED
      BY <1>8, <1>9, <2>7, <3>1
  <2>9. size = Len(new.data) /\ (size > 0 => index <= lo /\ lo + size <= index + n)
    BY <1>3, <1>4, <2>2, <2>4 DEF IsPiece
  <2>10. Adds(c, index, n, data, d, lo, size)
    <3>1. size = IF held(c, index, data) THEN 0 ELSE Len(trimmed(c, index, data).data)
      BY <1>13, <2>9 DEF Held, new
    <3>2. size > 0 => index <= lo /\ lo + size <= index + n
      BY <2>9
    <3> QED
      BY <1>4, <2>4, <2>7, <2>8, <3>1, <3>2, Zenon DEF Adds
  <2> QED
    BY <2>7, <2>10
<1> QED
  BY <1>11, <1>12, <1>13

\* The map after insert: a map that holds what it held and the substring.
Inserted(b, d, index, n, data, L) ==
    LET gone == repeated(b, index, data)
        kept == Restrict(b, DOMAIN b \ gone)
    IN  /\ IsMap(d, L)
        /\ IsMap(kept, L)
        /\ gone \subseteq DOMAIN b
        /\ stored(d) = stored(b) \union (index .. index + n - 1)
        /\ \E lo, size : Adds(kept, index, n, data, d, lo, size)

LEMMA InsertStores ==
    ASSUME NEW b, NEW L \in Nat, IsMap(b, L), NEW index \in Nat, NEW n \in Nat, NEW data,
           IsPiece(data, index, n), index + n < SizeT, n > 0 => index + n <= L
    PROVE  Inserted(b, insert(b, index, data), index, n, data, L)
<1> DEFINE gone == repeated(b, index, data)
           kept == Restrict(b, DOMAIN b \ gone)
           d == insert(b, index, data)
           rest == later(kept, index)
<1>1. Len(data) = n
  BY DEF IsPiece
<1>2. /\ gone \subseteq DOMAIN b
      /\ \A k \in gone : index <= k /\ k + Len(b[k]) <= index + n
      /\ rest \subseteq DOMAIN b \ gone
      /\ rest # {} => /\ Min(rest) \in rest
                      /\ \A k \in rest : Min(rest) <= k
                      /\ Min(rest) + Len(b[Min(rest)]) > index + n
  BY <1>1, Erased, Zenon
<1>3. IsMap(kept, L) /\ DOMAIN kept = DOMAIN b \ gone /\ \A k \in DOMAIN b \ gone : kept[k] = b[k]
  BY PartOfMap
<1>4. d = AfterMerge(kept, index, data)
  BY DEF insert, AfterMerge, WithEntry
<1> HIDE DEF gone, kept, d
<1>5. NextReaches(kept, index, n)
  <2> DEFINE m == Min(rest)
  <2> HIDE DEF m, rest
  <2>1. ASSUME rest # {} PROVE m \in rest /\ (\A k \in rest : m <= k) /\ kept[m] = b[m]
    BY <1>2, <1>3, <2>1 DEF m
  <2>2. rest # {} => m + Len(b[m]) > index + n
    BY <1>2 DEF m
  <2> QED
    BY <2>1, <2>2 DEF m, rest, NextReaches
<1>6. IsMap(d, L) /\ \E lo, size : Adds(kept, index, n, data, d, lo, size)
  BY <1>3, <1>4, <1>5, InsertKept
<1>7. PICK lo, size : Adds(kept, index, n, data, d, lo, size)
  BY <1>6
<1>8. ASSUME NEW i PROVE i \in stored(d) <=> i \in stored(b) \/ i \in index .. index + n - 1
  <2>1. /\ lo \in Nat /\ size \in Nat /\ (size > 0 => index <= lo /\ lo + size <= index + n)
        /\ stored(d) = stored(kept) \union (lo .. lo + size - 1)
        /\ \A j \in index .. index + n - 1 : j \in stored(d)
    BY <1>7 DEF Adds
  <2>2. i \in lo .. lo + size - 1 => i \in index .. index + n - 1
    BY <2>1
  <2>3. \A k \in DOMAIN b : k \in Nat /\ Len(b[k]) \in Nat
    BY EntryNumbers
  <2>4. i \in stored(b) <=> i \in Nat /\ \E k \in DOMAIN b : k <= i /\ i < k + Len(b[k])
    BY StoredIn
  <2>5. i \in stored(kept) <=> i \in Nat /\ \E k \in DOMAIN kept : k <= i /\ i < k + Len(kept[k])
    BY <1>3, StoredIn
  <2>6. i \in stored(kept) => i \in stored(b)
    BY <1>3, <2>4, <2>5
  <2>7. ASSUME i \in stored(b), i \notin stored(kept) PROVE i \in index .. index + n - 1
    <3>1. PICK k \in DOMAIN b : i \in Nat /\ k <= i /\ i < k + Len(b[k])
      BY <2>4, <2>7
    <3>2. k \in gone
      BY <1>3, <2>5, <2>7, <3>1
    <3>3. index <= k /\ k + Len(b[k]) <= index + n
      BY <1>2, <3>2
    <3> QED
      BY <2>3, <3>1, <3>3
  <2> QED
    BY <2>1, <2>2, <2>6, <2>7
<1>9. stored(d) = stored(b) \union (index .. index + n - 1)
  BY <1>8, Zenon
<1> QED
  BY <1>2, <1>3, <1>6, <1>9, Zenon DEF gone, kept, d, Inserted
------------------------------------------------------------------------------
(* The output stream.                                                      *)

\* A ByteStream of capacity C that holds a part of the stream in place.
IsOutput(s, C) ==
    /\ s \in [buffer : Seq(Int), capacity : {C}, bytes_written : Nat, bytes_read : Nat,
              end_input : BOOLEAN, error : BOOLEAN]
    /\ Stream!StreamOK(s)

\* write appends a piece that fits, if the stream has not ended.
LEMMA WriteInOrder ==
    ASSUME NEW C \in Nat, NEW s, IsOutput(s, C), NEW n \in Nat, NEW data,
           IsPiece(data, s.bytes_written, n), n <= Stream!remaining_capacity(s),
           s.end_input => n = 0
    PROVE  /\ IsOutput(Stream!write(s, data), C)
           /\ Stream!write(s, data).bytes_written = s.bytes_written + n
           /\ Stream!write(s, data).bytes_read = s.bytes_read
           /\ Stream!write(s, data).end_input = s.end_input
           /\ Stream!write(s, data).error = s.error
<1> DEFINE t == Stream!write(s, data)
           u == s.buffer
           part == SubSeq(data, 1, n)
           z == u \o part
<1>1. /\ s \in [buffer : Seq(Int), capacity : {C}, bytes_written : Nat, bytes_read : Nat,
                end_input : BOOLEAN, error : BOOLEAN]
      /\ s.bytes_written = s.bytes_read + Len(u) /\ Len(u) <= C
      /\ \A j \in 1 .. Len(u) : u[j] = s.bytes_read + j - 1
  BY DEF IsOutput, Stream!StreamOK
<1>2. u \in Seq(Int) /\ Len(u) \in Nat
  BY <1>1, LenProperties
<1>3. data \in Seq(Int) /\ Len(data) = n /\ n <= C - Len(u)
  BY <1>1 DEF IsPiece, Stream!remaining_capacity
<1>4. Stream!accepted(s, data) = n
  BY <1>1, <1>2, <1>3 DEF Stream!accepted, Stream!min, Stream!remaining_capacity
<1>5. part \in Seq(Int) /\ Len(part) = n /\ \A j \in 1 .. n : part[j] = s.bytes_written + j - 1
  <2>1. 0 \in 0 .. n /\ n \in 0 .. n /\ s.bytes_written \in Int
    BY <1>1
  <2>2. IsPiece(SubSeq(data, 0 + 1, n), s.bytes_written + 0, n - 0)
    BY <2>1, SubPiece
  <2>3. 0 + 1 = 1 /\ s.bytes_written + 0 = s.bytes_written /\ n - 0 = n
    BY <2>1
  <2>4. IsPiece(part, s.bytes_written, n)
    BY <2>2, <2>3
  <2> HIDE DEF part
  <2> QED
    BY <2>4 DEF IsPiece
<1>6. t = [s EXCEPT !.buffer = z, !.bytes_written = s.bytes_written + n]
  BY <1>4 DEF Stream!write
<1> HIDE DEF part, t
<1>7. /\ z \in Seq(Int) /\ Len(z) = Len(u) + n
      /\ \A j \in 1 .. Len(u) + n : z[j] = IF j <= Len(u) THEN u[j] ELSE part[j - Len(u)]
  BY <1>2, <1>5, ConcatProperties, Zenon
<1> HIDE DEF z
<1>8. s.bytes_written + n \in Nat
  BY <1>1
<1>9. /\ t \in [buffer : Seq(Int), capacity : {C}, bytes_written : Nat, bytes_read : Nat,
                end_input : BOOLEAN, error : BOOLEAN]
      /\ t.buffer = z /\ t.bytes_written = s.bytes_written + n
      /\ t.bytes_read = s.bytes_read /\ t.capacity = C
      /\ t.end_input = s.end_input /\ t.error = s.error
  BY <1>1, <1>6, <1>7, <1>8, Zenon
<1>10. ASSUME NEW j \in 1 .. Len(z) PROVE z[j] = s.bytes_read + j - 1
  <2>1. j \in 1 .. Len(u) + n
    BY <1>7
  <2> HIDE DEF u
  <2>2. CASE j <= Len(u)
    <3>1. z[j] = u[j]
      BY <1>7, <2>1, <2>2
    <3>2. j \in 1 .. Len(u)
      BY <1>2, <2>1, <2>2
    <3> QED
      BY <1>1, <3>1, <3>2
  <2>3. CASE j > Len(u)
    <3>1. j - Len(u) \in 1 .. n
      BY <1>2, <2>1, <2>3
    <3>2. z[j] = part[j - Len(u)]
      <4>1. ~(j <= Len(u))
        BY <1>2, <2>1, <2>3
      <4> QED
        BY <1>7, <2>1, <4>1
    <3>3. part[j - Len(u)] = s.bytes_written + (j - Len(u)) - 1
      BY <1>5, <3>1
    <3>4. s.bytes_written \in Nat /\ s.bytes_read \in Nat
      BY <1>1
    <3> QED
      BY <1>1, <1>2, <3>2, <3>3, <3>4
  <2> QED
    BY <1>2, <2>1, <2>2, <2>3
<1>11. t.bytes_written = t.bytes_read + Len(z) /\ Len(z) <= t.capacity
  BY <1>1, <1>2, <1>3, <1>7, <1>9
<1>12. Stream!StreamOK(t)
  BY <1>9, <1>10, <1>11 DEF Stream!StreamOK
<1> QED
  BY <1>9, <1>12 DEF IsOutput, t

\* Reading takes the first bytes off the buffer.
LEMMA ReadInOrder ==
    ASSUME NEW C \in Nat, NEW s, IsOutput(s, C), NEW n \in Nat, n <= Stream!buffer_size(s)
    PROVE  /\ IsOutput(Stream!pop_output(s, n), C)
           /\ Stream!pop_output(s, n).bytes_written = s.bytes_written
           /\ Stream!pop_output(s, n).bytes_read = s.bytes_read + n
           /\ Stream!pop_output(s, n).end_input = s.end_input
           /\ Stream!pop_output(s, n).error = s.error
<1> DEFINE t == Stream!pop_output(s, n)
           u == s.buffer
           z == SubSeq(u, n + 1, Len(u))
<1>1. /\ s \in [buffer : Seq(Int), capacity : {C}, bytes_written : Nat, bytes_read : Nat,
                end_input : BOOLEAN, error : BOOLEAN]
      /\ s.bytes_written = s.bytes_read + Len(u) /\ Len(u) <= C
      /\ \A j \in 1 .. Len(u) : u[j] = s.bytes_read + j - 1
  BY DEF IsOutput, Stream!StreamOK
<1>2. u \in Seq(Int) /\ Len(u) \in Nat /\ n <= Len(u)
  BY <1>1, LenProperties DEF Stream!buffer_size
<1>3. IsPiece(u, s.bytes_read, Len(u))
  BY <1>1, <1>2 DEF IsPiece
<1>4. IsPiece(z, s.bytes_read + n, Len(u) - n)
  <2>1. n \in 0 .. Len(u) /\ Len(u) \in n .. Len(u) /\ s.bytes_read \in Int
    BY <1>1, <1>2
  <2> HIDE DEF u
  <2> QED
    BY <1>2, <1>3, <2>1, SubPiece
<1>5. Stream!min(n, Stream!buffer_size(s)) = n
  BY <1>2 DEF Stream!min, Stream!buffer_size
<1>6. t = [s EXCEPT !.buffer = z, !.bytes_read = s.bytes_read + n]
  BY <1>5 DEF Stream!pop_output
<1> HIDE DEF z, t
<1>7. z \in Seq(Int) /\ Len(z) = Len(u) - n /\ \A j \in 1 .. Len(u) - n : z[j] = (s.bytes_read + n) + j - 1
  BY <1>4 DEF IsPiece
<1>8. s.bytes_read + n \in Nat
  BY <1>1
<1>9. /\ t \in [buffer : Seq(Int), capacity : {C}, bytes_written : Nat, bytes_read : Nat,
                end_input : BOOLEAN, error : BOOLEAN]
      /\ t.buffer = z /\ t.bytes_written = s.bytes_written
      /\ t.bytes_read = s.bytes_read + n /\ t.capacity = C
      /\ t.end_input = s.end_input /\ t.error = s.error
  BY <1>1, <1>6, <1>7, <1>8, Zenon
<1>10. t.bytes_written = t.bytes_read + Len(z) /\ Len(z) <= t.capacity
  BY <1>1, <1>2, <1>7, <1>9
<1>11. Stream!StreamOK(t)
  BY <1>7, <1>9, <1>10, Zenon DEF Stream!StreamOK
<1> QED
  BY <1>9, <1>11 DEF IsOutput, t

\* Ending a stream changes nothing else.
LEMMA EndInPlace ==
    ASSUME NEW C \in Nat, NEW s, IsOutput(s, C)
    PROVE  /\ IsOutput(Stream!end_input(s), C)
           /\ Stream!end_input(s).bytes_written = s.bytes_written
           /\ Stream!end_input(s).bytes_read = s.bytes_read
           /\ Stream!end_input(s).end_input
           /\ Stream!end_input(s).error = s.error
<1> DEFINE t == Stream!end_input(s)
<1>1. t = [s EXCEPT !.end_input = TRUE]
  BY DEF Stream!end_input
<1>2. s \in [buffer : Seq(Int), capacity : {C}, bytes_written : Nat, bytes_read : Nat,
             end_input : BOOLEAN, error : BOOLEAN]
  BY DEF IsOutput
<1> HIDE DEF t
<1>3. /\ t \in [buffer : Seq(Int), capacity : {C}, bytes_written : Nat, bytes_read : Nat,
                end_input : BOOLEAN, error : BOOLEAN]
      /\ t.buffer = s.buffer /\ t.capacity = s.capacity /\ t.bytes_read = s.bytes_read
      /\ t.bytes_written = s.bytes_written /\ t.end_input /\ t.error = s.error
  BY <1>1, <1>2, Zenon
<1>4. Stream!StreamOK(t)
  BY <1>3 DEF IsOutput, Stream!StreamOK
<1> QED
  BY <1>3, <1>4 DEF IsOutput, t
------------------------------------------------------------------------------
(* send_to_bytestream and push_substring.                                  *)

\* A reassembler of capacity C at work on a stream of length L, when the output
\* may still have to be ended.
Assembling(r, L, C) ==
    /\ r = [buffer |-> r.buffer, expected |-> r.expected, eof_index |-> r.eof_index,
            output |-> r.output]
    /\ IsMap(r.buffer, L)
    /\ IsOutput(r.output, C)
    /\ r.expected \in 0 .. L
    /\ r.expected = r.output.bytes_written
    /\ r.eof_index \in {SizeT - 1, L}
    /\ r.output.end_input => r.expected = L /\ r.eof_index = L

\* Between two calls: the entries lie beyond _expected, and the output is ended if
\* it can be.
AtRest(r, L, C) ==
    /\ Assembling(r, L, C)
    /\ \A k \in DOMAIN r.buffer : k > r.expected
    /\ r.expected = L /\ r.eof_index = L => r.output.end_input

\* The loop of send_to_bytestream stops: at the first index that is not stored, or
\* when the output is full.
LEMMA LoopStops ==
    ASSUME NEW r, NEW x \in Nat, NEW room \in Nat, r.expected = x,
           Stream!remaining_capacity(r.output) = room
    PROVE  /\ next_expected(r) \in x .. x + room
           /\ \A i \in x .. next_expected(r) - 1 : i \in stored(r.buffer)
           /\ next_expected(r) = x + room \/ next_expected(r) \notin stored(r.buffer)
<1> DEFINE S == stored(r.buffer)
           T == {e \in x .. x + room : e = x + room \/ e \notin S}
<1>1. T \subseteq Nat /\ x + room \in T
  OBVIOUS
<1>2. PICK e \in T : \A y \in T : e <= y
  BY <1>1, LeastNatural, Zenon
<1>3. \A i \in x .. e - 1 : i \in S
  BY <1>2
<1>4. \E f \in x .. x + room : /\ \A i \in x .. f - 1 : i \in S
                               /\ f = x + room \/ f \notin S
  BY <1>2, <1>3
<1> QED
  BY <1>4 DEF next_expected

\* Only bytes of the stream are stored.
LEMMA StoredBelow ==
    ASSUME NEW b, NEW L \in Nat, IsMap(b, L), NEW i \in stored(b)
    PROVE  i \in Nat /\ i < L
<1>1. PICK k \in DOMAIN b : i \in Nat /\ k <= i /\ i < k + Len(b[k])
  BY StoredIn
<1>2. k \in Nat /\ Len(b[k]) \in Nat
  BY EntryNumbers
<1>3. Len(b[k]) > 0 => k + Len(b[k]) <= L
  BY DEF IsMap
<1> QED
  BY <1>1, <1>2, <1>3

\* What send_to_bytestream writes and what it keeps.  A byte it drops with an
\* entry is one there is no room for.
Sent(r, t, L, C) ==
    /\ Assembling(t, L, C)
    /\ \A k \in DOMAIN t.buffer : k > t.expected
    /\ t.expected = next_expected(r)
    /\ t.expected >= r.expected
    /\ t.eof_index = r.eof_index
    /\ t.output.bytes_read = r.output.bytes_read
    /\ t.output.error = r.output.error
    /\ stored(t.buffer) \subseteq stored(r.buffer)
    /\ \A i \in r.expected .. t.expected - 1 : i \in stored(r.buffer)
    /\ \A i \in stored(r.buffer) :
          i < r.output.bytes_read + C => i < t.expected \/ i \in stored(t.buffer)

LEMMA SendAssembles ==
    ASSUME NEW L \in Nat, NEW C \in Nat, NEW r, Assembling(r, L, C)
    PROVE  Sent(r, send_to_bytestream(r), L, C)
<1> DEFINE x == r.expected
           room == Stream!remaining_capacity(r.output)
           e == next_expected(r)
           data == [j \in 1 .. e - x |-> byte_at(r.buffer, x + j - 1)]
           o == Stream!write(r.output, data)
           b == Restrict(r.buffer, {k \in DOMAIN r.buffer : k > e})
           t == send_to_bytestream(r)
<1>1. /\ IsMap(r.buffer, L) /\ IsOutput(r.output, C) /\ x \in 0 .. L
      /\ x = r.output.bytes_written /\ r.eof_index \in {SizeT - 1, L}
      /\ r.output.end_input => x = L /\ r.eof_index = L
  BY DEF Assembling
<1>2. room \in Nat /\ x + room = r.output.bytes_read + C /\ r.output.bytes_read \in Nat
  <2>1. r.output \in [buffer : Seq(Int), capacity : {C}, bytes_written : Nat, bytes_read : Nat,
                      end_input : BOOLEAN, error : BOOLEAN]
    BY <1>1 DEF IsOutput
  <2>2. Len(r.output.buffer) \in Nat /\ r.output.capacity = C
    BY <2>1, LenProperties
  <2>3. x = r.output.bytes_read + Len(r.output.buffer) /\ Len(r.output.buffer) <= C
    BY <1>1, <2>2 DEF IsOutput, Stream!StreamOK
  <2>4. room = C - Len(r.output.buffer)
    BY <2>2 DEF Stream!remaining_capacity
  <2>5. r.output.bytes_read \in Nat
    BY <2>1
  <2> HIDE DEF room, x
  <2> QED
    BY <2>2, <2>3, <2>4, <2>5
<1>3. /\ e \in x .. x + room
      /\ \A i \in x .. e - 1 : i \in stored(r.buffer)
      /\ e = x + room \/ e \notin stored(r.buffer)
  BY <1>1, <1>2, LoopStops
<1>4. t = [r EXCEPT !.output = o, !.expected = e, !.buffer = b]
  BY DEF send_to_bytestream
<1> HIDE DEF e, room
<1>5. e \in x .. L
  <2>1. CASE e = x
    BY <1>1, <2>1
  <2>2. CASE e # x
    <3>1. e - 1 \in x .. e - 1
      BY <1>1, <1>2, <1>3, <2>2
    <3>2. e - 1 < L
      BY <1>1, <1>3, <3>1, StoredBelow
    <3> QED
      BY <1>1, <1>2, <1>3, <3>2
  <2> QED
    BY <2>1, <2>2
<1>6. IsPiece(data, x, e - x)
  <2>1. ASSUME NEW j \in 1 .. e - x PROVE byte_at(r.buffer, x + j - 1) = x + j - 1
    <3>1. x + j - 1 \in x .. e - 1
      BY <1>1, <1>5
    <3> QED
      BY <1>1, <1>3, <3>1, ByteAt
  <2>2. data = Stream!Bytes(x, e - x)
    BY <2>1 DEF Stream!Bytes
  <2>3. x \in Int /\ e - x \in Nat
    BY <1>1, <1>5
  <2> HIDE DEF data
  <2> QED
    BY <2>2, <2>3, BytesArePiece
<1>7. /\ IsOutput(o, C) /\ o.bytes_written = e /\ o.bytes_read = r.output.bytes_read
      /\ o.end_input = r.output.end_input /\ o.error = r.output.error
      /\ r.output.end_input => e = x
  <2>1. e - x \in Nat /\ e - x <= room /\ x + (e - x) = e
    BY <1>1, <1>2, <1>3
  <2>2. r.output.end_input => e = x
    BY <1>1, <1>5
  <2>3. r.output.end_input => e - x = 0
    BY <1>1, <2>2
  <2> HIDE DEF data
  <2> QED
    BY <1>1, <1>6, <2>1, <2>2, <2>3, WriteInOrder DEF room
<1>8. /\ IsMap(b, L) /\ DOMAIN b = {k \in DOMAIN r.buffer : k > e}
      /\ \A k \in DOMAIN b : b[k] = r.buffer[k]
  BY <1>1, PartOfMap
<1> HIDE DEF o, b, t, data
<1>9. r = [buffer |-> r.buffer, expected |-> r.expected, eof_index |-> r.eof_index,
           output |-> r.output]
  BY DEF Assembling
<1>10. t = [buffer |-> b, expected |-> e, eof_index |-> r.eof_index, output |-> o]
  BY <1>4, <1>9, Zenon
<1>11. Assembling(t, L, C)
  <2>1. e \in 0 .. L
    BY <1>1, <1>5
  <2>2. o.end_input => e = L /\ r.eof_index = L
    BY <1>1, <1>7
  <2> QED
    BY <1>1, <1>7, <1>8, <1>10, <2>1, <2>2 DEF Assembling
<1>12. ASSUME NEW i \in stored(b) PROVE i \in stored(r.buffer)
  BY <1>1, <1>8, StoredIn
<1>13. ASSUME NEW i \in stored(r.buffer), i < r.output.bytes_read + C, ~(i < e)
       PROVE  i \in stored(b)
  <2>1. PICK k \in DOMAIN r.buffer : i \in Nat /\ k <= i /\ i < k + Len(r.buffer[k])
    BY <1>1, StoredIn
  <2>2. k \in Nat /\ Len(r.buffer[k]) \in Nat /\ e \in Nat
    BY <1>1, <1>5, EntryNumbers
  <2>3. k > e
    <3>1. SUFFICES ASSUME k <= e PROVE FALSE
      BY <2>2
    <3>2. e < k + Len(r.buffer[k])
      BY <1>13, <2>1, <2>2, <3>1
    <3>3. e \in stored(r.buffer)
      BY <1>1, <2>2, <3>1, <3>2, StoredIn
    <3> QED
      BY <1>2, <1>3, <1>13, <2>1, <2>2, <3>3
  <2>4. k \in DOMAIN b /\ b[k] = r.buffer[k]
    BY <1>8, <2>3
  <2> QED
    BY <1>8, <2>1, <2>4, StoredIn
<1>14. e >= x
  BY <1>1, <1>5
<1>15. t.buffer = b /\ t.expected = e /\ t.eof_index = r.eof_index /\ t.output = o
  BY <1>10
<1> QED
  BY <1>3, <1>7, <1>8, <1>11, <1>12, <1>13, <1>14, <1>15 DEF e, t, Sent

\* What push_substring does to a reassembler at rest, given a substring of the
\* stream.
Pushed(r, t, data, index, n, eof, L, C) ==
    /\ AtRest(t, L, C)
    /\ t.expected >= r.expected
    /\ t.eof_index = IF eof THEN L ELSE r.eof_index
    /\ t.output.bytes_read = r.output.bytes_read
    /\ t.output.error = r.output.error
    /\ stored(t.buffer) \subseteq stored(r.buffer) \union (index .. index + n - 1)
    /\ \A i \in stored(r.buffer) \union (index .. index + n - 1) :
          i < r.output.bytes_read + C => i < t.expected \/ i \in stored(t.buffer)
    /\ IF index + n > r.expected
         THEN /\ t.expected = next_expected([r EXCEPT !.buffer = insert(@, index, data)])
              /\ \A i \in r.expected .. t.expected - 1 :
                    i \in stored(r.buffer) \union (index .. index + n - 1)
         ELSE t.buffer = r.buffer

LEMMA PushAssembles ==
    ASSUME NEW L \in Nat, NEW C \in Nat, L < SizeT - 1, NEW r, AtRest(r, L, C),
           NEW index \in Nat, NEW n \in Nat, NEW data, IsPiece(data, index, n),
           index + n < SizeT, n > 0 => index + n <= L,
           NEW eof \in BOOLEAN, eof => index + n = L
    PROVE  Pushed(r, push_substring(r, data, index, eof), data, index, n, eof, L, C)
<1> DEFINE v == end_of(index, Len(data))
           r1 == IF eof THEN [r EXCEPT !.eof_index = v] ELSE r
           ri == [r1 EXCEPT !.buffer = insert(r1.buffer, index, data)]
           r2 == IF v > r.expected THEN send_to_bytestream(ri) ELSE r1
           r3 == [r2 EXCEPT !.output = Stream!end_input(r2.output)]
           t == push_substring(r, data, index, eof)
           new == stored(r.buffer) \union (index .. index + n - 1)
           limit == r.output.bytes_read + C
<1>1. t = IF r2.expected = r2.eof_index THEN r3 ELSE r2
  BY DEF push_substring
<1>2. v = index + n /\ (eof => v = L)
  BY EndOf, Zenon DEF IsPiece
<1>3. /\ Assembling(r, L, C) /\ IsMap(r.buffer, L) /\ r.expected \in 0 .. L
      /\ r.output.bytes_read \in Nat
      /\ r = [buffer |-> r.buffer, expected |-> r.expected, eof_index |-> r.eof_index,
              output |-> r.output]
      /\ \A k \in DOMAIN r.buffer : k > r.expected
  BY DEF AtRest, Assembling, IsOutput
<1>4. /\ Assembling(r1, L, C)
      /\ r1.buffer = r.buffer /\ r1.expected = r.expected /\ r1.output = r.output
      /\ r1.eof_index = IF eof THEN L ELSE r.eof_index
  <2> DEFINE q == [r EXCEPT !.eof_index = v]
  <2>1. r1 = IF eof THEN q ELSE r
    OBVIOUS
  <2> HIDE DEF v, r1
  <2>2. q = [buffer |-> r.buffer, expected |-> r.expected, eof_index |-> v, output |-> r.output]
    BY <1>3
  <2>3. eof => Assembling(q, L, C)
    BY <1>2, <1>3, <2>2 DEF Assembling
  <2> QED
    BY <1>2, <1>3, <2>1, <2>2, <2>3
<1>5. /\ Assembling(ri, L, C) /\ stored(ri.buffer) = new
      /\ ri.expected = r.expected /\ ri.output = r.output /\ ri.eof_index = r1.eof_index
  <2> DEFINE b == insert(r.buffer, index, data)
  <2>1. ri = [r1 EXCEPT !.buffer = b]
    BY <1>4
  <2>2. IsMap(b, L) /\ stored(b) = new
    <3>1. Inserted(r.buffer, b, index, n, data, L)
      BY <1>3, InsertStores
    <3> HIDE DEF b
    <3> QED
      BY <3>1 DEF Inserted
  <2> HIDE DEF b, r1, ri, new
  <2>3. r1 = [buffer |-> r1.buffer, expected |-> r1.expected, eof_index |-> r1.eof_index,
              output |-> r1.output]
    BY <1>4 DEF Assembling
  <2>4. ri = [buffer |-> b, expected |-> r1.expected, eof_index |-> r1.eof_index,
              output |-> r1.output]
    BY <2>1, <2>3
  <2>5. Assembling(ri, L, C)
    BY <1>4, <2>2, <2>4, Zenon DEF Assembling
  <2> QED
    BY <1>4, <2>2, <2>4, <2>5
<1> DEFINE rb == [r EXCEPT !.buffer = insert(@, index, data)]
<1>6. next_expected(ri) = next_expected(rb)
  <2>1. rb.expected = r.expected /\ rb.output = r.output /\ rb.buffer = insert(r.buffer, index, data)
    BY <1>3
  <2>2. ri.buffer = insert(r.buffer, index, data)
    <3>1. "buffer" \in DOMAIN r1
      BY <1>4 DEF Assembling
    <3> HIDE DEF r1
    <3> QED
      BY <1>4, <3>1
  <2> HIDE DEF ri, rb
  <2> QED
    BY <1>5, <2>1, <2>2, Zenon DEF next_expected
<1> HIDE DEF r1, ri, v, rb
<1>7. /\ Assembling(r2, L, C) /\ r2.expected >= r.expected /\ r2.eof_index = r1.eof_index
      /\ r2.output.bytes_read = r.output.bytes_read /\ r2.output.error = r.output.error
      /\ stored(r2.buffer) \subseteq new
      /\ \A k \in DOMAIN r2.buffer : k > r2.expected
      /\ \A i \in new : i < limit => i < r2.expected \/ i \in stored(r2.buffer)
      /\ IF v > r.expected
           THEN /\ r2.expected = next_expected(rb)
                /\ \A i \in r.expected .. r2.expected - 1 : i \in new
           ELSE r2.buffer = r.buffer
  <2>1. CASE v > r.expected
    <3> DEFINE s == send_to_bytestream(ri)
    <3>1. /\ Assembling(s, L, C) /\ s.expected >= ri.expected /\ s.eof_index = ri.eof_index
          /\ s.output.bytes_read = ri.output.bytes_read /\ s.output.error = ri.output.error
          /\ stored(s.buffer) \subseteq stored(ri.buffer)
          /\ \A k \in DOMAIN s.buffer : k > s.expected
          /\ s.expected = next_expected(ri)
          /\ \A i \in ri.expected .. s.expected - 1 : i \in stored(ri.buffer)
          /\ \A i \in stored(ri.buffer) :
                i < ri.output.bytes_read + C => i < s.expected \/ i \in stored(s.buffer)
      <4>1. Sent(ri, s, L, C)
        BY <1>5, SendAssembles
      <4> HIDE DEF s
      <4> QED
        BY <4>1 DEF Sent
    <3>2. r2 = s
      BY <2>1
    <3> HIDE DEF s, r2, new
    <3> QED
      BY <1>5, <1>6, <2>1, <3>1, <3>2
  <2>2. CASE ~(v > r.expected)
    <3>1. r2 = r1
      BY <2>2
    <3> HIDE DEF r2
    <3>2. ASSUME NEW i \in new PROVE i < r1.expected \/ i \in stored(r1.buffer)
      <4>1. CASE i \in stored(r.buffer)
        BY <1>4, <4>1
      <4>2. CASE i \in index .. index + n - 1
        BY <1>2, <1>3, <1>4, <2>2, <4>2
      <4> QED
        BY <4>1, <4>2
    <3>3. stored(r1.buffer) \subseteq new
      BY <1>4
    <3>4. r1.expected >= r.expected
      BY <1>3, <1>4
    <3> HIDE DEF new
    <3> QED
      BY <1>3, <1>4, <2>2, <3>1, <3>2, <3>3, <3>4
  <2> QED
    BY <2>1, <2>2
<1> HIDE DEF r2, new
<1>8. r2.expected \in 0 .. L /\ r2.eof_index \in {SizeT - 1, L} /\ IsOutput(r2.output, C)
  BY <1>7 DEF Assembling
<1>9. CASE r2.expected = r2.eof_index
  <2> DEFINE o == Stream!end_input(r2.output)
  <2>1. r2.eof_index = L /\ r2.expected = L
    BY <1>8, <1>9, SizeTAssumption
  <2>2. /\ IsOutput(o, C) /\ o.bytes_written = r2.output.bytes_written
        /\ o.bytes_read = r2.output.bytes_read /\ o.end_input /\ o.error = r2.output.error
    BY <1>8, EndInPlace
  <2>3. r3 = [r2 EXCEPT !.output = o]
    OBVIOUS
  <2> HIDE DEF o, r3
  <2>4. r2 = [buffer |-> r2.buffer, expected |-> r2.expected, eof_index |-> r2.eof_index,
              output |-> r2.output]
    BY <1>7 DEF Assembling
  <2>5. r3 = [buffer |-> r2.buffer, expected |-> r2.expected, eof_index |-> r2.eof_index,
              output |-> o]
    BY <2>3, <2>4
  <2>6. Assembling(r3, L, C)
    BY <1>7, <2>1, <2>2, <2>5 DEF Assembling
  <2>7. AtRest(r3, L, C)
    BY <1>7, <2>2, <2>5, <2>6 DEF AtRest
  <2>8. t = r3
    BY <1>1, <1>9
  <2>9. /\ t.expected = r2.expected /\ t.eof_index = r2.eof_index /\ t.buffer = r2.buffer
        /\ t.output.bytes_read = r2.output.bytes_read /\ t.output.error = r2.output.error
    BY <2>2, <2>5, <2>8
  <2> HIDE DEF t
  <2> QED
    BY <1>2, <1>4, <1>7, <2>7, <2>8, <2>9 DEF Pushed, t, new, rb
<1>10. CASE r2.expected # r2.eof_index
  <2>1. t = r2
    BY <1>1, <1>10
  <2>2. AtRest(r2, L, C)
    BY <1>7, <1>10 DEF AtRest
  <2> HIDE DEF t
  <2> QED
    BY <1>2, <1>4, <1>7, <2>1, <2>2 DEF Pushed, t, new, rb
<1> QED
  BY <1>9, <1>10
\* Nothing is stored in an empty map.
LEMMA EmptyMap ==
    ASSUME NEW L \in Nat
    PROVE  IsMap([k \in {} |-> <<>>], L) /\ stored([k \in {} |-> <<>>]) = {}
BY DEF IsMap, stored

\* A new reassembler is at rest.
LEMMA NewAtRest ==
    ASSUME NEW L \in Nat, NEW C \in Nat, L < SizeT - 1
    PROVE  AtRest(new_reassembler(C), L, C)
<1> DEFINE r == new_reassembler(C)
           s == Stream!new_stream(C)
<1>1. s = [buffer |-> <<>>, capacity |-> C, bytes_written |-> 0, bytes_read |-> 0,
           end_input |-> FALSE, error |-> FALSE]
  BY DEF Stream!new_stream
<1>2. IsOutput(s, C)
  <2>1. <<>> \in Seq(Int) /\ Len(<<>>) = 0
    OBVIOUS
  <2>2. Stream!StreamOK(s)
    <3> HIDE DEF s
    <3>1. s.buffer = <<>> /\ s.bytes_written = 0 /\ s.bytes_read = 0 /\ s.capacity = C
      BY <1>1
    <3>2. 1 .. 0 = {}
      OBVIOUS
    <3> QED
      BY <2>1, <3>1, <3>2 DEF Stream!StreamOK
  <2> HIDE DEF s
  <2>3. s \in [buffer : Seq(Int), capacity : {C}, bytes_written : Nat, bytes_read : Nat,
               end_input : BOOLEAN, error : BOOLEAN]
    BY <1>1, <2>1
  <2> QED
    BY <2>2, <2>3 DEF IsOutput
<1>3. r = [buffer |-> [k \in {} |-> <<>>], expected |-> 0, eof_index |-> SizeT - 1, output |-> s]
  BY DEF new_reassembler
<1> HIDE DEF s, r
<1>4. s.bytes_written = 0 /\ s.end_input = FALSE
  BY <1>1
<1>5. 0 \in 0 .. L /\ SizeT - 1 # L
  BY SizeTAssumption
<1>6. Assembling(r, L, C)
  BY <1>2, <1>3, <1>4, <1>5, EmptyMap DEF Assembling
<1>7. r.eof_index # L /\ DOMAIN r.buffer = {}
  BY <1>3, <1>5
<1> QED
  BY <1>6, <1>7 DEF AtRest, r

\* The numbers of a reassembler at rest.
LEMMA RestNumbers ==
    ASSUME NEW r, NEW L \in Nat, NEW C \in Nat, AtRest(r, L, C)
    PROVE  r.expected \in Nat /\ r.output.bytes_read \in Nat /\ IsOutput(r.output, C)
BY DEF AtRest, Assembling, IsOutput

------------------------------------------------------------------------------
(* The counter _unassembled_bytes.                                         *)

\* The bytes of the entries with their keys in S.
covered(b, S) == UNION {k .. k + Len(b[k]) - 1 : k \in S}

Span(x, m) == x .. x + m - 1

LEMMA IntervalSize ==
    ASSUME NEW x \in Int, NEW m \in Nat
    PROVE  IsFiniteSet(Span(x, m)) /\ Cardinality(Span(x, m)) = m
<1> DEFINE y == x + m - 1
<1>1. y \in Int /\ (IF x > y THEN 0 ELSE y - x + 1) = m
  OBVIOUS
<1> HIDE DEF y
<1>2. IsFiniteSet(x .. y) /\ Cardinality(x .. y) = IF x > y THEN 0 ELSE y - x + 1
  BY <1>1, FS_Interval
<1> QED
  BY <1>1, <1>2 DEF y, Span

LEMMA CoveredFinite ==
    ASSUME NEW b, NEW L \in Nat, IsMap(b, L), NEW S, S \subseteq DOMAIN b
    PROVE  IsFiniteSet(covered(b, S)) /\ Cardinality(covered(b, S)) \in Nat
<1>1. covered(b, S) \subseteq stored(b)
  BY Zenon DEF covered, stored
<1>2. ASSUME NEW i \in stored(b) PROVE i \in 0 .. L
  <2>1. i \in Nat /\ i < L
    BY StoredBelow
  <2> QED
    BY <2>1
<1>3. covered(b, S) \in SUBSET (0 .. L)
  BY <1>1, <1>2
<1>4. IsFiniteSet(0 .. L)
  BY FS_Interval
<1> QED
  BY <1>3, <1>4, FS_Subset, FS_CardinalityType

\* Entries do not overlap, so that each counts with its length.
LEMMA CoveredOne ==
    ASSUME NEW b, NEW L \in Nat, IsMap(b, L), NEW S, S \subseteq DOMAIN b, NEW x \in S
    PROVE  Cardinality(covered(b, S)) = Len(b[x]) + Cardinality(covered(b, S \ {x}))
<1> DEFINE one == x .. x + Len(b[x]) - 1
           others == covered(b, S \ {x})
<1>1. x \in Nat /\ Len(b[x]) \in Nat
  BY EntryNumbers
<1>2. covered(b, S) = one \union others
  <2>1. \A i : i \in covered(b, S) <=> \E k \in S : i \in k .. k + Len(b[k]) - 1
    BY Zenon DEF covered
  <2>2. \A i : i \in others <=> \E k \in S \ {x} : i \in k .. k + Len(b[k]) - 1
    BY Zenon DEF covered
  <2> HIDE DEF others
  <2> QED
    BY <2>1, <2>2
<1>3. ASSUME NEW i \in one, i \in others PROVE FALSE
  <2>1. PICK k \in S \ {x} : i \in k .. k + Len(b[k]) - 1
    BY <1>3 DEF covered
  <2>2. k \in Nat /\ Len(b[k]) \in Nat /\ k # x
    BY EntryNumbers
  <2>3. (k < x => k + Len(b[k]) <= x) /\ (x < k => x + Len(b[x]) <= k)
    BY DEF IsMap
  <2> QED
    BY <1>1, <1>3, <2>1, <2>2, <2>3
<1>4. IsFiniteSet(one) /\ Cardinality(one) = Len(b[x])
  <2>1. one = Span(x, Len(b[x])) /\ x \in Int
    BY <1>1 DEF Span
  <2> HIDE DEF one
  <2> QED
    BY <1>1, <2>1, IntervalSize
<1>5. IsFiniteSet(others) /\ Cardinality(others) \in Nat
  BY CoveredFinite
<1> HIDE DEF one, others
<1>6. one \cap others = {}
  BY <1>3
<1>7. Cardinality(one \union others) = Cardinality(one) + Cardinality(others) - 0
  BY <1>4, <1>5, <1>6, FS_Union, FS_EmptySet
<1> QED
  BY <1>1, <1>2, <1>4, <1>5, <1>7 DEF others

\* The sum of the lengths of the entries S is the number of their bytes.
SumFrom(b, S, f) ==
    f = [s \in SUBSET S |->
            IF s = {} THEN 0
            ELSE LET x == CHOOSE x \in s : TRUE IN Len(b[x]) + f[s \ {x}]]

LEMMA SumOfLengths ==
    ASSUME NEW b, NEW L \in Nat, IsMap(b, L), NEW S, S \subseteq DOMAIN b, IsFiniteSet(S)
    PROVE  MapThenSumSet(LAMBDA k : Len(b[k]), S) = Cardinality(covered(b, S))
<1> DEFINE G == [s \in SUBSET S |-> Cardinality(covered(b, s))]
           f == CHOOSE f : SumFrom(b, S, f)
<1>1. ASSUME NEW s \in SUBSET S, s # {}
      PROVE  LET x == CHOOSE x \in s : TRUE
             IN  /\ x \in s /\ s \ {x} \in SUBSET S
                 /\ G[s] = Len(b[x]) + G[s \ {x}]
  <2> DEFINE x == CHOOSE x \in s : TRUE
  <2>1. x \in s
    BY <1>1
  <2> HIDE DEF x
  <2>2. s \ {x} \in SUBSET S
    OBVIOUS
  <2>3. Cardinality(covered(b, s)) = Len(b[x]) + Cardinality(covered(b, s \ {x}))
    BY <2>1, CoveredOne
  <2>4. G[s] = Len(b[x]) + G[s \ {x}]
    BY <2>2, <2>3
  <2> QED
    BY <2>1, <2>2, <2>4 DEF x
<1>2. G[{}] = 0
  <2>1. covered(b, {}) = {}
    BY DEF covered
  <2> QED
    BY <2>1, FS_EmptySet
<1>3. SumFrom(b, S, G)
  <2> DEFINE H == [s \in SUBSET S |-> IF s = {} THEN 0
                       ELSE LET x == CHOOSE x \in s : TRUE IN Len(b[x]) + G[s \ {x}]]
  <2>1. \A s \in SUBSET S : G[s] = H[s]
    BY <1>1, <1>2, Zenon
  <2>2. G = H
    BY <2>1, Zenon
  <2> HIDE DEF G
  <2> QED
    BY <2>2, Zenon DEF SumFrom
<1>4. SumFrom(b, S, f)
  BY <1>3
<1>5. MapThenSumSet(LAMBDA k : Len(b[k]), S) = f[S]
  BY Zenon DEF MapThenSumSet, MapThenFoldSet, SumFrom
<1> HIDE DEF G, f
<1>6. /\ f[{}] = 0
      /\ \A s \in SUBSET S : s # {} => LET x == CHOOSE x \in s : TRUE
                                       IN  f[s] = Len(b[x]) + f[s \ {x}]
  BY <1>4 DEF SumFrom
\* Two functions with these values agree: a smallest set on which they do not
\* loses an element.
<1>7. \A s \in SUBSET S : f[s] = G[s]
  <2> DEFINE Bad == {s \in SUBSET S : f[s] # G[s]}
             T == {Cardinality(s) : s \in Bad}
  <2>1. SUFFICES ASSUME Bad # {} PROVE FALSE
    OBVIOUS
  <2>2. \A s \in SUBSET S : IsFiniteSet(s) /\ Cardinality(s) \in Nat
    BY FS_Subset, FS_CardinalityType
  <2>3. T \subseteq Nat /\ T # {}
    BY <2>1, <2>2
  <2>4. PICK n \in T : \A y \in T : n <= y
    BY <2>3, LeastNatural, Zenon
  <2>5. PICK s \in Bad : n = Cardinality(s)
    BY <2>4
  <2>6. s # {}
    BY <1>2, <1>6, <2>5, Zenon
  <2> DEFINE x == CHOOSE x \in s : TRUE
  <2>7. /\ x \in s /\ s \ {x} \in SUBSET S
        /\ G[s] = Len(b[x]) + G[s \ {x}] /\ f[s] = Len(b[x]) + f[s \ {x}]
    BY <1>1, <1>6, <2>6, Zenon
  <2> HIDE DEF x
  <2>8. Cardinality(s \ {x}) = Cardinality(s) - 1 /\ Cardinality(s) \in Nat
    BY <2>2, <2>7, FS_RemoveElement
  <2>9. s \ {x} \notin Bad
    <3>1. SUFFICES ASSUME s \ {x} \in Bad PROVE FALSE
      OBVIOUS
    <3>2. n <= Cardinality(s \ {x})
      BY <2>4, <3>1
    <3> QED
      BY <2>5, <2>8, <3>2
  <2>10. f[s \ {x}] = G[s \ {x}]
    BY <2>7, <2>9
  <2> QED
    BY <2>5, <2>7, <2>10
<1>8. f[S] = G[S] /\ G[S] = Cardinality(covered(b, S))
  BY <1>7, Zenon DEF G
<1> QED
  BY <1>5, <1>8, Zenon

\* A set of numbers without some that it has.
LEMMA Without ==
    ASSUME NEW T, IsFiniteSet(T), NEW x \in Int, NEW e \in Int, x <= e,
           \A i \in x .. e - 1 : i \in T,
           NEW U, U \subseteq T, \A i \in U : i \notin x .. e - 1
    PROVE  /\ Cardinality(U) \in Nat /\ Cardinality(T) \in Nat
           /\ Cardinality(U) <= Cardinality(T) - (e - x)
<1> DEFINE I == x .. e - 1
<1>1. IsFiniteSet(I) /\ Cardinality(I) = e - x
  <2>1. e - x \in Nat /\ x + (e - x) - 1 = e - 1
    OBVIOUS
  <2>2. I = Span(x, e - x)
    BY <2>1 DEF Span
  <2> HIDE DEF I
  <2> QED
    BY <2>1, <2>2, IntervalSize
<1>2. T \cap I = I /\ U \in SUBSET (T \ I)
  OBVIOUS
<1> HIDE DEF I
<1>3. IsFiniteSet(T \ I) /\ Cardinality(T \ I) = Cardinality(T) - (e - x)
  <2>1. IsFiniteSet(T \ I) /\ Cardinality(T \ I) = Cardinality(T) - Cardinality(T \cap I)
    BY FS_Difference, Zenon
  <2>2. Cardinality(T \cap I) = e - x
    BY <1>1, <1>2
  <2> QED
    BY <2>1, <2>2
<1>4. IsFiniteSet(U) /\ Cardinality(U) <= Cardinality(T \ I)
  BY <1>2, <1>3, FS_Subset
<1> QED
  BY <1>3, <1>4, FS_CardinalityType

\* push_substring keeps the counter at or above the number of bytes stored.
LEMMA CounterCovers ==
    ASSUME NEW L \in Nat, NEW C \in Nat, L < SizeT - 1, NEW r, AtRest(r, L, C),
           NEW index \in Nat, NEW n \in Nat, NEW data, IsPiece(data, index, n),
           index + n < SizeT, n > 0 => index + n <= L,
           NEW eof \in BOOLEAN, eof => index + n = L,
           NEW count \in Int, count >= Cardinality(stored(r.buffer))
    PROVE  /\ unassembled_after(count, r, data, index) \in Int
           /\ unassembled_after(count, r, data, index)
                >= Cardinality(stored(push_substring(r, data, index, eof).buffer))
<1> DEFINE b == r.buffer
           gone == repeated(b, index, data)
           kept == Restrict(b, DOMAIN b \ gone)
           d == insert(b, index, data)
           rb == [r EXCEPT !.buffer = insert(@, index, data)]
           added == IF held(kept, index, data) THEN 0 ELSE Len(trimmed(kept, index, data).data)
           sum == MapThenSumSet(LAMBDA k : Len(r.buffer[k]), gone)
           t == push_substring(r, data, index, eof)
           x == r.expected
           e == next_expected(rb)
           after == unassembled_after(count, r, data, index)
           new == stored(b) \union (index .. index + n - 1)
<1>1. IsMap(b, L) /\ x \in 0 .. L
  BY DEF AtRest, Assembling
<1>2. end_of(index, Len(data)) = index + n
  BY EndOf DEF IsPiece
<1>3. after = IF index + n > x THEN count - sum + added - (e - x) ELSE count
  BY <1>2, Zenon DEF unassembled_after
<1>4. Pushed(r, t, data, index, n, eof, L, C)
  BY PushAssembles
<1>5. Inserted(b, d, index, n, data, L)
  BY <1>1, InsertStores
<1> HIDE DEF t, d
<1>6. /\ AtRest(t, L, C) /\ stored(t.buffer) \subseteq new
      /\ t.expected >= x
      /\ IF index + n > x THEN t.expected = e /\ \A i \in x .. e - 1 : i \in new
                          ELSE t.buffer = b
  BY <1>4 DEF Pushed
<1>7. IsMap(kept, L) /\ gone \subseteq DOMAIN b /\ stored(d) = new
  BY <1>5 DEF Inserted
<1>8. PICK lo, size : Adds(kept, index, n, data, d, lo, size)
  BY <1>5 DEF Inserted
<1>9. /\ lo \in Nat /\ size \in Nat /\ size = added
      /\ \A i \in lo .. lo + size - 1 : i \notin stored(kept)
      /\ stored(d) = stored(kept) \union (lo .. lo + size - 1)
  BY <1>8, Zenon DEF Adds
<1>10. gone \subseteq index .. index + n /\ IsFiniteSet(gone)
  <2>1. gone \subseteq index .. index + n
    <3>1. \A k \in gone : index <= k /\ k + Len(b[k]) <= index + n
      BY <1>1, Erased, Zenon DEF IsPiece
    <3>2. \A k \in gone : k \in Nat /\ Len(b[k]) \in Nat
      BY <1>1, <1>7, EntryNumbers
    <3> HIDE DEF gone, b
    <3>3. ASSUME NEW k \in gone PROVE k \in index .. index + n
      BY <3>1, <3>2
    <3> QED
      BY <3>3
  <2> HIDE DEF gone
  <2>2. IsFiniteSet(index .. index + n)
    <3>1. index \in Int /\ index + n \in Int
      OBVIOUS
    <3> QED
      BY <3>1, FS_Interval
  <2> QED
    BY <2>1, <2>2, FS_Subset, Zenon
<1>11. sum = Cardinality(covered(b, gone)) /\ sum \in Nat
  <2>1. sum = Cardinality(covered(b, gone))
    BY <1>1, <1>7, <1>10, SumOfLengths, Zenon
  <2>2. Cardinality(covered(b, gone)) \in Nat
    <3> HIDE DEF gone, b
    <3> QED
      BY <1>1, <1>7, CoveredFinite
  <2> HIDE DEF sum
  <2> QED
    BY <2>1, <2>2
<1> HIDE DEF sum, gone, kept, added, after, e
<1>12. IsFiniteSet(stored(b)) /\ IsFiniteSet(stored(kept)) /\ IsFiniteSet(stored(d))
  <2>1. \A q : stored(q) = covered(q, DOMAIN q)
    BY DEF stored, covered
  <2>2. IsMap(d, L)
    BY <1>5 DEF Inserted
  <2> QED
    BY <1>1, <1>7, <2>1, <2>2, CoveredFinite
<1>13. /\ Cardinality(stored(b)) \in Nat /\ Cardinality(stored(kept)) \in Nat
       /\ Cardinality(stored(d)) \in Nat
  BY <1>12, FS_CardinalityType
<1>14. Cardinality(stored(kept)) <= Cardinality(stored(b)) - sum
  \* The bytes of kept and of gone make up stored(b), without overlap.
  <2> DEFINE A == stored(kept)
             B == covered(b, gone)
  <2>1. A \cap B = {} /\ A \union B \subseteq stored(b)
    <3>1. DOMAIN kept = DOMAIN b \ gone /\ \A k \in DOMAIN b \ gone : kept[k] = b[k]
      BY <1>1, PartOfMap DEF kept
    <3>2. \A k \in DOMAIN b : k \in Nat /\ Len(b[k]) \in Nat
      BY <1>1, EntryNumbers
    <3>3. ASSUME NEW i, i \in A, i \in B PROVE FALSE
      <4>1. PICK k \in DOMAIN kept : k <= i /\ i < k + Len(kept[k]) /\ i \in Nat
        BY <1>7, <3>3, StoredIn
      <4>2. PICK l \in gone : i \in l .. l + Len(b[l]) - 1
        BY <3>3 DEF covered
      <4>3. k \in DOMAIN b /\ k # l /\ kept[k] = b[k] /\ l \in DOMAIN b
        BY <1>7, <3>1, <4>1
      <4>4. (k < l => k + Len(b[k]) <= l) /\ (l < k => l + Len(b[l]) <= k)
        BY <1>1, <4>3 DEF IsMap
      <4> HIDE DEF b
      <4> QED
        BY <3>2, <4>1, <4>2, <4>3, <4>4
    <3>4. ASSUME NEW i \in A PROVE i \in stored(b)
      BY <1>1, <1>7, <3>1, StoredIn
    <3>5. B \subseteq stored(b)
      BY <1>7, Zenon DEF covered, stored
    <3> HIDE DEF A, B
    <3> QED
      BY <3>3, <3>4, <3>5
  <2>2. IsFiniteSet(A) /\ IsFiniteSet(B)
    BY <1>1, <1>7, <1>12, CoveredFinite
  <2> HIDE DEF A, B
  <2>3. Cardinality(A \union B) = Cardinality(A) + Cardinality(B) - 0
    BY <2>1, <2>2, FS_Union, FS_EmptySet
  <2>4. Cardinality(A \union B) <= Cardinality(stored(b))
    BY <1>12, <2>1, FS_Subset
  <2>5. Cardinality(A) \in Nat /\ Cardinality(B) \in Nat
    BY <2>2, FS_CardinalityType
  <2>6. sum = Cardinality(B)
    BY <1>11 DEF B
  <2> HIDE DEF b
  <2>7. Cardinality(A) <= Cardinality(stored(b)) - sum
    BY <1>13, <2>3, <2>4, <2>5, <2>6
  <2> QED
    BY <2>7 DEF A
<1>15. Cardinality(stored(d)) <= Cardinality(stored(kept)) + added
  <2> DEFINE I == lo .. lo + size - 1
  <2>1. IsFiniteSet(I) /\ Cardinality(I) = size
    <3>1. I = Span(lo, size) /\ lo \in Int
      BY <1>9 DEF Span
    <3> HIDE DEF I
    <3> QED
      BY <1>9, <3>1, IntervalSize
  <2>2. stored(d) = stored(kept) \union I
    BY <1>9
  <2> HIDE DEF I
  <2>3. /\ Cardinality(stored(d))
             = Cardinality(stored(kept)) + Cardinality(I) - Cardinality(stored(kept) \cap I)
    BY <1>12, <2>1, <2>2, FS_Union
  <2>4. Cardinality(stored(kept) \cap I) \in Nat
    BY <1>12, FS_Intersection, FS_CardinalityType, Zenon
  <2> QED
    BY <1>9, <1>13, <2>1, <2>3, <2>4
<1>16. CASE index + n > x
  <2>1. e \in Int /\ x \in Int /\ x <= e /\ t.expected = e
    <3>1. t.expected \in 0 .. L
      BY <1>6 DEF AtRest, Assembling
    <3> QED
      BY <1>1, <1>6, <1>16, <3>1
  <2>2. ASSUME NEW i \in stored(t.buffer) PROVE i \notin x .. e - 1
    <3>1. IsMap(t.buffer, L) /\ \A k \in DOMAIN t.buffer : k > t.expected
      BY <1>6 DEF AtRest, Assembling
    <3>2. PICK k \in DOMAIN t.buffer : k <= i /\ i \in Nat
      BY <3>1, StoredIn
    <3>3. k \in Nat /\ k > e
      BY <2>1, <3>1, EntryNumbers
    <3> QED
      BY <2>1, <3>2, <3>3
  <2>3. \A i \in x .. e - 1 : i \in stored(d)
    BY <1>6, <1>7, <1>16
  <2>4. stored(t.buffer) \subseteq stored(d)
    BY <1>6, <1>7
  <2> HIDE DEF x, new
  <2>5. /\ Cardinality(stored(t.buffer)) \in Nat
        /\ Cardinality(stored(t.buffer)) <= Cardinality(stored(d)) - (e - x)
    BY <1>12, <2>1, <2>2, <2>3, <2>4, Without, Zenon
  <2>6. after = count - sum + added - (e - x)
    BY <1>3, <1>16
  <2>7. added \in Nat /\ count >= Cardinality(stored(b))
    BY <1>9
  <2> DEFINE ct == Cardinality(stored(t.buffer))
             cd == Cardinality(stored(d))
             ck == Cardinality(stored(kept))
             cb == Cardinality(stored(b))
  <2> HIDE DEF ct, cd, ck, cb, b
  <2>8. ct \in Nat /\ cd \in Nat /\ ck \in Nat /\ cb \in Nat
    BY <1>13, <2>5 DEF ct, cd, ck, cb
  <2>9. ct <= cd - (e - x) /\ cd <= ck + added /\ ck <= cb - sum /\ count >= cb
    BY <1>14, <1>15, <2>5, <2>7 DEF ct, cd, ck, cb
  <2>10. after \in Int /\ after >= ct
    BY <1>11, <2>1, <2>6, <2>7, <2>8, <2>9
  <2> QED
    BY <2>10 DEF ct, after, t
<1>17. CASE ~(index + n > x)
  BY <1>3, <1>6, <1>17 DEF after, t
<1> QED
  BY <1>16, <1>17
=============================================================================
