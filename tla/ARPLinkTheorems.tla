--------------------------- MODULE ARPLinkTheorems ---------------------------
(***************************************************************************)
(* What one call of a network interface does to its two maps and its queue *)
(* of frames, and what it keeps of them.                                   *)
(***************************************************************************)
EXTENDS ARPLink, WellFoundedInduction, FiniteSetTheorems, TLAPS

Addresses == {Ip(g) : g \in Stations}

\* Station h's interface, by the fields that change.
Interface(h, out, table, cache, threw) ==
    [ethernet_address |-> Eth(h), ip_address |-> Ip(h), frames_out |-> out,
     arp_forward_table |-> table, arp_request_cache |-> cache, threw |-> threw]

\* Station h's request for an address.
Request(h, ip) ==
    frame(Eth(h), Broadcast, "ARP",
          [opcode |-> "REQUEST",
           sender_ethernet_address |-> Eth(h), sender_ip_address |-> Ip(h),
           target_ethernet_address |-> NoAddress, target_ip_address |-> ip])

\* Station h's interface between two calls.
Resting(i, h) ==
    /\ i.threw \in BOOLEAN
    /\ i = Interface(h, <<>>, i.arp_forward_table, i.arp_request_cache, i.threw)

\* A mapping is not too old, and a station's address leads to that station.
MappingsRight(table) ==
    \A ip \in DOMAIN table :
        /\ table[ip] = [age |-> table[ip].age, mac |-> table[ip].mac]
        /\ table[ip].age \in 0 .. MappingTime
        /\ \A g \in Stations : ip = Ip(g) => table[ip].mac = Eth(g)

\* What waits at station h was handed to it, waits under the address of its next
\* hop and has not been sent; H and S are the datagrams handed and sent so far.
\* Only a call that throws leaves a default-constructed datagram.
WaitingRight(cache, h, H, S) ==
    /\ IsFiniteSet(DOMAIN cache)
    /\ \A ip \in DOMAIN cache :
        /\ cache[ip] = [age |-> cache[ip].age, dgram |-> cache[ip].dgram]
        /\ cache[ip].age \in 0 .. RequestTime
        /\ \/ cache[ip].dgram = DefaultDatagram
           \/ /\ cache[ip].dgram \in H
              /\ cache[ip].dgram.from = h
              /\ Ip(cache[ip].dgram.hop) = ip
              /\ S[cache[ip].dgram] = 0

\* The time s[ip] since the last request for ip is at least the age of the entry
\* that request made; once a reply erased the entry, at least the age of the
\* mapping; and long enough for another one when there is neither.
Spaced(table, cache, s) ==
    \A ip \in Addresses :
        /\ ip \in DOMAIN cache => s[ip] >= cache[ip].age
        /\ ip \notin DOMAIN cache =>
              \/ s[ip] >= RequestTime
              \/ ip \in DOMAIN table /\ s[ip] >= table[ip].age

\* A message names its sender's two addresses; a datagram is on its way to the
\* station that is its next hop.
Honest(f, H, S) ==
    /\ f.type = "ARP" /\ f.payload # Garbled =>
          \E g \in Stations : /\ f.payload.sender_ethernet_address = Eth(g)
                              /\ f.payload.sender_ip_address = Ip(g)
    /\ f.type = "IPv4" /\ f.payload # Garbled =>
          f.payload \in H /\ S[f.payload] > 0 /\ f.dst = Eth(f.payload.hop)

\* The state by its parts.
Types ==
    /\ iface = [h \in Stations |-> iface[h]]
    /\ handed \subseteq Datagrams
    /\ sent \in [Datagrams -> 0 .. 1]
    /\ delivered = [h \in Stations |-> delivered[h]]
    /\ since \in [Stations -> [Addresses -> 0 .. Long]]
    /\ gap \in Nat

\* What each station keeps; one whose call threw is not looked at again.
Station(h) ==
    /\ Resting(iface[h], h)
    /\ MappingsRight(iface[h].arp_forward_table)
    /\ WaitingRight(iface[h].arp_request_cache, h, handed, sent)
    /\ Live(h) => Spaced(iface[h].arp_forward_table, iface[h].arp_request_cache, since[h])

\* The inductive invariant.
LinkInv ==
    /\ Types
    /\ \A d \in Datagrams : d \notin handed => sent[d] = 0
    /\ \A h \in Stations : Station(h)
    /\ \A f \in link : Honest(f, handed, sent)
    /\ DeliveredToNextHop
    /\ gap >= RequestTime

\* A non-empty set of naturals has a least element, which Min yields.
LEMMA MinNatural ==
    ASSUME NEW T, T \subseteq Nat, T # {}
    PROVE  Min(T) \in T /\ \A y \in T : Min(T) <= y
<1> DEFINE R == OpToRel(<, Nat)
<1>1. IsWellFoundedOn(R, Nat)
  BY NatLessThanWellFounded, Zenon
<1>2. \A x, y \in Nat : <<x, y>> \in R <=> x < y
  BY DEF OpToRel
<1> HIDE DEF R
<1>3. PICK x \in T : \A y \in T : <<y, x>> \notin R
  BY <1>1, WFMin, Zenon
<1>4. ASSUME NEW y \in T PROVE x <= y
  <2>1. x \in Nat /\ y \in Nat
    OBVIOUS
  <2>2. ~(y < x)
    BY <1>2, <1>3, <2>1, Zenon
  <2> QED
    BY <2>1, <2>2
<1> QED
  BY <1>4, Zenon DEF Min

\* A time is cut off at Long.
LEMMA CutOff ==
    ASSUME NEW n \in Nat
    PROVE  Min({Long, n}) = IF n <= Long THEN n ELSE Long
<1>1. Long \in Nat
  BY LinkAssumption DEF Long
<1> HIDE DEF Long
<1>2. Min({Long, n}) \in {Long, n} /\ \A y \in {Long, n} : Min({Long, n}) <= y
  BY <1>1, MinNatural
<1> QED
  BY <1>1, <1>2

\* Two stations have two addresses of each kind.
LEMMA AddressesDiffer ==
    \A g, h : (Ip(g) = Ip(h) => g = h) /\ (Eth(g) = Eth(h) => g = h)
BY DEF Ip, Eth

\* What put and erase leave in a map m.
IsPut(n, m, key, value) ==
    /\ DOMAIN n = DOMAIN m \union {key}
    /\ n[key] = value
    /\ \A k \in DOMAIN m : k # key => n[k] = m[k]

IsErased(n, m, key) ==
    /\ DOMAIN n = DOMAIN m \ {key}
    /\ \A k \in DOMAIN m : k # key => n[k] = m[k]

\* put(m, key, value) sets key and nothing else.
LEMMA Put ==
    ASSUME NEW m, NEW key, NEW value
    PROVE  IsPut(put(m, key, value), m, key, value)
BY DEF put, IsPut

\* erase(m, key) forgets key and nothing else.
LEMMA Erase ==
    ASSUME NEW m, NEW key
    PROVE  IsErased(erase(m, key), m, key)
BY DEF erase, IsErased

\* A finite set in some order has the set's elements.
LEMMA SetInOrder ==
    ASSUME NEW T, IsFiniteSet(T)
    PROVE  in_some_order(T) \in Seq(T) /\ Range(in_some_order(T)) = T
<1> DEFINE n == Cardinality(T)
           s == in_some_order(T)
<1>1. n \in Nat /\ ExistsBijection(1 .. n, T)
  BY FS_CardinalityType
<1>2. \E f : f \in Injection(1 .. n, T)
  BY <1>1 DEF ExistsBijection, Bijection
<1>3. s = CHOOSE f : f \in Injection(1 .. n, T) /\ TRUE
  BY Zenon DEF in_some_order
<1> HIDE DEF n, s
<1>4. s \in Surjection(1 .. n, T)
  <2>1. s \in Injection(1 .. n, T)
    BY <1>2, <1>3
  <2>2. Cardinality(1 .. n) = n
    BY <1>1, FS_Interval
  <2>3. Cardinality(1 .. n) = Cardinality(T)
    BY <2>2 DEF n
  <2> QED
    BY <2>1, <2>3, FS_Injection
<1>5. s \in [1 .. n -> T] /\ \A x \in T : \E k \in 1 .. n : s[k] = x
  BY <1>4 DEF Surjection
<1>6. s \in Seq(T)
  BY <1>1, <1>5
<1>7. Range(s) = T
  BY <1>5, Zenon DEF Range
<1> QED
  BY <1>6, <1>7 DEF s

\* The frames of out that carry d.
Carrying(out, d) == {k \in 1 .. Len(out) : out[k].type = "IPv4" /\ out[k].payload = d}

\* The addresses that the frames of out ask for.
Asked(out, h) == {ip \in Addresses : \E k \in 1 .. Len(out) : out[k] = Request(h, ip)}

\* The times since the last requests, ms later and after requests for A.
Aged(s, ms, A) == [ip \in Addresses |-> IF ip \in A THEN 0 ELSE Min({Long, s[ip] + ms})]

\* Transmit for an interface given by its fields.
Transmitted(h, out, table, cache, threw, ms, rest) ==
    /\ iface' = [iface EXCEPT ![h] = Interface(h, <<>>, table, cache, threw)]
    /\ link' = rest \union Range(out)
    /\ sent' = [d \in Datagrams |-> sent[d] + Cardinality(Carrying(out, d))]
    /\ since' = [since EXCEPT ![h] = Aged(since[h], ms, Asked(out, h))]
    /\ gap' = Min({gap} \union {Min({Long, since[h][ip] + ms}) : ip \in Asked(out, h)})

\* Transmit, read field by field.
LEMMA TransmitByFields ==
    ASSUME Types, NEW h \in Stations, NEW out, NEW table, NEW cache, NEW threw \in BOOLEAN,
           NEW ms \in Nat, NEW rest, Len(out) \in Nat, threw => out = <<>>,
           Transmit(h, Interface(h, out, table, cache, threw), ms, rest)
    PROVE  Transmitted(h, out, table, cache, threw, ms, rest)
<1> DEFINE i == Interface(h, out, table, cache, threw)
           times(f) == Cardinality({k \in 1 .. Len(out) : out[k] = f})
           elapsed == [ip \in DOMAIN since[h] |-> Min({Long, since[h][ip] + ms})]
           asked == {ip \in DOMAIN elapsed : times(arp_request(i, ip)) > 0}
<1>1. (IF i.threw THEN <<>> ELSE i.frames_out) = out
  BY DEF Interface
<1>2. DOMAIN since[h] = Addresses
  BY DEF Types
<1>3. \A ip : arp_request(i, ip) = Request(h, ip)
  BY DEF Interface, arp_request, Request, CreateARPMessage
<1>4. [i EXCEPT !.frames_out = <<>>] = Interface(h, <<>>, table, cache, threw)
  BY DEF Interface
<1>5. ASSUME NEW f
      PROVE  times(f) > 0 <=> \E k \in 1 .. Len(out) : out[k] = f
  <2> DEFINE K == {k \in 1 .. Len(out) : out[k] = f}
  <2>1. IsFiniteSet(1 .. Len(out))
    BY FS_Interval
  <2>2. IsFiniteSet(K)
    BY <2>1, FS_Subset
  <2>3. Cardinality(K) \in Nat /\ (Cardinality(K) = 0 <=> K = {})
    BY <2>2, FS_CardinalityType, FS_EmptySet
  <2>4. K # {} <=> \E k \in 1 .. Len(out) : out[k] = f
    OBVIOUS
  <2> HIDE DEF K
  <2>5. times(f) = Cardinality(K)
    BY DEF K
  <2> HIDE DEF times
  <2> QED
    BY <2>3, <2>4, <2>5
<1>6. asked = Asked(out, h)
  <2> HIDE DEF times
  <2> QED
    BY <1>2, <1>3, <1>5, Zenon DEF Asked
<1>7. /\ iface' = [iface EXCEPT ![h] = [i EXCEPT !.frames_out = <<>>]]
      /\ link' = rest \union Range(out)
      /\ sent' = [d \in Datagrams |-> sent[d] + Cardinality(Carrying(out, d))]
      /\ since' = [since EXCEPT ![h] =
                      [ip \in DOMAIN elapsed |-> IF ip \in asked THEN 0 ELSE elapsed[ip]]]
      /\ gap' = Min({gap} \union {elapsed[ip] : ip \in asked})
  <2> DEFINE o == IF i.threw THEN <<>> ELSE i.frames_out
             count(f) == Cardinality({k \in 1 .. Len(o) : o[k] = f})
             requested == {ip \in DOMAIN elapsed : count(arp_request(i, ip)) > 0}
  <2>1. /\ iface' = [iface EXCEPT ![h] = [i EXCEPT !.frames_out = <<>>]]
        /\ link' = rest \union Range(o)
        /\ sent' = [d \in Datagrams |-> sent[d] + Cardinality(Carrying(o, d))]
        /\ since' = [since EXCEPT ![h] =
               [ip \in DOMAIN elapsed |-> IF ip \in requested THEN 0 ELSE elapsed[ip]]]
        /\ gap' = Min({gap} \union {elapsed[ip] : ip \in requested})
    BY Zenon DEF Transmit, Carrying
  <2>2. o = out
    BY <1>1
  <2> HIDE DEF o, i, elapsed
  <2>3. requested = asked
    BY <2>2
  <2> HIDE DEF requested, asked
  <2> QED
    BY <2>1, <2>2, <2>3, Zenon
<1> HIDE DEF i, asked
<1>8. [ip \in DOMAIN elapsed |-> IF ip \in asked THEN 0 ELSE elapsed[ip]]
          = Aged(since[h], ms, Asked(out, h))
  BY <1>2, <1>6 DEF Aged
<1>9. {elapsed[ip] : ip \in asked} =
          {Min({Long, since[h][ip] + ms}) : ip \in Asked(out, h)}
  BY <1>2, <1>6, Zenon DEF Asked
<1> HIDE DEF elapsed
<1> QED
  BY <1>4, <1>7, <1>8, <1>9, Zenon DEF Transmitted

\* Frames of which none is an IPv4 frame leave `sent` alone.
LEMMA NothingSent ==
    ASSUME NEW out, \A k \in 1 .. Len(out) : out[k].type # "IPv4", Types,
           sent' = [d \in Datagrams |-> sent[d] + Cardinality(Carrying(out, d))]
    PROVE  sent' = sent
<1>1. \A d : Cardinality(Carrying(out, d)) = 0
  BY FS_EmptySet DEF Carrying
<1> QED
  BY <1>1 DEF Types

\* One IPv4 frame counts for its datagram.
LEMMA OneSent ==
    ASSUME NEW f, f.type = "IPv4", Types,
           sent' = [d \in Datagrams |-> sent[d] + Cardinality(Carrying(<<f>>, d))]
    PROVE  \A d \in Datagrams : sent'[d] = IF f.payload = d THEN sent[d] + 1 ELSE sent[d]
<1> SUFFICES ASSUME NEW d \in Datagrams
             PROVE  sent'[d] = IF f.payload = d THEN sent[d] + 1 ELSE sent[d]
  OBVIOUS
<1>1. Carrying(<<f>>, d) = IF f.payload = d THEN {1} ELSE {}
  BY DEF Carrying
<1>2. Cardinality({1}) = 1
  BY FS_Singleton, Zenon
<1>3. Cardinality({}) = 0
  BY FS_EmptySet
<1>4. sent[d] \in Nat /\ sent'[d] = sent[d] + Cardinality(Carrying(<<f>>, d))
  BY DEF Types
<1>5. CASE f.payload = d
  BY <1>1, <1>2, <1>4, <1>5, Zenon
<1>6. CASE f.payload # d
  BY <1>1, <1>3, <1>4, <1>6
<1> QED
  BY <1>5, <1>6

\* A frame stays honest while more is handed over and sent.
LEMMA StaysHonest ==
    ASSUME NEW f, NEW H, NEW S, NEW H2, NEW S2, Honest(f, H, S), H \subseteq H2,
           H \subseteq Datagrams, S \in [Datagrams -> Nat], S2 \in [Datagrams -> Nat],
           \A d \in Datagrams : S[d] <= S2[d]
    PROVE  Honest(f, H2, S2)
<1>1. CASE f.type = "IPv4" /\ f.payload # Garbled
  <2>1. f.payload \in H /\ S[f.payload] > 0 /\ f.dst = Eth(f.payload.hop)
    BY <1>1 DEF Honest
  <2>2. f.payload \in Datagrams /\ S2[f.payload] > 0
    BY <2>1
  <2> QED
    BY <1>1, <2>1, <2>2 DEF Honest
<1>2. CASE ~(f.type = "IPv4" /\ f.payload # Garbled)
  BY <1>2 DEF Honest
<1> QED
  BY <1>1, <1>2

\* How handed and sent may change in a step of station h.
HandedOver(h) ==
    /\ handed \subseteq handed' /\ handed' \subseteq Datagrams
    /\ sent' \in [Datagrams -> 0 .. 1]
    /\ \A d \in Datagrams : sent[d] <= sent'[d]
    /\ \A d \in Datagrams : d \notin handed' => sent'[d] = 0
    /\ \A d \in handed : d.from # h => sent'[d] = sent[d]

\* What a step of station h changes is right: its own maps, the frames it sends
\* and what it hands up.
StepRight(h, out, table, cache, threw, ms, rest) ==
    /\ Transmitted(h, out, table, cache, threw, ms, rest) /\ rest \subseteq link
    /\ HandedOver(h)
    /\ MappingsRight(table) /\ WaitingRight(cache, h, handed', sent')
    /\ ~threw => Spaced(table, cache, Aged(since[h], ms, Asked(out, h)))
    /\ \A ip \in Asked(out, h) : since[h][ip] + ms >= RequestTime
    /\ \A f \in Range(out) : Honest(f, handed', sent')
    /\ delivered' = [g \in Stations |-> delivered'[g]]
    /\ \A g \in Stations : \A d \in delivered'[g] :
          d \in handed' /\ d.hop = g /\ sent'[d] > 0

\* A step of one station keeps the invariant when what it changes is right.
LEMMA StationStep ==
    ASSUME LinkInv, NEW h \in Stations, NEW out, NEW table, NEW cache,
           NEW threw \in BOOLEAN, NEW ms \in Nat, NEW rest,
           StepRight(h, out, table, cache, threw, ms, rest)
    PROVE  LinkInv'
<1>0. /\ Transmitted(h, out, table, cache, threw, ms, rest) /\ rest \subseteq link
      /\ HandedOver(h)
      /\ MappingsRight(table) /\ WaitingRight(cache, h, handed', sent')
      /\ ~threw => Spaced(table, cache, Aged(since[h], ms, Asked(out, h)))
      /\ \A ip \in Asked(out, h) : since[h][ip] + ms >= RequestTime
      /\ \A f \in Range(out) : Honest(f, handed', sent')
      /\ delivered' = [g \in Stations |-> delivered'[g]]
      /\ \A g \in Stations : \A d \in delivered'[g] :
            d \in handed' /\ d.hop = g /\ sent'[d] > 0
  BY DEF StepRight
<1> DEFINE J == Interface(h, <<>>, table, cache, threw)
           s == Aged(since[h], ms, Asked(out, h))
<1>1. iface' = [iface EXCEPT ![h] = J] /\ since' = [since EXCEPT ![h] = s]
  BY <1>0 DEF Transmitted
<1>2. /\ J.frames_out = <<>> /\ J.arp_forward_table = table /\ J.arp_request_cache = cache
      /\ J.threw = threw
  BY DEF Interface
<1>3. Long \in Nat /\ RequestTime \in Nat /\ RequestTime <= Long
  BY LinkAssumption DEF Long
<1>4. s \in [Addresses -> 0 .. Long]
  <2> SUFFICES ASSUME NEW ip \in Addresses
               PROVE  (IF ip \in Asked(out, h) THEN 0 ELSE Min({Long, since[h][ip] + ms}))
                          \in 0 .. Long
    BY DEF Aged
  <2>1. since[h][ip] + ms \in Nat
    BY <1>3 DEF LinkInv, Types
  <2>2. Min({Long, since[h][ip] + ms})
            = IF since[h][ip] + ms <= Long THEN since[h][ip] + ms ELSE Long
    BY <2>1, CutOff
  <2> HIDE DEF Long
  <2>3. Min({Long, since[h][ip] + ms}) \in 0 .. Long
    BY <1>3, <2>1, <2>2
  <2>4. 0 \in 0 .. Long
    BY <1>3
  <2> QED
    BY <2>3, <2>4
<1>5. gap' \in Nat /\ gap' >= RequestTime
  <2> DEFINE T == {gap} \union {Min({Long, since[h][ip] + ms}) : ip \in Asked(out, h)}
  <2>1. \A ip \in Asked(out, h) : /\ Min({Long, since[h][ip] + ms}) \in Nat
                                  /\ Min({Long, since[h][ip] + ms}) >= RequestTime
    <3> SUFFICES ASSUME NEW ip \in Asked(out, h)
                 PROVE  /\ Min({Long, since[h][ip] + ms}) \in Nat
                        /\ Min({Long, since[h][ip] + ms}) >= RequestTime
      OBVIOUS
    <3>1. since[h][ip] + ms \in Nat /\ since[h][ip] + ms >= RequestTime
      BY <1>0, <1>3 DEF LinkInv, Types, Asked
    <3> HIDE DEF Long
    <3> QED
      BY <1>3, <3>1, CutOff
  <2>2. gap \in Nat /\ gap >= RequestTime
    BY DEF LinkInv, Types
  <2>3. T \subseteq Nat /\ T # {} /\ \A y \in T : y >= RequestTime
    BY <2>1, <2>2, Zenon
  <2>4. gap' = Min(T)
    BY <1>0 DEF Transmitted
  <2> HIDE DEF T
  <2> QED
    BY <2>3, <2>4, MinNatural, Zenon
<1> HIDE DEF J, s
<1>6. Types'
  <2>1. iface' = [g \in Stations |-> iface'[g]]
    BY <1>1, Zenon DEF LinkInv, Types
  <2>2. since' \in [Stations -> [Addresses -> 0 .. Long]]
    BY <1>1, <1>4 DEF LinkInv, Types
  <2>3. handed' \subseteq Datagrams /\ sent' \in [Datagrams -> 0 .. 1]
    BY <1>0 DEF HandedOver
  <2> QED
    BY <1>0, <1>5, <2>1, <2>2, <2>3, Zenon DEF Types, Addresses, Long, Ip
<1>7. ASSUME NEW g \in Stations PROVE Station(g)'
  <2>1. CASE g = h
    <3>1. iface'[g] = J /\ since'[g] = s
      BY <1>1, <2>1 DEF LinkInv, Types
    <3>2. Resting(J, h)
      BY <1>2 DEF J, Resting
    <3>3. /\ MappingsRight(table) /\ WaitingRight(cache, h, handed', sent')
          /\ ~threw => Spaced(table, cache, s)
      BY <1>0 DEF s
    <3> QED
      BY <1>2, <2>1, <3>1, <3>2, <3>3 DEF Station, Live, Resting, Interface, Eth, Ip,
         MappingsRight, WaitingRight, Spaced, Addresses
  <2>2. CASE g # h
    <3>1. iface'[g] = iface[g] /\ since'[g] = since[g]
      BY <1>1, <2>2 DEF LinkInv, Types
    <3>2. Station(g)
      BY DEF LinkInv
    <3> DEFINE c == iface[g].arp_request_cache
    <3>3. WaitingRight(c, g, handed, sent)
      BY <3>2 DEF Station
    <3> HIDE DEF c
    <3>4. WaitingRight(c, g, handed', sent')
      <4>1. ASSUME NEW d, d \in handed, d.from = g, sent[d] = 0
            PROVE  d \in handed' /\ sent'[d] = 0
        BY <1>0, <2>2, <4>1 DEF HandedOver
      <4> QED
        BY <3>3, <4>1, Zenon DEF WaitingRight
    <3>5. WaitingRight(iface'[g].arp_request_cache, g, handed', sent')
      BY <3>1, <3>4 DEF c
    <3>6. Resting(iface[g], g)' /\ MappingsRight(iface[g].arp_forward_table)'
      BY <3>1, <3>2 DEF Station, Resting, MappingsRight, Interface, Eth, Ip
    <3>7. (Live(g) => Spaced(iface[g].arp_forward_table, iface[g].arp_request_cache, since[g]))'
      BY <3>1, <3>2 DEF Station, Live, Spaced, Addresses, Ip
    <3> QED
      BY <3>5, <3>6, <3>7, Zenon DEF Station, WaitingRight, Ip
  <2> QED
    BY <2>1, <2>2
<1>8. ASSUME NEW f \in link' PROVE Honest(f, handed', sent')
  <2>1. f \in link \/ f \in Range(out)
    BY <1>0 DEF Transmitted
  <2>2. CASE f \in link
    <3>1. Honest(f, handed, sent)
      BY <2>2 DEF LinkInv
    <3>2. sent \in [Datagrams -> Nat] /\ sent' \in [Datagrams -> Nat]
      BY <1>0 DEF LinkInv, Types, HandedOver
    <3> QED
      BY <1>0, <3>1, <3>2, StaysHonest DEF LinkInv, Types, HandedOver
  <2> QED
    BY <1>0, <2>1, <2>2
<1>9. DeliveredToNextHop'
  BY <1>0 DEF DeliveredToNextHop
<1>10. \A d \in Datagrams : d \notin handed' => sent'[d] = 0
  BY <1>0 DEF HandedOver
<1>11. \A f \in link' : Honest(f, handed, sent)'
  BY <1>8 DEF Honest, Eth, Ip
<1> QED
  BY <1>5, <1>6, <1>7, <1>9, <1>10, <1>11 DEF LinkInv

\* The interface of a station that takes a step.
LEMMA StationAtRest ==
    ASSUME LinkInv, NEW h \in Stations, Live(h),
           NEW T, T = iface[h].arp_forward_table, NEW C, C = iface[h].arp_request_cache,
           NEW b, b = iface[h].threw
    PROVE  /\ iface[h] = Interface(h, <<>>, T, C, b) /\ b \in BOOLEAN /\ ~b
           /\ MappingsRight(T) /\ WaitingRight(C, h, handed, sent)
           /\ Spaced(T, C, since[h]) /\ since[h] \in [Addresses -> 0 .. Long]
<1>1. Station(h) /\ ~iface[h].threw
  BY DEF LinkInv, Live
<1> QED
  BY <1>1 DEF Station, Resting, LinkInv, Types

\* When no time passes and nothing is asked, the times stay.
LEMMA NoTime ==
    ASSUME NEW s \in [Addresses -> 0 .. Long]
    PROVE  Aged(s, 0, {}) = s
<1>1. Long \in Nat
  BY LinkAssumption DEF Long
<1> HIDE DEF Long
<1>2. ASSUME NEW ip \in Addresses PROVE Min({Long, s[ip] + 0}) = s[ip]
  <2>1. s[ip] \in Nat /\ s[ip] + 0 = s[ip] /\ s[ip] <= Long
    BY <1>1
  <2> QED
    BY <2>1, CutOff
<1> QED
  BY <1>2 DEF Aged

\* Nothing, a datagram and a reply ask for no address; a request asks for one.
LEMMA WhatIsAsked ==
    /\ \A h : Asked(<<>>, h) = {}
    /\ \A f, h : f.type = "IPv4" => Asked(<<f>>, h) = {}
    /\ \A f, h : f.payload.opcode = "REPLY" => Asked(<<f>>, h) = {}
    /\ \A h : \A ip \in Addresses : Asked(<<Request(h, ip)>>, h) = {ip}
<1>1. \A h : Asked(<<>>, h) = {}
  BY DEF Asked
<1>2. \A f, h : Asked(<<f>>, h) = {ip \in Addresses : f = Request(h, ip)}
  BY DEF Asked
<1>3. \A h, ip : /\ Request(h, ip).type = "ARP"
                 /\ Request(h, ip).payload.opcode = "REQUEST"
                 /\ Request(h, ip).payload.target_ip_address = ip
  BY DEF Request, frame
<1>4. \A f, h : f.type = "IPv4" => Asked(<<f>>, h) = {}
  <2> SUFFICES ASSUME NEW f, NEW h, f.type = "IPv4" PROVE Asked(<<f>>, h) = {}
    BY Zenon
  <2>1. \A ip : f # Request(h, ip)
    BY <1>3
  <2> QED
    BY <1>2, <2>1
<1>5. \A f, h : f.payload.opcode = "REPLY" => Asked(<<f>>, h) = {}
  <2> SUFFICES ASSUME NEW f, NEW h, f.payload.opcode = "REPLY" PROVE Asked(<<f>>, h) = {}
    BY Zenon
  <2>1. \A ip : f # Request(h, ip)
    BY <1>3
  <2> QED
    BY <1>2, <2>1
<1>6. \A h : \A ip \in Addresses : Asked(<<Request(h, ip)>>, h) = {ip}
  BY <1>2, <1>3
<1> QED
  BY <1>1, <1>4, <1>5, <1>6

\* What was handed up stays right.
LEMMA DeliveredKept ==
    ASSUME LinkInv, NEW h, HandedOver(h), delivered' = delivered
    PROVE  /\ delivered' = [g \in Stations |-> delivered'[g]]
           /\ \A g \in Stations : \A d \in delivered'[g] :
                  d \in handed' /\ d.hop = g /\ sent'[d] > 0
<1>1. ASSUME NEW g \in Stations, NEW d \in delivered[g]
      PROVE  d \in handed' /\ d.hop = g /\ sent'[d] > 0
  <2>1. d \in handed /\ d.hop = g /\ sent[d] > 0
    BY DEF LinkInv, DeliveredToNextHop
  <2>2. d \in Datagrams /\ d \in handed' /\ sent[d] \in Nat /\ sent'[d] \in Nat
        /\ sent[d] <= sent'[d]
    BY <2>1 DEF HandedOver, LinkInv, Types
  <2> QED
    BY <2>1, <2>2
<1> QED
  BY <1>1 DEF LinkInv, Types

\* Only datagrams that were handed to a station wait there.
LEMMA StillWaiting ==
    ASSUME NEW C, NEW h, NEW H, NEW S, NEW H2, NEW S2, WaitingRight(C, h, H, S),
           H \subseteq H2, \A e \in H : S[e] = 0 => S2[e] = S[e]
    PROVE  WaitingRight(C, h, H2, S2)
BY Zenon DEF WaitingRight

\* An interface with one field changed.
LEMMA FieldChanged ==
    ASSUME NEW h, NEW out, NEW T, NEW C, NEW b, NEW i, i = Interface(h, out, T, C, b)
    PROVE  /\ \A x : [i EXCEPT !.frames_out = x] = Interface(h, x, T, C, b)
           /\ \A x : [i EXCEPT !.arp_forward_table = x] = Interface(h, out, x, C, b)
           /\ \A x : [i EXCEPT !.arp_request_cache = x] = Interface(h, out, T, x, b)
           /\ \A x : [i EXCEPT !.threw = x] = Interface(h, out, T, C, x)
           /\ i.frames_out = out /\ i.arp_forward_table = T
           /\ i.arp_request_cache = C /\ i.threw = b
           /\ i.ethernet_address = Eth(h) /\ i.ip_address = Ip(h)
BY DEF Interface

\* Sending one frame from an empty queue.
LEMMA Pushed ==
    ASSUME NEW h, NEW T, NEW C, NEW b, NEW i, i = Interface(h, <<>>, T, C, b), NEW f
    PROVE  push(i, f) = Interface(h, <<f>>, T, C, b)
<1>1. Append(<<>>, f) = <<f>>
  OBVIOUS
<1>2. i.frames_out = <<>> /\ \A x : [i EXCEPT !.frames_out = x] = Interface(h, x, T, C, b)
  BY FieldChanged
<1>3. push(i, f) = [i EXCEPT !.frames_out = Append(i.frames_out, f)]
  BY Zenon DEF push
<1> QED
  BY <1>1, <1>2, <1>3, Zenon

\* send_datagram sends the datagram, drops it, or makes it wait and asks.
SendDone(t, i, h, T, C, b, d, ip, e) ==
    \/ /\ ip \in DOMAIN T
       /\ t = Interface(h, <<frame(Eth(h), T[ip].mac, "IPv4", d)>>, T, C, b)
    \/ ip \notin DOMAIN T /\ t = i
    \/ /\ ip \notin DOMAIN T
       /\ ip \in DOMAIN C => ~(C[ip].age < RequestTime)
       /\ t = Interface(h, <<Request(h, ip)>>, T, put(C, ip, e), b)

\* NetworkInterface::send_datagram, on an interface at rest.
LEMMA SendShape ==
    ASSUME NEW h, NEW T, NEW C, NEW b, NEW d, NEW ip,
           NEW i, i = Interface(h, <<>>, T, C, b), NEW e, e = [age |-> 0, dgram |-> d]
    PROVE  SendDone(send_datagram(i, d, ip), i, h, T, C, b, d, ip, e)
<1> DEFINE t == send_datagram(i, d, ip)
<1>1. i.arp_forward_table = T /\ i.arp_request_cache = C
      /\ i.ethernet_address = Eth(h) /\ i.ip_address = Ip(h)
  BY FieldChanged
<1>2. arp_request(i, ip) = Request(h, ip)
  BY <1>1 DEF arp_request, Request, CreateARPMessage
<1> DEFINE asks == push(i, arp_request(i, ip))
<1>3. asks = Interface(h, <<Request(h, ip)>>, T, C, b)
  BY <1>2, Pushed
<1> HIDE DEF asks
<1>4. [asks EXCEPT !.arp_request_cache = put(@, ip, [age |-> 0, dgram |-> d])]
        = Interface(h, <<Request(h, ip)>>, T, put(C, ip, e), b)
  BY <1>3, FieldChanged
<1>5. push(i, ipv4_frame(i, T[ip].mac, d))
        = Interface(h, <<frame(Eth(h), T[ip].mac, "IPv4", d)>>, T, C, b)
  BY <1>1, Pushed DEF ipv4_frame
<1>6. t = IF ip \in DOMAIN T THEN push(i, ipv4_frame(i, T[ip].mac, d))
          ELSE IF ip \in DOMAIN C /\ C[ip].age < RequestTime THEN i
          ELSE [asks EXCEPT !.arp_request_cache = put(@, ip, [age |-> 0, dgram |-> d])]
  BY <1>1, Zenon DEF send_datagram, asks
<1> HIDE DEF t
<1>7. SendDone(t, i, h, T, C, b, d, ip, e)
  BY <1>4, <1>5, <1>6, Zenon DEF SendDone
<1> QED
  BY <1>7 DEF t

\* A reply of station h to station g.
Reply(h, g) ==
    frame(Eth(h), Eth(g), "ARP",
          [opcode |-> "REPLY",
           sender_ethernet_address |-> Eth(h), sender_ip_address |-> Ip(h),
           target_ethernet_address |-> Eth(g), target_ip_address |-> Ip(g)])

\* What station h does with a message of station g: nothing; learn the mapping;
\* and then send what waits for it, throw, or reply.
MessageDone(t, i, h, g, T, C, b, T2) ==
    \/ t = i
    \/ t = Interface(h, <<>>, T2, C, b)
    \/ /\ Ip(g) \in DOMAIN C /\ C[Ip(g)].dgram # DefaultDatagram
       /\ t = Interface(h, <<frame(Eth(h), Eth(g), "IPv4", C[Ip(g)].dgram)>>, T2,
                        erase(C, Ip(g)), b)
    \/ \E e, yes :
          /\ e = [age |-> 0, dgram |-> DefaultDatagram] /\ yes = TRUE
          /\ t = Interface(h, <<>>, T2, IF Ip(g) \in DOMAIN C THEN C ELSE put(C, Ip(g), e), yes)
    \/ t = Interface(h, <<Reply(h, g)>>, T2, C, b)

\* NetworkInterface::recv_frame of an ARP message between stations.
LEMMA MessageShape ==
    ASSUME NEW h, NEW g, NEW T, NEW C, NEW b, NEW i, i = Interface(h, <<>>, T, C, b), NEW arp,
           arp.sender_ethernet_address = Eth(g), arp.sender_ip_address = Ip(g),
           NEW m, m = [age |-> 0, mac |-> Eth(g)], NEW T2, T2 = put(T, Ip(g), m)
    PROVE  MessageDone(recv_arp(i, arp), i, h, g, T, C, b, T2)
<1> DEFINE learned == [i EXCEPT !.arp_forward_table =
                          put(@, arp.sender_ip_address,
                              [age |-> 0, mac |-> arp.sender_ethernet_address])]
<1>1. i.arp_forward_table = T /\ i.ethernet_address = Eth(h) /\ i.ip_address = Ip(h)
  BY FieldChanged
<1>2. learned = Interface(h, <<>>, T2, C, b)
  BY <1>1, FieldChanged
<1> HIDE DEF learned
<1>3. /\ learned.arp_request_cache = C /\ learned.ethernet_address = Eth(h)
      /\ learned.ip_address = Ip(h)
  BY <1>2, FieldChanged
<1>4. MessageDone(recv_reply(learned, arp), i, h, g, T, C, b, T2)
  <2> DEFINE f == frame(Eth(h), Eth(g), "IPv4", C[Ip(g)].dgram)
             p == push(learned, f)
             e == [age |-> 0, dgram |-> DefaultDatagram]
             D == IF Ip(g) \in DOMAIN C THEN C ELSE put(C, Ip(g), e)
             yes == TRUE
             r == recv_reply(learned, arp)
  <2>1. p = Interface(h, <<f>>, T2, C, b)
    BY <1>2, Pushed
  <2> HIDE DEF f, p
  <2>2. [p EXCEPT !.arp_request_cache = erase(@, Ip(g))]
            = Interface(h, <<f>>, T2, erase(C, Ip(g)), b)
    BY <2>1, FieldChanged
  <2>3. [learned EXCEPT !.threw = TRUE, !.arp_request_cache =
             IF Ip(g) \in DOMAIN @ THEN @ ELSE put(@, Ip(g), e)]
            = Interface(h, <<>>, T2, D, yes)
    <3>1. [learned EXCEPT !.threw = TRUE, !.arp_request_cache =
               IF Ip(g) \in DOMAIN @ THEN @ ELSE put(@, Ip(g), e)]
            = [[learned EXCEPT !.threw = TRUE] EXCEPT !.arp_request_cache = D]
      BY <1>2 DEF Interface
    <3> DEFINE l2 == [learned EXCEPT !.threw = yes]
    <3> HIDE DEF yes, D, e
    <3>2. l2 = Interface(h, <<>>, T2, C, yes)
      BY <1>2, FieldChanged
    <3> HIDE DEF l2
    <3>3. [l2 EXCEPT !.arp_request_cache = D] = Interface(h, <<>>, T2, D, yes)
      BY <3>2, FieldChanged
    <3> QED
      BY <3>1, <3>3 DEF l2, yes, e
  <2>4. r = IF Ip(g) \in DOMAIN C /\ C[Ip(g)].dgram # DefaultDatagram
            THEN [p EXCEPT !.arp_request_cache = erase(@, Ip(g))]
            ELSE [learned EXCEPT !.threw = TRUE, !.arp_request_cache =
                      IF Ip(g) \in DOMAIN @ THEN @ ELSE put(@, Ip(g), e)]
    BY <1>3, Zenon DEF recv_reply, ipv4_frame, f, p
  <2> HIDE DEF r
  <2> SUFFICES MessageDone(r, i, h, g, T, C, b, T2)
    BY DEF r
  <2>5. CASE Ip(g) \in DOMAIN C /\ C[Ip(g)].dgram # DefaultDatagram
    <3>1. r = Interface(h, <<f>>, T2, erase(C, Ip(g)), b)
      BY <2>2, <2>4, <2>5, Zenon
    <3> QED
      BY <2>5, <3>1, Zenon DEF MessageDone, f
  <2>6. CASE ~(Ip(g) \in DOMAIN C /\ C[Ip(g)].dgram # DefaultDatagram)
    <3>1. r = Interface(h, <<>>, T2, D, yes)
      BY <2>3, <2>4, <2>6, Zenon
    <3>2. \E e1, yes1 :
             /\ e1 = [age |-> 0, dgram |-> DefaultDatagram] /\ yes1 = TRUE
             /\ r = Interface(h, <<>>, T2, IF Ip(g) \in DOMAIN C THEN C ELSE put(C, Ip(g), e1), yes1)
      <4> WITNESS e, yes
      <4> QED
        BY <3>1, Zenon
    <3> QED
      BY <3>2, Zenon DEF MessageDone
  <2> QED
    BY <2>5, <2>6
<1>5. MessageDone(recv_request(learned, arp), i, h, g, T, C, b, T2)
  <2>1. recv_request(learned, arp) = push(learned, Reply(h, g))
    BY <1>3 DEF recv_request, CreateARPMessage, Reply
  <2>2. recv_request(learned, arp) = Interface(h, <<Reply(h, g)>>, T2, C, b)
    BY <1>2, <2>1, Pushed
  <2> QED
    BY <2>2, Zenon DEF MessageDone
<1>6. MessageDone(learned, i, h, g, T, C, b, T2) /\ MessageDone(i, i, h, g, T, C, b, T2)
  BY <1>2, Zenon DEF MessageDone
<1>7. \/ recv_arp(i, arp) = i \/ recv_arp(i, arp) = learned
      \/ recv_arp(i, arp) = recv_reply(learned, arp)
      \/ recv_arp(i, arp) = recv_request(learned, arp)
  BY DEF recv_arp, learned
<1> QED
  BY <1>4, <1>5, <1>6, <1>7

\* A mapping that was learned is right, and leaves the requests spaced.
LEMMA Learned ==
    ASSUME NEW T, NEW C, NEW s \in [Addresses -> 0 .. Long], NEW g \in Stations,
           NEW T2, IsPut(T2, T, Ip(g), [age |-> 0, mac |-> Eth(g)]),
           MappingsRight(T), Spaced(T, C, s)
    PROVE  MappingsRight(T2) /\ Spaced(T2, C, s)
<1>1. 0 \in 0 .. MappingTime /\ Long \in Nat
  BY LinkAssumption DEF Long
<1>2. ASSUME NEW ip \in DOMAIN T2
      PROVE  /\ T2[ip] = [age |-> T2[ip].age, mac |-> T2[ip].mac]
             /\ T2[ip].age \in 0 .. MappingTime
             /\ \A x \in Stations : ip = Ip(x) => T2[ip].mac = Eth(x)
  <2>1. CASE ip = Ip(g)
    <3>1. T2[ip] = [age |-> 0, mac |-> Eth(g)]
      BY <2>1 DEF IsPut
    <3> QED
      BY <1>1, <2>1, <3>1, AddressesDiffer
  <2>2. CASE ip # Ip(g)
    <3>1. ip \in DOMAIN T /\ T2[ip] = T[ip]
      BY <2>2 DEF IsPut
    <3> QED
      BY <3>1 DEF MappingsRight
  <2> QED
    BY <2>1, <2>2
<1>3. ASSUME NEW ip \in Addresses, ip \notin DOMAIN C
      PROVE  \/ s[ip] >= RequestTime
             \/ ip \in DOMAIN T2 /\ s[ip] >= T2[ip].age
  <2> HIDE DEF Long
  <2>1. s[ip] >= 0
    BY <1>1
  <2>2. CASE ip = Ip(g)
    <3>1. ip \in DOMAIN T2 /\ T2[ip].age = 0
      BY <2>2 DEF IsPut
    <3> QED
      BY <2>1, <3>1
  <2>3. CASE ip # Ip(g)
    BY <1>3, <2>3 DEF IsPut, Spaced
  <2> QED
    BY <2>2, <2>3
<1> QED
  BY <1>2, <1>3 DEF MappingsRight, Spaced

\* The entry that operator[] makes for an address nobody waits for.
LEMMA DefaultWaits ==
    ASSUME NEW C, NEW D, NEW h, NEW H, NEW S, NEW ip, NEW e,
           e = [age |-> 0, dgram |-> DefaultDatagram], IsPut(D, C, ip, e),
           WaitingRight(C, h, H, S)
    PROVE  WaitingRight(D, h, H, S)
<1>1. 0 \in 0 .. RequestTime
  BY LinkAssumption
<1>2. IsFiniteSet(DOMAIN D)
  BY FS_AddElement DEF WaitingRight, IsPut
<1>3. ASSUME NEW k \in DOMAIN D
      PROVE  /\ D[k] = [age |-> D[k].age, dgram |-> D[k].dgram]
             /\ D[k].age \in 0 .. RequestTime
             /\ \/ D[k].dgram = DefaultDatagram
                \/ /\ D[k].dgram \in H
                   /\ D[k].dgram.from = h
                   /\ Ip(D[k].dgram.hop) = k
                   /\ S[D[k].dgram] = 0
  <2>1. CASE k = ip
    BY <1>1, <2>1 DEF IsPut
  <2>2. CASE k # ip
    BY <2>2 DEF IsPut, WaitingRight
  <2> QED
    BY <2>1, <2>2
<1> QED
  BY <1>2, <1>3 DEF WaitingRight

\* The entries of C whose request is due after ms; the mappings T and the
\* entries C after a tick.
Due(C, ms) == {ip \in DOMAIN C : C[ip].age + ms > RequestTime}

IsOlder(T2, T, ms) ==
    /\ DOMAIN T2 = {ip \in DOMAIN T : T[ip].age + ms <= MappingTime}
    /\ \A ip \in DOMAIN T2 : T2[ip] = [age |-> T[ip].age + ms, mac |-> T[ip].mac]

IsRepeated(C2, C, ms) ==
    /\ DOMAIN C2 = DOMAIN C
    /\ \A ip \in DOMAIN C :
          C2[ip] = [age |-> IF ip \in Due(C, ms) THEN 0 ELSE C[ip].age + ms,
                    dgram |-> C[ip].dgram]

TickDone(t, h, T, C, b, ms) ==
    \E out, T2, C2 :
        /\ t = Interface(h, out, T2, C2, b)
        /\ Len(out) \in Nat /\ Range(out) = {Request(h, ip) : ip \in Due(C, ms)}
        /\ \A k \in 1 .. Len(out) : out[k] \in Range(out)
        /\ \A x \in Range(out) : \E k \in 1 .. Len(out) : out[k] = x
        /\ IsOlder(T2, T, ms) /\ IsRepeated(C2, C, ms)

\* NetworkInterface::tick, on an interface at rest.
LEMMA TickShape ==
    ASSUME NEW h, NEW T, NEW C, NEW b, NEW i, i = Interface(h, <<>>, T, C, b), NEW ms,
           MappingsRight(T), NEW H, NEW S, WaitingRight(C, h, H, S)
    PROVE  TickDone(tick(i, ms), h, T, C, b, ms)
<1> DEFINE out == in_some_order({arp_request(i, ip) : ip \in again(i, ms)})
           T2 == [ip \in kept(i, ms) |-> older(T[ip], ms)]
           C2 == [ip \in DOMAIN C |-> IF ip \in again(i, ms) THEN asked_now(C[ip])
                                     ELSE older(C[ip], ms)]
           D == Due(C, ms)
           R == {Request(h, ip) : ip \in D}
<1>1. i.frames_out = <<>> /\ i.arp_forward_table = T /\ i.arp_request_cache = C
      /\ i.ethernet_address = Eth(h) /\ i.ip_address = Ip(h)
  BY FieldChanged
<1>2. again(i, ms) = D /\ kept(i, ms) = {ip \in DOMAIN T : T[ip].age + ms <= MappingTime}
  BY <1>1 DEF again, kept, Due
<1>3. \A ip : arp_request(i, ip) = Request(h, ip)
  BY <1>1 DEF arp_request, Request, CreateARPMessage
<1>4. {arp_request(i, ip) : ip \in again(i, ms)} = R
  BY <1>2, <1>3, Zenon
<1>5. IsFiniteSet(D)
  BY FS_Subset DEF WaitingRight, Due
<1>6. IsFiniteSet(R)
  <2> DEFINE r == [ip \in D |-> Request(h, ip)]
  <2>1. r \in Surjection(D, R)
    BY Zenon DEF Surjection
  <2> HIDE DEF r, R, D
  <2> QED
    BY <1>5, <2>1, FS_Surjection
<1>7. out \in Seq(R) /\ Range(out) = R
  <2> HIDE DEF R
  <2> QED
    BY <1>4, <1>6, SetInOrder
<1> HIDE DEF out, R
<1>8. /\ Len(out) \in Nat /\ \A k \in 1 .. Len(out) : out[k] \in Range(out)
      /\ \A x \in Range(out) : \E k \in 1 .. Len(out) : out[k] = x
      /\ <<>> \o out = out
  <2>1. Len(out) \in Nat /\ DOMAIN out = 1 .. Len(out) /\ <<>> \o out = out
    BY <1>7
  <2> QED
    BY <2>1 DEF Range
<1>9. IsOlder(T2, T, ms)
  <2>1. \A ip \in DOMAIN T : older(T[ip], ms) = [age |-> T[ip].age + ms, mac |-> T[ip].mac]
    BY DEF MappingsRight, older
  <2> QED
    BY <1>2, <2>1 DEF IsOlder
<1>10. IsRepeated(C2, C, ms)
  <2>1. \A ip \in DOMAIN C :
           /\ asked_now(C[ip]) = [age |-> 0, dgram |-> C[ip].dgram]
           /\ older(C[ip], ms) = [age |-> C[ip].age + ms, dgram |-> C[ip].dgram]
    BY DEF WaitingRight, older, asked_now
  <2> HIDE DEF D
  <2> QED
    BY <1>2, <2>1 DEF IsRepeated, D
<1>11. tick(i, ms) = Interface(h, out, T2, C2, b)
  <2>1. tick(i, ms) = [i EXCEPT !.arp_forward_table = T2, !.arp_request_cache = C2,
                                !.frames_out = <<>> \o out]
    BY <1>1, Zenon DEF tick, out
  <2> HIDE DEF T2, C2
  <2>2. [Interface(h, <<>>, T, C, b) EXCEPT !.arp_forward_table = T2] = Interface(h, <<>>, T2, C, b)
    BY FieldChanged
  <2>3. [Interface(h, <<>>, T2, C, b) EXCEPT !.arp_request_cache = C2] = Interface(h, <<>>, T2, C2, b)
    BY FieldChanged
  <2>4. [Interface(h, <<>>, T2, C2, b) EXCEPT !.frames_out = out] = Interface(h, out, T2, C2, b)
    BY FieldChanged
  <2> QED
    BY <1>8, <2>1, <2>2, <2>3, <2>4, Zenon
<1> HIDE DEF T2, C2
<1>12. Range(out) = {Request(h, ip) : ip \in Due(C, ms)}
  BY <1>7 DEF R
<1> QED
  BY <1>8, <1>9, <1>10, <1>11, <1>12, Zenon DEF TickDone

\* After a tick the maps are right and the requests spaced: what was asked again
\* was due, and what was forgotten was older than a request may be.
LEMMA TickSpaced ==
    ASSUME NEW T, NEW C, NEW T2, NEW C2, NEW h, NEW H, NEW S, NEW ms \in Nat,
           NEW s \in [Addresses -> 0 .. Long], NEW A, A = Due(C, ms) \intersect Addresses,
           MappingsRight(T), WaitingRight(C, h, H, S), Spaced(T, C, s),
           IsOlder(T2, T, ms), IsRepeated(C2, C, ms)
    PROVE  /\ MappingsRight(T2) /\ WaitingRight(C2, h, H, S)
           /\ Spaced(T2, C2, Aged(s, ms, A))
           /\ \A ip \in A : s[ip] + ms >= RequestTime
<1>1. /\ RequestTime \in Nat /\ MappingTime \in Nat /\ RequestTime <= MappingTime
      /\ Long = RequestTime + 1
  BY LinkAssumption DEF Long
<1> HIDE DEF Long
<1>2. MappingsRight(T2)
  <2>1. ASSUME NEW ip \in DOMAIN T2
        PROVE  /\ T2[ip] = [age |-> T2[ip].age, mac |-> T2[ip].mac]
               /\ T2[ip].age \in 0 .. MappingTime
               /\ \A g \in Stations : ip = Ip(g) => T2[ip].mac = Eth(g)
    <3>1. ip \in DOMAIN T /\ T[ip].age + ms <= MappingTime
          /\ T2[ip] = [age |-> T[ip].age + ms, mac |-> T[ip].mac]
      BY DEF IsOlder
    <3>2. T[ip].age \in Nat /\ \A g \in Stations : ip = Ip(g) => T[ip].mac = Eth(g)
      BY <1>1, <3>1 DEF MappingsRight
    <3>3. T[ip].age + ms \in 0 .. MappingTime
      BY <1>1, <3>1, <3>2
    <3> QED
      BY <3>1, <3>2, <3>3
  <2> QED
    BY <2>1 DEF MappingsRight
<1>3. ASSUME NEW ip \in DOMAIN C
      PROVE  /\ C[ip].age \in 0 .. RequestTime /\ C2[ip].dgram = C[ip].dgram
             /\ C2[ip] = [age |-> C2[ip].age, dgram |-> C2[ip].dgram]
             /\ ip \in Due(C, ms) => C2[ip].age = 0 /\ C[ip].age + ms > RequestTime
             /\ ip \notin Due(C, ms) => C2[ip].age = C[ip].age + ms
                                        /\ C[ip].age + ms <= RequestTime
  <2>1. C[ip].age \in 0 .. RequestTime
    BY DEF WaitingRight
  <2>2. ip \in Due(C, ms) <=> C[ip].age + ms > RequestTime
    BY DEF Due
  <2>3. C2[ip] = [age |-> IF ip \in Due(C, ms) THEN 0 ELSE C[ip].age + ms,
                  dgram |-> C[ip].dgram]
    BY DEF IsRepeated
  <2> QED
    BY <1>1, <2>1, <2>2, <2>3
<1>4. WaitingRight(C2, h, H, S)
  <2>1. ASSUME NEW ip \in DOMAIN C PROVE C2[ip].age \in 0 .. RequestTime
    <3>1. C[ip].age \in 0 .. RequestTime
      BY <1>3, Zenon
    <3>2. CASE ip \in Due(C, ms)
      <4>1. C2[ip].age = 0
        BY <1>3, <3>2, Zenon
      <4> QED
        BY <1>1, <4>1
    <3>3. CASE ip \notin Due(C, ms)
      <4>1. C2[ip].age = C[ip].age + ms /\ C[ip].age + ms <= RequestTime
        BY <1>3, <3>3, Zenon
      <4> QED
        BY <1>1, <3>1, <4>1
    <3> QED
      BY <3>2, <3>3
  <2> QED
    BY <1>3, <2>1 DEF WaitingRight, IsRepeated
<1>5. ASSUME NEW ip \in Addresses
      PROVE  /\ s[ip] \in Nat
             /\ Aged(s, ms, A)[ip] = IF ip \in A THEN 0
                                     ELSE IF s[ip] + ms <= Long THEN s[ip] + ms ELSE Long
  <2>1. s[ip] \in Nat /\ s[ip] + ms \in Nat
    BY <1>1
  <2> QED
    BY <2>1, CutOff DEF Aged
<1>6. ASSUME NEW ip \in A PROVE s[ip] + ms >= RequestTime
  <2>1. ip \in Addresses /\ ip \in DOMAIN C /\ ip \in Due(C, ms)
    BY DEF Due
  <2>2. s[ip] >= C[ip].age
    BY <2>1 DEF Spaced
  <2>3. C[ip].age \in 0 .. RequestTime /\ C[ip].age + ms > RequestTime
    BY <1>3, <2>1, Zenon
  <2>4. s[ip] \in Nat
    BY <1>5, <2>1
  <2> QED
    BY <1>1, <2>2, <2>3, <2>4
<1>7. ASSUME NEW ip \in Addresses
      PROVE  /\ ip \in DOMAIN C2 => Aged(s, ms, A)[ip] >= C2[ip].age
             /\ ip \notin DOMAIN C2 =>
                   \/ Aged(s, ms, A)[ip] >= RequestTime
                   \/ ip \in DOMAIN T2 /\ Aged(s, ms, A)[ip] >= T2[ip].age
  <2> DEFINE a == Aged(s, ms, A)[ip]
  <2> HIDE DEF a
  <2>1. s[ip] \in Nat
    BY <1>5
  <2>2. a = IF ip \in A THEN 0 ELSE IF s[ip] + ms <= Long THEN s[ip] + ms ELSE Long
    BY <1>5 DEF a
  <2>3. CASE ip \in DOMAIN C
    <3>1. s[ip] >= C[ip].age
      BY <2>3 DEF Spaced
    <3>2. ip \in A <=> ip \in Due(C, ms)
      OBVIOUS
    <3>3. CASE ip \in A
      <4>1. a = 0 /\ C2[ip].age = 0
        BY <1>3, <2>2, <2>3, <3>2, <3>3, Zenon
      <4> QED
        BY <2>3, <4>1 DEF a, IsRepeated
    <3>4. CASE ip \notin A
      <4>1. /\ C2[ip].age = C[ip].age + ms /\ C[ip].age + ms <= RequestTime
            /\ C[ip].age \in 0 .. RequestTime
        BY <1>3, <2>3, <3>2, <3>4, Zenon
      <4>2. a = IF s[ip] + ms <= Long THEN s[ip] + ms ELSE Long
        BY <2>2, <3>4
      <4>3. a >= C2[ip].age
        BY <1>1, <2>1, <3>1, <4>1, <4>2
      <4> QED
        BY <2>3, <4>3 DEF a, IsRepeated
    <3> QED
      BY <3>3, <3>4
  <2>4. CASE ip \notin DOMAIN C
    <3>1. ip \notin DOMAIN C2 /\ ip \notin A
      BY <2>4 DEF IsRepeated, Due
    <3>2. a = IF s[ip] + ms <= Long THEN s[ip] + ms ELSE Long
      BY <2>2, <3>1
    <3>3. CASE s[ip] >= RequestTime
      <4>1. a >= RequestTime
        BY <1>1, <2>1, <3>2, <3>3
      <4> QED
        BY <3>1, <4>1 DEF a
    <3>4. CASE ip \in DOMAIN T /\ s[ip] >= T[ip].age
      <4>1. T[ip].age \in Nat
        <5>1. T[ip].age \in 0 .. MappingTime
          BY <3>4, Zenon DEF MappingsRight
        <5> QED
          BY <1>1, <5>1
      <4>2. CASE ip \in DOMAIN T2
        <5>1. T2[ip].age = T[ip].age + ms
          <6>1. T2[ip] = [age |-> T[ip].age + ms, mac |-> T[ip].mac]
            BY <4>2 DEF IsOlder
          <6> QED
            BY <6>1
        <5>2. a >= RequestTime \/ a >= T2[ip].age
          BY <1>1, <2>1, <3>2, <3>4, <4>1, <5>1
        <5> QED
          BY <3>1, <4>2, <5>2 DEF a
      <4>3. CASE ip \notin DOMAIN T2
        <5>1. ~(T[ip].age + ms <= MappingTime)
          BY <3>4, <4>3 DEF IsOlder
        <5>2. a >= RequestTime
          BY <1>1, <2>1, <3>2, <3>4, <4>1, <5>1
        <5> QED
          BY <3>1, <5>2 DEF a
      <4> QED
        BY <4>2, <4>3, Zenon
    <3> QED
      BY <2>4, <3>3, <3>4 DEF Spaced
  <2> QED
    BY <2>3, <2>4
<1>8. Spaced(T2, C2, Aged(s, ms, A))
  BY <1>7, Zenon DEF Spaced
<1> QED
  BY <1>2, <1>4, <1>6, <1>8
==============================================================================
