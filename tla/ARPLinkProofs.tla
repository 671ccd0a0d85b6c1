---------------------------- MODULE ARPLinkProofs ----------------------------
(***************************************************************************)
(* What the network interfaces on one Ethernet keep, for every set of      *)
(* stations and datagrams, any times and any number of frames on the link. *)
(***************************************************************************)
EXTENDS ARPLinkTheorems

\* send_datagram keeps the invariant.
LEMMA SendKeeps ==
    ASSUME LinkInv, NEW d \in Datagrams, Send(d)
    PROVE  LinkInv'
<1> DEFINE h == d.from
           ip == Ip(d.hop)
           T == iface[h].arp_forward_table
           C == iface[h].arp_request_cache
           b == iface[h].threw
           e0 == [age |-> 0, dgram |-> d]
           t == send_datagram(iface[h], d, ip)
<1>1. h \in Stations /\ d.hop \in Stations /\ ip \in Addresses
  BY LinkAssumption DEF Addresses
<1>2. d \notin handed /\ Live(h) /\ handed' = handed \union {d} /\ delivered' = delivered
      /\ Transmit(h, t, 0, link)
  BY DEF Send
<1> HIDE DEF h, T, C, b, e0, t
<1>3. /\ iface[h] = Interface(h, <<>>, T, C, b) /\ b \in BOOLEAN /\ ~b
      /\ MappingsRight(T) /\ WaitingRight(C, h, handed, sent)
      /\ Spaced(T, C, since[h]) /\ since[h] \in [Addresses -> 0 .. Long]
  BY <1>1, <1>2, StationAtRest DEF T, C, b
<1>4. sent[d] = 0 /\ Types /\ sent \in [Datagrams -> 0 .. 1] /\ handed \subseteq Datagrams
      /\ \A e \in Datagrams : e \notin handed => sent[e] = 0
  BY <1>2 DEF LinkInv, Types
<1>5. handed \subseteq handed' /\ handed' \subseteq Datagrams /\ d \in handed'
  BY <1>2, <1>4
<1>6. ASSUME sent' = sent PROVE HandedOver(h)
  BY <1>2, <1>4, <1>5, <1>6 DEF HandedOver
<1>7. RequestTime \in Nat /\ 0 \in 0 .. RequestTime /\ 0 \in Nat
  BY LinkAssumption
<1>8. CASE /\ ip \in DOMAIN T
           /\ t = Interface(h, <<frame(Eth(h), T[ip].mac, "IPv4", d)>>, T, C, b)
  <2> DEFINE f == frame(Eth(h), T[ip].mac, "IPv4", d)
  <2>1. f.type = "IPv4" /\ f.payload = d /\ f.dst = T[ip].mac
    BY DEF frame
  <2>2. T[ip].mac = Eth(d.hop)
    BY <1>1, <1>3, <1>8 DEF MappingsRight
  <2> HIDE DEF f
  <2>3. t = Interface(h, <<f>>, T, C, b)
    BY <1>8 DEF f
  <2>4. Len(<<f>>) \in Nat /\ Range(<<f>>) = {f}
    BY DEF Range
  <2>5. Transmitted(h, <<f>>, T, C, b, 0, link)
    BY <1>1, <1>2, <1>3, <1>4, <1>7, <2>3, <2>4, TransmitByFields
  <2>6. \A e \in Datagrams : sent'[e] = IF f.payload = e THEN sent[e] + 1 ELSE sent[e]
    BY <1>4, <2>1, <2>5, OneSent DEF Transmitted
  <2>7. sent' \in [Datagrams -> 0 .. 1]
    <3>1. sent' = [e \in Datagrams |-> sent'[e]]
      BY <2>5 DEF Transmitted
    <3>2. \A e \in Datagrams : sent'[e] \in 0 .. 1
      BY <1>4, <2>1, <2>6
    <3> QED
      BY <3>1, <3>2
  <2>8. \A e \in Datagrams : sent[e] <= sent'[e]
    BY <1>4, <2>1, <2>6
  <2>9. \A e \in handed : sent'[e] = sent[e]
    BY <1>2, <1>4, <2>1, <2>6
  <2>10. HandedOver(h)
    BY <1>2, <1>4, <1>5, <2>1, <2>6, <2>7, <2>8, <2>9 DEF HandedOver
  <2>11. WaitingRight(C, h, handed', sent')
    BY <1>3, <1>5, <2>9, StillWaiting
  <2>12. Asked(<<f>>, h) = {}
    BY <2>1, WhatIsAsked
  <2>13. Spaced(T, C, Aged(since[h], 0, Asked(<<f>>, h)))
    BY <1>3, <2>12, NoTime, Zenon
  <2>14. Honest(f, handed', sent')
    <3>1. sent'[d] > 0
      BY <1>4, <2>1, <2>6
    <3> QED
      BY <1>5, <2>1, <2>2, <3>1 DEF Honest
  <2> QED
    <3>1. /\ delivered' = [g \in Stations |-> delivered'[g]]
          /\ \A g \in Stations : \A e \in delivered'[g] :
                e \in handed' /\ e.hop = g /\ sent'[e] > 0
      BY <1>2, <2>10, DeliveredKept
    <3>2. \A x \in Range(<<f>>) : Honest(x, handed', sent')
      BY <2>4, <2>14
    <3>3. \A k \in Asked(<<f>>, h) : since[h][k] + 0 >= RequestTime
      BY <2>12
    <3>4. StepRight(h, <<f>>, T, C, b, 0, link)
      BY <1>3, <2>5, <2>10, <2>11, <2>13, <3>1, <3>2, <3>3 DEF StepRight
    <3> QED
      BY <1>1, <1>3, <1>7, <3>4, StationStep
<1>9. CASE t = iface[h]
  <2>1. t = Interface(h, <<>>, T, C, b) /\ Len(<<>>) \in Nat /\ Range(<<>>) = {}
    <3>1. Len(<<>>) \in Nat /\ Range(<<>>) = {}
      BY DEF Range
    <3> QED
      BY <1>3, <1>9, <3>1
  <2>2. Transmitted(h, <<>>, T, C, b, 0, link)
    BY <1>1, <1>2, <1>3, <1>4, <1>7, <2>1, TransmitByFields
  <2>3. sent' = sent
    BY <1>4, <2>2, NothingSent DEF Transmitted
  <2>4. WaitingRight(C, h, handed', sent')
    BY <1>3, <1>5, <2>3, StillWaiting
  <2>5. Asked(<<>>, h) = {}
    BY WhatIsAsked
  <2>6. Spaced(T, C, Aged(since[h], 0, Asked(<<>>, h)))
    BY <1>3, <2>5, NoTime, Zenon
  <2>7. HandedOver(h)
    BY <1>6, <2>3
  <2>8. StepRight(h, <<>>, T, C, b, 0, link)
    BY <1>2, <1>3, <2>1, <2>2, <2>4, <2>5, <2>6, <2>7, DeliveredKept DEF StepRight
  <2> QED
    BY <1>1, <1>3, <1>7, <2>8, StationStep
<1>10. CASE /\ ip \notin DOMAIN T
            /\ ip \in DOMAIN C => ~(C[ip].age < RequestTime)
            /\ t = Interface(h, <<Request(h, ip)>>, T, put(C, ip, e0), b)
  <2> DEFINE f == Request(h, ip)
             C2 == put(C, ip, e0)
  <2>1. f.type = "ARP" /\ f.payload.sender_ethernet_address = Eth(h)
        /\ f.payload.sender_ip_address = Ip(h)
    BY DEF frame, Request
  <2>2. Asked(<<f>>, h) = {ip}
    BY <1>1, WhatIsAsked
  <2>3. /\ DOMAIN C2 = DOMAIN C \union {ip} /\ C2[ip] = [age |-> 0, dgram |-> d]
        /\ \A k \in DOMAIN C : k # ip => C2[k] = C[k]
    <3>1. IsPut(C2, C, ip, e0)
      BY Put
    <3> QED
      BY <3>1 DEF IsPut, e0
  <2>4. t = Interface(h, <<f>>, T, C2, b)
    BY <1>10
  <2> HIDE DEF f, C2
  <2>5. Len(<<f>>) \in Nat /\ Range(<<f>>) = {f}
    BY DEF Range
  <2>6. Transmitted(h, <<f>>, T, C2, b, 0, link)
    BY <1>1, <1>2, <1>3, <1>4, <1>7, <2>4, <2>5, TransmitByFields
  <2>7. sent' = sent
    <3>1. \A k \in 1 .. Len(<<f>>) : <<f>>[k].type # "IPv4"
      BY <2>1
    <3> QED
      BY <1>4, <2>6, <3>1, NothingSent DEF Transmitted
  <2>8. WaitingRight(C2, h, handed', sent')
    <3>1. WaitingRight(C, h, handed', sent')
      BY <1>3, <1>5, <2>7, StillWaiting
    <3>2. IsFiniteSet(DOMAIN C2)
      BY <2>3, <3>1, FS_AddElement DEF WaitingRight
    <3>3. d.from = h /\ Ip(d.hop) = ip /\ sent'[d] = 0
      BY <1>4, <2>7 DEF h
    <3>4. ASSUME NEW k \in DOMAIN C2
          PROVE  /\ C2[k] = [age |-> C2[k].age, dgram |-> C2[k].dgram]
                 /\ C2[k].age \in 0 .. RequestTime
                 /\ \/ C2[k].dgram = DefaultDatagram
                    \/ /\ C2[k].dgram \in handed'
                       /\ C2[k].dgram.from = h
                       /\ Ip(C2[k].dgram.hop) = k
                       /\ sent'[C2[k].dgram] = 0
      <4>1. CASE k = ip
        BY <1>5, <1>7, <2>3, <3>3, <4>1
      <4>2. CASE k # ip
        BY <2>3, <3>1, <4>2 DEF WaitingRight
      <4> QED
        BY <4>1, <4>2
    <3> QED
      BY <3>2, <3>4 DEF WaitingRight
  <2>9. since[h][ip] + 0 >= RequestTime
    <3>1. since[h][ip] \in Nat
      BY <1>1, <1>3
    <3>2. CASE ip \in DOMAIN C
      <4>1. C[ip].age \in Nat /\ C[ip].age <= since[h][ip] /\ ~(C[ip].age < RequestTime)
        BY <1>1, <1>3, <1>10, <3>2 DEF WaitingRight, Spaced
      <4> QED
        BY <1>7, <3>1, <4>1
    <3>3. CASE ip \notin DOMAIN C
      BY <1>1, <1>3, <1>10, <3>1, <3>3 DEF Spaced
    <3> QED
      BY <3>2, <3>3
  <2>10. Spaced(T, C2, Aged(since[h], 0, Asked(<<f>>, h)))
    <3> DEFINE s == Aged(since[h], 0, Asked(<<f>>, h))
    <3>1. ASSUME NEW k \in Addresses
          PROVE  s[k] = IF k = ip THEN 0 ELSE since[h][k]
      <4>1. Aged(since[h], 0, {})[k] = Min({Long, since[h][k] + 0})
        BY DEF Aged
      <4>2. Aged(since[h], 0, {})[k] = since[h][k]
        BY <1>3, NoTime
      <4> QED
        BY <2>2, <4>1, <4>2 DEF Aged
    <3> HIDE DEF s
    <3>2. ASSUME NEW k \in Addresses
          PROVE  /\ k \in DOMAIN C2 => s[k] >= C2[k].age
                 /\ k \notin DOMAIN C2 =>
                       \/ s[k] >= RequestTime
                       \/ k \in DOMAIN T /\ s[k] >= T[k].age
      <4>1. CASE k = ip
        BY <2>3, <3>1, <4>1
      <4>2. CASE k # ip
        BY <1>3, <2>3, <3>1, <4>2 DEF Spaced
      <4> QED
        BY <4>1, <4>2
    <3>3. Spaced(T, C2, s)
      BY <3>2 DEF Spaced
    <3> QED
      BY <3>3 DEF s
  <2>11. Honest(f, handed', sent')
    BY <1>1, <2>1 DEF Honest
  <2>12. HandedOver(h)
    BY <1>6, <2>7
  <2>13. StepRight(h, <<f>>, T, C2, b, 0, link)
    BY <1>2, <1>3, <2>2, <2>5, <2>6, <2>8, <2>9, <2>10, <2>11, <2>12, DeliveredKept, Zenon
       DEF StepRight
  <2> QED
    BY <1>1, <1>3, <1>7, <2>13, StationStep
<1>11. SendDone(t, iface[h], h, T, C, b, d, ip, e0)
  <2>1. e0 = [age |-> 0, dgram |-> d]
    BY DEF e0
  <2>2. SendDone(send_datagram(iface[h], d, ip), iface[h], h, T, C, b, d, ip, e0)
    BY <1>3, <2>1, SendShape
  <2> QED
    BY <2>2 DEF t
<1> HIDE DEF ip
<1> QED
  BY <1>8, <1>9, <1>10, <1>11 DEF SendDone

\* What recv_frame hands up was on its way to this station.
HandsUp(h, f) == delivered' = [delivered EXCEPT ![h] = @ \union received(iface[h], f)]

LEMMA HandedUp ==
    ASSUME LinkInv, NEW h \in Stations, NEW f \in link, HandsUp(h, f), HandedOver(h)
    PROVE  /\ delivered' = [g \in Stations |-> delivered'[g]]
           /\ \A g \in Stations : \A d \in delivered'[g] :
                  d \in handed' /\ d.hop = g /\ sent'[d] > 0
<1>1. Honest(f, handed, sent) /\ iface[h].ethernet_address = Eth(h)
  <2>1. Station(h)
    BY DEF LinkInv
  <2>2. iface[h].ethernet_address = Eth(h)
    BY <2>1, FieldChanged DEF Station, Resting
  <2> QED
    BY <2>2 DEF LinkInv
<1>2. ASSUME NEW d, d \in handed, sent[d] > 0
      PROVE  d \in handed' /\ sent'[d] > 0
  <2>1. d \in Datagrams /\ sent[d] \in Nat /\ sent'[d] \in Nat /\ sent[d] <= sent'[d]
    BY <1>2 DEF HandedOver, LinkInv, Types
  <2> QED
    BY <1>2, <2>1 DEF HandedOver
<1>3. ASSUME NEW d \in received(iface[h], f)
      PROVE  d \in handed /\ d.hop = h /\ sent[d] > 0
  <2>1. accepts(iface[h], f) /\ f.type = "IPv4" /\ f.payload # Garbled /\ d = f.payload
    BY DEF received, parses
  <2>2. d \in handed /\ sent[d] > 0 /\ f.dst = Eth(d.hop)
    BY <1>1, <2>1 DEF Honest
  <2>3. d.hop \in Stations /\ Eth(d.hop) # Broadcast
    BY <2>2, LinkAssumption DEF LinkInv, Types
  <2>4. f.dst = Eth(h)
    BY <1>1, <2>1, <2>2, <2>3 DEF accepts
  <2> QED
    BY <2>2, <2>4, AddressesDiffer, Zenon
<1>4. ASSUME NEW g \in Stations, NEW d \in delivered'[g]
      PROVE  d \in handed /\ d.hop = g /\ sent[d] > 0
  <2>1. d \in delivered[g] \/ (g = h /\ d \in received(iface[h], f))
    BY DEF HandsUp, LinkInv, Types
  <2> QED
    BY <1>3, <2>1 DEF LinkInv, DeliveredToNextHop
<1>5. delivered' = [g \in Stations |-> delivered'[g]]
  BY Zenon DEF HandsUp, LinkInv, Types
<1> QED
  BY <1>2, <1>4, <1>5

\* A frame that makes a station send no datagram and ask for nothing.
LEMMA QuietReceive ==
    ASSUME LinkInv, NEW h \in Stations, NEW f \in link, NEW rest, rest \subseteq link,
           NEW out, NEW T2, NEW C2, NEW b2 \in BOOLEAN, Len(out) \in Nat, b2 => out = <<>>,
           Transmit(h, Interface(h, out, T2, C2, b2), 0, rest),
           \A k \in 1 .. Len(out) : out[k].type # "IPv4", Asked(out, h) = {},
           \A x \in Range(out) : Honest(x, handed, sent),
           handed' = handed, HandsUp(h, f),
           MappingsRight(T2), WaitingRight(C2, h, handed, sent),
           ~b2 => Spaced(T2, C2, since[h])
    PROVE  LinkInv'
<1>1. Types /\ 0 \in Nat /\ since[h] \in [Addresses -> 0 .. Long]
  BY DEF LinkInv, Types
<1>2. Transmitted(h, out, T2, C2, b2, 0, rest)
  BY <1>1, TransmitByFields
<1>3. sent' = sent
  BY <1>1, <1>2, NothingSent DEF Transmitted
<1>4. HandedOver(h)
  <2>1. sent \in [Datagrams -> 0 .. 1] /\ handed \subseteq Datagrams
        /\ \A d \in Datagrams : d \notin handed => sent[d] = 0
    BY DEF LinkInv, Types
  <2> QED
    BY <1>3, <2>1 DEF HandedOver
<1>5. /\ delivered' = [g \in Stations |-> delivered'[g]]
      /\ \A g \in Stations : \A d \in delivered'[g] :
             d \in handed' /\ d.hop = g /\ sent'[d] > 0
  BY <1>4, HandedUp
<1>6. ~b2 => Spaced(T2, C2, Aged(since[h], 0, Asked(out, h)))
  BY <1>1, NoTime
<1>7. WaitingRight(C2, h, handed', sent')
  BY <1>3
<1>8. \A x \in Range(out) : Honest(x, handed', sent')
  BY <1>3
<1>9. \A ip \in Asked(out, h) : since[h][ip] + 0 >= RequestTime
  OBVIOUS
<1>10. StepRight(h, out, T2, C2, b2, 0, rest)
  BY <1>2, <1>4, <1>5, <1>6, <1>7, <1>8, <1>9 DEF StepRight
<1> QED
  BY <1>1, <1>10, StationStep

\* A reply that releases the datagram d that waits for station g.
LEMMA ReleasingReceive ==
    ASSUME LinkInv, NEW h \in Stations, NEW f \in link, NEW rest, rest \subseteq link,
           NEW g \in Stations, NEW T2, NEW C, NEW C2, NEW b \in BOOLEAN, ~b,
           Ip(g) \in DOMAIN C, NEW d, d = C[Ip(g)].dgram, d # DefaultDatagram,
           NEW x, x = frame(Eth(h), Eth(g), "IPv4", d), IsErased(C2, C, Ip(g)),
           Transmit(h, Interface(h, <<x>>, T2, C2, b), 0, rest),
           handed' = handed, HandsUp(h, f), MappingsRight(T2),
           Ip(g) \in DOMAIN T2, T2[Ip(g)].age = 0,
           WaitingRight(C, h, handed, sent), Spaced(T2, C, since[h])
    PROVE  LinkInv'
<1>1. Types /\ 0 \in Nat /\ since[h] \in [Addresses -> 0 .. Long]
      /\ sent \in [Datagrams -> 0 .. 1] /\ handed \subseteq Datagrams
  BY DEF LinkInv, Types
<1>2. x.type = "IPv4" /\ x.payload = d /\ x.dst = Eth(g)
  BY DEF frame
<1>3. Len(<<x>>) \in Nat /\ Range(<<x>>) = {x}
  BY DEF Range
<1>4. d \in handed /\ d.from = h /\ d.hop = g /\ sent[d] = 0
  BY AddressesDiffer DEF WaitingRight
<1>5. Transmitted(h, <<x>>, T2, C2, b, 0, rest)
  BY <1>1, <1>3, TransmitByFields
<1>6. \A e \in Datagrams : sent'[e] = IF d = e THEN sent[e] + 1 ELSE sent[e]
  <2>1. sent' = [e \in Datagrams |-> sent[e] + Cardinality(Carrying(<<x>>, e))]
    BY <1>5 DEF Transmitted
  <2>2. \A e \in Datagrams : sent'[e] = IF x.payload = e THEN sent[e] + 1 ELSE sent[e]
    BY <1>1, <1>2, <2>1, OneSent
  <2> QED
    BY <1>2, <2>2
<1>7. HandedOver(h)
  <2>1. sent' = [e \in Datagrams |-> sent'[e]]
    BY <1>5 DEF Transmitted
  <2>2. \A e \in Datagrams : sent'[e] \in 0 .. 1 /\ sent[e] <= sent'[e]
    BY <1>1, <1>4, <1>6
  <2>3. \A e \in Datagrams : e \notin handed => sent'[e] = 0
    BY <1>4, <1>6 DEF LinkInv
  <2>4. \A e \in handed : e.from # h => sent'[e] = sent[e]
    BY <1>1, <1>4, <1>6
  <2>5. sent' \in [Datagrams -> 0 .. 1]
    BY <2>1, <2>2
  <2> QED
    BY <1>1, <2>2, <2>3, <2>4, <2>5 DEF HandedOver
<1>8. WaitingRight(C2, h, handed', sent')
  <2>1. IsFiniteSet(DOMAIN C2)
    BY FS_Subset DEF WaitingRight, IsErased
  <2>2. ASSUME NEW ip \in DOMAIN C2
        PROVE  /\ C2[ip] = [age |-> C2[ip].age, dgram |-> C2[ip].dgram]
               /\ C2[ip].age \in 0 .. RequestTime
               /\ \/ C2[ip].dgram = DefaultDatagram
                  \/ /\ C2[ip].dgram \in handed'
                     /\ C2[ip].dgram.from = h
                     /\ Ip(C2[ip].dgram.hop) = ip
                     /\ sent'[C2[ip].dgram] = 0
    <3>1. ip \in DOMAIN C /\ ip # Ip(g) /\ C2[ip] = C[ip]
      BY DEF IsErased
    <3>2. /\ C[ip] = [age |-> C[ip].age, dgram |-> C[ip].dgram]
          /\ C[ip].age \in 0 .. RequestTime
          /\ \/ C[ip].dgram = DefaultDatagram
             \/ /\ C[ip].dgram \in handed
                /\ C[ip].dgram.from = h
                /\ Ip(C[ip].dgram.hop) = ip
                /\ sent[C[ip].dgram] = 0
      BY <3>1 DEF WaitingRight
    <3>3. ASSUME NEW e, e \in handed, Ip(e.hop) = ip, sent[e] = 0
          PROVE  sent'[e] = 0
      BY <1>1, <1>4, <1>6, <3>1, <3>3
    <3> QED
      BY <3>1, <3>2, <3>3
  <2> QED
    BY <2>1, <2>2 DEF WaitingRight
<1>9. Spaced(T2, C2, since[h])
  <2>1. ASSUME NEW ip \in Addresses
        PROVE  /\ ip \in DOMAIN C2 => since[h][ip] >= C2[ip].age
               /\ ip \notin DOMAIN C2 =>
                    \/ since[h][ip] >= RequestTime
                    \/ ip \in DOMAIN T2 /\ since[h][ip] >= T2[ip].age
    <3>1. CASE ip = Ip(g)
      <4>1. since[h][ip] >= 0 /\ ip \notin DOMAIN C2
        BY <1>1, <3>1 DEF IsErased
      <4> QED
        BY <3>1, <4>1
    <3>2. CASE ip # Ip(g)
      BY <3>2 DEF IsErased, Spaced
    <3> QED
      BY <3>1, <3>2
  <2> QED
    BY <2>1 DEF Spaced
<1>10. Asked(<<x>>, h) = {}
  BY <1>2, WhatIsAsked
<1>11. Spaced(T2, C2, Aged(since[h], 0, Asked(<<x>>, h)))
  BY <1>1, <1>9, <1>10, NoTime, Zenon
<1>12. Honest(x, handed', sent')
  <2>1. sent'[d] > 0
    BY <1>1, <1>4, <1>6
  <2> QED
    BY <1>2, <1>4, <2>1 DEF Honest
<1>13. /\ delivered' = [k \in Stations |-> delivered'[k]]
       /\ \A k \in Stations : \A e \in delivered'[k] :
              e \in handed' /\ e.hop = k /\ sent'[e] > 0
  BY <1>7, HandedUp
<1>14. \A y \in Range(<<x>>) : Honest(y, handed', sent')
  BY <1>3, <1>12
<1>15. \A ip \in Asked(<<x>>, h) : since[h][ip] + 0 >= RequestTime
  BY <1>10
<1>16. StepRight(h, <<x>>, T2, C2, b, 0, rest)
  BY <1>5, <1>7, <1>8, <1>11, <1>13, <1>14, <1>15 DEF StepRight
<1> QED
  BY <1>1, <1>16, StationStep

\* A frame reaches station h: it is not for h or no message, or one of the five
\* cases of MessageDone.
LEMMA ReceiveKeeps ==
    ASSUME LinkInv, NEW h \in Stations, NEW f \in link, NEW rest, rest \subseteq link,
           Receive(h, f, rest)
    PROVE  LinkInv'
<1> DEFINE T == iface[h].arp_forward_table
           C == iface[h].arp_request_cache
           b == iface[h].threw
           t == recv_frame(iface[h], f)
<1>1. Live(h) /\ HandsUp(h, f) /\ Transmit(h, t, 0, rest) /\ handed' = handed
  BY DEF Receive, HandsUp
<1> HIDE DEF T, C, b, t
<1>2. /\ iface[h] = Interface(h, <<>>, T, C, b) /\ b \in BOOLEAN /\ ~b
      /\ MappingsRight(T) /\ WaitingRight(C, h, handed, sent)
      /\ Spaced(T, C, since[h]) /\ since[h] \in [Addresses -> 0 .. Long]
  BY <1>1, StationAtRest DEF T, C, b
<1>3. Len(<<>>) \in Nat /\ Range(<<>>) = {} /\ Asked(<<>>, h) = {}
      /\ \A k \in 1 .. Len(<<>>) : <<>>[k].type # "IPv4"
  BY WhatIsAsked DEF Range
<1>4. CASE t = iface[h]
  <2>1. Transmit(h, Interface(h, <<>>, T, C, b), 0, rest)
    BY <1>1, <1>2, <1>4
  <2> QED
    BY <1>1, <1>2, <1>3, <2>1, QuietReceive
<1>5. CASE f.type = "ARP" /\ f.payload # Garbled /\ t = recv_arp(iface[h], f.payload)
  <2>1. PICK g \in Stations : /\ f.payload.sender_ethernet_address = Eth(g)
                              /\ f.payload.sender_ip_address = Ip(g)
    BY <1>5 DEF LinkInv, Honest
  <2> DEFINE m == [age |-> 0, mac |-> Eth(g)]
             T2 == put(T, Ip(g), m)
             p == f.payload
             ip == Ip(g)
  <2>2. IsPut(T2, T, Ip(g), m)
    BY Put
  <2> HIDE DEF m, T2, p, ip
  <2>3. MessageDone(recv_arp(iface[h], p), iface[h], h, g, T, C, b, T2)
    BY <1>2, <2>1, MessageShape DEF m, T2, p
  <2>4. MessageDone(t, iface[h], h, g, T, C, b, T2)
    BY <1>5, <2>3 DEF p
  <2>5. MappingsRight(T2) /\ Spaced(T2, C, since[h])
    BY <1>2, <2>2, Learned DEF m
  <2>6. ip \in DOMAIN T2 /\ T2[ip].age = 0
    BY <2>2 DEF IsPut, m, ip
  <2>7. CASE t = Interface(h, <<>>, T2, C, b)
    BY <1>1, <1>2, <1>3, <2>5, <2>7, QuietReceive, Zenon
  <2>8. CASE /\ Ip(g) \in DOMAIN C /\ C[Ip(g)].dgram # DefaultDatagram
             /\ t = Interface(h, <<frame(Eth(h), Eth(g), "IPv4", C[Ip(g)].dgram)>>, T2,
                              erase(C, Ip(g)), b)
    <3> DEFINE d == C[ip].dgram
               x == frame(Eth(h), Eth(g), "IPv4", d)
               C2 == erase(C, ip)
    <3>1. IsErased(C2, C, ip)
      BY Erase
    <3> HIDE DEF d, x, C2
    <3>2. Transmit(h, Interface(h, <<x>>, T2, C2, b), 0, rest)
      BY <1>1, <2>8 DEF d, x, C2, ip
    <3>3. Ip(g) \in DOMAIN C /\ d = C[Ip(g)].dgram /\ d # DefaultDatagram
          /\ x = frame(Eth(h), Eth(g), "IPv4", d)
      BY <2>8 DEF d, x, ip
    <3>4. IsErased(C2, C, Ip(g)) /\ Ip(g) \in DOMAIN T2 /\ T2[Ip(g)].age = 0
      BY <2>6, <3>1 DEF ip
    <3> QED
      BY <1>1, <1>2, <2>5, <3>2, <3>3, <3>4, ReleasingReceive, Zenon
  <2>9. CASE \E e, yes :
             /\ e = [age |-> 0, dgram |-> DefaultDatagram] /\ yes = TRUE
             /\ t = Interface(h, <<>>, T2,
                              IF Ip(g) \in DOMAIN C THEN C ELSE put(C, Ip(g), e), yes)
    <3>1. PICK e, yes :
             /\ e = [age |-> 0, dgram |-> DefaultDatagram] /\ yes = TRUE
             /\ t = Interface(h, <<>>, T2, IF ip \in DOMAIN C THEN C ELSE put(C, ip, e), yes)
      BY <2>9, Zenon DEF ip
    <3> DEFINE C2 == IF ip \in DOMAIN C THEN C ELSE put(C, ip, e)
    <3>2. CASE ip \in DOMAIN C
      <4>1. t = Interface(h, <<>>, T2, C, yes) /\ yes \in BOOLEAN /\ (yes => <<>> = <<>>)
            /\ (~yes => Spaced(T2, C, since[h]))
        BY <2>5, <3>1, <3>2, Zenon
      <4> QED
        BY <1>1, <1>2, <1>3, <2>5, <4>1, QuietReceive, Zenon
    <3>3. CASE ip \notin DOMAIN C
      <4> DEFINE D == put(C, ip, e)
      <4>1. IsPut(D, C, ip, e)
        BY Put
      <4> HIDE DEF D
      <4>2. t = Interface(h, <<>>, T2, D, yes) /\ yes \in BOOLEAN /\ yes
        BY <3>1, <3>3, Zenon DEF D
      <4>3. WaitingRight(D, h, handed, sent)
        BY <1>2, <3>1, <4>1, DefaultWaits
      <4> QED
        BY <1>1, <1>3, <2>5, <4>2, <4>3, QuietReceive, Zenon
    <3> QED
      BY <3>2, <3>3
  <2>10. CASE t = Interface(h, <<Reply(h, g)>>, T2, C, b)
    <3> DEFINE x == Reply(h, g)
    <3>1. x.type = "ARP" /\ x.payload.opcode = "REPLY"
          /\ x.payload.sender_ethernet_address = Eth(h) /\ x.payload.sender_ip_address = Ip(h)
      BY DEF Reply, frame
    <3> HIDE DEF x
    <3>2. Transmit(h, Interface(h, <<x>>, T2, C, b), 0, rest)
      BY <1>1, <2>10 DEF x
    <3>3. Len(<<x>>) \in Nat /\ Range(<<x>>) = {x} /\ \A k \in 1 .. Len(<<x>>) : <<x>>[k] = x
      BY DEF Range
    <3>4. Asked(<<x>>, h) = {}
      BY <3>1, WhatIsAsked
    <3>5. \A y \in Range(<<x>>) : Honest(y, handed, sent)
      BY <3>1, <3>3 DEF Honest
    <3>6. \A k \in 1 .. Len(<<x>>) : <<x>>[k].type # "IPv4"
      BY <3>1, <3>3
    <3> QED
      BY <1>1, <1>2, <2>5, <3>2, <3>3, <3>4, <3>5, <3>6, QuietReceive, Zenon
  <2> QED
    BY <1>4, <2>4, <2>7, <2>8, <2>9, <2>10, Zenon DEF MessageDone
<1>6. \/ t = iface[h]
      \/ f.type = "ARP" /\ f.payload # Garbled /\ t = recv_arp(iface[h], f.payload)
  BY Zenon DEF t, recv_frame, parses
<1> QED
  BY <1>4, <1>5, <1>6

\* tick keeps the invariant.
LEMMA TickKeeps ==
    ASSUME LinkInv, NEW h \in Stations, Tick(h)
    PROVE  LinkInv'
<1> DEFINE T == iface[h].arp_forward_table
           C == iface[h].arp_request_cache
           b == iface[h].threw
<1>1. PICK ms \in Ticks : Transmit(h, tick(iface[h], ms), ms, link)
  BY DEF Tick
<1>2. Live(h) /\ handed' = handed /\ delivered' = delivered /\ ms \in Nat
  BY LinkAssumption DEF Tick
<1> HIDE DEF T, C, b
<1>3. /\ iface[h] = Interface(h, <<>>, T, C, b) /\ b \in BOOLEAN /\ ~b
      /\ MappingsRight(T) /\ WaitingRight(C, h, handed, sent)
      /\ Spaced(T, C, since[h]) /\ since[h] \in [Addresses -> 0 .. Long]
  BY <1>2, StationAtRest DEF T, C, b
<1>4. TickDone(tick(iface[h], ms), h, T, C, b, ms)
  BY <1>3, TickShape
<1>5. PICK out, T2, C2 :
        /\ tick(iface[h], ms) = Interface(h, out, T2, C2, b)
        /\ Len(out) \in Nat /\ Range(out) = {Request(h, ip) : ip \in Due(C, ms)}
        /\ \A k \in 1 .. Len(out) : out[k] \in Range(out)
        /\ \A x \in Range(out) : \E k \in 1 .. Len(out) : out[k] = x
        /\ IsOlder(T2, T, ms) /\ IsRepeated(C2, C, ms)
  BY <1>4, Zenon DEF TickDone
<1>6. Types /\ Transmitted(h, out, T2, C2, b, ms, link)
  BY <1>1, <1>2, <1>3, <1>5, TransmitByFields, Zenon DEF LinkInv
<1>7. \A ip : /\ Request(h, ip).type = "ARP"
              /\ Request(h, ip).payload.target_ip_address = ip
              /\ Request(h, ip).payload.sender_ethernet_address = Eth(h)
              /\ Request(h, ip).payload.sender_ip_address = Ip(h)
  BY DEF Request, frame
<1>8. sent' = sent
  <2>1. ASSUME NEW k \in 1 .. Len(out) PROVE out[k].type # "IPv4"
    <3>1. PICK ip \in Due(C, ms) : out[k] = Request(h, ip)
      BY <1>5
    <3> QED
      BY <1>7, <3>1
  <2>2. sent' = [d \in Datagrams |-> sent[d] + Cardinality(Carrying(out, d))]
    BY <1>6 DEF Transmitted
  <2> QED
    BY <1>6, <2>1, <2>2, NothingSent
<1>9. Asked(out, h) = Due(C, ms) \intersect Addresses
  <2>1. ASSUME NEW ip \in Addresses
        PROVE  (\E k \in 1 .. Len(out) : out[k] = Request(h, ip)) <=> ip \in Due(C, ms)
    <3>1. (\E k \in 1 .. Len(out) : out[k] = Request(h, ip)) <=> Request(h, ip) \in Range(out)
      BY <1>5
    <3>2. Request(h, ip) \in Range(out) <=> \E j \in Due(C, ms) : Request(h, ip) = Request(h, j)
      BY <1>5
    <3>3. \A j : Request(h, ip) = Request(h, j) => ip = j
      BY <1>7
    <3> QED
      BY <3>1, <3>2, <3>3
  <2> QED
    BY <2>1, Zenon DEF Asked
<1>10. /\ MappingsRight(T2) /\ WaitingRight(C2, h, handed, sent)
       /\ Spaced(T2, C2, Aged(since[h], ms, Asked(out, h)))
       /\ \A ip \in Asked(out, h) : since[h][ip] + ms >= RequestTime
  BY <1>2, <1>3, <1>5, <1>9, TickSpaced, Zenon
<1>11. HandedOver(h)
  <2>1. sent \in [Datagrams -> 0 .. 1] /\ handed \subseteq Datagrams
        /\ \A d \in Datagrams : d \notin handed => sent[d] = 0
    BY DEF LinkInv, Types
  <2> QED
    BY <1>2, <1>8, <2>1 DEF HandedOver
<1>12. ASSUME NEW x \in Range(out) PROVE Honest(x, handed', sent')
  <2>1. PICK ip \in Due(C, ms) : x = Request(h, ip)
    BY <1>5
  <2> QED
    BY <1>7, <2>1 DEF Honest
<1>13. WaitingRight(C2, h, handed', sent')
  BY <1>2, <1>8, <1>10
<1>14. /\ delivered' = [g \in Stations |-> delivered'[g]]
       /\ \A g \in Stations : \A d \in delivered'[g] :
              d \in handed' /\ d.hop = g /\ sent'[d] > 0
  BY <1>2, <1>11, DeliveredKept
<1>15. StepRight(h, out, T2, C2, b, ms, link)
  BY <1>6, <1>10, <1>11, <1>12, <1>13, <1>14 DEF StepRight
<1> QED
  BY <1>2, <1>3, <1>15, StationStep

\* New interfaces, and a link with at most one foreign frame.
LEMMA InitInv == Init => LinkInv
<1> SUFFICES ASSUME Init PROVE LinkInv
  OBVIOUS
<1>1. Long \in Nat /\ Long >= RequestTime /\ RequestTime \in Nat
  BY LinkAssumption DEF Long
<1>2. Types
  <2>1. iface = [h \in Stations |-> iface[h]] /\ delivered = [h \in Stations |-> delivered[h]]
        /\ handed \subseteq Datagrams /\ sent \in [Datagrams -> 0 .. 1]
    BY DEF Init
  <2> HIDE DEF Long
  <2>2. Long \in 0 .. Long /\ gap \in Nat
    BY <1>1 DEF Init
  <2>3. since \in [Stations -> [Addresses -> 0 .. Long]]
    BY <2>2 DEF Init, Addresses
  <2> QED
    BY <2>1, <2>2, <2>3 DEF Types
<1>3. \A d \in Datagrams : sent[d] = 0
  BY DEF Init
<1>4. ASSUME NEW h \in Stations PROVE Station(h)
  <2> DEFINE i == iface[h]
  <2>1. i = new_interface(Eth(h), Ip(h)) /\ since[h] = [ip \in Addresses |-> Long]
    BY DEF Init, Addresses
  <2>2. /\ i.threw = FALSE /\ i.arp_forward_table = <<>> /\ i.arp_request_cache = <<>>
        /\ i = Interface(h, <<>>, i.arp_forward_table, i.arp_request_cache, i.threw)
    BY <2>1 DEF new_interface, Interface
  <2> HIDE DEF i
  <2>3. DOMAIN i.arp_forward_table = {} /\ DOMAIN i.arp_request_cache = {}
    BY <2>2
  <2>4. Resting(i, h)
    BY <2>2, Zenon DEF Resting
  <2>5. MappingsRight(i.arp_forward_table)
    BY <2>3 DEF MappingsRight
  <2>6. WaitingRight(i.arp_request_cache, h, handed, sent)
    BY <2>3, FS_EmptySet DEF WaitingRight
  <2>7. Spaced(i.arp_forward_table, i.arp_request_cache, since[h])
    <3> HIDE DEF Long
    <3> QED
      BY <1>1, <2>1, <2>3 DEF Spaced
  <2> QED
    BY <2>4, <2>5, <2>6, <2>7 DEF Station, i
<1>5. \A f \in link : Honest(f, handed, sent)
  <2>1. ASSUME NEW f \in link PROVE f.payload = Garbled
    <3>1. f \in Foreign
      BY DEF Init
    <3> QED
      BY <3>1 DEF Foreign, frame
  <2> QED
    BY <2>1 DEF Honest
<1>6. DeliveredToNextHop
  BY DEF Init, DeliveredToNextHop
<1>7. gap >= RequestTime
  BY <1>1 DEF Init
<1> QED
  BY <1>2, <1>3, <1>4, <1>5, <1>6, <1>7 DEF LinkInv

\* Losing a frame, or nothing at all, leaves the stations as they are.
LEMMA LinkShrinks ==
    ASSUME LinkInv, link' \subseteq link,
           UNCHANGED <<iface, handed, sent, delivered, since, gap>>
    PROVE  LinkInv'
<1>1. Types'
  BY DEF LinkInv, Types
<1>2. \A h \in Stations : Station(h)'
  BY DEF LinkInv, Station, Live
<1>3. \A f \in link' : Honest(f, handed', sent')
  BY DEF LinkInv
<1>4. DeliveredToNextHop'
  BY DEF LinkInv, DeliveredToNextHop
<1>5. gap' >= RequestTime /\ \A d \in Datagrams : d \notin handed' => sent'[d] = 0
  BY DEF LinkInv
<1> QED
  BY <1>1, <1>2, <1>3, <1>4, <1>5 DEF LinkInv

\* Every step keeps the invariant.
LEMMA NextInv == LinkInv /\ [Next]_vars => LinkInv'
<1> SUFFICES ASSUME LinkInv, [Next]_vars PROVE LinkInv'
  OBVIOUS
<1>1. CASE \E d \in Datagrams : Send(d)
  BY <1>1, SendKeeps
<1>2. CASE Lose
  <2>1. link' \subseteq link
    BY <1>2 DEF Lose
  <2> QED
    BY <1>2, <2>1, LinkShrinks DEF Lose
<1>3. CASE \E h \in Stations : Deliver(h)
  <2>1. PICK h \in Stations : Deliver(h)
    BY <1>3
  <2>2. PICK f \in link : \E rest \in {link, link \ {f}} : Receive(h, f, rest)
    BY <2>1 DEF Deliver
  <2>3. PICK rest \in {link, link \ {f}} : Receive(h, f, rest)
    BY <2>2
  <2>4. rest \subseteq link
    BY <2>3
  <2> QED
    BY <2>3, <2>4, ReceiveKeeps
<1>4. CASE \E h \in Stations : Tick(h)
  BY <1>4, TickKeeps
<1>5. CASE UNCHANGED vars
  BY <1>5, LinkShrinks DEF vars
<1> QED
  BY <1>1, <1>2, <1>3, <1>4, <1>5 DEF Next

\* The invariant holds in every reachable state.
LEMMA AlwaysLinkInv == Spec => []LinkInv
BY InitInv, NextInv, PTL DEF Spec

\* network_interface.cc, send_datagram and recv_frame: however replies are lost,
\* repeated or late, a datagram leaves its interface in one frame at most.
THEOREM SentAtMostOnce == Spec => []SentOnce
<1>1. LinkInv => SentOnce
  BY DEF LinkInv, Types, SentOnce
<1> QED
  BY <1>1, AlwaysLinkInv, PTL

\* network_interface.cc, recv_frame: only the next hop hands a datagram up, since a
\* station's address only ever maps to that station, in the table and in what
\* waits for a reply.
THEOREM HandedUpAtNextHop == Spec => []DeliveredToNextHop
<1>1. LinkInv => DeliveredToNextHop
  BY DEF LinkInv
<1> QED
  BY <1>1, AlwaysLinkInv, PTL

\* network_interface.cc, send_datagram and tick: two requests for one address are
\* RequestTime apart, and no mapping outlives MappingTime.
THEOREM RequestsSpaced == Spec => []TimesKept
<1>1. LinkInv => TimesKept
  <2> SUFFICES ASSUME LinkInv, NEW h \in Stations,
                      NEW ip \in DOMAIN iface[h].arp_forward_table
               PROVE  iface[h].arp_forward_table[ip].age <= MappingTime
    BY DEF TimesKept, LinkInv
  <2>1. iface[h].arp_forward_table[ip].age \in 0 .. MappingTime
    BY Zenon DEF LinkInv, Station, MappingsRight
  <2> QED
    BY <2>1, LinkAssumption
<1> QED
  BY <1>1, AlwaysLinkInv, PTL
==============================================================================
