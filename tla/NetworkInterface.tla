-------------------------- MODULE NetworkInterface --------------------------
(***************************************************************************)
(* NetworkInterface (network_interface.hh, .cc): Ethernet frames on one    *)
(* side, Internet datagrams on the other, the Address Resolution Protocol  *)
(* in between.  The two unordered maps are functions from IP addresses.    *)
(***************************************************************************)
EXTENDS Naturals, Sequences, FiniteSets, Functions

CONSTANTS
    Broadcast,        \* Board_Mac_Adress
    NoAddress,        \* the Ethernet address {} of a target not yet known
    DefaultDatagram,  \* a default-constructed InternetDatagram
    Garbled,          \* a payload that is no message of its type
    RequestTime,      \* 5000 ms
    MappingTime       \* 30000 ms

\* NetworkInterface::NetworkInterface.  `threw` is set once a call has ended in an
\* exception.
new_interface(eth, ip) ==
    [ethernet_address |-> eth, ip_address |-> ip, frames_out |-> <<>>,
     arp_forward_table |-> <<>>, arp_request_cache |-> <<>>, threw |-> FALSE]

\* The map m with m[key] = value, and without key.
put(m, key, value) == [k \in DOMAIN m \union {key} |-> IF k = key THEN value ELSE m[k]]
erase(m, key) == [k \in DOMAIN m \ {key} |-> m[k]]

CreateARPMessage(i, opcode, target_ip, target_mac) ==
    [opcode |-> opcode,
     sender_ethernet_address |-> i.ethernet_address, sender_ip_address |-> i.ip_address,
     target_ethernet_address |-> target_mac, target_ip_address |-> target_ip]

frame(src, dst, type, payload) == [src |-> src, dst |-> dst, type |-> type, payload |-> payload]

arp_request(i, ip) ==
    frame(i.ethernet_address, Broadcast, "ARP", CreateARPMessage(i, "REQUEST", ip, NoAddress))

ipv4_frame(i, mac, dgram) == frame(i.ethernet_address, mac, "IPv4", dgram)

push(i, f) == [i EXCEPT !.frames_out = Append(@, f)]

\* Mutant: a request is made for every datagram without a mapping.
send_datagram_asking(i, dgram, next_hop) ==
    IF next_hop \in DOMAIN i.arp_forward_table
    THEN push(i, ipv4_frame(i, i.arp_forward_table[next_hop].mac, dgram))
    ELSE [push(i, arp_request(i, next_hop)) EXCEPT
             !.arp_request_cache = put(@, next_hop, [age |-> 0, dgram |-> dgram])]

\* One datagram at a time waits for an address; others for the same hop are
\* dropped, until the request is RequestTime old.
send_datagram(i, dgram, next_hop) ==
    IF next_hop \in DOMAIN i.arp_forward_table
    THEN push(i, ipv4_frame(i, i.arp_forward_table[next_hop].mac, dgram))
    ELSE IF /\ next_hop \in DOMAIN i.arp_request_cache
            /\ i.arp_request_cache[next_hop].age < RequestTime
    THEN i
    ELSE [push(i, arp_request(i, next_hop)) EXCEPT
             !.arp_request_cache = put(@, next_hop, [age |-> 0, dgram |-> dgram])]

\* Mutant: the datagram stays in the cache after it was sent.
recv_reply_keeping(i, arp) ==
    LET ip == arp.sender_ip_address
    IN  IF ip \in DOMAIN i.arp_request_cache
        THEN push(i, ipv4_frame(i, arp.sender_ethernet_address, i.arp_request_cache[ip].dgram))
        ELSE [i EXCEPT !.threw = TRUE]

\* The reply's sender gets the datagram that waits for it.  operator[] makes a
\* default-constructed one when none does, whose serialize() throws: its length
\* field is 0, its header 20 bytes long.
recv_reply(i, arp) ==
    LET ip == arp.sender_ip_address
    IN  IF ip \in DOMAIN i.arp_request_cache
           /\ i.arp_request_cache[ip].dgram # DefaultDatagram
        THEN [push(i, ipv4_frame(i, arp.sender_ethernet_address,
                                 i.arp_request_cache[ip].dgram)) EXCEPT
                 !.arp_request_cache = erase(@, ip)]
        ELSE [i EXCEPT !.threw = TRUE,
                 !.arp_request_cache =
                     IF ip \in DOMAIN @ THEN @
                     ELSE put(@, ip, [age |-> 0, dgram |-> DefaultDatagram])]

recv_request(i, arp) ==
    push(i, frame(i.ethernet_address, arp.sender_ethernet_address, "ARP",
                  CreateARPMessage(i, "REPLY", arp.sender_ip_address,
                                   arp.sender_ethernet_address)))

\* The mapping is learned from every message to this address, whatever its opcode.
recv_arp(i, arp) ==
    LET learned == [i EXCEPT !.arp_forward_table =
                        put(@, arp.sender_ip_address,
                            [age |-> 0, mac |-> arp.sender_ethernet_address])]
    IN  CASE arp.target_ip_address # i.ip_address -> i
          [] arp.target_ip_address = i.ip_address /\ arp.opcode = "REPLY"
                /\ arp.target_ethernet_address = i.ethernet_address ->
             recv_reply(learned, arp)
          [] arp.target_ip_address = i.ip_address /\ arp.opcode = "REQUEST" ->
             recv_request(learned, arp)
          [] OTHER -> learned

\* Mutant: frames to other stations are accepted.
accepts_all(i, f) == TRUE

accepts(i, f) == f.dst \in {i.ethernet_address, Broadcast}

\* A payload parses when it is a message of its frame's type: Garbled is one
\* that does not.
parses(f) == f.payload # Garbled

\* NetworkInterface::recv_frame: its effect, and the datagrams it returns.
recv_frame(i, f) ==
    IF accepts(i, f) /\ f.type = "ARP" /\ parses(f) THEN recv_arp(i, f.payload) ELSE i

received(i, f) ==
    IF accepts(i, f) /\ f.type = "IPv4" /\ parses(f) THEN {f.payload} ELSE {}

\* The mappings that outlive the tick, and the requests that do not.
kept(i, ms) ==
    {ip \in DOMAIN i.arp_forward_table : i.arp_forward_table[ip].age + ms <= MappingTime}
again(i, ms) ==
    {ip \in DOMAIN i.arp_request_cache : i.arp_request_cache[ip].age + ms > RequestTime}

older(entry, ms) == [entry EXCEPT !.age = @ + ms]
asked_now(entry) == [entry EXCEPT !.age = 0]

\* The elements of a set in some order.
in_some_order(S) == CHOOSE s \in Injection(1 .. Cardinality(S), S) : TRUE

\* Mappings age and are forgotten; requests age and are sent again, in the order
\* of the unordered map (which is not specified).
tick(i, ms) ==
    [i EXCEPT
        !.arp_forward_table = [ip \in kept(i, ms) |-> older(@[ip], ms)],
        !.arp_request_cache =
            [ip \in DOMAIN @ |->
                IF ip \in again(i, ms) THEN asked_now(@[ip]) ELSE older(@[ip], ms)],
        !.frames_out = @ \o in_some_order({arp_request(i, ip) : ip \in again(i, ms)})]
=============================================================================
