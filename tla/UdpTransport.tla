---------------------------- MODULE UdpTransport ----------------------------
(***************************************************************************)
(* Modules/udp/lua_udp.cpp: send_all splits a message into numbered UDP    *)
(* packets under a random uuid, the receiver puts them together again from *)
(* whatever arrives.  The network loses, duplicates and reorders packets;  *)
(* send_triple of Util/simple_ipc.lua sends each message three times.      *)
(***************************************************************************)
EXTENDS Integers, Sequences, FiniteSets

CONSTANTS
  Message,        \* identities of messages
  Size,           \* the size of each message
  Uuid,           \* the values rand() draws, in order: a sequence
  MaxBody,        \* MAX_BODY_LENGTH
  ByteRange,      \* 256: number and order are a byte each
  maxQueueSize,
  MaxArrivals,    \* bound: arrivals of one packet, the copies included
  MaxRestarts     \* bound: restarts of the sender

ASSUME UdpAssumption ==
  /\ Size \in [Message -> Nat \ {0}]
  /\ MaxBody \in Nat \ {0}
  /\ ByteRange \in Nat \ {0}
  /\ Uuid \in Seq({Uuid[k] : k \in DOMAIN Uuid})
  /\ maxQueueSize \in Nat
  /\ MaxArrivals \in Nat /\ MaxRestarts \in Nat

VARIABLES
  unsent,       \* messages not sent yet
  drawn,        \* how many uuids this process of the sender has drawn
  restarts,
  net,          \* every packet sent so far
  arrivals,     \* packet -> how often it arrived
  uuid_buf,     \* uuid -> order -> data, for the packets kept
  recv_queue,   \* messages put together and not received yet
  uses,         \* history: uuid -> the messages sent under it
  count         \* history: uuid -> how many messages came out of it

udpvars == <<unsent, drawn, restarts, net, arrivals, uuid_buf, recv_queue, uses, count>>

Ids == {Uuid[k] : k \in DOMAIN Uuid}

(* The bytes of a message, each one known by its place. *)
Data(m) == [k \in 1 .. Size[m] |-> <<m, k>>]

Byte(n) == n % ByteRange

(* num_packets, counted in a byte. *)
NumPackets(n) ==
  LET full == Byte(n \div MaxBody)
  IN IF n % MaxBody > 0 THEN Byte(full + 1) ELSE full

(* All packets are full but the last, which has the remainder. *)
PacketLen(i, n) == IF i < NumPackets(n) - 1 THEN MaxBody ELSE n % MaxBody

Packets(m, u) ==
  {[uuid |-> u, order |-> i, number |-> NumPackets(Size[m]),
    data |-> SubSeq(Data(m), i * MaxBody + 1, i * MaxBody + PacketLen(i, Size[m]))]
     : i \in 0 .. NumPackets(Size[m]) - 1}

UdpTypeOK ==
  /\ unsent \subseteq Message
  /\ drawn \in 0 .. Len(Uuid)
  /\ restarts \in Nat
  /\ \A p \in net : p.uuid \in Ids /\ p.order \in 0 .. p.number - 1
  /\ arrivals \in [net -> 0 .. MaxArrivals]
  /\ DOMAIN uuid_buf \subseteq Ids
  /\ \A u \in DOMAIN uuid_buf : DOMAIN uuid_buf[u] \subseteq 0 .. ByteRange - 1
  /\ \A k \in DOMAIN recv_queue : recv_queue[k].uuid \in Ids
  /\ uses \in [Ids -> SUBSET Message]
  /\ count \in [Ids -> Nat]

UdpInit ==
  /\ unsent = Message
  /\ drawn = 0
  /\ restarts = 0
  /\ net = {}
  /\ arrivals = <<>>
  /\ uuid_buf = <<>>
  /\ recv_queue = <<>>
  /\ uses = [u \in Ids |-> {}]
  /\ count = [u \in Ids |-> 0]

-----------------------------------------------------------------------------
(* send_all, and the copies of send_triple that carry the same uuid. *)
SendAll(m) ==
  /\ m \in unsent
  /\ drawn < Len(Uuid)
  /\ drawn' = drawn + 1
  /\ unsent' = unsent \ {m}
  /\ LET u == Uuid[drawn + 1]
     IN /\ net' = net \cup Packets(m, u)
        /\ uses' = [uses EXCEPT ![u] = @ \cup {m}]
  /\ arrivals' = [p \in net' |-> IF p \in net THEN arrivals[p] ELSE 0]
  /\ UNCHANGED <<restarts, uuid_buf, recv_queue, count>>

(* A new process of the sender draws the same uuids: rand() has no seed. *)
Restart ==
  /\ restarts < MaxRestarts
  /\ restarts' = restarts + 1
  /\ drawn' = 0
  /\ UNCHANGED <<unsent, net, arrivals, uuid_buf, recv_queue, uses, count>>

(* Mutant: one buffer serves all messages. *)
KeptOfAny(u) == IF uuid_buf = <<>> THEN <<>>
                ELSE uuid_buf[CHOOSE v \in DOMAIN uuid_buf : uuid_buf[v] # <<>> \/
                                        \A w \in DOMAIN uuid_buf : uuid_buf[w] = <<>>]

(* The packets kept under a uuid: uuid_buf[uuid], made if it is not there. *)
Kept(u) == IF u \in DOMAIN uuid_buf THEN uuid_buf[u] ELSE <<>>

(* Mutant: a packet seen before starts the message over. *)
InsertStartsOver(buf, p) ==
  IF p.order \in DOMAIN buf
  THEN [o \in {p.order} |-> p.data]
  ELSE [o \in DOMAIN buf \cup {p.order} |-> IF o \in DOMAIN buf THEN buf[o] ELSE p.data]

(* A packet with an order already there is dropped. *)
Insert(buf, p) ==
  [o \in DOMAIN buf \cup {p.order} |-> IF o \in DOMAIN buf THEN buf[o] ELSE p.data]

(* out_msg: the data of the orders 0 .. number - 1, one after the other.   *)
(* An order that is missing reads as the empty string.                     *)
Assemble(buf, number) ==
  LET cat[i \in 0 .. number] ==
        IF i = 0 THEN <<>>
        ELSE cat[i - 1] \o (IF i - 1 \in DOMAIN buf THEN buf[i - 1] ELSE <<>>)
  IN cat[number]

(* Mutant: the last packet is not waited for. *)
CompleteEarly(buf, number) == Cardinality(DOMAIN buf) >= number - 1

Complete(buf, number) == Cardinality(DOMAIN buf) = number

Deliver(u, data) ==
  /\ recv_queue' = Append(recv_queue, [uuid |-> u, data |-> data])
  /\ count' = [count EXCEPT ![u] = @ + 1]

(* Mutant: the packets of a message that is complete are kept. *)
KeepBuf(u, buf) == uuid_buf' = [v \in DOMAIN uuid_buf \cup {u} |->
                                  IF v = u THEN buf ELSE uuid_buf[v]]

(* The packets of a message that is complete are removed, not their uuid. *)
ClearBuf(u, buf) == uuid_buf' = [v \in DOMAIN uuid_buf \cup {u} |->
                                   IF v = u THEN <<>> ELSE uuid_buf[v]]

(* comm_update for one packet of the socket: packet_update. *)
PacketUpdate(p) ==
  /\ p \in net
  /\ arrivals[p] < MaxArrivals
  /\ arrivals' = [arrivals EXCEPT ![p] = @ + 1]
  /\ LET buf == Insert(Kept(p.uuid), p)
     IN IF p.number = 1
        THEN Deliver(p.uuid, p.data) /\ UNCHANGED uuid_buf
        ELSE IF Complete(buf, p.number)
        THEN Deliver(p.uuid, Assemble(buf, p.number)) /\ ClearBuf(p.uuid, buf)
        ELSE /\ uuid_buf' = [v \in DOMAIN uuid_buf \cup {p.uuid} |->
                               IF v = p.uuid THEN buf ELSE uuid_buf[v]]
             /\ UNCHANGED <<recv_queue, count>>
  /\ UNCHANGED <<unsent, drawn, restarts, net, uses>>

(* The end of comm_update: the oldest messages give way. *)
Trim(q) == IF Len(q) > maxQueueSize
           THEN SubSeq(q, Len(q) - maxQueueSize + 1, Len(q)) ELSE q

(* size(): a call that leaves the messages in the queue. *)
SizeCall ==
  /\ Trim(recv_queue) # recv_queue
  /\ recv_queue' = Trim(recv_queue)
  /\ UNCHANGED <<unsent, drawn, restarts, net, arrivals, uuid_buf, uses, count>>

(* receive(): the oldest message of the trimmed queue. *)
Receive ==
  /\ Trim(recv_queue) # <<>>
  /\ recv_queue' = Tail(Trim(recv_queue))
  /\ UNCHANGED <<unsent, drawn, restarts, net, arrivals, uuid_buf, uses, count>>

UdpNext ==
  \/ \E m \in Message : SendAll(m)
  \/ Restart
  \/ \E p \in net : PacketUpdate(p)
  \/ SizeCall
  \/ Receive

UdpSpec == UdpInit /\ [][UdpNext]_udpvars

-----------------------------------------------------------------------------
(* Properties. *)

(* The size of a message survives the count of packets: it is not a        *)
(* multiple of the body, and the packets fit a byte.                       *)
SizeOK(m) == Size[m] % MaxBody # 0 /\ Size[m] \div MaxBody + 1 < ByteRange

(***************************************************************************)
(* Whatever the network does, a message that comes out is one that was     *)
(* sent under its uuid, whole and in order, if its uuid was used for no    *)
(* other message and its size survives the count of its packets            *)
(* (lua_udp.cpp:212-275).                                                  *)
(***************************************************************************)
Intact ==
  \A k \in DOMAIN recv_queue : \A m \in Message :
    uses[recv_queue[k].uuid] = {m} /\ SizeOK(m) => recv_queue[k].data = Data(m)

(***************************************************************************)
(* The uuids come back after a restart of the sender (lua_udp.cpp:95), and *)
(* packets of two messages then mix.  Whatever the sizes, what comes out   *)
(* is still made of bytes of the messages sent under that uuid, each place *)
(* filled at most once and in rising order (lua_udp.cpp:232-275).          *)
(***************************************************************************)
MixedInPlace ==
  \A k \in DOMAIN recv_queue : LET data == recv_queue[k].data IN
    \A j \in DOMAIN data :
      /\ data[j][1] \in uses[recv_queue[k].uuid]
      /\ j < Len(data) => data[j][2] < data[j + 1][2]

(***************************************************************************)
(* "Double send since packet loss is a possibility" (simple_ipc.lua:67):   *)
(* once every packet of a message has arrived in one of its copies, no     *)
(* matter which and in what order, the message has come out.               *)
(***************************************************************************)
LossTolerated ==
  \A u \in Ids, m \in Message :
    (/\ uses[u] = {m} /\ SizeOK(m)
     /\ \A p \in Packets(m, u) : arrivals[p] > 0) => count[u] > 0

(***************************************************************************)
(* A message comes out at most as often as each of its packets came in:    *)
(* the packets of one copy are not used twice (lua_udp.cpp:271).           *)
(***************************************************************************)
NoMoreThanArrived ==
  \A u \in Ids, m \in Message :
    uses[u] = {m} /\ SizeOK(m) => \A p \in Packets(m, u) : count[u] <= arrivals[p]

(***************************************************************************)
(* send_all is "for sending data without size limit" (lua_udp.cpp:396):    *)
(* what comes out is what went in, whatever its size.                      *)
(***************************************************************************)
AnySize ==
  \A k \in DOMAIN recv_queue : \A m \in Message :
    uses[recv_queue[k].uuid] = {m} => recv_queue[k].data = Data(m)
=============================================================================
