-------------------------------- MODULE Link --------------------------------
(***************************************************************************)
(* Two communicators connected to each other over UDP: the reliable and    *)
(* the ordered channel, the acknowledgements every packet carries, resends *)
(* and heartbeats, in both directions at once.                             *)
(*                                                                         *)
(* Each node is one InnerUdpCommunicator.  Its steps are the calls an      *)
(* application makes: write a message, `send`, and the part of `recv` that *)
(* reads one datagram.  The network may deliver a datagram any number of   *)
(* times and in any order, or never.                                       *)
(*                                                                         *)
(* A message stands for all the content of one packet, and is named by its *)
(* position in the order of writing: the k-th message of a channel is sent *)
(* in the k-th packet, so its name is also the sequence number the packet  *)
(* would have if sequence numbers did not wrap around.  No step reads that *)
(* name, the steps compare wrapped sequence ids only, as the code does.    *)
(***************************************************************************)
EXTENDS Protocol, Sequences, Bags

CONSTANTS
    A, B,           \* the two nodes
    Workloads,      \* the largest loads: w[n][c] messages n writes on c
    MaxQueued,      \* how many messages n lets wait in a send queue
    Chatty,         \* the nodes that write unreliable messages and heartbeats
    MaxLag,         \* how many packets older than the newest one the content
                    \* of a datagram can be when it arrives
    MaxAckLag       \* how many packets older than the newest one is what the
                    \* ack of a datagram can name as received last

Node == {A, B}

Peer(n) == IF n = A THEN B ELSE A

Channel == {"reliable", "ordered"}

ASSUME LinkAssumption ==
    /\ A # B
    /\ Workloads \subseteq [Node -> [Channel -> Nat]]
    /\ MaxQueued \in Nat
    /\ Chatty \subseteq Node
    /\ MaxLag \in Nat
    /\ MaxAckLag \in Nat

VARIABLES
    written,                \* written[n][c]: how many messages n wrote on c
    sendQueue,              \* reliable_send_queue, reliable_ordered_send_queue
    sendPackets,            \* the rings of packets sent and not acknowledged
    receivedPackets,        \* the rings of packets received
    orderedHead,            \* ordered_read_packet_head
    unorderedReceived,      \* all that reliable packets ever brought into
                            \* unordered_recv_queue, a bag: no order is promised
    orderedReceived,        \* all that was ever appended to ordered_recv_queue
    unreliableQueued,       \* whether unreliable_send_queue is not empty
    unreliablePackets,      \* the acks of unreliable_send_packets
    receivedDuplicate,      \* received_packet_duplicate
    givenUp,                \* the messages whose packet ran out of retries
    net                     \* the datagrams that may still arrive

sendVars == <<written, sendQueue, sendPackets, givenUp>>
receiveVars == <<receivedPackets, orderedHead, unorderedReceived, orderedReceived>>
unreliableVars == <<unreliableQueued, unreliablePackets>>
vars == <<sendVars, receiveVars, unreliableVars, receivedDuplicate, net>>

-----------------------------------------------------------------------------
(* Packets.                                                                *)

\* PacketAck::new: for each channel the newest index, and the distance from it
\* of every received index the ring still holds.  `upto` is the message the
\* newest index stands for (-1 for none); it only tells how old the ack is.
AckOf(ring) ==
    [newest |-> ring.newest,
     bits   |-> {WrappingSub(ring.newest, i) : i \in Keys(ring)},
     upto   |-> IF Get(ring, ring.newest) = None THEN -1 ELSE Get(ring, ring.newest)]

PacketAck(n) == [c \in Channel |-> AckOf(receivedPackets[n][c])]

DataPacket(to, c, i, pending) ==
    [to |-> to, channel |-> c, sequenceId |-> i,
     message |-> pending.message, ack |-> pending.ack]

\* An unreliable packet or a heartbeat: nothing but its ack has an effect here.
AckPacket(to, ack) == [to |-> to, channel |-> "unreliable", ack |-> ack]

\* The messages of a channel that were put into packets.
Constructed(n, c) == written[n][c] - Len(sendQueue[n][c])

\* The network delivers a datagram only while its message is at most MaxLag, and
\* its ack at most MaxAckLag packets older than the newest packet of their channel.
\* An ack may be old although it is new: after an outage its sender knows no more.
Recent(packet, constructed) ==
    /\ packet.channel \in Channel =>
           constructed[Peer(packet.to)][packet.channel] - 1 - packet.message <= MaxLag
    /\ \A c \in Channel :
           packet.ack[c].upto >= 0 =>
               constructed[packet.to][c] - 1 - packet.ack[c].upto <= MaxAckLag

-----------------------------------------------------------------------------
Init ==
    /\ written = [n \in Node |-> [c \in Channel |-> 0]]
    /\ sendQueue = [n \in Node |-> [c \in Channel |-> << >>]]
    /\ sendPackets = [n \in Node |-> [c \in Channel |-> NewRing]]
    /\ receivedPackets = [n \in Node |-> [c \in Channel |-> NewRing]]
    /\ orderedHead = [n \in Node |-> 0]
    /\ unorderedReceived = [n \in Node |-> EmptyBag]
    /\ orderedReceived = [n \in Node |-> << >>]
    /\ unreliableQueued = [n \in Node |-> FALSE]
    /\ unreliablePackets = [n \in Node |-> {}]
    /\ receivedDuplicate = [n \in Node |-> FALSE]
    /\ givenUp = [n \in Node |-> [c \in Channel |-> {}]]
    /\ net = {}

-----------------------------------------------------------------------------
(* Writing: write_reliable, write_ordered, write and write_heartbeat.      *)

Write(n, c) ==
    /\ \E w \in Workloads :
          /\ written[n][c] < w[n][c]
          /\ \A m \in Node, d \in Channel : written[m][d] <= w[m][d]
    /\ Len(sendQueue[n][c]) < MaxQueued
    /\ written' = [written EXCEPT ![n][c] = @ + 1]
    /\ sendQueue' = [sendQueue EXCEPT ![n][c] = Append(@, written[n][c])]
    /\ UNCHANGED <<sendPackets, givenUp, receiveVars, unreliableVars,
                   receivedDuplicate, net>>

WriteUnreliable(n) ==
    /\ n \in Chatty
    /\ unreliableQueued' = [unreliableQueued EXCEPT ![n] = TRUE]
    /\ UNCHANGED <<sendVars, receiveVars, unreliablePackets, receivedDuplicate, net>>

WriteHeartbeat(n) ==
    /\ n \in Chatty
    /\ unreliablePackets' = [unreliablePackets EXCEPT ![n] = @ \cup {PacketAck(n)}]
    /\ UNCHANGED <<sendVars, receiveVars, unreliableQueued, receivedDuplicate, net>>

-----------------------------------------------------------------------------
(* send: a heartbeat if one is called for, then flush_messages, then       *)
(* send_packets.                                                           *)

HeartbeatDueFaulty(n) ==                  \* duplicates are never answered
    receivedDuplicate[n] /\ unreliableQueued[n]

HeartbeatDue(n) ==
    /\ receivedDuplicate[n]
    /\ \A c \in Channel : sendQueue[n][c] = << >>
    /\ ~ unreliableQueued[n]

\* send.  due[c] holds the packets in flight whose resend interval has elapsed;
\* a packet that was just built is sent at once.
Send(n, due) ==
    LET ack == PacketAck(n)
        count == [c \in Channel |-> FlushCount(sendPackets[n][c], sendQueue[n][c])]
        flushed == [c \in Channel |->
                       Flushed(sendPackets[n][c], sendQueue[n][c], count[c], ack)]
        sent == [c \in Channel |->
                    (Keys(flushed[c]) \ Keys(sendPackets[n][c])) \cup due[c]]
        rest == [c \in Channel |-> Resent(flushed[c], sent[c])]
        data == UNION {{DataPacket(Peer(n), c, i, Get(flushed[c], i)) : i \in sent[c]} :
                          c \in Channel}
        acks == unreliablePackets[n]
                    \cup (IF HeartbeatDue(n) \/ unreliableQueued[n] THEN {ack} ELSE {})
        datagrams == data \cup {AckPacket(Peer(n), x) : x \in acks}
        constructed == [m \in Node |-> [c \in Channel |->
                           Constructed(m, c) + IF m = n THEN count[c] ELSE 0]]
    IN  /\ sendQueue' = [sendQueue EXCEPT ![n] =
               [c \in Channel |-> SubSeq(@[c], count[c] + 1, Len(@[c]))]]
        /\ sendPackets' = [sendPackets EXCEPT ![n] = rest]
        /\ givenUp' = [givenUp EXCEPT ![n] =
               [c \in Channel |-> @[c] \cup
                   {Get(flushed[c], i).message :
                       i \in {j \in sent[c] : Get(rest[c], j) = None}}]]
        /\ net' = {p \in net \cup datagrams : Recent(p, constructed)}
        /\ unreliableQueued' = [unreliableQueued EXCEPT ![n] = FALSE]
        /\ unreliablePackets' = [unreliablePackets EXCEPT ![n] = {}]
        /\ receivedDuplicate' = [receivedDuplicate EXCEPT ![n] = FALSE]
        /\ UNCHANGED <<written, receiveVars>>

-----------------------------------------------------------------------------
(* read_packet: a datagram that passes the checksum.  A corrupted one is   *)
(* dropped without a trace, like one that is lost.                         *)

AcknowledgeFaulty(n, ack) ==              \* the channels are mixed up
    sendPackets' = [sendPackets EXCEPT ![n] =
                       [c \in Channel |-> Acknowledged(@[c], ack["reliable"])]]

Acknowledge(n, ack) ==
    sendPackets' = [sendPackets EXCEPT ![n] =
                       [c \in Channel |-> Acknowledged(@[c], ack[c])]]

IsDuplicateFaulty(n, p) ==                \* the ring of the other channel
    Get(receivedPackets[n]["ordered"], p.sequenceId) # None

IsDuplicate(n, p) == Get(receivedPackets[n][p.channel], p.sequenceId) # None

IsTooOldFaulty(n, p) ==                   \* what is not the newest is too old
    WrappingGt(receivedPackets[n][p.channel].newest, p.sequenceId, 2 * NumItems)

IsTooOldNever(n, p) == FALSE

IsTooOldHalfRange(n, p) ==                \* 32 for 64 as the largest distance
    WrappingGt(WrappingSub(receivedPackets[n][p.channel].newest, NumItems - 1),
               p.sequenceId, NumItems)

IsTooOld(n, p) ==
    WrappingGt(WrappingSub(receivedPackets[n][p.channel].newest, NumItems - 1),
               p.sequenceId, 2 * NumItems)

ReceiveUnreliable(n, p) ==
    /\ p.channel = "unreliable"
    /\ Acknowledge(n, p.ack)
    /\ UNCHANGED <<written, sendQueue, givenUp, receiveVars, unreliableVars,
                   receivedDuplicate, net>>

\* A duplicate or too old packet is refused, its ack is not looked at.
Refuse(n, p) ==
    /\ p.channel \in Channel
    /\ IsDuplicate(n, p) \/ IsTooOld(n, p)
    /\ receivedDuplicate' = [receivedDuplicate EXCEPT ![n] = TRUE]
    /\ UNCHANGED <<sendVars, receiveVars, unreliableVars, net>>

AcceptReliable(n, p) ==
    /\ p.channel = "reliable"
    /\ ~ IsDuplicate(n, p) /\ ~ IsTooOld(n, p)
    /\ Acknowledge(n, p.ack)
    /\ receivedPackets' = [receivedPackets EXCEPT ![n]["reliable"] =
                              Insert(@, p.sequenceId, p.message)]
    /\ unorderedReceived' = [unorderedReceived EXCEPT ![n] = @ (+) SetToBag({p.message})]
    /\ UNCHANGED <<written, sendQueue, givenUp, orderedHead, orderedReceived,
                   unreliableVars, receivedDuplicate, net>>

AcceptOrdered(n, p) ==
    /\ p.channel = "ordered"
    /\ ~ IsDuplicate(n, p) /\ ~ IsTooOld(n, p)
    /\ Acknowledge(n, p.ack)
    /\ LET ring == Insert(receivedPackets[n]["ordered"], p.sequenceId, p.message)
           head == orderedHead[n]
           k == ReadyCount(ring, head)
       IN  /\ receivedPackets' = [receivedPackets EXCEPT ![n]["ordered"] = ring]
           /\ orderedHead' = [orderedHead EXCEPT ![n] = WrappingAdd(head, k)]
           /\ orderedReceived' = [orderedReceived EXCEPT ![n] =
                 @ \o [j \in 1 .. k |-> Get(ring, WrappingAdd(head, j - 1))]]
    /\ UNCHANGED <<written, sendQueue, givenUp, unorderedReceived, unreliableVars,
                   receivedDuplicate, net>>

\* The datagram stays in the network, which may deliver it again.
Receive(n, p) ==
    /\ p.to = n
    /\ \/ ReceiveUnreliable(n, p)
       \/ Refuse(n, p)
       \/ AcceptReliable(n, p)
       \/ AcceptOrdered(n, p)

-----------------------------------------------------------------------------
Writes(n) ==
    \/ \E c \in Channel : Write(n, c)
    \/ WriteUnreliable(n)
    \/ WriteHeartbeat(n)

Sends(n) ==
    \E r \in SUBSET Keys(sendPackets[n]["reliable"]),
       o \in SUBSET Keys(sendPackets[n]["ordered"]) :
        Send(n, [c \in Channel |-> IF c = "reliable" THEN r ELSE o])

Receives(n) == \E p \in net : Receive(n, p)

Next == \E n \in Node : Writes(n) \/ Sends(n) \/ Receives(n)

Spec == Init /\ [][Next]_vars

(***************************************************************************)
(* The lossy network.  Where only safety is at stake, a datagram that is   *)
(* never received is a lost one; to ask what must happen in spite of       *)
(* losses, losing it is a step.                                            *)
(*                                                                         *)
(* Fairness: an application calls `send` and `recv` again and again, and   *)
(* between two calls the resend interval elapses, so a call that finds     *)
(* every packet in flight due keeps happening (weak fairness); a network   *)
(* that is handed datagrams again and again delivers some that have an     *)
(* effect (strong fairness), of those that are news as of the repeated.    *)
(***************************************************************************)
Lose(p) ==
    /\ net' = net \ {p}
    /\ UNCHANGED <<sendVars, receiveVars, unreliableVars, receivedDuplicate>>

LossyNext == Next \/ \E p \in net : Lose(p)

SendAllDue(n) == Send(n, [c \in Channel |-> Keys(sendPackets[n][c])])

Fairness ==
    \A n \in Node :
        /\ WF_vars(SendAllDue(n))
        /\ SF_vars(\E p \in net : p.to = n /\ Refuse(n, p))
        /\ SF_vars(\E p \in net : Receive(n, p) /\ ~ Refuse(n, p))

LossySpec == Init /\ [][LossyNext]_vars /\ Fairness

-----------------------------------------------------------------------------
(* Properties.                                                             *)

Messages(n, c) == UNION {0 .. w[n][c] - 1 : w \in Workloads}

AckType == [newest : Index, bits : SUBSET Slots, upto : Nat \cup {-1}]

Acks == [Channel -> AckType]

Pending == PendingPackets(Nat, Acks)

\* An empty slot is told from a packet (Option::None).
ASSUME NoneAssumption == None \notin Nat /\ None \notin Pending

DataPackets == [to : Node, channel : Channel, sequenceId : Index,
                message : Nat, ack : Acks]

AckPackets == [to : Node, channel : {"unreliable"}, ack : Acks]

\* communicator/inner.rs:9-32: every field of a communicator keeps its type;
\* retries never reach 0 for a packet that is still in a ring.
TypeOK ==
    /\ written \in [Node -> [Channel -> Nat]]
    /\ sendQueue \in [Node -> [Channel -> Seq(Nat)]]
    /\ sendPackets \in [Node -> [Channel -> Rings(Pending)]]
    /\ receivedPackets \in [Node -> [Channel -> Rings(Nat)]]
    /\ orderedHead \in [Node -> Index]
    /\ DOMAIN unorderedReceived = Node
    /\ \A n \in Node : IsABag(unorderedReceived[n])
    /\ orderedReceived \in [Node -> Seq(Nat)]
    /\ unreliableQueued \in [Node -> BOOLEAN]
    /\ unreliablePackets \in [Node -> SUBSET Acks]
    /\ receivedDuplicate \in [Node -> BOOLEAN]
    /\ givenUp \in [Node -> [Channel -> SUBSET Nat]]
    /\ net \subseteq DataPackets \cup AckPackets

InRing(ring) == {Get(ring, i) : i \in Keys(ring)}

Delivered(n, c) ==
    IF c = "reliable"
    THEN BagToSet(unorderedReceived[n])
    ELSE {orderedReceived[n][k] : k \in DOMAIN orderedReceived[n]}

\* What n took in on c: handed to the application, or kept until its turn.
Accepted(n, c) == Delivered(n, c) \cup InRing(receivedPackets[n][c])

InFlight(n, c) == {pending.message : pending \in InRing(sendPackets[n][c])}

\* What n gave up before the other side had it.  A lost ordered message takes all
\* later ones with it: the receiver's head waits for it for ever.
Forsaken(n, c) ==
    LET lost == givenUp[n][c] \ Accepted(Peer(n), c)
    IN  IF c = "reliable" THEN lost ELSE UNION {m .. Constructed(n, c) - 1 : m \in lost}

\* packet_ack.rs:19-30, inner.rs:225-242: a message leaves the send ring only
\* when the other side has it (delivered, or waiting in its ordered ring) or
\* retries ran out: an ack bit never names a packet that was not received, and
\* while nothing is given up the receiver never purges an acknowledged message
\* that it did not deliver.
AckSound ==
    \A n \in Node, c \in Channel :
        \A m \in 0 .. Constructed(n, c) - 1 :
            m \in InFlight(n, c) \cup Forsaken(n, c) \cup Accepted(Peer(n), c)

\* mod.rs:361 (test_reliability): a reliable message is received once, however
\* often its packet is resent, duplicated or delayed.
DeliveredOnce ==
    \A n \in Node : \A m \in BagToSet(unorderedReceived[n]) :
        unorderedReceived[n][m] = 1

\* mod.rs:25-26: the ordered messages come out in the order they were written,
\* without gap or repetition.
DeliveredInOrder ==
    \A n \in Node : \A k \in DOMAIN orderedReceived[n] : orderedReceived[n][k] = k - 1

\* inner.rs:23-24: received_packet_duplicate is only ever raised by a packet
\* that was received before: no packet that is new to the receiver is refused.
DuplicateWasReceived ==
    [][\A n \in Node, p \in net :
          Refuse(n, p) /\ p.to = n => p.message \in Accepted(n, p.channel)]_vars

(***************************************************************************)
(* The refinement mapping: a message arrived when it was taken in, and is  *)
(* settled when it was put into a packet that is not in flight any more.   *)
(***************************************************************************)
Settled(n, c) == (0 .. Constructed(n, c) - 1) \ InFlight(n, c)

ArrivedOf == [n \in Node |-> [c \in Channel |-> Accepted(Peer(n), c)]]

SettledOf == [n \in Node |-> [c \in Channel |-> Settled(n, c)]]

UnorderedOf == [n \in Node |-> unorderedReceived[Peer(n)]]

OrderedOf == [n \in Node |-> orderedReceived[Peer(n)]]

Promise == INSTANCE Delivery WITH
    arrived <- ArrivedOf, settled <- SettledOf,
    unordered <- UnorderedOf, ordered <- OrderedOf

\* mod.rs:23-30: while no packet is given up, rings, wrapped ids, acks, resends
\* and heartbeats together do what Delivery promises: what arrived is never
\* forgotten, what can be handed on is handed on at once and once, and no
\* message is settled before it arrived or becomes unsettled again.
ImplementsDelivery == Promise!Spec

\* has_work: something is queued, or in flight and not acknowledged.
HasWork(n) ==
    \/ \E c \in Channel : ~ IsEmpty(sendPackets[n][c]) \/ sendQueue[n][c] # << >>
    \/ unreliablePackets[n] # {}
    \/ unreliableQueued[n]

\* mod.rs:23-27: a message queued on the reliable or the ordered channel reaches
\* the other side's receive queue, whatever the network loses.
EveryMessageArrives ==
    \A n \in Node, c \in Channel : \A m \in Messages(n, c) :
        m < written[n][c] ~> m \in Delivered(Peer(n), c)

\* mod.rs:35: `has_work` is false in the end: the heartbeats that answer
\* duplicates suffice to have every packet acknowledged.
WorkEnds == \A n \in Node : []<>~ HasWork(n)

=============================================================================
