------------------------ MODULE InnerUdpCommunicator ------------------------
(***************************************************************************)
(* One InnerUdpCommunicator as a value: a record of its fields, and what   *)
(* its methods make of it.  Link says how two of them work on each other,  *)
(* this module is for programs that keep many of them, and create and drop *)
(* them while they run.                                                    *)
(*                                                                         *)
(* A packet carries one message, as it does where messages take more than  *)
(* half of MAX_PACKET_DATA_LEN, and a heartbeat none.  Messages of the     *)
(* unreliable channel, of which nothing is promised, are left out.         *)
(***************************************************************************)
EXTENDS Protocol

Channel == {"reliable", "ordered"}

\* InnerUdpCommunicator::default
NewInner ==
    [sendQueue   |-> [c \in Channel |-> << >>],     \* the reliable send queues
     sendPackets |-> [c \in Channel |-> NewRing],   \* sent, not acknowledged
     received    |-> [c \in Channel |-> NewRing],   \* the rings of received
     head        |-> 0,                             \* ordered_read_packet_head
     unordered   |-> << >>,                         \* unordered_recv_queue
     ordered     |-> << >>,                         \* ordered_recv_queue
     duplicate   |-> FALSE]                         \* received_packet_duplicate

\* write_reliable and write_ordered.
Enqueue(inner, c, message) == [inner EXCEPT !.sendQueue[c] = Append(@, message)]

PacketAckFaulty(inner) ==                 \* bit 0 is not the newest index
    [c \in Channel |->
        [newest |-> inner.received[c].newest,
         bits   |-> {WrappingSub(inner.received[c].newest, i) + 1 :
                        i \in Keys(inner.received[c])}]]

\* PacketAck::new
PacketAck(inner) ==
    [c \in Channel |->
        [newest |-> inner.received[c].newest,
         bits   |-> {WrappingSub(inner.received[c].newest, i) :
                        i \in Keys(inner.received[c])}]]

-----------------------------------------------------------------------------
(* send: the heartbeat, flush_messages and send_packets.                   *)

\* Both rings after flush_messages.
FlushedRings(inner) ==
    [c \in Channel |->
        LET queue == inner.sendQueue[c]
            ring  == inner.sendPackets[c]
        IN  Flushed(ring, queue, FlushCount(ring, queue), PacketAck(inner))]

\* What is sent when the packets `due` are: a new packet is always due.
SentNow(inner, due) ==
    LET rings == FlushedRings(inner)
    IN  [c \in Channel |-> {i \in Keys(rings[c]) :
            i \notin Keys(inner.sendPackets[c]) \/ <<c, i>> \in due}]

HeartbeatDue(inner) ==
    inner.duplicate /\ \A c \in Channel : inner.sendQueue[c] = << >>

\* The packets that send hands to the socket.
Outgoing(inner, due) ==
    LET rings == FlushedRings(inner)
        packet(c, i) == [channel |-> c, sequenceId |-> i,
                         content |-> <<Get(rings[c], i).message>>,
                         ack |-> Get(rings[c], i).ack]
        heartbeat == [channel |-> "unreliable", content |-> << >>, ack |-> PacketAck(inner)]
    IN  (UNION {{packet(c, i) : i \in SentNow(inner, due)[c]} : c \in Channel})
        \cup (IF HeartbeatDue(inner) THEN {heartbeat} ELSE {})

\* The communicator that send leaves behind.
AfterSend(inner, due) ==
    LET rings == FlushedRings(inner)
        unsent(c) == SubSeq(inner.sendQueue[c],
                            FlushCount(inner.sendPackets[c], inner.sendQueue[c]) + 1,
                            Len(inner.sendQueue[c]))
    IN  [inner EXCEPT
            !.sendQueue = [c \in Channel |-> unsent(c)],
            !.sendPackets = [c \in Channel |-> Resent(rings[c], SentNow(inner, due)[c])],
            !.duplicate = FALSE]

-----------------------------------------------------------------------------
(* read_packet, for a datagram that passes the checksum.                   *)

Acknowledge(inner, ack) ==
    [inner EXCEPT !.sendPackets = [c \in Channel |-> Acknowledged(@[c], ack[c])]]

RefusedFaulty(inner, p) ==                \* only what is too old
    WrappingGt(WrappingSub(inner.received[p.channel].newest, NumItems - 1),
               p.sequenceId, 2 * NumItems)

Refused(inner, p) ==
    LET ring == inner.received[p.channel]
    IN  \/ Get(ring, p.sequenceId) # None
        \/ WrappingGt(WrappingSub(ring.newest, NumItems - 1), p.sequenceId, 2 * NumItems)

ReadHeartbeat(inner, p) == Acknowledge(inner, p.ack)

ReadReliable(inner, p) ==
    [Acknowledge(inner, p.ack) EXCEPT
        !.received["reliable"] = Insert(@, p.sequenceId, p.content),
        !.unordered = @ \o p.content]

ReadOrdered(inner, p) ==
    LET ring  == Insert(inner.received["ordered"], p.sequenceId, p.content)
        count == ReadyCount(ring, inner.head)
        ready == [j \in 1 .. count |-> Get(ring, WrappingAdd(inner.head, j - 1))[1]]
    IN  [Acknowledge(inner, p.ack) EXCEPT
            !.received["ordered"] = ring,
            !.head = WrappingAdd(@, count),
            !.ordered = @ \o ready]

ReadPacket(inner, p) ==
    CASE p.channel = "unreliable" -> ReadHeartbeat(inner, p)
      [] p.channel \in Channel /\ Refused(inner, p) -> [inner EXCEPT !.duplicate = TRUE]
      [] p.channel = "reliable" /\ ~ Refused(inner, p) -> ReadReliable(inner, p)
      [] p.channel = "ordered" /\ ~ Refused(inner, p) -> ReadOrdered(inner, p)

=============================================================================
