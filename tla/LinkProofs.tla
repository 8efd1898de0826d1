----------------------------- MODULE LinkProofs -----------------------------
(***************************************************************************)
(* Theorems about two communicators and the network between them, for      *)
(* every width of the sequence ids, every capacity of the rings, every     *)
(* workload and every number of retries, and lemmas about the rings of     *)
(* both sides as windows on a line of messages.                            *)
(***************************************************************************)
EXTENDS LinkInvariant, ProtocolFacts

-----------------------------------------------------------------------------
(* Types.                                                                  *)

\* packet_ack.rs:34-58: an ack names indices of the window of a ring.
LEMMA AckOfType ==
    ASSUME NEW r \in Rings(Nat) PROVE AckOf(r) \in AckType
<1>1. r.newest \in Index  BY DEF Rings
<1>2. ASSUME NEW i \in Keys(r) PROVE WrappingSub(r.newest, i) \in Slots
  <2>1. i \in Index /\ InWindow(r, i)
    <3>1. i \in Index /\ Get(r, i) # None  BY KeysAreFound
    <3>2. QED BY <3>1 DEF Get
  <2>2. QED
    BY <1>1, <2>1, U16Assumption, RingAssumption DEF InWindow, WrappingSub, Index, Slots
<1>3. AckOf(r).upto \in Nat \cup {-1}
  <2>1. Get(r, r.newest) \in Nat \cup {None}  BY <1>1, GetType
  <2>2. QED BY <2>1 DEF AckOf
<1>4. AckOf(r).bits \in SUBSET Slots  BY <1>2 DEF AckOf
<1>5. AckOf(r).newest \in Index  BY <1>1 DEF AckOf
<1>6. AckOf(r) = [newest |-> AckOf(r).newest, bits |-> AckOf(r).bits,
                  upto |-> AckOf(r).upto]
  BY DEF AckOf
<1>7. QED BY <1>3, <1>4, <1>5, <1>6 DEF AckType

\* communicator/inner.rs:34-58: a new communicator.
LEMMA InitType == Init => TypeOK
<1> SUFFICES ASSUME Init PROVE TypeOK
  OBVIOUS
<1>1. ASSUME NEW Item PROVE NewRing \in Rings(Item)
  BY U16Assumption DEF NewRing, Rings, Index, LastIndex
<1>2. 0 \in Index /\ 0 \in Nat /\ << >> \in Seq(Nat)
  BY U16Assumption DEF Index
<1>3. IsABag(EmptyBag)
  BY DEF IsABag, EmptyBag, SetToBag
<1>4. QED BY <1>1, <1>2, <1>3 DEF Init, TypeOK

\* mod.rs:135-157: writing.
LEMMA WritesType ==
    ASSUME TypeOK, NEW n \in Node, Writes(n) PROVE TypeOK'
<1>1. ASSUME NEW c \in Channel, Write(n, c) PROVE TypeOK'
  <2>1. written' \in [Node -> [Channel -> Nat]]
    BY <1>1 DEF TypeOK, Write
  <2>2. sendQueue' \in [Node -> [Channel -> Seq(Nat)]]
    <3>1. Append(sendQueue[n][c], written[n][c]) \in Seq(Nat)
      BY DEF TypeOK
    <3>2. QED BY <1>1, <3>1 DEF TypeOK, Write
  <2>3. QED
    BY <1>1, <2>1, <2>2 DEF TypeOK, Write, receiveVars, unreliableVars
<1>2. CASE WriteUnreliable(n)
  BY <1>2 DEF TypeOK, WriteUnreliable, sendVars, receiveVars
<1>3. CASE WriteHeartbeat(n)
  <2>1. PacketAck(n) \in Acks
    BY AckOfType DEF TypeOK, PacketAck, Acks
  <2>2. unreliablePackets' \in [Node -> SUBSET Acks]
    BY <1>3, <2>1 DEF TypeOK, WriteHeartbeat
  <2>3. QED BY <1>3, <2>2 DEF TypeOK, WriteHeartbeat, sendVars, receiveVars
<1>4. QED BY <1>1, <1>2, <1>3 DEF Writes

\* inner.rs:80-113: send.
LEMMA SendType ==
    ASSUME TypeOK, NEW n \in Node,
           NEW due \in [Channel -> SUBSET Index],
           \A c \in Channel : due[c] \subseteq Keys(sendPackets[n][c]),
           Send(n, due)
    PROVE  TypeOK'
<1> DEFINE ack == PacketAck(n)
           count == [c \in Channel |-> FlushCount(sendPackets[n][c], sendQueue[n][c])]
           flushed == [c \in Channel |->
                          Flushed(sendPackets[n][c], sendQueue[n][c], count[c], ack)]
           sent == [c \in Channel |->
                       (Keys(flushed[c]) \ Keys(sendPackets[n][c])) \cup due[c]]
           rest == [c \in Channel |-> Resent(flushed[c], sent[c])]
           data == UNION {{DataPacket(Peer(n), c, i, Get(flushed[c], i)) : i \in sent[c]} :
                             c \in Channel}
           acks == unreliablePackets[n]
                       \cup (IF HeartbeatDue(n) \/ unreliableQueued[n] THEN {ack} ELSE {})
           heartbeats == {AckPacket(Peer(n), x) : x \in acks}
<1>1. ack \in Acks
  BY AckOfType DEF TypeOK, PacketAck, Acks
<1>2. ASSUME NEW c \in Channel
      PROVE  /\ SubSeq(sendQueue[n][c], count[c] + 1, Len(sendQueue[n][c])) \in Seq(Nat)
             /\ \A i \in sent[c] : i \in Index /\ Get(flushed[c], i) \in Pending
             /\ rest[c] \in Rings(Pending)
  <2>1. /\ sendPackets[n][c] \in Rings(Pending)
        /\ sendQueue[n][c] \in Seq(Nat)
        /\ due[c] \in SUBSET Keys(sendPackets[n][c])
    BY DEF TypeOK
  <2> HIDE DEF ack
  <2>2. QED BY <1>1, <2>1, SendChannelType DEF Pending
<1>3. Peer(n) \in Node  BY DEF Peer, Node
<1>4. data \subseteq DataPackets
  <2> SUFFICES ASSUME NEW c \in Channel, NEW i \in sent[c]
               PROVE  DataPacket(Peer(n), c, i, Get(flushed[c], i)) \in DataPackets
    OBVIOUS
  <2> DEFINE pending == Get(flushed[c], i)
  <2>1. i \in Index /\ pending \in Pending  BY <1>2
  <2> HIDE DEF pending
  <2>2. pending.message \in Nat /\ pending.ack \in Acks
    BY <2>1 DEF Pending, PendingPackets
  <2>3. DataPacket(Peer(n), c, i, pending) \in DataPackets
    BY <1>3, <2>1, <2>2 DEF DataPacket, DataPackets
  <2>4. QED BY <2>3 DEF pending
<1>5. heartbeats \subseteq AckPackets
  <2>1. acks \subseteq Acks  BY <1>1 DEF TypeOK
  <2>2. QED BY <1>3, <2>1 DEF AckPacket, AckPackets
<1>6. ASSUME NEW c \in Channel, NEW S, S \subseteq sent[c]
      PROVE  {Get(flushed[c], i).message : i \in S} \subseteq Nat
  BY <1>2, <1>6 DEF Pending, PendingPackets
<1> HIDE DEF ack, count, flushed, sent, rest, data, acks, heartbeats
<1>7. /\ sendQueue' = [sendQueue EXCEPT ![n] =
             [c \in Channel |-> SubSeq(@[c], count[c] + 1, Len(@[c]))]]
      /\ sendPackets' = [sendPackets EXCEPT ![n] = rest]
      /\ givenUp' = [givenUp EXCEPT ![n] =
             [c \in Channel |-> @[c] \cup
                 {Get(flushed[c], i).message :
                     i \in {j \in sent[c] : Get(rest[c], j) = None}}]]
      /\ net' \subseteq net \cup (data \cup heartbeats)
      /\ unreliableQueued' = [unreliableQueued EXCEPT ![n] = FALSE]
      /\ unreliablePackets' = [unreliablePackets EXCEPT ![n] = {}]
      /\ receivedDuplicate' = [receivedDuplicate EXCEPT ![n] = FALSE]
      /\ UNCHANGED <<written, receiveVars>>
  BY DEF Send, ack, count, flushed, sent, rest, data, acks, heartbeats
<1>8. sendQueue' \in [Node -> [Channel -> Seq(Nat)]]
  BY <1>2, <1>7 DEF TypeOK
<1>9. sendPackets' \in [Node -> [Channel -> Rings(Pending)]]
  <2>1. rest \in [Channel -> Rings(Pending)]  BY <1>2 DEF rest
  <2>2. QED BY <1>7, <2>1 DEF TypeOK
<1>10. givenUp' \in [Node -> [Channel -> SUBSET Nat]]
  <2>1. ASSUME NEW c \in Channel
        PROVE  {Get(flushed[c], i).message :
                   i \in {j \in sent[c] : Get(rest[c], j) = None}} \subseteq Nat
    BY <1>6
  <2>2. QED BY <1>7, <2>1 DEF TypeOK
<1>11. net' \subseteq DataPackets \cup AckPackets
  BY <1>4, <1>5, <1>7 DEF TypeOK
<1>12. QED
  BY <1>7, <1>8, <1>9, <1>10, <1>11 DEF TypeOK, receiveVars

\* inner.rs:129-246: reading one datagram.
LEMMA ReceivesType ==
    ASSUME TypeOK, NEW n \in Node, NEW p \in net, Receive(n, p)
    PROVE  TypeOK'
<1>1. ASSUME NEW ack, Acknowledge(n, ack)
      PROVE  sendPackets' \in [Node -> [Channel -> Rings(Pending)]]
  BY <1>1, AcknowledgedType DEF TypeOK, Acknowledge
<1>2. p.channel \in Channel => p.sequenceId \in Index /\ p.message \in Nat
  BY DEF TypeOK, DataPackets, AckPackets, Channel
<1>3. CASE ReceiveUnreliable(n, p)
  BY <1>1, <1>3 DEF TypeOK, ReceiveUnreliable, receiveVars, unreliableVars
<1>4. CASE Refuse(n, p)
  BY <1>4 DEF TypeOK, Refuse, sendVars, receiveVars, unreliableVars
<1>5. ASSUME NEW c \in Channel, p.channel = c
      PROVE  Insert(receivedPackets[n][c], p.sequenceId, p.message) \in Rings(Nat)
  BY <1>2, <1>5, InsertType DEF TypeOK
<1>6. CASE AcceptReliable(n, p)
  <2>1. sendPackets' \in [Node -> [Channel -> Rings(Pending)]]
    BY <1>1, <1>6 DEF AcceptReliable
  <2>2. receivedPackets' \in [Node -> [Channel -> Rings(Nat)]]
    <3>1. "reliable" \in Channel /\ p.channel = "reliable"
      BY <1>6 DEF AcceptReliable, Channel
    <3>2. Insert(receivedPackets[n]["reliable"], p.sequenceId, p.message) \in Rings(Nat)
      BY <1>5, <3>1
    <3>3. QED BY <1>6, <3>1, <3>2 DEF AcceptReliable, TypeOK
  <2>3. /\ DOMAIN unorderedReceived' = Node
        /\ \A m \in Node : IsABag(unorderedReceived'[m])
    <3> DEFINE bag == unorderedReceived[n]
               more == bag (+) SetToBag({p.message})
    <3>1. IsABag(bag)  BY DEF TypeOK
    <3>2. IsABag(more)
      <4>1. bag \in [DOMAIN bag -> {k \in Nat : k > 0}]
        BY <3>1 DEF IsABag
      <4> HIDE DEF bag
      <4>2. QED BY <4>1 DEF IsABag, (+), SetToBag
    <3> HIDE DEF more
    <3>3. unorderedReceived' = [unorderedReceived EXCEPT ![n] = more]
      BY <1>6 DEF AcceptReliable, more
    <3>4. DOMAIN unorderedReceived = Node /\ \A m \in Node : IsABag(unorderedReceived[m])
      BY DEF TypeOK
    <3>5. QED BY <3>2, <3>3, <3>4
  <2>4. QED
    BY <1>6, <2>1, <2>2, <2>3 DEF AcceptReliable, TypeOK, unreliableVars
<1>7. CASE AcceptOrdered(n, p)
  <2> DEFINE ring == Insert(receivedPackets[n]["ordered"], p.sequenceId, p.message)
             head == orderedHead[n]
             k == ReadyCount(ring, head)
             ready == [j \in 1 .. k |-> Get(ring, WrappingAdd(head, j - 1))]
  <2>1. sendPackets' \in [Node -> [Channel -> Rings(Pending)]]
    BY <1>1, <1>7 DEF AcceptOrdered
  <2>2. ring \in Rings(Nat) /\ head \in Index
    <3>1. "ordered" \in Channel /\ p.channel = "ordered"
      BY <1>7 DEF AcceptOrdered, Channel
    <3>2. QED BY <1>5, <3>1 DEF TypeOK
  <2> HIDE DEF ring, head
  <2>3. /\ k \in 0 .. NumItems
        /\ \A j \in 0 .. k - 1 : Get(ring, WrappingAdd(head, j)) # None
    BY <2>2, ReadyCountType
  <2> HIDE DEF k
  <2>4. k \in Nat /\ k \in Index /\ WrappingAdd(head, k) \in Index
    BY <2>2, <2>3, RingAssumption, PushedIndices
  <2>5. ready \in Seq(Nat)
    <3>1. ASSUME NEW j \in 1 .. k PROVE Get(ring, WrappingAdd(head, j - 1)) \in Nat
      <4>1. j - 1 \in 0 .. k - 1 /\ j - 1 \in 0 .. NumItems
        BY <2>3, <2>4, RingAssumption
      <4>2. WrappingAdd(head, j - 1) \in Index  BY <2>2, <4>1, PushedIndices
      <4>3. Get(ring, WrappingAdd(head, j - 1)) \in Nat \cup {None}
        BY <2>2, <4>2, GetType
      <4>4. QED BY <2>3, <4>1, <4>3
    <3>2. QED BY <2>4, <3>1
  <2>6. /\ receivedPackets' = [receivedPackets EXCEPT ![n]["ordered"] = ring]
        /\ orderedHead' = [orderedHead EXCEPT ![n] = WrappingAdd(head, k)]
        /\ orderedReceived' = [orderedReceived EXCEPT ![n] = @ \o ready]
    BY <1>7 DEF AcceptOrdered, ring, head, k
  <2> HIDE DEF ready
  <2>7. receivedPackets' \in [Node -> [Channel -> Rings(Nat)]]
    BY <2>2, <2>6 DEF TypeOK, Channel
  <2>8. orderedHead' \in [Node -> Index]
    BY <2>4, <2>6 DEF TypeOK
  <2>9. orderedReceived' \in [Node -> Seq(Nat)]
    <3>1. orderedReceived[n] \o ready \in Seq(Nat)  BY <2>5 DEF TypeOK
    <3>2. QED BY <2>6, <3>1 DEF TypeOK
  <2>10. QED
    BY <1>7, <2>1, <2>7, <2>8, <2>9 DEF AcceptOrdered, TypeOK, unreliableVars
<1>8. QED BY <1>3, <1>4, <1>6, <1>7 DEF Receive

\* A call of send finds some of the packets in flight due.
LEMMA SomeAreDue ==
    ASSUME TypeOK, NEW n \in Node, Sends(n)
    PROVE  \E due \in [Channel -> SUBSET Index] :
               /\ \A c \in Channel : due[c] \subseteq Keys(sendPackets[n][c])
               /\ Send(n, due)
<1>1. PICK r \in SUBSET Keys(sendPackets[n]["reliable"]),
           o \in SUBSET Keys(sendPackets[n]["ordered"]) :
          Send(n, [c \in Channel |-> IF c = "reliable" THEN r ELSE o])
  BY DEF Sends
<1> DEFINE due == [c \in Channel |-> IF c = "reliable" THEN r ELSE o]
<1>2. \A c \in Channel : due[c] \subseteq Keys(sendPackets[n][c])
  BY DEF Channel
<1>3. \A c \in Channel : Keys(sendPackets[n][c]) \subseteq Index
  BY KeysAreFound DEF TypeOK
<1>4. due \in [Channel -> SUBSET Index]
  BY <1>2, <1>3
<1>5. Send(n, due)  BY <1>1
<1> HIDE DEF due
<1>6. QED BY <1>2, <1>4, <1>5

\* Every step of either side.
LEMMA StepType ==
    ASSUME TypeOK, [Next]_vars PROVE TypeOK'
<1>1. ASSUME NEW n \in Node, Writes(n) PROVE TypeOK'
  BY <1>1, WritesType
<1>2. ASSUME NEW n \in Node, Sends(n) PROVE TypeOK'
  BY <1>2, SomeAreDue, SendType
<1>3. ASSUME NEW n \in Node, Receives(n) PROVE TypeOK'
  BY <1>3, ReceivesType DEF Receives
<1>4. CASE UNCHANGED vars
  BY <1>4 DEF TypeOK, vars, sendVars, receiveVars, unreliableVars
<1>5. QED BY <1>1, <1>2, <1>3, <1>4 DEF Next

\* communicator/inner.rs:9-32: the fields of both communicators keep their types
\* whatever is called and whatever arrives, and a packet in a send ring always
\* has retries left.
THEOREM LinkTypeCorrect == Spec => []TypeOK
<1>1. TypeOK /\ [Next]_vars => TypeOK'
  BY StepType
<1>2. QED BY <1>1, InitType, PTL DEF Spec

-----------------------------------------------------------------------------
(* Windows of messages: what a sequence id says of a message that is not   *)
(* too far from the newest one, and what flushing, acks and arriving       *)
(* packets do to the rings.                                                *)

\* The distances the argument relies on: with 32 slots and 65536 ids, a datagram
\* at most 95 packets late, and an ack that names a packet at most 65504 packets old.
ShortLag ==
    /\ 4 * NumItems < U16
    /\ MaxLag <= 3 * NumItems - 1
    /\ MaxAckLag <= U16 - NumItems

-----------------------------------------------------------------------------
(* Sequence ids.                                                           *)

\* Division with a remainder, also of numbers below zero.
LEMMA IdDivides ==
    ASSUME NEW k \in Int
    PROVE  /\ Id(k) \in Index
           /\ \E q \in Int : k = U16 * q + Id(k)
<1>1. U16 \in Nat \ {0}  BY U16Assumption
<1>2. /\ k \div U16 \in Int
      /\ k = U16 * (k \div U16) + (k % U16)
      /\ k % U16 \in 0 .. U16 - 1
  BY <1>1
<1>3. QED BY <1>2 DEF Id, Index

\* A number has one remainder.
LEMMA OneRemainder ==
    ASSUME NEW n \in Nat \ {0}, NEW p \in Int, NEW q \in Int,
           NEW x \in 0 .. n - 1, NEW y \in 0 .. n - 1,
           n * p + x = n * q + y
    PROVE  x = y
<1>1. n * (p - q) = y - x  OBVIOUS
<1>2. p - q = 0
  <2>1. p - q \in Int /\ -n < y - x /\ y - x < n  OBVIOUS
  <2>2. QED BY <1>1, <2>1, NoSmallMultiple
<1>3. p = q  BY <1>2
<1>4. QED BY <1>3

\* An index is its own id, and -1 stands before 0.
LEMMA IdOfIndex ==
    /\ \A i \in Index : Id(i) = i
    /\ Id(-1) = LastIndex
<1>1. ASSUME NEW k \in Int, NEW i \in Index, NEW e \in Int, k = U16 * e + i
      PROVE  Id(k) = i
  <2>1. PICK q \in Int : k = U16 * q + Id(k)  BY IdDivides
  <2>2. Id(k) \in 0 .. U16 - 1 /\ i \in 0 .. U16 - 1 /\ U16 \in Nat \ {0}
    BY IdDivides, U16Assumption DEF Index
  <2>3. QED BY <1>1, <2>1, <2>2, OneRemainder
<1>2. ASSUME NEW i \in Index PROVE Id(i) = i
  <2>1. i \in Int /\ 0 \in Int /\ i = U16 * 0 + i  BY U16Assumption DEF Index
  <2>2. QED BY <1>1, <2>1
<1>3. Id(-1) = LastIndex
  <2>1. LastIndex \in Index /\ -1 \in Int /\ -1 = U16 * (-1) + LastIndex
    BY U16Assumption DEF Index, LastIndex
  <2>2. QED BY <1>1, <2>1
<1>4. QED BY <1>2, <1>3

\* The id of the message d before message k.
LEMMA IdBefore ==
    ASSUME NEW k \in Int, NEW d \in Index
    PROVE  Id(k - d) = WrappingSub(Id(k), d)
<1> DEFINE x == Id(k)
           y == Id(k - d)
<1>1. k - d \in Int /\ U16 \in Nat \ {0} /\ d \in Int  BY U16Assumption DEF Index
<1>2. PICK p \in Int : k = U16 * p + x  BY IdDivides
<1>3. PICK q \in Int : k - d = U16 * q + y  BY <1>1, IdDivides
<1>4. x \in Index /\ y \in Index  BY <1>1, IdDivides
<1> HIDE DEF x, y
<1>5. y - (x - d) = U16 * (p - q)
  BY <1>1, <1>2, <1>3, <1>4 DEF Index
<1>6. CASE d <= x
  <2>1. p - q = 0
    <3>1. y - (x - d) < U16 /\ -U16 < y - (x - d)
      BY <1>1, <1>4, <1>6 DEF Index
    <3>2. p - q \in Int  OBVIOUS
    <3>3. QED BY <1>1, <1>5, <3>1, <3>2, NoSmallMultiple
  <2>2. y = x - d  BY <1>1, <1>4, <1>5, <2>1 DEF Index
  <2>3. QED BY <1>6, <2>2 DEF WrappingSub, x, y
<1>7. CASE d > x
  <2>1. y - (x - d + U16) = U16 * (p - q - 1)
    BY <1>1, <1>4, <1>5 DEF Index
  <2>2. p - q - 1 = 0
    <3>1. y - (x - d + U16) < U16 /\ -U16 < y - (x - d + U16)
      BY <1>1, <1>4, <1>7 DEF Index
    <3>2. p - q - 1 \in Int  OBVIOUS
    <3>3. QED BY <1>1, <2>1, <3>1, <3>2, NoSmallMultiple
  <2>3. y = x - d + U16  BY <1>1, <1>4, <2>1, <2>2 DEF Index
  <2>4. ~ (d <= x)  BY <1>1, <1>4, <1>7 DEF Index
  <2>5. QED BY <2>3, <2>4 DEF WrappingSub, x, y
<1>8. QED BY <1>1, <1>4, <1>6, <1>7 DEF Index

\* The distance of two ids is that of their messages, if less than U16.
LEMMA IdDistance ==
    ASSUME NEW k \in Int, NEW m \in Int, 0 <= k - m, k - m < U16
    PROVE  WrappingSub(Id(k), Id(m)) = k - m
<1>1. k - m \in Index /\ k - (k - m) = m  BY U16Assumption DEF Index
<1>2. Id(m) = WrappingSub(Id(k), k - m)  BY <1>1, IdBefore
<1>3. Id(k) \in Index  BY IdDivides
<1>4. QED BY <1>1, <1>2, <1>3, U16Assumption DEF WrappingSub, Index

\* An id ahead of another seems to be far behind it.
LEMMA IdAhead ==
    ASSUME NEW k \in Int, NEW m \in Int, 0 < m - k, m - k < U16
    PROVE  WrappingSub(Id(k), Id(m)) = U16 - (m - k)
<1>1. WrappingSub(Id(m), Id(k)) = m - k  BY IdDistance
<1>2. Id(k) \in Index /\ Id(m) \in Index  BY IdDivides
<1>3. QED BY <1>1, <1>2, U16Assumption DEF WrappingSub, Index

\* The id of the message d after message k.
LEMMA IdAfter ==
    ASSUME NEW k \in Int, NEW d \in Index
    PROVE  Id(k + d) = WrappingAdd(Id(k), d)
<1>1. k + d \in Int /\ k + d - d = k /\ d \in Int  BY U16Assumption DEF Index
<1>2. Id(k) = WrappingSub(Id(k + d), d)  BY <1>1, IdBefore
<1>3. Id(k + d) \in Index  BY <1>1, IdDivides
<1>4. QED BY <1>1, <1>2, <1>3, U16Assumption DEF WrappingSub, WrappingAdd, Index

\* The message that an index stands for has that index as its id.
LEMMA IdOfMessage ==
    ASSUME NEW last \in Int, NEW i \in Index
    PROVE  /\ WrappingSub(Id(last), i) \in Index
           /\ Id(last - WrappingSub(Id(last), i)) = i
<1>1. Id(last) \in Index  BY IdDivides
<1>2. WrappingSub(Id(last), i) \in Index  BY <1>1, WrappingType
<1>3. Id(last - WrappingSub(Id(last), i)) = WrappingSub(Id(last), WrappingSub(Id(last), i))
  BY <1>2, IdBefore
<1>4. QED BY <1>1, <1>2, <1>3, U16Assumption DEF WrappingSub, Index

-----------------------------------------------------------------------------
(* What send does to a send ring.                                          *)

\* inner.rs:374-419: flush_messages moves messages from the queue into the window
\* and keeps those in it, each with its ack.
LEMMA FlushedWindow ==
    ASSUME NEW r \in Rings(Pending), NEW queue \in Seq(Nat), NEW ack \in Acks, NEW C \in Nat,
           QueueInOrder(queue, C), SendWindow(r, C - 1)
    PROVE  LET k == FlushCount(r, queue)
               f == Flushed(r, queue, k, ack)
           IN  /\ k \in 0 .. NumItems /\ k \in Nat /\ k <= Len(queue)
               /\ f \in Rings(Pending)
               /\ QueueInOrder(SubSeq(queue, k + 1, Len(queue)), C + k)
               /\ SendWindow(f, C + k - 1)
               /\ \A i \in Keys(r) : Get(f, i) = Get(r, i)
               /\ \A i \in Keys(f) : \/ Get(f, i).ack = ack /\ Get(f, i).message >= C
                                     \/ i \in Keys(r)
               /\ \A m \in C .. C + k - 1 : \E i \in Keys(f) : Get(f, i).message = m
<1> DEFINE k == FlushCount(r, queue)
           f == Flushed(r, queue, k, ack)
           w == r.newest
<1>1. /\ k \in 0 .. NumItems
      /\ \A j \in 1 .. k : j <= Len(queue) /\ FreeSlot(r, j)
  BY FlushCountType
<1>2. k \in Nat /\ k <= Len(queue) /\ Len(queue) \in Nat
  <2>1. k \in Nat /\ Len(queue) \in Nat  BY <1>1, RingAssumption
  <2>2. k = 0 \/ k \in 1 .. k  BY <2>1
  <2>3. QED BY <1>1, <2>1, <2>2
<1> HIDE DEF k
<1>3. f \in Rings(Pending)  BY <1>1, <1>2, FlushedType DEF Pending
<1>4. /\ f.newest = WrappingAdd(w, k)
      /\ \A i \in Index :
            Get(f, i) = IF WrappingSub(f.newest, i) < k
                        THEN [message |-> queue[k - WrappingSub(f.newest, i)], ack |-> ack,
                              retries |-> MaxRetries]
                        ELSE Get(r, i)
  <2>1. f.newest = WrappingAdd(w, k)  BY DEF Flushed
  <2>2. QED BY <1>1, <2>1, GetAfterFlush
<1>5. /\ Keys(r) = {i \in Index : Get(r, i) # None}
      /\ Keys(f) = {i \in Index : Get(f, i) # None}
  BY <1>3, KeysAreFound
<1>6. \A i \in Keys(r) : Get(f, i) = Get(r, i)
  BY <1>1, FlushKeeps
<1> HIDE DEF f
<1>7. /\ w \in Index /\ f.newest \in Index /\ f.newest = WrappingAdd(w, k)
      /\ NumItems \in Nat \ {0} /\ k <= NumItems
  BY <1>1, <1>3, <1>4, RingAssumption DEF Rings
<1>8. \A i \in Index : WrappingSub(f.newest, i) \in Index  BY <1>7, WrappingType
<1>9. f.newest = Id(C + k - 1)
  <2>1. k \in Index  BY <1>1, <1>7, PushedIndices
  <2>2. Id((C - 1) + k) = WrappingAdd(Id(C - 1), k)  BY <2>1, IdAfter
  <2>3. (C - 1) + k = C + k - 1  BY <1>2
  <2>4. QED BY <1>4, <2>2, <2>3 DEF SendWindow
<1>10. ASSUME NEW i \in Keys(f)
       PROVE  /\ MessageAt(f, C + k - 1, i) >= 0
              /\ Get(f, i).message = MessageAt(f, C + k - 1, i)
              /\ \/ Get(f, i).ack = ack /\ Get(f, i).message >= C
                 \/ i \in Keys(r)
  <2>1. i \in Index /\ Get(f, i) # None /\ WrappingSub(f.newest, i) \in Index  BY <1>5, <1>8
  <2>2. MessageAt(f, C + k - 1, i) = C + k - 1 - WrappingSub(f.newest, i)
    BY <1>2, <2>1, U16Assumption DEF MessageAt, Index
  <2>3. CASE WrappingSub(f.newest, i) < k
    <3>1. k - WrappingSub(f.newest, i) \in 1 .. Len(queue) /\ WrappingSub(f.newest, i) \in Nat
      BY <1>2, <2>1, <2>3, U16Assumption DEF Index
    <3>2. queue[k - WrappingSub(f.newest, i)] = C + (k - WrappingSub(f.newest, i)) - 1
      BY <3>1 DEF QueueInOrder
    <3>3. Get(f, i).message = queue[k - WrappingSub(f.newest, i)] /\ Get(f, i).ack = ack
      BY <1>4, <2>1, <2>3
    <3>4. C + (k - WrappingSub(f.newest, i)) - 1 = C + k - 1 - WrappingSub(f.newest, i) /\ C + k - 1 - WrappingSub(f.newest, i) >= 0
      BY <1>2, <2>3, <3>1
    <3>5. queue[k - WrappingSub(f.newest, i)] >= C  BY <1>2, <3>1, <3>2
    <3>6. QED BY <2>2, <3>2, <3>3, <3>4, <3>5
  <2>4. CASE ~ (WrappingSub(f.newest, i) < k)
    <3>1. Get(f, i) = Get(r, i) /\ i \in Keys(r)  BY <1>4, <1>5, <2>1, <2>4
    <3>2. WrappingSub(w, i) = WrappingSub(f.newest, i) - k
      BY <1>1, <1>7, <2>1, <2>4, BeforePushes
    <3>3. MessageAt(r, C - 1, i) = C + k - 1 - WrappingSub(f.newest, i)
      BY <1>2, <2>1, <3>2, U16Assumption DEF MessageAt, Index
    <3>4. QED BY <2>2, <3>1, <3>3 DEF SendWindow
  <2>5. QED BY <2>3, <2>4
<1>11. SendWindow(f, C + k - 1)  BY <1>9, <1>10 DEF SendWindow
<1>12. ASSUME NEW m \in C .. C + k - 1
       PROVE  \E i \in Keys(f) : Get(f, i).message = m
  <2> DEFINE d == C + k - 1 - m
             i == Id(m)
  <2>1. d \in 0 .. k - 1 /\ m \in Int /\ C + k - 1 \in Int  BY <1>2
  <2>2. d < U16  BY <1>1, <1>2, <1>7, <2>1, U16Assumption, RingAssumption
  <2>3. i \in Index  BY <2>1, IdDivides
  <2>4. WrappingSub(f.newest, i) = d
    <3>1. (C + k - 1) - m = d /\ 0 <= d  BY <1>2, <2>1
    <3>2. WrappingSub(Id(C + k - 1), Id(m)) = (C + k - 1) - m
      BY <2>1, <2>2, <3>1, IdDistance
    <3>3. QED BY <1>9, <3>1, <3>2
  <2>5. k - d \in 1 .. Len(queue) /\ d < k  BY <1>2, <2>1
  <2>6. Get(f, i) = [message |-> queue[k - d], ack |-> ack, retries |-> MaxRetries]
    BY <1>4, <2>3, <2>4, <2>5
  <2>7. queue[k - d] = C + (k - d) - 1  BY <2>5 DEF QueueInOrder
  <2>8. Get(f, i).message = m  BY <1>2, <2>1, <2>6, <2>7
  <2>9. Get(f, i) # None
    <3>1. [message |-> queue[k - d], ack |-> ack, retries |-> MaxRetries] \in Pending
      <4>1. queue[k - d] \in Nat /\ MaxRetries \in 1 .. MaxRetries
        BY <2>5, RetryAssumption
      <4>2. QED BY <4>1 DEF Pending, PendingPackets
    <3>2. QED BY <2>6, <3>1, NoneAssumption
  <2>10. QED BY <1>5, <2>3, <2>8, <2>9
<1>13. QueueInOrder(SubSeq(queue, k + 1, Len(queue)), C + k)
  <2> DEFINE rest == SubSeq(queue, k + 1, Len(queue))
  <2>1. Len(rest) = Len(queue) - k  BY <1>2
  <2>2. ASSUME NEW j \in 1 .. Len(rest) PROVE rest[j] = (C + k) + j - 1
    <3>1. j + k \in 1 .. Len(queue) /\ j \in Nat  BY <1>2, <2>1, <2>2
    <3>2. rest[j] = queue[j + k]  BY <1>2, <2>1, <3>1
    <3>3. queue[j + k] = C + (j + k) - 1  BY <3>1 DEF QueueInOrder
    <3>4. QED BY <1>2, <3>1, <3>2, <3>3
  <2>3. C + k \in Nat  BY <1>2
  <2>4. QED BY <2>2, <2>3 DEF QueueInOrder
<1>14. QED BY <1>1, <1>2, <1>3, <1>6, <1>10, <1>11, <1>12, <1>13 DEF f, k

-----------------------------------------------------------------------------
(* What a ring of received packets knows.                                  *)

\* Two messages less than U16 apart have different ids.
LEMMA IdInjective ==
    ASSUME NEW k \in Int, NEW m \in Int, k - m < U16, m - k < U16, Id(k) = Id(m)
    PROVE  k = m
<1>1. WrappingSub(Id(k), Id(k)) = 0
  <2>1. Id(k) \in Index  BY IdDivides
  <2>2. QED BY <2>1, U16Assumption DEF WrappingSub, Index
<1>2. CASE k >= m
  <2>1. WrappingSub(Id(k), Id(m)) = k - m  BY <1>2, IdDistance
  <2>2. QED BY <1>1, <2>1
<1>3. CASE k < m
  <2>1. WrappingSub(Id(m), Id(k)) = m - k  BY <1>3, IdDistance
  <2>2. QED BY <1>1, <2>1
<1>4. QED BY <1>2, <1>3

\* Of the messages around the newest one the ring knows which were accepted.
LEMMA GetMessage ==
    ASSUME NEW r, NEW last \in Int, NEW acc, ReceiveWindow(r, last, acc),
           NEW y \in Int, last - NumItems < y, y <= last + U16 - NumItems
    PROVE  /\ Get(r, Id(y)) = IF y \in acc THEN y ELSE None
           /\ InWindow(r, Id(y)) <=> y <= last
<1>1. /\ r.newest = Id(last) /\ Id(y) \in Index /\ acc \subseteq 0 .. last
      /\ NumItems \in Nat \ {0} /\ U16 \in Nat /\ 4 * NumItems <= U16
  BY IdDivides, U16Assumption, RingAssumption DEF ReceiveWindow
<1>2. CASE y <= last
  <2>1. WrappingSub(r.newest, Id(y)) = last - y /\ last - y < NumItems
    <3>1. 0 <= last - y /\ last - y < NumItems /\ last - y < U16  BY <1>1, <1>2
    <3>2. QED BY <1>1, <3>1, IdDistance
  <2>2. InWindow(r, Id(y))  BY <2>1 DEF InWindow
  <2>3. MessageAt(r, last, Id(y)) = y  BY <2>1 DEF MessageAt
  <2>4. QED BY <1>1, <1>2, <2>2, <2>3 DEF ReceiveWindow
<1>3. CASE y > last
  <2>1. WrappingSub(r.newest, Id(y)) = U16 - (y - last)
    <3>1. 0 < y - last /\ y - last < U16  BY <1>1, <1>3
    <3>2. QED BY <1>1, <3>1, IdAhead
  <2>2. ~ InWindow(r, Id(y))
    <3>1. ~ (U16 - (y - last) < NumItems)  BY <1>1, <1>3
    <3>2. QED BY <2>1, <3>1 DEF InWindow
  <2>3. y \notin acc  BY <1>1, <1>3
  <2>4. ~ (y <= last)  BY <1>3
  <2>5. QED BY <2>2, <2>3, <2>4 DEF Get
<1>4. QED BY <1>2, <1>3

\* The ring holds the accepted ones of the NumItems newest messages.
LEMMA InRingIs ==
    ASSUME NEW r \in Rings(Nat), NEW last \in Int, NEW acc, ReceiveWindow(r, last, acc)
    PROVE  InRing(r) = {y \in acc : last - NumItems < y}
<1>1. /\ Keys(r) = {i \in Index : Get(r, i) # None} /\ acc \subseteq 0 .. last
      /\ NumItems \in Nat \ {0} /\ r.newest = Id(last)
  BY KeysAreFound, RingAssumption DEF ReceiveWindow
<1>2. ASSUME NEW i \in Keys(r)
      PROVE  Get(r, i) \in acc /\ last - NumItems < Get(r, i)
  <2>1. i \in Index /\ Get(r, i) # None /\ InWindow(r, i)  BY <1>1 DEF Get
  <2>2. Get(r, i) = MessageAt(r, last, i) /\ Get(r, i) \in acc
    BY <2>1 DEF ReceiveWindow
  <2>3. WrappingSub(r.newest, i) \in Index /\ WrappingSub(r.newest, i) < NumItems
    BY <1>1, <2>1, IdOfMessage DEF InWindow
  <2>4. QED BY <1>1, <2>2, <2>3, U16Assumption DEF MessageAt, Index
<1>3. ASSUME NEW y \in acc, last - NumItems < y
      PROVE  \E i \in Keys(r) : Get(r, i) = y
  <2>1. y \in Nat /\ y <= last  BY <1>1
  <2>2. y <= last + U16 - NumItems  BY <2>1, U16Assumption, RingAssumption
  <2>3. Get(r, Id(y)) = y  BY <1>3, <2>1, <2>2, GetMessage
  <2>4. Id(y) \in Index /\ y # None  BY <2>1, IdDivides, NoneAssumption
  <2>5. QED BY <1>1, <2>3, <2>4
<1>4. QED BY <1>2, <1>3 DEF InRing

\* inner.rs:200-205: `wrapping_gt` with twice the capacity tells the ids up to
\* NumItems ahead, and those in the window, from those up to 3 * NumItems - 1 behind.
LEMMA TooOld ==
    ASSUME ShortLag, NEW w \in Index, NEW i \in Index
    PROVE  LET old == WrappingGt(WrappingSub(w, NumItems - 1), i, 2 * NumItems)
               d == WrappingSub(w, i)
           IN  /\ d < NumItems => ~ old
               /\ U16 - NumItems <= d => ~ old
               /\ NumItems <= d /\ d <= 3 * NumItems - 1 => old
<1> DEFINE o == WrappingSub(w, NumItems - 1)
           d == WrappingSub(w, i)
           e == WrappingSub(o, i)
<1>1. /\ U16 \in Nat /\ NumItems \in Nat \ {0} /\ 4 * NumItems < U16
      /\ NumItems - 1 \in Index
  BY U16Assumption, RingAssumption DEF ShortLag, Index
<1>2. o \in Index /\ d \in Index  BY <1>1, WrappingType
<1>3. \/ d >= NumItems - 1 /\ e = d - (NumItems - 1)
      \/ d < NumItems - 1 /\ e = d - (NumItems - 1) + U16
  BY <1>1 DEF WrappingSub, Index
<1> HIDE DEF o
<1>4. \/ i <= o /\ e = o - i
      \/ i > o /\ e = o - i + U16
  BY <1>1, <1>2 DEF WrappingSub, Index
<1> HIDE DEF d, e
<1>5. ASSUME e \in 1 .. 2 * NumItems PROVE WrappingGt(o, i, 2 * NumItems)
  BY <1>1, <1>2, <1>4, <1>5 DEF WrappingGt, AcrossWrap, LastIndex, Index
<1>6. ASSUME e = 0 \/ e >= U16 - 2 * NumItems + 1 PROVE ~ WrappingGt(o, i, 2 * NumItems)
  BY <1>1, <1>2, <1>4, <1>6 DEF WrappingGt, AcrossWrap, LastIndex, Index
<1>7. d < NumItems => e = 0 \/ e >= U16 - 2 * NumItems + 1
  BY <1>1, <1>2, <1>3 DEF Index
<1>8. U16 - NumItems <= d => e >= U16 - 2 * NumItems + 1
  BY <1>1, <1>2, <1>3 DEF Index
<1>9. NumItems <= d /\ d <= 3 * NumItems - 1 => e \in 1 .. 2 * NumItems
  BY <1>1, <1>2, <1>3 DEF Index
<1>10. QED BY <1>5, <1>6, <1>7, <1>8, <1>9 DEF o, d

\* inner.rs:181-205: however old the newest packet received is, less than a turn of
\* the ids, a packet at most MaxLag older than the newest built is accepted only if
\* its message is new, and in or ahead of the window.  Unless a packet can leave the
\* sender's window without being accepted, it is also refused only if it is not new.
LEMMA RefusedIfAccepted ==
    ASSUME ShortLag,
           NEW r \in Rings(Nat), NEW last \in Int, last >= -1,
           NEW acc, ReceiveWindow(r, last, acc),
           NEW C \in Nat, last < C, C - 1 - last <= U16 - NumItems,
           NEW x \in Nat, x < C, C - 1 - x <= MaxLag
    PROVE  LET refused == \/ Get(r, Id(x)) # None
                          \/ WrappingGt(WrappingSub(r.newest, NumItems - 1), Id(x), 2 * NumItems)
           IN  /\ ~ refused => /\ x \notin acc
                               /\ last - NumItems < x /\ x <= last + U16 - NumItems
               /\ refused /\ (\A k \in 0 .. C - NumItems - 1 : k \in acc) => x \in acc
<1> DEFINE old == WrappingGt(WrappingSub(r.newest, NumItems - 1), Id(x), 2 * NumItems)
           d == WrappingSub(r.newest, Id(x))
           refused == Get(r, Id(x)) # None \/ old
<1>1. /\ r.newest = Id(last) /\ r.newest \in Index /\ Id(x) \in Index
      /\ acc \subseteq 0 .. last /\ NumItems \in Nat \ {0} /\ U16 \in Nat
      /\ 4 * NumItems < U16 /\ MaxLag \in Nat /\ MaxLag <= 3 * NumItems - 1
  BY IdDivides, U16Assumption, RingAssumption, LinkAssumption DEF ReceiveWindow, Rings, ShortLag
<1>2. /\ d < NumItems => ~ old
      /\ U16 - NumItems <= d => ~ old
      /\ NumItems <= d /\ d <= 3 * NumItems - 1 => old
  BY <1>1, TooOld
<1> HIDE DEF old
<1>3. x <= last + U16 - NumItems  BY <1>1
<1>4. last - NumItems < x => /\ Get(r, Id(x)) = IF x \in acc THEN x ELSE None
                             /\ InWindow(r, Id(x)) <=> x <= last
  BY <1>3, GetMessage
<1>5. x # None  BY NoneAssumption
<1>6. ASSUME ~ refused
      PROVE  x \notin acc /\ last - NumItems < x
  <2>1. ASSUME ~ (last - NumItems < x) PROVE FALSE
    <3>1. NumItems <= last - x /\ last - x <= 3 * NumItems - 1 /\ 0 <= last - x /\ last - x < U16
      BY <1>1, <2>1
    <3>2. d = last - x  BY <1>1, <3>1, IdDistance
    <3>3. QED BY <1>2, <1>6, <3>1, <3>2
  <2>2. QED BY <1>4, <1>5, <1>6, <2>1
<1>7. ASSUME refused, \A k \in 0 .. C - NumItems - 1 : k \in acc
      PROVE  x \in acc
  <2>1. SUFFICES ASSUME x \notin acc PROVE FALSE
    OBVIOUS
  <2>2. C - NumItems <= x
    <3>1. ~ (x \in 0 .. C - NumItems - 1)  BY <1>7, <2>1
    <3>2. QED BY <1>1, <3>1
  <2>3. C - NumItems <= last + 1
    <3>1. CASE C - NumItems - 1 >= 0
      <4>1. C - NumItems - 1 \in 0 .. C - NumItems - 1  BY <1>1, <3>1
      <4>2. C - NumItems - 1 \in 0 .. last  BY <1>1, <1>7, <4>1
      <4>3. QED BY <1>1, <4>2
    <3>2. CASE ~ (C - NumItems - 1 >= 0)  BY <1>1, <3>2
    <3>3. QED BY <3>1, <3>2
  <2>4. last - NumItems < x /\ x <= last + NumItems  BY <1>1, <2>2, <2>3
  <2>5. Get(r, Id(x)) = None /\ (InWindow(r, Id(x)) <=> x <= last)  BY <1>4, <2>1, <2>4
  <2>6. ~ old
    <3>1. CASE x <= last  BY <1>2, <2>5, <3>1 DEF InWindow
    <3>2. CASE x > last
      <4>1. d = U16 - (x - last)
        <5>1. 0 < x - last /\ x - last < U16  BY <1>1, <2>4, <3>2
        <5>2. QED BY <1>1, <5>1, IdAhead
      <4>2. U16 - NumItems <= d  BY <1>1, <2>4, <4>1
      <4>3. QED BY <1>2, <4>2
    <3>3. QED BY <3>1, <3>2
  <2>7. QED BY <1>7, <2>5, <2>6
<1>8. QED BY <1>3, <1>6, <1>7 DEF old

\* ring_buffer.rs:53-92: inserting a message that was not accepted leaves a
\* window that knows of it as well, and moves it forwards only.
LEMMA AcceptedWindow ==
    ASSUME NEW r \in Rings(Nat), NEW acc,
           ReceiveWindow(r, Newest(r), acc),
           NEW x \in Nat, x \notin acc,
           Newest(r) - NumItems < x, x <= Newest(r) + U16 - NumItems
    PROVE  LET r2 == Insert(r, Id(x), x)
           IN  /\ r2 \in Rings(Nat)
               /\ Newest(r2) = IF x <= Newest(r) THEN Newest(r) ELSE x
               /\ ReceiveWindow(r2, Newest(r2), acc \cup {x})
<1> DEFINE last == Newest(r)
           last2 == IF x <= last THEN last ELSE x
           r2 == Insert(r, Id(x), x)
<1>1. r2 \in Rings(Nat) /\ Id(x) \in Index /\ r.newest \in Index
  <2>1. x \in Int /\ r.newest \in Index  BY DEF Rings
  <2>2. Id(x) \in Index  BY <2>1, IdDivides
  <2>3. r2 \in Rings(Nat)  BY <2>2, InsertType
  <2>4. QED BY <2>1, <2>2, <2>3
<1>2. last \in Nat \cup {-1}  BY AckOfType DEF Newest, AckType
<1>3. Get(r, r.newest) = IF last = -1 THEN None ELSE last
  <2>1. Get(r, r.newest) \in Nat \cup {None}  BY <1>1, GetType
  <2>2. QED BY <2>1, NoneAssumption DEF Newest, AckOf
<1> HIDE DEF last
<1>4. /\ r.newest = Id(last) /\ acc \subseteq 0 .. last
      /\ NumItems \in Nat \ {0} /\ U16 \in Nat /\ 4 * NumItems <= U16
  BY U16Assumption, RingAssumption DEF ReceiveWindow, last
<1>5. ReceiveWindow(r, last, acc) /\ last - NumItems < x /\ x <= last + U16 - NumItems
  BY DEF last
<1>6. last2 \in Int /\ last2 - NumItems < x /\ x <= last2 /\ last <= last2 /\ last2 >= 0
      /\ last2 <= last + U16 - NumItems
  BY <1>2, <1>4, <1>5
<1>7. /\ r2.newest = Id(last2)
      /\ \A j \in Index :
            Get(r2, j) = IF j = Id(x) THEN x
                         ELSE IF WrappingSub(Id(last2), j) < NumItems THEN Get(r, j) ELSE None
  <2>1. InWindow(r, Id(x)) <=> x <= last
    <3>1. x \in Int /\ last \in Int  BY <1>2
    <3>2. QED BY <1>5, <3>1, GetMessage
  <2> DEFINE new == IF InWindow(r, Id(x)) THEN r.newest ELSE Id(x)
  <2>2. new = Id(last2)  BY <1>4, <2>1
  <2>3. /\ r2.newest = new
        /\ \A j \in Index :
              Get(r2, j) = IF j = Id(x) THEN x
                           ELSE IF WrappingSub(new, j) < NumItems THEN Get(r, j) ELSE None
    BY <1>1, GetAfterInsert
  <2>4. QED BY <2>2, <2>3
<1> HIDE DEF r2, last2
<1>8. ASSUME NEW y \in Int, last2 - NumItems < y, y <= last2
      PROVE  Get(r2, Id(y)) = IF y \in acc \cup {x} THEN y ELSE None
  <2>1. Id(y) \in Index  BY IdDivides
  <2>2. WrappingSub(Id(last2), Id(y)) < NumItems
    <3>1. 0 <= last2 - y /\ last2 - y < NumItems /\ last2 - y < U16
      BY <1>4, <1>6, <1>8
    <3>2. WrappingSub(Id(last2), Id(y)) = last2 - y  BY <1>6, <3>1, IdDistance
    <3>3. QED BY <3>1, <3>2
  <2>3. Id(y) = Id(x) => y = x
    <3>1. y - x < U16 /\ x - y < U16  BY <1>4, <1>6, <1>8
    <3>2. QED BY <3>1, IdInjective
  <2>4. Get(r, Id(y)) = IF y \in acc THEN y ELSE None
    <3>1. last - NumItems < y /\ y <= last + U16 - NumItems
      BY <1>2, <1>4, <1>6, <1>8
    <3>2. QED BY <1>2, <1>5, <3>1, GetMessage
  <2>5. QED BY <1>7, <2>1, <2>2, <2>3, <2>4
<1>9. Newest(r2) = last2
  <2>1. last2 \in acc \cup {x}
    <3>1. CASE x <= last
      <4>1. last >= 0 /\ last - NumItems < last /\ last <= last + U16 - NumItems
        BY <1>2, <1>4, <3>1
      <4>2. Get(r, Id(last)) = last
        BY <1>2, <1>3, <1>4, <4>1
      <4>3. last \in acc
        <5>1. Get(r, Id(last)) = IF last \in acc THEN last ELSE None
          BY <1>2, <1>5, <4>1, GetMessage
        <5>2. last # None  BY <1>2, <4>1, NoneAssumption
        <5>3. QED BY <4>2, <5>1, <5>2
      <4>4. QED BY <3>1, <4>3 DEF last2
    <3>2. CASE ~ (x <= last)  BY <3>2 DEF last2
    <3>3. QED BY <3>1, <3>2
  <2>2. last2 - NumItems < last2 /\ last2 <= last2  BY <1>4, <1>6
  <2>3. Get(r2, Id(last2)) = last2  BY <1>6, <1>8, <2>1, <2>2
  <2>4. last2 # None  BY <1>6, NoneAssumption
  <2>5. QED BY <1>7, <2>3, <2>4 DEF Newest, AckOf
<1>10. ReceiveWindow(r2, last2, acc \cup {x})
  <2>1. acc \cup {x} \subseteq 0 .. last2
    <3>1. ASSUME NEW m \in acc \cup {x} PROVE m \in 0 .. last2
      BY <1>2, <1>4, <1>6, <3>1
    <3>2. QED BY <3>1
  <2>2. ASSUME NEW i \in Index, InWindow(r2, i)
        PROVE  Get(r2, i) = IF MessageAt(r2, last2, i) \in acc \cup {x}
                            THEN MessageAt(r2, last2, i) ELSE None
    <3> DEFINE y == MessageAt(r2, last2, i)
    <3>1. /\ WrappingSub(Id(last2), i) \in Index
          /\ Id(last2 - WrappingSub(Id(last2), i)) = i
      BY <1>6, IdOfMessage
    <3>2. y = last2 - WrappingSub(Id(last2), i)  BY <1>7 DEF MessageAt
    <3>3. WrappingSub(Id(last2), i) < NumItems  BY <1>7, <2>2 DEF InWindow
    <3>4. y \in Int /\ last2 - NumItems < y /\ y <= last2 /\ Id(y) = i
      BY <1>4, <1>6, <3>1, <3>2, <3>3 DEF Index
    <3> HIDE DEF y
    <3>5. Get(r2, Id(y)) = IF y \in acc \cup {x} THEN y ELSE None
      BY <1>8, <3>4
    <3>6. QED BY <3>4, <3>5 DEF y
  <2>3. QED BY <1>7, <2>1, <2>2 DEF ReceiveWindow
<1>11. QED BY <1>1, <1>9, <1>10 DEF r2, last2, last

\* A ring also knows of fewer accepted messages, if it holds none of the others.
LEMMA SmallerWindow ==
    ASSUME NEW r \in Rings(Nat), NEW last, NEW acc, ReceiveWindow(r, last, acc),
           NEW less, less \subseteq acc, InRing(r) \subseteq less
    PROVE  ReceiveWindow(r, last, less)
<1>1. Keys(r) = {i \in Index : Get(r, i) # None}  BY KeysAreFound
<1>2. ASSUME NEW i \in Index, InWindow(r, i)
      PROVE  Get(r, i) = IF MessageAt(r, last, i) \in less THEN MessageAt(r, last, i) ELSE None
  <2>1. Get(r, i) = IF MessageAt(r, last, i) \in acc THEN MessageAt(r, last, i) ELSE None
    BY <1>2 DEF ReceiveWindow
  <2>2. Get(r, i) # None => Get(r, i) \in less  BY <1>1 DEF InRing
  <2>3. QED BY <2>1, <2>2
<1>3. QED BY <1>2 DEF ReceiveWindow

\* inner.rs:229-237: the head of the ordered channel finds nothing, as soon as the
\* window has passed it.
LEMMA NoRow ==
    ASSUME NEW r \in Rings(Nat), NEW last \in Int, NEW acc, ReceiveWindow(r, last, acc),
           NEW h \in Nat, h <= last - NumItems, last - h < U16
    PROVE  ReadyCount(r, Id(h)) = 0 /\ WrappingAdd(Id(h), 0) = Id(h)
<1> DEFINE k == ReadyCount(r, Id(h))
<1>1. h \in Int /\ Id(h) \in Index
  <2>1. h \in Int  OBVIOUS
  <2>2. QED BY <2>1, IdDivides
<1>2. WrappingAdd(Id(h), 0) = Id(h)
  BY <1>1, U16Assumption DEF WrappingAdd, Index
<1>3. Get(r, Id(h)) = None
  <2>1. NumItems \in Nat \ {0} /\ r.newest = Id(last)  BY RingAssumption DEF ReceiveWindow
  <2>2. WrappingSub(r.newest, Id(h)) = last - h  BY <2>1, IdDistance
  <2>3. ~ (last - h < NumItems)  BY <2>1
  <2>4. QED BY <2>2, <2>3 DEF Get, InWindow
<1>4. /\ k \in 0 .. NumItems
      /\ \A j \in 0 .. k - 1 : Get(r, WrappingAdd(Id(h), j)) # None
  BY <1>1, ReadyCountType
<1>5. k \in Nat /\ (k # 0 => 0 \in 0 .. k - 1)  BY <1>4, RingAssumption
<1>6. QED BY <1>2, <1>3, <1>4, <1>5

\* inner.rs:229-237: the row of ordered packets that are ready, from the head on,
\* ends at the first message that was not accepted.
LEMMA ReadyRow ==
    ASSUME NEW r \in Rings(Nat), NEW last \in Int, NEW acc, ReceiveWindow(r, last, acc),
           NEW h \in Nat, last - NumItems < h, h <= last + 1
    PROVE  LET k == ReadyCount(r, Id(h))
           IN  /\ k \in Nat
               /\ WrappingAdd(Id(h), k) = Id(h + k)
               /\ h + k \notin acc
               /\ \A j \in 1 .. k : /\ h + j - 1 \in acc
                                    /\ Get(r, WrappingAdd(Id(h), j - 1)) = h + j - 1
<1> DEFINE k == ReadyCount(r, Id(h))
<1>1. h \in Int /\ Id(h) \in Index
  <2>1. h \in Int  OBVIOUS
  <2>2. QED BY <2>1, IdDivides
<1>2. /\ k \in 0 .. NumItems
      /\ Get(r, WrappingAdd(Id(h), k)) = None
      /\ \A j \in 0 .. k - 1 : Get(r, WrappingAdd(Id(h), j)) # None
  BY <1>1, ReadyCountType
<1> HIDE DEF k
<1>3. k \in Nat /\ k <= NumItems /\ NumItems \in Nat \ {0}
  BY <1>2, RingAssumption
<1>4. ASSUME NEW j \in 0 .. NumItems
      PROVE  /\ WrappingAdd(Id(h), j) = Id(h + j)
             /\ Get(r, WrappingAdd(Id(h), j)) = IF h + j \in acc THEN h + j ELSE None
  <2>1. j \in Index  BY <1>1, PushedIndices
  <2>2. WrappingAdd(Id(h), j) = Id(h + j)  BY <1>1, <2>1, IdAfter
  <2>3. h + j \in Int /\ last - NumItems < h + j /\ h + j <= last + U16 - NumItems
    BY <1>3, U16Assumption, RingAssumption
  <2>4. Get(r, Id(h + j)) = IF h + j \in acc THEN h + j ELSE None
    BY <2>3, GetMessage
  <2>5. QED BY <2>2, <2>4
<1>5. h + k \notin acc
  <2>1. h + k # None  BY <1>3, NoneAssumption
  <2>2. QED BY <1>2, <1>4, <2>1
<1>6. ASSUME NEW j \in 1 .. k
      PROVE  /\ h + j - 1 \in acc
             /\ Get(r, WrappingAdd(Id(h), j - 1)) = h + j - 1
  <2>1. j - 1 \in 0 .. k - 1 /\ j - 1 \in 0 .. NumItems /\ h + (j - 1) = h + j - 1
    BY <1>3
  <2>2. QED BY <1>2, <1>4, <2>1
<1>7. QED BY <1>2, <1>3, <1>4, <1>5, <1>6 DEF k

\* packet_ack.rs:18-31: an ack that names accepted messages only, and is at most
\* MaxAckLag behind, takes nothing else out of a send ring.
LEMMA AcknowledgedWindow ==
    ASSUME ShortLag,
           NEW r \in Rings(Pending), NEW C \in Nat, SendWindow(r, C - 1),
           NEW a \in AckType, NEW acc, acc \subseteq Nat,
           a.newest = Id(a.upto), a.upto < C, a.upto >= 0 => C - 1 - a.upto <= MaxAckLag,
           \A b \in a.bits : a.upto - b \in acc
    PROVE  LET r2 == Acknowledged(r, a)
           IN  /\ SendWindow(r2, C - 1)
               /\ \A i \in Keys(r2) : i \in Keys(r) /\ Get(r2, i) = Get(r, i)
               /\ \A i \in Keys(r) : Get(r, i).message \in acc \/ i \in Keys(r2)
<1> DEFINE r2 == Acknowledged(r, a)
           named(b) == WrappingSub(a.newest, b)
<1>1. /\ r2 \in Rings(Pending)
      /\ r2.newest = r.newest
      /\ \A i \in Index :
            Get(r2, i) = IF \E b \in a.bits : named(b) = i THEN None ELSE Get(r, i)
  <2>1. r2 \in Rings(Pending)  BY AcknowledgedType
  <2>2. ASSUME NEW i \in Index
        PROVE  /\ r2.newest = r.newest
               /\ Get(r2, i) = IF \E b \in a.bits : named(b) = i THEN None ELSE Get(r, i)
    BY GetAfterAcknowledged DEF AckType
  <2>3. r.newest \in Index  BY DEF Rings
  <2>4. QED BY <2>1, <2>2, <2>3
<1>2. /\ Keys(r) = {i \in Index : Get(r, i) # None}
      /\ Keys(r2) = {i \in Index : Get(r2, i) # None}
  BY <1>1, KeysAreFound
<1> HIDE DEF r2
<1>3. \A i \in Keys(r2) : i \in Keys(r) /\ Get(r2, i) = Get(r, i)
  BY <1>1, <1>2
<1>4. SendWindow(r2, C - 1)
  BY <1>1, <1>3 DEF SendWindow, MessageAt
<1>5. ASSUME NEW i \in Keys(r), i \notin Keys(r2)
      PROVE  Get(r, i).message \in acc
  <2>1. PICK b \in a.bits : named(b) = i
    BY <1>1, <1>2, <1>5
  <2> DEFINE m == a.upto - b
  <2>2. /\ b \in Index /\ b \in Nat /\ b < NumItems /\ a.upto \in Int
        /\ NumItems \in Nat \ {0} /\ U16 \in Nat
        /\ MaxAckLag \in Nat /\ MaxAckLag <= U16 - NumItems
    BY U16Assumption, RingAssumption, LinkAssumption DEF AckType, Slots, Index, ShortLag
  <2>3. m \in acc /\ m \in Nat  OBVIOUS
  <2>4. Id(m) = i  BY <2>1, <2>2, IdBefore
  <2>5. 0 <= C - 1 - m /\ C - 1 - m < U16 /\ C - 1 \in Int /\ m \in Int
    <3>1. a.upto >= 0 /\ m = a.upto - b  BY <2>2, <2>3
    <3>2. C - 1 - a.upto <= MaxAckLag /\ a.upto < C  BY <3>1
    <3> HIDE DEF m
    <3>3. QED BY <2>2, <2>3, <3>1, <3>2
  <2> HIDE DEF m
  <2>6. WrappingSub(r.newest, i) = C - 1 - m
    BY <2>4, <2>5, IdDistance DEF SendWindow
  <2>7. MessageAt(r, C - 1, i) = m
    <3>1. (C - 1) - (C - 1 - m) = m  BY <2>3
    <3>2. QED BY <2>6, <3>1 DEF MessageAt
  <2>8. Get(r, i).message = m  BY <2>7 DEF SendWindow
  <2>9. QED BY <2>3, <2>8
<1>6. QED BY <1>3, <1>4, <1>5 DEF r2

\* How the window r, the queue and its first message C turn into the window `rest`:
\* f is what flush_messages left, with k messages more, and `sent` what was due.
SentRing(r, queue, ack, C, k, f, sent, rest) ==
    /\ k \in Nat /\ k <= Len(queue)
    /\ QueueInOrder(SubSeq(queue, k + 1, Len(queue)), C + k)
    /\ SendWindow(rest, C + k - 1)
    /\ \A i \in Keys(r) : i \in Keys(f) /\ Get(f, i) = Get(r, i)
    /\ \A i \in Keys(f) : \/ Get(f, i).ack = ack /\ Get(f, i).message >= C
                          \/ i \in Keys(r)
    /\ \A m \in C .. C + k - 1 : \E i \in Keys(f) : Get(f, i).message = m
    /\ \A i \in Keys(f) :
          \/ i \in Keys(rest) /\ Get(rest, i).message = Get(f, i).message
          \/ i \in sent /\ Get(rest, i) = None
    /\ \A i \in Keys(rest) :
          /\ i \in Keys(f)
          /\ Get(rest, i).message = Get(f, i).message
          /\ Get(rest, i).ack = Get(f, i).ack
    /\ \A i \in sent : /\ i \in Keys(f) /\ Get(f, i) \in Pending
                       /\ Get(f, i).message < C + k
                       /\ i = Id(Get(f, i).message)
    /\ ~ GivesUp => \A i \in sent : Get(rest, i) # None

\* inner.rs:323-354: send adds the packets it built to the window, and takes none
\* out but those whose last retry it used; what it sends has the id of its message.
LEMMA SentWindow ==
    ASSUME NEW r \in Rings(Pending), NEW queue \in Seq(Nat), NEW ack \in Acks, NEW C \in Nat,
           QueueInOrder(queue, C), SendWindow(r, C - 1),
           NEW d \in SUBSET Keys(r),
           NEW k, k = FlushCount(r, queue),
           NEW f, f = Flushed(r, queue, k, ack),
           NEW sent, sent = (Keys(f) \ Keys(r)) \cup d,
           NEW rest, rest = Resent(f, sent)
    PROVE  SentRing(r, queue, ack, C, k, f, sent, rest)
<1> DEFINE last == C + k - 1
<1>1. /\ k \in 0 .. NumItems /\ k \in Nat /\ k <= Len(queue)
      /\ f \in Rings(Pending)
      /\ QueueInOrder(SubSeq(queue, k + 1, Len(queue)), C + k)
      /\ SendWindow(f, C + k - 1)
      /\ \A i \in Keys(r) : Get(f, i) = Get(r, i)
      /\ \A i \in Keys(f) : \/ Get(f, i).ack = ack /\ Get(f, i).message >= C
                            \/ i \in Keys(r)
      /\ \A m \in C .. C + k - 1 : \E i \in Keys(f) : Get(f, i).message = m
  BY FlushedWindow
<1>2. \A i \in sent : Get(f, i) \in Pending
  BY SendChannelType DEF Pending
<1>3. rest \in Rings(Pending)
  BY SendChannelType DEF Pending
<1>4. \A i \in Index :
          /\ rest.newest = f.newest
          /\ \/ /\ Get(rest, i) # None /\ Get(f, i) # None
                /\ Get(rest, i).message = Get(f, i).message
                /\ Get(rest, i).ack = Get(f, i).ack
             \/ Get(rest, i) = None /\ (Get(f, i) = None \/ i \in sent)
  BY <1>1, GetAfterResend DEF Pending
<1>5. /\ Keys(r) = {i \in Index : Get(r, i) # None}
      /\ Keys(f) = {i \in Index : Get(f, i) # None}
      /\ Keys(rest) = {i \in Index : Get(rest, i) # None}
  BY <1>1, <1>3, KeysAreFound
<1>6. /\ Keys(r) \subseteq Keys(f)
      /\ sent \subseteq Keys(f)
  BY <1>1, <1>5
<1>7. /\ \A i \in Keys(f) :
            \/ i \in Keys(rest) /\ Get(rest, i).message = Get(f, i).message
            \/ i \in sent /\ Get(rest, i) = None
      /\ \A i \in Keys(rest) : /\ i \in Keys(f)
                               /\ Get(rest, i).message = Get(f, i).message
                               /\ Get(rest, i).ack = Get(f, i).ack
  BY <1>4, <1>5
<1>8. rest.newest = f.newest /\ f.newest = Id(last) /\ last \in Int
  <2>1. f.newest \in Index  BY <1>1 DEF Rings
  <2>2. rest.newest = f.newest  BY <1>4, <2>1
  <2>3. f.newest = Id(last)  BY <1>1 DEF SendWindow
  <2>4. QED BY <1>1, <2>2, <2>3
<1> HIDE DEF last
<1>9. SendWindow(rest, last)
  <2>1. SendWindow(f, last)  BY <1>1 DEF last
  <2>2. ASSUME NEW i \in Keys(rest)
        PROVE  MessageAt(rest, last, i) >= 0 /\ Get(rest, i).message = MessageAt(rest, last, i)
    <3>1. i \in Keys(f) /\ Get(rest, i).message = Get(f, i).message  BY <1>7
    <3>2. MessageAt(rest, last, i) = MessageAt(f, last, i)  BY <1>8 DEF MessageAt
    <3>3. QED BY <2>1, <3>1, <3>2 DEF SendWindow
  <2>3. QED BY <1>8, <2>2 DEF SendWindow
<1>10. ASSUME NEW i \in sent
       PROVE  /\ Get(f, i).message < C + k
              /\ i = Id(Get(f, i).message)
  <2>1. i \in Keys(f) /\ i \in Index  BY <1>5, <1>6
  <2>2. Get(f, i).message = last - WrappingSub(Id(last), i)
    BY <1>1, <1>8, <2>1 DEF SendWindow, MessageAt, last
  <2>3. WrappingSub(Id(last), i) \in Index /\ Id(last - WrappingSub(Id(last), i)) = i
    BY <1>8, <2>1, IdOfMessage
  <2>4. WrappingSub(Id(last), i) \in Nat  BY <2>3, U16Assumption DEF Index
  <2>5. Get(f, i).message < C + k
    <3> DEFINE e == WrappingSub(Id(last), i)
    <3> HIDE DEF e
    <3>1. e \in Nat  BY <2>4 DEF e
    <3>2. last - e < C + k  BY <1>1, <3>1 DEF last
    <3>3. QED BY <2>2, <3>2 DEF e
  <2>6. QED BY <2>2, <2>3, <2>5
<1>11. ~ GivesUp => \A i \in sent : Get(rest, i) # None
  BY <1>1, <1>6, KeptAfterResend DEF Pending
<1>12. QED BY <1>1, <1>2, <1>6, <1>7, <1>9, <1>10, <1>11 DEF SentRing, last

=============================================================================
