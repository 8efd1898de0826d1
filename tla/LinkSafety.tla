----------------------------- MODULE LinkSafety -----------------------------
(***************************************************************************)
(* The safety of Link for every width of the sequence ids, every capacity  *)
(* of the rings and every workload, whether or not packets run out of      *)
(* retries, while no datagram is 3 * NumItems packets late or later and no *)
(* outage takes a turn of the ids: by induction, with WindowsAgree as the  *)
(* invariant.                                                              *)
(***************************************************************************)
EXTENDS LinkProofs

-----------------------------------------------------------------------------
(* What the invariant says of one node and channel.                        *)

LEMMA PeerOfPeer ==
    ASSUME NEW n \in Node PROVE Peer(n) \in Node /\ Peer(n) # n /\ Peer(Peer(n)) = n
BY LinkAssumption DEF Node, Peer

\* The parts of the types that the proofs below need.
LEMMA Types ==
    ASSUME TypeOK, NEW n \in Node, NEW c \in Channel
    PROVE  /\ sendQueue[n][c] \in Seq(Nat)
           /\ sendPackets[n][c] \in Rings(Pending)
           /\ receivedPackets[n][c] \in Rings(Nat)
           /\ Newest(receivedPackets[n][c]) \in Nat \cup {-1}
           /\ written[n][c] \in Nat
           /\ orderedReceived[n] \in Seq(Nat)
<1>1. /\ sendQueue[n][c] \in Seq(Nat) /\ sendPackets[n][c] \in Rings(Pending)
      /\ receivedPackets[n][c] \in Rings(Nat)
      /\ written[n][c] \in Nat /\ orderedReceived[n] \in Seq(Nat)
  BY DEF TypeOK
<1>2. Newest(receivedPackets[n][c]) \in Nat \cup {-1}
  BY <1>1, AckOfType DEF Newest, AckType
<1>3. QED BY <1>1, <1>2

\* What was accepted, is numbered; with all that left the sender's window, the
\* receiver is done.
LEMMA AcceptedBounds ==
    ASSUME TypeOK, WindowsAgree, NEW n \in Node, NEW c \in Channel
    PROVE  /\ Accepted(n, c) \subseteq Nat
           /\ Constructed(n, c) \in Nat
           /\ \A k \in 0 .. Constructed(n, c) - NumItems - 1 : DoneWith(Peer(n), c, k)
<1>1. Windows(n, c)  BY DEF WindowsAgree
<1>2. Constructed(n, c) \in Nat  BY <1>1 DEF Windows, QueueInOrder
<1>3. Accepted(n, c) \subseteq Nat
  <2>1. Accepted(n, c) \subseteq 0 .. Newest(receivedPackets[n][c])
    BY <1>1 DEF Windows, ReceiveWindow
  <2>2. Newest(receivedPackets[n][c]) \in Int  BY Types
  <2>3. QED BY <2>1, <2>2
<1>4. ASSUME NEW k \in 0 .. Constructed(n, c) - NumItems - 1
      PROVE  DoneWith(Peer(n), c, k)
  <2> DEFINE r == sendPackets[n][c]
             C == Constructed(n, c)
  <2>1. NumItems \in Nat \ {0} /\ r \in Rings(Pending) /\ C \in Nat
    BY <1>2, Types, RingAssumption
  <2>2. SUFFICES ASSUME k \in InFlight(n, c) PROVE FALSE
    <3>1. k \in 0 .. C - 1  BY <2>1
    <3>2. QED BY <1>1, <3>1 DEF Windows, NothingLost
  <2>3. PICK i \in Keys(r) : Get(r, i).message = k
    BY <2>2 DEF InFlight, InRing
  <2>4. k = MessageAt(r, C - 1, i)
    BY <1>1, <2>3 DEF Windows, SendWindow
  <2>5. i \in Index /\ Get(r, i) # None  BY <2>1, <2>3, KeysAreFound
  <2>6. InWindow(r, i) /\ r.newest \in Index  BY <2>1, <2>5 DEF Get, Rings
  <2>7. WrappingSub(r.newest, i) \in Index /\ WrappingSub(r.newest, i) < NumItems
    BY <2>5, <2>6, WrappingType DEF InWindow
  <2>8. QED
    <3> DEFINE d == WrappingSub(r.newest, i)
    <3>1. k = C - 1 - d /\ d \in Nat /\ d < NumItems
      BY <2>4, <2>7, U16Assumption DEF MessageAt, Index
    <3> HIDE DEF d
    <3>2. k \in Nat /\ k <= C - NumItems - 1  BY <2>1
    <3>3. QED BY <2>1, <3>1, <3>2
<1>5. QED BY <1>2, <1>3, <1>4

\* A message that its receiver is done with is one of those packed.
LEMMA DoneIsNumbered ==
    ASSUME TypeOK, WindowsAgree, NEW n \in Node, NEW c \in Channel,
           NEW k \in Int, DoneWith(n, c, k)
    PROVE  k \in Nat
<1>1. Accepted(n, c) \subseteq Nat  BY AcceptedBounds
<1>2. givenUp[Peer(n)][c] \subseteq Nat  BY PeerOfPeer DEF TypeOK
<1>3. Len(orderedReceived[n]) \in Nat
  <2>1. orderedReceived[n] \in Seq(Nat)  BY DEF TypeOK
  <2>2. QED BY <2>1
<1>4. QED BY <1>1, <1>2, <1>3 DEF DoneWith, Stranded

\* The hole that a message is stranded behind is a message that was given up.
LEMMA HoleWasGivenUp ==
    ASSUME TypeOK, WindowsAgree, NEW n \in Node, NEW k, Stranded(n, k)
    PROVE  LET h == Len(orderedReceived[n])
           IN  h \in givenUp[Peer(n)]["ordered"] \ Accepted(n, "ordered")
<1> DEFINE h == Len(orderedReceived[n])
           last == Newest(receivedPackets[n]["ordered"])
           C == Constructed(Peer(n), "ordered")
<1>1. "ordered" \in Channel /\ Peer(n) \in Node /\ Peer(Peer(n)) = n
  BY PeerOfPeer DEF Channel
<1>2. h \in Nat /\ h \notin Accepted(n, "ordered")
  <2>1. orderedReceived[n] \in Seq(Nat)  BY DEF TypeOK
  <2>2. HeadIsFirstMissing(n)  BY DEF WindowsAgree
  <2>3. QED BY <2>1, <2>2 DEF HeadIsFirstMissing
<1>3. h + NumItems <= last /\ last < C /\ last \in Nat \cup {-1} /\ C \in Nat
  BY <1>1, Types, AcceptedBounds DEF Stranded, WindowsAgree, Windows
<1> HIDE DEF last, C
<1>4. h \in 0 .. C - NumItems - 1  BY <1>2, <1>3, RingAssumption
<1>5. DoneWith(n, "ordered", h)  BY <1>1, <1>4, AcceptedBounds DEF C
<1>6. ~ Stranded(n, h)  BY <1>2 DEF Stranded
<1>7. QED BY <1>2, <1>5, <1>6 DEF DoneWith

\* Unless something is given up, what left the sender's window was accepted.
LEMMA DoneIsAccepted ==
    ASSUME TypeOK, WindowsAgree, NothingGivenUp, NEW n \in Node, NEW c \in Channel
    PROVE  /\ \A k : DoneWith(n, c, k) => k \in Accepted(n, c)
           /\ \A k \in 0 .. Constructed(Peer(n), c) - NumItems - 1 : k \in Accepted(n, c)
<1>1. Peer(n) \in Node /\ Peer(Peer(n)) = n  BY PeerOfPeer
<1>2. ASSUME NEW k, DoneWith(n, c, k) PROVE k \in Accepted(n, c)
  <2>1. givenUp[Peer(n)][c] = {}  BY <1>1 DEF NothingGivenUp
  <2>2. ~ (c = "ordered" /\ Stranded(n, k))
    BY <2>1, HoleWasGivenUp
  <2>3. QED BY <1>2, <2>1, <2>2 DEF DoneWith
<1>3. \A k \in 0 .. Constructed(Peer(n), c) - NumItems - 1 : DoneWith(n, c, k)
  BY <1>1, AcceptedBounds
<1>4. QED BY <1>2, <1>3

\* An ack stays right while the node that built it stays done with messages.
LEMMA GoodAckStays ==
    ASSUME NEW n \in Node, NEW ack \in Acks, GoodAck(n, ack), TypeOK, TypeOK',
           \A c \in Channel :
               /\ \A k : DoneWith(n, c, k) => DoneWith(n, c, k)'
               /\ Newest(receivedPackets[n][c]) <= Newest(receivedPackets[n][c])'
    PROVE  GoodAck(n, ack)'
<1>1. SUFFICES ASSUME NEW c \in Channel
               PROVE  /\ ack[c].newest = Id(ack[c].upto)
                      /\ ack[c].upto <= Newest(receivedPackets[n][c])'
                      /\ \A b \in ack[c].bits : DoneWith(n, c, ack[c].upto - b)'
  BY DEF GoodAck
<1>2. /\ ack[c].newest = Id(ack[c].upto)
      /\ ack[c].upto <= Newest(receivedPackets[n][c])
      /\ \A b \in ack[c].bits : DoneWith(n, c, ack[c].upto - b)
  BY DEF GoodAck
<1>3. ack[c].upto \in Int  BY DEF Acks, AckType
<1>4. Newest(receivedPackets[n][c]) \in Int /\ Newest(receivedPackets[n][c])' \in Int
  <2>1. Newest(receivedPackets[n][c]) \in Nat \cup {-1}  BY Types
  <2>2. Newest(receivedPackets'[n][c]) \in Nat \cup {-1}
    <3>1. receivedPackets'[n][c] \in Rings(Nat)  BY DEF TypeOK
    <3>2. QED BY <3>1, AckOfType DEF Newest, AckType
  <2>3. QED BY <2>1, <2>2
<1>5. ack[c].upto <= Newest(receivedPackets[n][c])'  BY <1>2, <1>3, <1>4
<1>6. ASSUME NEW b \in ack[c].bits PROVE DoneWith(n, c, ack[c].upto - b)'
  <2>1. PICK k : k = ack[c].upto - b  OBVIOUS
  <2>2. DoneWith(n, c, k)  BY <1>2, <2>1
  <2>3. DoneWith(n, c, k)'  BY <2>2
  <2>4. QED BY <2>1, <2>3
<1>7. QED BY <1>2, <1>5, <1>6

\* packet_ack.rs:34-58: a new ack names what its node accepted.
LEMMA PacketAckIsGood ==
    ASSUME TypeOK, WindowsAgree, NEW n \in Node
    PROVE  PacketAck(n) \in Acks /\ GoodAck(n, PacketAck(n))
<1>1. PacketAck(n) \in Acks
  BY AckOfType DEF TypeOK, PacketAck, Acks
<1>2. ASSUME NEW c \in Channel
      PROVE  LET a == PacketAck(n)[c]
             IN  /\ a.newest = Id(a.upto)
                 /\ a.upto <= Newest(receivedPackets[n][c])
                 /\ \A b \in a.bits : DoneWith(n, c, a.upto - b)
  <2> DEFINE r == receivedPackets[n][c]
             last == Newest(r)
             a == PacketAck(n)[c]
  <2>1. a = AckOf(r)  BY DEF PacketAck
  <2>2. r \in Rings(Nat) /\ last \in Int /\ ReceiveWindow(r, last, Accepted(n, c))
    BY Types DEF WindowsAgree, Windows
  <2>3. a.upto = last  BY <2>1 DEF Newest
  <2>4. a.newest = Id(last)  BY <2>1, <2>2 DEF AckOf, ReceiveWindow
  <2>5. ASSUME NEW b \in a.bits PROVE last - b \in Accepted(n, c)
    <3>1. PICK i \in Keys(r) : b = WrappingSub(r.newest, i)
      BY <2>1 DEF AckOf
    <3>2. i \in Index /\ Get(r, i) # None  BY <2>2, KeysAreFound
    <3>3. InWindow(r, i)  BY <3>2 DEF Get
    <3>4. MessageAt(r, last, i) \in Accepted(n, c)
      BY <2>2, <3>2, <3>3 DEF ReceiveWindow
    <3>5. QED BY <3>1, <3>4 DEF MessageAt
  <2>6. last <= last  BY <2>2
  <2>7. QED BY <2>3, <2>4, <2>5, <2>6 DEF DoneWith
<1>3. QED BY <1>1, <1>2 DEF GoodAck

-----------------------------------------------------------------------------
(* The steps that write, or that refuse a packet.                          *)

\* inner.rs:34-58: at first, all is empty.
LEMMA InitAgrees == Init => WindowsAgree
<1> SUFFICES ASSUME Init PROVE WindowsAgree
  OBVIOUS
<1>1. TypeOK  BY InitType
<1>2. Id(-1) = LastIndex /\ Id(0) = 0
  <2>1. 0 \in Index  BY U16Assumption DEF Index
  <2>2. QED BY <2>1, IdOfIndex
<1>3. \A i \in Index : Get(NewRing, i) = None
  BY SlotType DEF Get, NewRing
<1>4. NewRing \in Rings(Nat) /\ LastIndex \in Index
  BY U16Assumption DEF NewRing, Rings, Index, LastIndex
<1>5. Keys(NewRing) = {} /\ InRing(NewRing) = {} /\ Newest(NewRing) = -1
  <2>1. Keys(NewRing) = {i \in Index : Get(NewRing, i) # None}
    BY <1>4, KeysAreFound
  <2>2. NewRing.newest = LastIndex  BY DEF NewRing
  <2>3. QED BY <1>3, <1>4, <2>1, <2>2 DEF InRing, Newest, AckOf
<1>6. ASSUME NEW n \in Node, NEW c \in Channel
      PROVE  /\ Constructed(n, c) = 0
             /\ Accepted(n, c) = {}
             /\ sendQueue[n][c] = << >> /\ sendPackets[n][c] = NewRing
             /\ receivedPackets[n][c] = NewRing
  <2>1. Constructed(n, c) = 0  BY DEF Init, Constructed
  <2>2. Delivered(n, c) = {}
    BY DEF Init, Delivered, EmptyBag, BagToSet, SetToBag
  <2>3. QED BY <1>5, <2>1, <2>2 DEF Init, Accepted
<1>7. ASSUME NEW n \in Node, NEW c \in Channel PROVE Windows(n, c)
  <2>1. Constructed(n, c) = 0 /\ Constructed(Peer(n), c) = 0
    BY <1>6, PeerOfPeer
  <2>2. QueueInOrder(<< >>, 0)  BY DEF QueueInOrder
  <2>3. SendWindow(NewRing, 0 - 1)
    <3>1. 0 - 1 = -1  OBVIOUS
    <3>2. QED BY <1>2, <1>5, <3>1 DEF SendWindow, NewRing
  <2>4. ReceiveWindow(NewRing, -1, {})
    BY <1>2, <1>3 DEF ReceiveWindow, NewRing
  <2>5. NothingLost(n, c)  BY <2>1 DEF NothingLost
  <2>6. Newest(NewRing) < 0  BY <1>5
  <2>7. QED BY <1>5, <1>6, <2>1, <2>2, <2>3, <2>4, <2>5, <2>6 DEF Windows
<1>8. ASSUME NEW n \in Node PROVE HandedOnOnce(n) /\ HeadIsFirstMissing(n) /\ GoodAcks(n)
  <2>1. HandedOnOnce(n)
    <3>1. "reliable" \in Channel  BY DEF Channel
    <3>2. BagToSet(unorderedReceived[n]) = {}
      BY DEF Init, EmptyBag, BagToSet, SetToBag
    <3>3. QED BY <1>5, <1>6, <3>1, <3>2 DEF HandedOnOnce
  <2>2. HeadIsFirstMissing(n)
    <3>1. "ordered" \in Channel  BY DEF Channel
    <3>2. orderedHead[n] = 0 /\ orderedReceived[n] = << >>  BY DEF Init
    <3>3. Len(orderedReceived[n]) = 0 /\ Accepted(n, "ordered") = {}
      BY <1>6, <3>1, <3>2
    <3>4. QED BY <1>2, <3>2, <3>3 DEF HeadIsFirstMissing
  <2>3. GoodAcks(n)
    <3>1. unreliablePackets[n] = {}  BY DEF Init
    <3>2. QED BY <1>5, <1>6, <3>1 DEF GoodAcks
  <2>4. QED BY <2>1, <2>2, <2>3
<1>9. net = {}  BY DEF Init
<1>10. QED BY <1>7, <1>8, <1>9 DEF WindowsAgree

\* A step that changes neither rings nor the network, and leaves good acks only.
LEMMA SameWindows ==
    ASSUME TypeOK, WindowsAgree,
           UNCHANGED <<sendVars, receiveVars, net>>,
           \A n \in Node : \A ack \in unreliablePackets'[n] : GoodAck(n, ack)
    PROVE  WindowsAgree'
<1>1. /\ written' = written /\ sendQueue' = sendQueue /\ sendPackets' = sendPackets
      /\ receivedPackets' = receivedPackets /\ orderedHead' = orderedHead
      /\ unorderedReceived' = unorderedReceived /\ orderedReceived' = orderedReceived
      /\ givenUp' = givenUp /\ net' = net
  BY DEF sendVars, receiveVars
<1>2. ASSUME NEW n \in Node, NEW c \in Channel
      PROVE  /\ Constructed(n, c)' = Constructed(n, c)
             /\ Accepted(n, c)' = Accepted(n, c)
             /\ InFlight(n, c)' = InFlight(n, c)
             /\ \A k : DoneWith(n, c, k) => DoneWith(n, c, k)'
  <2>1. /\ Constructed(n, c)' = Constructed(n, c)
        /\ Accepted(n, c)' = Accepted(n, c)
        /\ InFlight(n, c)' = InFlight(n, c)
    BY <1>1 DEF Constructed, Accepted, Delivered, InFlight
  <2>2. QED BY <1>1, <2>1 DEF DoneWith, Stranded
<1>3. ASSUME NEW n \in Node, NEW c \in Channel PROVE Windows(n, c)'
  <2>1. Windows(n, c) /\ Peer(n) \in Node  BY PeerOfPeer DEF WindowsAgree
  <2>2. NothingLost(n, c)'  BY <1>2, <2>1 DEF Windows, NothingLost
  <2>3. QED BY <1>1, <1>2, <2>1, <2>2 DEF Windows
<1>4. ASSUME NEW n \in Node, NEW ack, GoodAck(n, ack) PROVE GoodAck(n, ack)'
  BY <1>1, <1>2, <1>4 DEF GoodAck
<1>5. ASSUME NEW n \in Node PROVE (HandedOnOnce(n) /\ HeadIsFirstMissing(n) /\ GoodAcks(n))'
  <2>1. HandedOnOnce(n) /\ HeadIsFirstMissing(n) /\ GoodAcks(n)  BY DEF WindowsAgree
  <2>2. HandedOnOnce(n)'  BY <1>1, <2>1 DEF HandedOnOnce
  <2>3. HeadIsFirstMissing(n)'  BY <1>1, <1>2, <2>1 DEF HeadIsFirstMissing, Channel
  <2>4. GoodAcks(n)'  BY <1>1, <1>4, <2>1 DEF GoodAcks
  <2>5. QED BY <2>2, <2>3, <2>4
<1>6. ASSUME NEW p \in net' PROVE GoodPacket(p)'
  <2>1. GoodPacket(p)  BY <1>1 DEF WindowsAgree
  <2>2. GoodAck(Peer(p.to), p.ack)'
    <3>1. p.to \in Node  BY <1>1 DEF TypeOK, DataPackets, AckPackets
    <3>2. Peer(p.to) \in Node  BY <3>1, PeerOfPeer
    <3>3. QED BY <1>4, <2>1, <3>2 DEF GoodPacket
  <2>3. QED BY <1>1, <2>1, <2>2 DEF GoodPacket, Recent, Constructed
<1>7. QED BY <1>3, <1>5, <1>6 DEF WindowsAgree

\* mod.rs:135-157, inner.rs:248-261: writing only makes a queue longer; a
\* heartbeat takes a good ack along.
LEMMA WritesAgree ==
    ASSUME TypeOK, WindowsAgree, NEW n \in Node, Writes(n)
    PROVE  WindowsAgree'
<1>1. ASSUME NEW c \in Channel, Write(n, c) PROVE WindowsAgree'
  <2>1. /\ written' = [written EXCEPT ![n][c] = @ + 1]
        /\ sendQueue' = [sendQueue EXCEPT ![n][c] = Append(@, written[n][c])]
        /\ sendPackets' = sendPackets
        /\ receivedPackets' = receivedPackets /\ orderedHead' = orderedHead
        /\ unorderedReceived' = unorderedReceived /\ orderedReceived' = orderedReceived
        /\ givenUp' = givenUp /\ unreliablePackets' = unreliablePackets /\ net' = net
    BY <1>1 DEF Write, receiveVars, unreliableVars
  <2>2. ASSUME NEW m \in Node, NEW d \in Channel
        PROVE  /\ Accepted(m, d)' = Accepted(m, d)
               /\ InFlight(m, d)' = InFlight(m, d)
               /\ \A k : DoneWith(m, d, k) => DoneWith(m, d, k)'
    <3>1. Accepted(m, d)' = Accepted(m, d) /\ InFlight(m, d)' = InFlight(m, d)
      BY <2>1 DEF Accepted, Delivered, InFlight
    <3>2. QED BY <2>1, <3>1 DEF DoneWith, Stranded
  <2>3. ASSUME NEW m \in Node, NEW d \in Channel
        PROVE  /\ Constructed(m, d)' = Constructed(m, d)
               /\ QueueInOrder(sendQueue[m][d], Constructed(m, d))'
    <3> DEFINE queue == sendQueue[m][d]
               C == Constructed(m, d)
    <3>1. /\ queue \in Seq(Nat) /\ written[m][d] \in Nat
          /\ QueueInOrder(queue, C) /\ C = written[m][d] - Len(queue)
      BY Types DEF WindowsAgree, Windows, Constructed
    <3>2. CASE m = n /\ d = c
      <4>1. written'[m][d] = written[m][d] + 1 /\ sendQueue'[m][d] = Append(queue, written[m][d])
        BY <2>1, <3>2 DEF TypeOK
      <4>2. C' = C
        <5>1. Len(Append(queue, written[m][d])) = Len(queue) + 1 /\ Len(queue) \in Nat
          BY <3>1
        <5>2. C' = (written[m][d] + 1) - Len(Append(queue, written[m][d]))
          BY <4>1 DEF Constructed
        <5>3. ASSUME NEW a \in Nat, NEW b \in Nat PROVE (a + 1) - (b + 1) = a - b
          OBVIOUS
        <5>4. C' = written[m][d] - Len(queue)  BY <3>1, <5>1, <5>2, <5>3
        <5>5. QED BY <3>1, <5>4
      <4>3. ASSUME NEW j \in 1 .. Len(queue) + 1
            PROVE  Append(queue, written[m][d])[j] = C + j - 1
        <5>1. CASE j \in 1 .. Len(queue)
          <6>1. Append(queue, written[m][d])[j] = queue[j]  BY <3>1, <5>1
          <6>2. QED BY <3>1, <5>1, <6>1 DEF QueueInOrder
        <5>2. CASE j = Len(queue) + 1
          <6>1. Append(queue, written[m][d])[j] = written[m][d]
            BY <3>1, <5>2
          <6>2. Len(queue) \in Nat /\ C \in Nat  BY <3>1 DEF QueueInOrder
          <6>3. C + j - 1 = written[m][d]  BY <3>1, <5>2, <6>2
          <6>4. QED BY <6>1, <6>3
        <5>3. Len(queue) \in Nat  BY <3>1
        <5>4. QED BY <5>1, <5>2, <5>3
      <4>4. Len(Append(queue, written[m][d])) = Len(queue) + 1  BY <3>1
      <4>5. QED BY <3>1, <4>1, <4>2, <4>3, <4>4 DEF QueueInOrder
    <3>3. CASE ~ (m = n /\ d = c)
      <4>1. written'[m][d] = written[m][d] /\ sendQueue'[m][d] = queue
        BY <2>1, <3>3 DEF TypeOK
      <4>2. QED BY <3>1, <4>1 DEF Constructed
    <3>4. QED BY <3>2, <3>3
  <2>4. ASSUME NEW m \in Node, NEW d \in Channel PROVE Windows(m, d)'
    <3>1. Windows(m, d) /\ Peer(m) \in Node  BY PeerOfPeer DEF WindowsAgree
    <3>2. NothingLost(m, d)'  BY <2>2, <2>3, <3>1 DEF Windows, NothingLost
    <3>3. QED BY <2>1, <2>2, <2>3, <3>1, <3>2 DEF Windows
  <2>5. ASSUME NEW m \in Node, NEW ack, GoodAck(m, ack) PROVE GoodAck(m, ack)'
    BY <2>1, <2>2, <2>5 DEF GoodAck
  <2>6. ASSUME NEW m \in Node
        PROVE  (HandedOnOnce(m) /\ HeadIsFirstMissing(m) /\ GoodAcks(m))'
    <3>1. HandedOnOnce(m) /\ HeadIsFirstMissing(m) /\ GoodAcks(m)  BY DEF WindowsAgree
    <3>2. HandedOnOnce(m)'  BY <2>1, <3>1 DEF HandedOnOnce
    <3>3. HeadIsFirstMissing(m)'  BY <2>1, <2>2, <3>1 DEF HeadIsFirstMissing, Channel
    <3>4. GoodAcks(m)'  BY <2>1, <2>5, <3>1 DEF GoodAcks
    <3>5. QED BY <3>2, <3>3, <3>4
  <2>7. ASSUME NEW p \in net' PROVE GoodPacket(p)'
    <3>1. GoodPacket(p) /\ Peer(p.to) \in Node /\ p.to \in Node
      <4>1. GoodPacket(p)  BY <2>1 DEF WindowsAgree
      <4>2. p.to \in Node  BY <2>1 DEF TypeOK, DataPackets, AckPackets
      <4>3. QED BY <4>1, <4>2, PeerOfPeer
    <3>2. GoodAck(Peer(p.to), p.ack)'  BY <2>5, <3>1 DEF GoodPacket
    <3>3. [m \in Node |-> [d \in Channel |-> Constructed(m, d)]]'
            = [m \in Node |-> [d \in Channel |-> Constructed(m, d)]]
      BY <2>3
    <3>4. QED BY <2>3, <3>1, <3>2, <3>3 DEF GoodPacket, Recent
  <2>8. QED BY <2>4, <2>6, <2>7 DEF WindowsAgree
<1>2. CASE WriteUnreliable(n)
  BY <1>2, SameWindows DEF WriteUnreliable, WindowsAgree, GoodAcks
<1>3. CASE WriteHeartbeat(n)
  <2>1. /\ unreliablePackets' = [unreliablePackets EXCEPT ![n] = @ \cup {PacketAck(n)}]
        /\ UNCHANGED <<sendVars, receiveVars, net>>
    BY <1>3 DEF WriteHeartbeat
  <2>2. ASSUME NEW m \in Node, NEW ack \in unreliablePackets'[m] PROVE GoodAck(m, ack)
    <3>1. ack \in unreliablePackets[m] \/ (m = n /\ ack = PacketAck(n))
      BY <2>1 DEF TypeOK
    <3>2. QED BY <3>1, PacketAckIsGood DEF WindowsAgree, GoodAcks
  <2>3. QED BY <2>1, <2>2, SameWindows
<1>4. QED BY <1>1, <1>2, <1>3 DEF Writes

-----------------------------------------------------------------------------
(* The steps that receive a packet.                                        *)

\* packet_ack.rs:18-31: the ack of a packet that arrives takes only messages that
\* its sender is done with out of the send rings; whatever the packet itself brings,
\* the rest stays as it is.
LEMMA AcknowledgeAgrees ==
    ASSUME ShortLag, TypeOK, TypeOK', WindowsAgree,
           NEW n \in Node, NEW p \in net, p.to = n, Acknowledge(n, p.ack),
           UNCHANGED <<written, sendQueue, unreliablePackets, net>>,
           \A m \in Node, c \in Channel :
               /\ \A k : DoneWith(m, c, k) => DoneWith(m, c, k)'
               /\ Newest(receivedPackets[m][c]) <= Newest(receivedPackets[m][c])'
               /\ Newest(receivedPackets[m][c])' < Constructed(Peer(m), c)
               /\ ReceiveWindow(receivedPackets[m][c], Newest(receivedPackets[m][c]),
                                Accepted(m, c))',
           \A m \in Node : (HandedOnOnce(m) /\ HeadIsFirstMissing(m))'
    PROVE  WindowsAgree'
<1>1. /\ written' = written /\ sendQueue' = sendQueue /\ net' = net
      /\ unreliablePackets' = unreliablePackets
  OBVIOUS
<1>2. GoodPacket(p) /\ p.ack \in Acks
  BY DEF WindowsAgree, TypeOK, DataPackets, AckPackets
<1>3. ASSUME NEW m \in Node, NEW c \in Channel
      PROVE  Constructed(m, c)' = Constructed(m, c) /\ Constructed(m, c) \in Nat
  BY <1>1, AcceptedBounds DEF Constructed
<1>4. ASSUME NEW c \in Channel
      PROVE  LET r == sendPackets[n][c]
                 r2 == sendPackets'[n][c]
             IN  /\ SendWindow(r2, Constructed(n, c) - 1)
                 /\ \A i \in Keys(r2) : i \in Keys(r) /\ Get(r2, i) = Get(r, i)
                 /\ \A i \in Keys(r) :
                       DoneWith(Peer(n), c, Get(r, i).message) \/ i \in Keys(r2)
  <2> DEFINE r == sendPackets[n][c]
             C == Constructed(n, c)
             a == p.ack[c]
             acc == {k \in Nat : DoneWith(Peer(n), c, k)}
  <2>1. sendPackets'[n][c] = Acknowledged(r, a)
    BY DEF Acknowledge, TypeOK
  <2>2. r \in Rings(Pending) /\ C \in Nat /\ a \in AckType /\ acc \subseteq Nat
    BY <1>2, <1>3, Types DEF Acks
  <2>3. SendWindow(r, C - 1)  BY DEF WindowsAgree, Windows
  <2>4. a.newest = Id(a.upto) /\ (\A b \in a.bits : a.upto - b \in acc)
    <3>1. /\ a.newest = Id(a.upto)
          /\ \A b \in a.bits : DoneWith(Peer(n), c, a.upto - b)
      BY <1>2 DEF GoodPacket, GoodAck
    <3>2. \A b \in a.bits : a.upto - b \in Int
      BY <2>2, U16Assumption, RingAssumption DEF AckType, Slots
    <3>3. QED BY <3>1, <3>2, PeerOfPeer, DoneIsNumbered
  <2>5. a.upto < C
    <3> DEFINE last == Newest(receivedPackets[Peer(n)][c])
    <3>1. a.upto <= last  BY <1>2 DEF GoodPacket, GoodAck
    <3>2. last < C  BY PeerOfPeer DEF WindowsAgree, Windows
    <3>3. last \in Nat \cup {-1}  BY PeerOfPeer, Types
    <3>4. a.upto \in Int  BY <2>2 DEF AckType
    <3>5. QED BY <2>2, <3>1, <3>2, <3>3, <3>4
  <2>6. a.upto >= 0 => C - 1 - a.upto <= MaxAckLag
    BY <1>2 DEF GoodPacket, Recent
  <2> HIDE DEF r, C, a, acc
  <2>7. /\ SendWindow(Acknowledged(r, a), C - 1)
        /\ \A i \in Keys(Acknowledged(r, a)) :
              i \in Keys(r) /\ Get(Acknowledged(r, a), i) = Get(r, i)
        /\ \A i \in Keys(r) : Get(r, i).message \in acc \/ i \in Keys(Acknowledged(r, a))
    BY <2>2, <2>3, <2>4, <2>5, <2>6, AcknowledgedWindow
  <2>8. QED BY <2>1, <2>7 DEF r, C, acc
<1>5. \A m \in Node : m # n => sendPackets'[m] = sendPackets[m]
  BY DEF Acknowledge, TypeOK
<1>6. ASSUME NEW m \in Node, NEW c \in Channel
      PROVE  /\ SendWindow(sendPackets'[m][c], Constructed(m, c) - 1)
             /\ \A i \in Keys(sendPackets'[m][c]) :
                   /\ i \in Keys(sendPackets[m][c])
                   /\ Get(sendPackets'[m][c], i) = Get(sendPackets[m][c], i)
             /\ \A k \in InFlight(m, c) : k \in InFlight(m, c)' \/ DoneWith(Peer(m), c, k)
  <2>1. CASE m = n
    <3>1. ASSUME NEW k \in InFlight(n, c)
          PROVE  k \in InFlight(n, c)' \/ DoneWith(Peer(n), c, k)
      <4>1. PICK i \in Keys(sendPackets[n][c]) : Get(sendPackets[n][c], i).message = k
        BY DEF InFlight, InRing
      <4>2. CASE i \in Keys(sendPackets'[n][c])
        <5>1. Get(sendPackets'[n][c], i).message = k  BY <1>4, <4>1, <4>2
        <5>2. QED BY <4>2, <5>1 DEF InFlight, InRing
      <4>3. CASE i \notin Keys(sendPackets'[n][c])
        BY <1>4, <4>1, <4>3
      <4>4. QED BY <4>2, <4>3
    <3>2. QED BY <1>4, <2>1, <3>1
  <2>2. CASE m # n
    <3>1. sendPackets'[m] = sendPackets[m]  BY <1>5, <2>2
    <3>2. QED BY <3>1 DEF WindowsAgree, Windows, InFlight
  <2>3. QED BY <2>1, <2>2
<1>7. ASSUME NEW m \in Node, NEW c \in Channel PROVE Windows(m, c)'
  <2>1. Windows(m, c) /\ Peer(m) \in Node  BY PeerOfPeer DEF WindowsAgree
  <2>2. QueueInOrder(sendQueue[m][c], Constructed(m, c))'
    BY <1>1, <1>3, <2>1 DEF Windows
  <2>3. SendWindow(sendPackets[m][c], Constructed(m, c) - 1)'
    BY <1>3, <1>6
  <2>4. (Newest(receivedPackets[m][c]) < Constructed(Peer(m), c))'
    BY <1>3, <2>1
  <2>5. NothingLost(m, c)'
    BY <1>3, <1>6, <2>1 DEF Windows, NothingLost
  <2>6. QED BY <2>2, <2>3, <2>4, <2>5 DEF Windows
<1>8. ASSUME NEW m \in Node, NEW ack \in Acks, GoodAck(m, ack) PROVE GoodAck(m, ack)'
  BY <1>8, GoodAckStays
<1>9. ASSUME NEW m \in Node PROVE GoodAcks(m)'
  <2>1. GoodAcks(m)  BY DEF WindowsAgree
  <2>2. ASSUME NEW c \in Channel, NEW i \in Keys(sendPackets'[m][c])
        PROVE  GoodAck(m, Get(sendPackets[m][c], i).ack)'
    <3>1. /\ i \in Keys(sendPackets[m][c])
          /\ Get(sendPackets'[m][c], i) = Get(sendPackets[m][c], i)
      BY <1>6
    <3>2. PICK ack \in Acks : ack = Get(sendPackets[m][c], i).ack
      <4>1. sendPackets[m][c] \in Rings(Pending)  BY Types
      <4>2. i \in Index /\ Get(sendPackets[m][c], i) # None  BY <3>1, <4>1, KeysAreFound
      <4>3. Get(sendPackets[m][c], i) \in Pending  BY <4>1, <4>2, GetType
      <4>4. QED BY <4>3 DEF Pending, PendingPackets
    <3>3. GoodAck(m, ack)  BY <2>1, <3>1, <3>2 DEF GoodAcks
    <3>4. GoodAck(m, ack)'  BY <1>8, <3>3
    <3>5. Get(sendPackets'[m][c], i).ack = ack  BY <3>1, <3>2
    <3>6. QED BY <3>4, <3>5
  <2>3. \A ack \in unreliablePackets'[m] : GoodAck(m, ack)'
    BY <1>1, <1>8, <2>1 DEF GoodAcks, TypeOK
  <2>4. QED BY <2>2, <2>3 DEF GoodAcks
<1>10. ASSUME NEW q \in net' PROVE GoodPacket(q)'
  <2>1. GoodPacket(q) /\ q.to \in Node /\ q.ack \in Acks
    BY <1>1 DEF WindowsAgree, TypeOK, DataPackets, AckPackets
  <2>2. Peer(q.to) \in Node  BY <2>1, PeerOfPeer
  <2>3. GoodAck(Peer(q.to), q.ack)'  BY <1>8, <2>1, <2>2 DEF GoodPacket
  <2>4. [m \in Node |-> [c \in Channel |-> Constructed(m, c)]]'
          = [m \in Node |-> [c \in Channel |-> Constructed(m, c)]]
    BY <1>3
  <2>5. QED BY <1>3, <2>1, <2>2, <2>3, <2>4 DEF GoodPacket, Recent
<1>11. QED BY <1>7, <1>9, <1>10 DEF WindowsAgree

\* inner.rs:181-213: what is accepted is new and in or ahead of the window; unless
\* something was given up, what is refused was accepted before.
LEMMA Arriving ==
    ASSUME ShortLag, TypeOK, WindowsAgree, ShortOutage,
           NEW n \in Node, NEW p \in net, p.to = n, p.channel \in Channel
    PROVE  LET last == Newest(receivedPackets[n][p.channel])
               acc == Accepted(n, p.channel)
               refused == IsDuplicate(n, p) \/ IsTooOld(n, p)
           IN  /\ p.message \in Nat /\ p.sequenceId = Id(p.message)
               /\ p.message < Constructed(Peer(n), p.channel)
               /\ Constructed(Peer(n), p.channel) \in Nat
               /\ ~ refused => /\ p.message \notin acc
                               /\ last - NumItems < p.message
                               /\ p.message <= last + U16 - NumItems
               /\ refused /\ NothingGivenUp => p.message \in acc
<1> DEFINE c == p.channel
           r == receivedPackets[n][c]
           last == Newest(r)
           acc == Accepted(n, c)
           x == p.message
           C == Constructed(Peer(n), c)
           refused == IsDuplicate(n, p) \/ IsTooOld(n, p)
<1>1. Peer(n) \in Node /\ Peer(Peer(n)) = n  BY PeerOfPeer
<1>2. x \in Nat  BY DEF TypeOK, DataPackets, AckPackets, Channel
<1>3. /\ p.sequenceId = Id(x) /\ x < C /\ C - 1 - x <= MaxLag
  <2>1. GoodPacket(p)  BY DEF WindowsAgree
  <2>2. QED BY <1>1, <2>1 DEF GoodPacket, Recent
<1>4. /\ r \in Rings(Nat) /\ last \in Int /\ last >= -1 /\ last < C
      /\ ReceiveWindow(r, last, acc) /\ C - 1 - last <= U16 - NumItems
  <2>1. r \in Rings(Nat) /\ last \in Nat \cup {-1}  BY Types
  <2>2. Windows(n, c)  BY DEF WindowsAgree
  <2>3. QED BY <2>1, <2>2 DEF Windows, ShortOutage
<1>5. C \in Nat /\ (NothingGivenUp => \A k \in 0 .. C - NumItems - 1 : k \in acc)
  BY <1>1, AcceptedBounds, DoneIsAccepted
<1>6. refused <=> \/ Get(r, Id(x)) # None
                  \/ WrappingGt(WrappingSub(r.newest, NumItems - 1), Id(x), 2 * NumItems)
  BY <1>3 DEF IsDuplicate, IsTooOld
<1> HIDE DEF r, last, acc, x, C, refused
<1>7. /\ ~ refused => /\ x \notin acc
                      /\ last - NumItems < x /\ x <= last + U16 - NumItems
      /\ refused /\ (\A k \in 0 .. C - NumItems - 1 : k \in acc) => x \in acc
  BY <1>2, <1>3, <1>4, <1>5, <1>6, RefusedIfAccepted
<1>8. QED BY <1>2, <1>3, <1>5, <1>7 DEF r, last, acc, x, C, refused

\* One more element in a bag that does not have it.
LEMMA OneMore ==
    ASSUME NEW bag, IsABag(bag), NEW x, x \notin BagToSet(bag)
    PROVE  LET more == bag (+) SetToBag({x})
           IN  /\ BagToSet(more) = BagToSet(bag) \cup {x}
               /\ more[x] = 1
               /\ \A e \in BagToSet(bag) : more[e] = bag[e]
<1>1. bag \in [DOMAIN bag -> {k \in Nat : k > 0}]  BY DEF IsABag
<1>2. x \notin DOMAIN bag  BY DEF BagToSet
<1>3. SetToBag({x}) = [e \in {x} |-> 1]  BY DEF SetToBag
<1>4. DOMAIN (bag (+) SetToBag({x})) = DOMAIN bag \cup {x}
  BY <1>3 DEF (+)
<1>5. (bag (+) SetToBag({x}))[x] = 1
  BY <1>2, <1>3 DEF (+)
<1>6. ASSUME NEW e \in DOMAIN bag PROVE (bag (+) SetToBag({x}))[e] = bag[e]
  <2>1. e \notin {x}  BY <1>2
  <2>2. QED BY <1>1, <1>3, <2>1 DEF (+)
<1>7. QED BY <1>4, <1>5, <1>6 DEF BagToSet

\* inner.rs:225-242: a reliable packet that is accepted is new; its message is
\* handed on and remembered.
LEMMA AcceptReliableAgrees ==
    ASSUME ShortLag, TypeOK, TypeOK', WindowsAgree, ShortOutage,
           NEW n \in Node, NEW p \in net, p.to = n, AcceptReliable(n, p)
    PROVE  /\ WindowsAgree'
           /\ p.message \notin Accepted(n, "reliable")
           /\ Accepted(n, "reliable")' = Accepted(n, "reliable") \cup {p.message}
<1> DEFINE r == receivedPackets[n]["reliable"]
           x == p.message
           acc == Accepted(n, "reliable")
           r2 == Insert(r, Id(x), x)
           bag == unorderedReceived[n]
           more == bag (+) SetToBag({x})
<1>1. /\ p.channel = "reliable" /\ "reliable" \in Channel /\ "ordered" \in Channel
      /\ ~ IsDuplicate(n, p) /\ ~ IsTooOld(n, p)
      /\ Acknowledge(n, p.ack)
      /\ receivedPackets' = [receivedPackets EXCEPT ![n]["reliable"] =
                                Insert(@, p.sequenceId, x)]
      /\ unorderedReceived' = [unorderedReceived EXCEPT ![n] = more]
      /\ written' = written /\ sendQueue' = sendQueue /\ orderedHead' = orderedHead
      /\ orderedReceived' = orderedReceived /\ unreliablePackets' = unreliablePackets
      /\ givenUp' = givenUp /\ net' = net
  BY DEF AcceptReliable, unreliableVars, Channel
<1>2. /\ x \in Nat /\ p.sequenceId = Id(x) /\ x < Constructed(Peer(n), "reliable")
      /\ x \notin acc /\ x <= Newest(r) + U16 - NumItems /\ Newest(r) - NumItems < x
  BY <1>1, Arriving
<1>3. /\ r \in Rings(Nat) /\ Newest(r) \in Nat \cup {-1}
      /\ ReceiveWindow(r, Newest(r), acc)
      /\ Newest(r) < Constructed(Peer(n), "reliable")
  BY <1>1, Types DEF WindowsAgree, Windows
<1>4. /\ r2 \in Rings(Nat)
      /\ Newest(r2) = IF x <= Newest(r) THEN Newest(r) ELSE x
      /\ ReceiveWindow(r2, Newest(r2), acc \cup {x})
  BY <1>2, <1>3, AcceptedWindow
<1>5. /\ receivedPackets'[n]["reliable"] = r2
      /\ receivedPackets'[n]["ordered"] = receivedPackets[n]["ordered"]
      /\ \A m \in Node : m # n => receivedPackets'[m] = receivedPackets[m]
      /\ unorderedReceived'[n] = more
      /\ \A m \in Node : m # n => unorderedReceived'[m] = unorderedReceived[m]
  BY <1>1, <1>2 DEF TypeOK
<1>6. acc = BagToSet(bag)
  BY DEF WindowsAgree, HandedOnOnce, Accepted, Delivered
<1>7. /\ BagToSet(more) = BagToSet(bag) \cup {x} /\ more[x] = 1
      /\ \A e \in BagToSet(bag) : more[e] = bag[e]
  <2>1. IsABag(bag) /\ x \notin BagToSet(bag)  BY <1>2, <1>6 DEF TypeOK
  <2> HIDE DEF bag, x
  <2>2. QED BY <2>1, OneMore
<1>8. InRing(r2) \subseteq acc \cup {x}
  <2>1. Newest(r2) \in Int  BY <1>2, <1>3, <1>4
  <2> HIDE DEF r2, acc, x
  <2>2. QED BY <1>4, <2>1, InRingIs
<1>9. Accepted(n, "reliable")' = acc \cup {x}
  BY <1>5, <1>6, <1>7, <1>8 DEF Accepted, Delivered
<1>10. ASSUME NEW m \in Node, NEW c \in Channel
       PROVE  /\ \A k : DoneWith(m, c, k) => DoneWith(m, c, k)'
              /\ Newest(receivedPackets[m][c]) <= Newest(receivedPackets[m][c])'
              /\ Newest(receivedPackets[m][c])' < Constructed(Peer(m), c)
              /\ ReceiveWindow(receivedPackets[m][c], Newest(receivedPackets[m][c]),
                               Accepted(m, c))'
  <2>1. CASE m = n /\ c = "reliable"
    <3>1. Newest(r) <= Newest(r2) /\ Newest(r2) < Constructed(Peer(n), "reliable")
      BY <1>2, <1>3, <1>4
    <3>2. \A k : DoneWith(m, c, k) => DoneWith(m, c, k)'
      BY <1>1, <1>9, <2>1 DEF DoneWith
    <3>3. QED BY <1>4, <1>5, <1>9, <2>1, <3>1, <3>2
  <2>2. CASE ~ (m = n /\ c = "reliable")
    <3>1. /\ Accepted(m, c)' = Accepted(m, c)
          /\ receivedPackets'[m][c] = receivedPackets[m][c]
          /\ \A k : DoneWith(m, c, k) => DoneWith(m, c, k)'
      <4>1. Accepted(m, c)' = Accepted(m, c) /\ receivedPackets'[m][c] = receivedPackets[m][c]
        BY <1>1, <1>5, <2>2 DEF Accepted, Delivered, Channel
      <4>2. receivedPackets'[m]["ordered"] = receivedPackets[m]["ordered"]
        BY <1>5
      <4>3. QED BY <1>1, <4>1, <4>2 DEF DoneWith, Stranded
    <3>2. Windows(m, c) /\ Newest(receivedPackets[m][c]) \in Int
      <4>1. Newest(receivedPackets[m][c]) \in Nat \cup {-1}  BY Types
      <4>2. QED BY <4>1 DEF WindowsAgree
    <3>3. QED BY <3>1, <3>2 DEF Windows
  <2>3. QED BY <2>1, <2>2
<1>11. ASSUME NEW m \in Node PROVE (HandedOnOnce(m) /\ HeadIsFirstMissing(m))'
  <2>1. HandedOnOnce(m) /\ HeadIsFirstMissing(m)  BY DEF WindowsAgree
  <2>2. HeadIsFirstMissing(m)'
    <3>1. Accepted(m, "ordered")' = Accepted(m, "ordered")
      BY <1>1, <1>5 DEF Accepted, Delivered
    <3>2. QED BY <1>1, <2>1, <3>1 DEF HeadIsFirstMissing
  <2>3. HandedOnOnce(m)'
    <3>1. CASE m = n
      <4>1. InRing(r2) \subseteq BagToSet(more)  BY <1>6, <1>7, <1>8
      <4>2. \A e \in BagToSet(more) : more[e] = 1
        BY <1>7, <2>1, <3>1 DEF HandedOnOnce
      <4>3. QED BY <1>5, <3>1, <4>1, <4>2 DEF HandedOnOnce
    <3>2. CASE m # n
      BY <1>5, <2>1, <3>2 DEF HandedOnOnce
    <3>3. QED BY <3>1, <3>2
  <2>4. QED BY <2>2, <2>3
<1>12. WindowsAgree'  BY <1>1, <1>10, <1>11, AcknowledgeAgrees
<1>13. QED BY <1>2, <1>9, <1>12

\* What is appended to a sequence follows its elements.
LEMMA Appended ==
    ASSUME NEW s \in Seq(Nat), NEW t \in Seq(Nat)
    PROVE  s \o t \in Seq(Nat) /\ Len(s \o t) = Len(s) + Len(t)
OBVIOUS

\* inner.rs:225-242: an ordered packet that is accepted is new, and the row it
\* may complete is handed on up to the first message that is still missing.  What
\* the window leaves behind a hole is purged, unless nothing was given up: then
\* there is no such hole.
LEMMA AcceptOrderedAgrees ==
    ASSUME ShortLag, TypeOK, TypeOK', WindowsAgree, ShortOutage,
           NEW n \in Node, NEW p \in net, p.to = n, AcceptOrdered(n, p)
    PROVE  /\ WindowsAgree'
           /\ p.message \notin Accepted(n, "ordered")
           /\ NothingGivenUp =>
                 Accepted(n, "ordered")' = Accepted(n, "ordered") \cup {p.message}
<1> DEFINE r == receivedPackets[n]["ordered"]
           x == p.message
           acc == Accepted(n, "ordered")
           acc2 == acc \cup {x}
           r2 == Insert(r, Id(x), x)
           last == Newest(r)
           last2 == Newest(r2)
           o == orderedReceived[n]
           h == Len(o)
           k == ReadyCount(r2, Id(h))
           row == [j \in 1 .. k |-> Get(r2, WrappingAdd(Id(h), j - 1))]
           C == Constructed(Peer(n), "ordered")
<1>1. /\ p.channel = "ordered" /\ "reliable" \in Channel /\ "ordered" \in Channel
      /\ "reliable" # "ordered"
      /\ ~ IsDuplicate(n, p) /\ ~ IsTooOld(n, p)
      /\ Acknowledge(n, p.ack)
      /\ written' = written /\ sendQueue' = sendQueue
      /\ unorderedReceived' = unorderedReceived /\ unreliablePackets' = unreliablePackets
      /\ givenUp' = givenUp /\ net' = net
  BY DEF AcceptOrdered, unreliableVars, Channel
<1>2. /\ x \in Nat /\ p.sequenceId = Id(x) /\ x < C /\ C \in Nat
      /\ x \notin acc /\ x <= last + U16 - NumItems /\ last - NumItems < x
  BY <1>1, Arriving
<1>3. /\ r \in Rings(Nat) /\ last \in Nat \cup {-1} /\ o \in Seq(Nat)
      /\ ReceiveWindow(r, last, acc) /\ last < C
  BY <1>1, Types DEF WindowsAgree, Windows
<1>4. r2 \in Rings(Nat) /\ last2 = (IF x <= last THEN last ELSE x)
      /\ ReceiveWindow(r2, last2, acc2)
  BY <1>2, <1>3, AcceptedWindow
<1>5. /\ orderedHead[n] = Id(h) /\ h \in Nat /\ h \notin acc
      /\ \A i \in 1 .. h : o[i] = i - 1
      /\ C - h <= U16
      /\ NothingGivenUp => \A m \in 0 .. C - NumItems - 1 : m \in acc
  BY <1>1, <1>3, DoneIsAccepted DEF WindowsAgree, HeadIsFirstMissing, ShortOutage
<1>6. /\ receivedPackets' = [receivedPackets EXCEPT ![n]["ordered"] = r2]
      /\ orderedHead' = [orderedHead EXCEPT ![n] = WrappingAdd(Id(h), k)]
      /\ orderedReceived' = [orderedReceived EXCEPT ![n] = @ \o row]
  BY <1>2, <1>5 DEF AcceptOrdered
<1>7. /\ receivedPackets'[n]["ordered"] = r2
      /\ receivedPackets'[n]["reliable"] = receivedPackets[n]["reliable"]
      /\ orderedHead'[n] = WrappingAdd(Id(h), k)
      /\ orderedReceived'[n] = o \o row
      /\ \A m \in Node : m # n => /\ receivedPackets'[m] = receivedPackets[m]
                                  /\ orderedHead'[m] = orderedHead[m]
                                  /\ orderedReceived'[m] = orderedReceived[m]
  <2> HIDE DEF r2, h, k, row
  <2>1. QED BY <1>1, <1>6 DEF TypeOK
<1>8. acc = {o[i] : i \in 1 .. h} \cup InRing(r) /\ acc \subseteq 0 .. last
  <2>1. DOMAIN o = 1 .. h  BY <1>3
  <2>2. QED BY <1>1, <1>3, <2>1 DEF Accepted, Delivered, ReceiveWindow
<1>9. Accepted(n, "ordered")'
        = {(o \o row)[i] : i \in DOMAIN (o \o row)} \cup InRing(r2)
  BY <1>1, <1>7 DEF Accepted, Delivered
<1>10. /\ Accepted(n, "reliable")' = Accepted(n, "reliable")
       /\ \A m \in Node \ {n}, c \in Channel : Accepted(m, c)' = Accepted(m, c)
  BY <1>1, <1>7 DEF Accepted, Delivered
<1> HIDE DEF r, x, acc, r2, last, last2, o, h, k, row, C
<1>11. NumItems \in Nat \ {0}  BY RingAssumption
<1>12. last2 \in Int /\ last <= last2 /\ last2 < C
  BY <1>2, <1>3, <1>4
<1>13. h <= last2 + 1 /\ last2 - h < U16
  <2>1. h <= last2 + 1
    <3>1. CASE h = 0
      <4>1. last >= -1  BY <1>3
      <4>2. QED BY <1>3, <1>12, <3>1, <4>1
    <3>2. CASE h # 0
      <4>1. h \in 1 .. h /\ o[h] = h - 1  BY <1>5, <3>2
      <4>2. h - 1 \in acc  BY <1>8, <4>1
      <4>3. h - 1 \in 0 .. last  BY <1>8, <4>2
      <4>4. QED BY <1>3, <1>5, <1>12, <4>3
    <3>3. QED BY <3>1, <3>2
  <2>2. QED BY <1>2, <1>5, <1>12, <2>1, U16Assumption
<1>14. /\ k \in Nat /\ WrappingAdd(Id(h), k) = Id(h + k) /\ h + k \notin acc2
       /\ \A j \in 1 .. k : /\ h + j - 1 \in acc2
                            /\ Get(r2, WrappingAdd(Id(h), j - 1)) = h + j - 1
       /\ h <= last2 - NumItems => k = 0
  <2>1. CASE last2 - NumItems < h
    <3>1. /\ k \in Nat /\ WrappingAdd(Id(h), k) = Id(h + k) /\ h + k \notin acc2
          /\ \A j \in 1 .. k : /\ h + j - 1 \in acc2
                               /\ Get(r2, WrappingAdd(Id(h), j - 1)) = h + j - 1
      BY <1>4, <1>5, <1>12, <1>13, <2>1, ReadyRow DEF k
    <3>2. ~ (h <= last2 - NumItems)  BY <1>5, <1>11, <1>12, <2>1
    <3>3. QED BY <3>1, <3>2
  <2>2. CASE ~ (last2 - NumItems < h)
    <3>1. h <= last2 - NumItems  BY <1>5, <1>11, <1>12, <2>2
    <3>2. k = 0 /\ WrappingAdd(Id(h), 0) = Id(h)
      BY <1>4, <1>5, <1>12, <1>13, <3>1, NoRow DEF k
    <3>3. h # x  BY <1>2, <1>3, <1>4, <1>5, <1>11, <3>1
    <3>4. h + 0 = h /\ h \notin acc2  BY <1>5, <3>3 DEF acc2
    <3>5. QED BY <3>2, <3>4
  <2>3. QED BY <2>1, <2>2
<1>15. /\ Len(o \o row) = h + k /\ DOMAIN (o \o row) = 1 .. h + k
       /\ \A i \in 1 .. h + k : (o \o row)[i] = i - 1
  <2>1. /\ row \in Seq(Nat) /\ Len(row) = k
        /\ \A j \in 1 .. k : row[j] = h + j - 1
    <3>1. \A j \in 1 .. k : row[j] = h + j - 1  BY <1>14 DEF row
    <3>2. \A j \in 1 .. k : h + j - 1 \in Nat  BY <1>5, <1>14
    <3>3. row = [j \in 1 .. k |-> row[j]]  BY DEF row
    <3>4. row \in [1 .. k -> Nat]  BY <3>1, <3>2, <3>3
    <3>5. QED BY <1>14, <3>1, <3>4
  <2>2. Len(o) = h /\ o \in Seq(Nat)  BY <1>3 DEF h
  <2>3. Len(o \o row) = h + k /\ DOMAIN (o \o row) = 1 .. h + k
    <3>1. o \o row \in Seq(Nat)  BY <2>1, <2>2, Appended
    <3>2. Len(o \o row) = Len(o) + Len(row)  BY <2>1, <2>2, Appended
    <3>3. DOMAIN (o \o row) = 1 .. Len(o \o row)  BY <3>1
    <3>4. QED BY <2>1, <2>2, <3>2, <3>3
  <2>4. ASSUME NEW i \in 1 .. h + k PROVE (o \o row)[i] = i - 1
    <3>1. CASE i <= h
      <4>1. i \in 1 .. h  BY <1>5, <1>14, <3>1
      <4>2. (o \o row)[i] = o[i]  BY <2>1, <2>2, <4>1
      <4>3. QED BY <1>5, <4>1, <4>2
    <3>2. CASE ~ (i <= h)
      <4>1. i - h \in 1 .. k  BY <1>5, <1>14, <3>2
      <4>2. (o \o row)[i] = row[i - h]  BY <1>5, <2>1, <2>2, <3>2, <4>1
      <4>3. h + (i - h) - 1 = i - 1  BY <1>5, <4>1
      <4>4. QED BY <2>1, <4>1, <4>2, <4>3
    <3>3. QED BY <3>1, <3>2
  <2>5. QED BY <2>3, <2>4
<1>16. InRing(r2) = {y \in acc2 : last2 - NumItems < y} /\ acc2 \subseteq 0 .. last2
  BY <1>4, <1>12, InRingIs DEF ReceiveWindow
<1>17. /\ Accepted(n, "ordered")' \subseteq acc2 /\ InRing(r2) \subseteq Accepted(n, "ordered")'
       /\ \A y \in acc2 \ Accepted(n, "ordered")' : h <= last2 - NumItems /\ h < y
  <2>1. ASSUME NEW i \in 1 .. h + k PROVE i - 1 \in acc2
    <3>1. CASE i <= h
      <4>1. i \in 1 .. h /\ o[i] = i - 1  BY <1>5, <1>14, <3>1
      <4>2. QED BY <1>8, <4>1 DEF acc2
    <3>2. CASE ~ (i <= h)
      <4>1. i - h \in 1 .. k /\ h + (i - h) - 1 = i - 1  BY <1>5, <1>14, <3>2
      <4>2. QED BY <1>14, <4>1
    <3>3. QED BY <3>1, <3>2
  <2>2. ASSUME NEW y \in acc2, y \notin InRing(r2), \A i \in 1 .. h + k : y # i - 1
        PROVE  h <= last2 - NumItems /\ h < y
    <3>1. y \in Nat /\ ~ (last2 - NumItems < y)  BY <1>12, <1>16, <2>2
    <3>2. y + 1 \notin 1 .. h + k  BY <2>2, <3>1
    <3>3. h + k <= y  BY <1>5, <1>14, <3>1, <3>2
    <3>4. y # h + k  BY <1>14, <2>2
    <3>5. h < y /\ y <= last2 - NumItems  BY <1>5, <1>11, <1>12, <1>14, <3>1, <3>3, <3>4
    <3>6. QED BY <1>5, <1>11, <1>12, <3>1, <3>5
  <2>3. Accepted(n, "ordered")' = {i - 1 : i \in 1 .. h + k} \cup InRing(r2)
    BY <1>9, <1>15
  <2>4. Accepted(n, "ordered")' \subseteq acc2
    BY <1>16, <2>1, <2>3
  <2>5. ASSUME NEW y \in acc2 \ Accepted(n, "ordered")'
        PROVE  h <= last2 - NumItems /\ h < y
    <3>1. y \notin InRing(r2) /\ \A i \in 1 .. h + k : y # i - 1  BY <2>3
    <3>2. QED BY <2>2, <3>1
  <2>6. QED BY <2>3, <2>4, <2>5
<1>18. /\ Len(orderedReceived'[n]) = h + k
       /\ \A y \in acc2 \ Accepted(n, "ordered")' : Stranded(n, y)'
       /\ \A y : Stranded(n, y) => Stranded(n, y)'
  <2>1. Len(orderedReceived'[n]) = h + k /\ Newest(receivedPackets'[n]["ordered"]) = last2
    BY <1>7, <1>15 DEF last2
  <2>2. ASSUME NEW y, h < y, h <= last2 - NumItems PROVE Stranded(n, y)'
    <3>1. h + k = h /\ h + NumItems <= last2  BY <1>5, <1>11, <1>12, <1>14, <2>2
    <3>2. QED BY <2>1, <2>2, <3>1 DEF Stranded
  <2>3. ASSUME NEW y, Stranded(n, y) PROVE Stranded(n, y)'
    <3>1. h < y /\ h + NumItems <= last  BY <2>3 DEF Stranded, h, last, r, o
    <3>2. h <= last2 - NumItems  BY <1>3, <1>5, <1>11, <1>12, <3>1
    <3>3. QED BY <2>2, <3>1, <3>2
  <2>4. QED BY <1>17, <2>1, <2>2, <2>3
<1>19. NothingGivenUp => Accepted(n, "ordered")' = acc2
  <2>1. SUFFICES ASSUME NothingGivenUp PROVE ~ (h <= last2 - NumItems)
    BY <1>17
  <2>2. h \notin 0 .. C - NumItems - 1  BY <1>5, <2>1
  <2>3. QED BY <1>2, <1>5, <1>11, <1>12, <2>2
<1>20. ASSUME NEW m \in Node, NEW c \in Channel
       PROVE  /\ \A y : DoneWith(m, c, y) => DoneWith(m, c, y)'
              /\ Newest(receivedPackets[m][c]) <= Newest(receivedPackets[m][c])'
              /\ Newest(receivedPackets[m][c])' < Constructed(Peer(m), c)
              /\ ReceiveWindow(receivedPackets[m][c], Newest(receivedPackets[m][c]),
                               Accepted(m, c))'
  <2>1. CASE m = n /\ c = "ordered"
    <3>1. ASSUME NEW y, DoneWith(n, "ordered", y) PROVE DoneWith(n, "ordered", y)'
      <4>1. CASE y \in acc
        <5>1. y \in acc2  BY <4>1 DEF acc2
        <5>2. y \in Accepted(n, "ordered")' \/ Stranded(n, y)'  BY <1>18, <5>1
        <5>3. QED BY <5>2 DEF DoneWith
      <4>2. CASE y \in givenUp[Peer(n)]["ordered"]
        BY <1>1, <4>2 DEF DoneWith
      <4>3. CASE Stranded(n, y)
        BY <1>18, <4>3 DEF DoneWith
      <4>4. QED BY <3>1, <4>1, <4>2, <4>3 DEF DoneWith, acc
    <3>2. ReceiveWindow(r2, last2, Accepted(n, "ordered")')
      <4>1. PICK less : less = Accepted(n, "ordered")'  OBVIOUS
      <4>2. ReceiveWindow(r2, last2, less)  BY <1>4, <1>17, <4>1, SmallerWindow
      <4>3. QED BY <4>1, <4>2
    <3>3. QED BY <1>7, <1>12, <2>1, <3>1, <3>2 DEF r, last, last2, C
  <2>2. CASE ~ (m = n /\ c = "ordered")
    <3>1. Accepted(m, c)' = Accepted(m, c) /\ receivedPackets'[m][c] = receivedPackets[m][c]
      BY <1>7, <1>10, <2>2 DEF Channel
    <3>2. Windows(m, c) /\ Newest(receivedPackets[m][c]) \in Int
      <4>1. Newest(receivedPackets[m][c]) \in Nat \cup {-1}  BY Types
      <4>2. QED BY <4>1 DEF WindowsAgree
    <3>3. \A y : DoneWith(m, c, y) => DoneWith(m, c, y)'
      <4>1. CASE c = "ordered"
        BY <1>1, <1>7, <2>2, <3>1, <4>1 DEF DoneWith, Stranded
      <4>2. CASE c # "ordered"  BY <1>1, <3>1, <4>2 DEF DoneWith
      <4>3. QED BY <4>1, <4>2
    <3>4. QED BY <3>1, <3>2, <3>3 DEF Windows
  <2>3. QED BY <2>1, <2>2
<1>21. ASSUME NEW m \in Node PROVE (HandedOnOnce(m) /\ HeadIsFirstMissing(m))'
  <2>1. HandedOnOnce(m) /\ HeadIsFirstMissing(m)  BY DEF WindowsAgree
  <2>2. HandedOnOnce(m)'
    <3>1. receivedPackets'[m]["reliable"] = receivedPackets[m]["reliable"]
      BY <1>7
    <3>2. QED BY <1>1, <2>1, <3>1 DEF HandedOnOnce
  <2>3. HeadIsFirstMissing(m)'
    <3>1. CASE m = n
      <4>1. h + k \notin Accepted(n, "ordered")'  BY <1>14, <1>17
      <4>2. QED BY <1>7, <1>14, <1>15, <3>1, <4>1 DEF HeadIsFirstMissing
    <3>2. CASE m # n
      <4>1. Accepted(m, "ordered")' = Accepted(m, "ordered")  BY <1>1, <1>10, <3>2
      <4>2. QED BY <1>7, <2>1, <3>2, <4>1 DEF HeadIsFirstMissing
    <3>3. QED BY <3>1, <3>2
  <2>4. QED BY <2>2, <2>3
<1>22. WindowsAgree'  BY <1>1, <1>20, <1>21, AcknowledgeAgrees
<1>23. QED BY <1>2, <1>19, <1>22 DEF acc, acc2, x

-----------------------------------------------------------------------------
(* send.                                                                   *)

\* inner.rs:80-113: send moves messages from the queues into the windows and gives
\* up those whose last retry it used; what it puts on the network names its message
\* and carries a good ack.
LEMMA SendAgrees ==
    ASSUME TypeOK, TypeOK', WindowsAgree, NEW n \in Node,
           NEW due \in [Channel -> SUBSET Index],
           \A c \in Channel : due[c] \subseteq Keys(sendPackets[n][c]),
           Send(n, due)
    PROVE  /\ WindowsAgree'
           /\ \A c \in Channel : Settled(n, c) \subseteq Settled(n, c)'
           /\ ~ GivesUp /\ NothingGivenUp => NothingGivenUp'
<1> DEFINE ack == PacketAck(n)
           count == [c \in Channel |-> FlushCount(sendPackets[n][c], sendQueue[n][c])]
           flushed == [c \in Channel |->
                          Flushed(sendPackets[n][c], sendQueue[n][c], count[c], ack)]
           sent == [c \in Channel |->
                       (Keys(flushed[c]) \ Keys(sendPackets[n][c])) \cup due[c]]
           rest == [c \in Channel |-> Resent(flushed[c], sent[c])]
           data == UNION {{DataPacket(Peer(n), c, i, Get(flushed[c], i)) : i \in sent[c]} :
                             c \in Channel}
           acks == unreliablePackets[n]
                       \cup (IF HeartbeatDue(n) \/ unreliableQueued[n] THEN {ack} ELSE {})
           heartbeats == {AckPacket(Peer(n), x) : x \in acks}
           constructed == [m \in Node |-> [c \in Channel |->
                              Constructed(m, c) + IF m = n THEN count[c] ELSE 0]]
<1>1. ack \in Acks /\ GoodAck(n, ack)  BY PacketAckIsGood
<1>2. ASSUME NEW c \in Channel
      PROVE  LET r == sendPackets[n][c]
                 queue == sendQueue[n][c]
                 C == Constructed(n, c)
                 k == count[c]
             IN  /\ k \in Nat /\ k <= Len(queue)
                 /\ QueueInOrder(SubSeq(queue, k + 1, Len(queue)), C + k)
                 /\ SendWindow(rest[c], C + k - 1)
                 /\ \A i \in Keys(r) : i \in Keys(flushed[c]) /\ Get(flushed[c], i) = Get(r, i)
                 /\ \A i \in Keys(flushed[c]) :
                       \/ Get(flushed[c], i).ack = ack /\ Get(flushed[c], i).message >= C
                       \/ i \in Keys(r)
                 /\ \A m \in C .. C + k - 1 :
                       \E i \in Keys(flushed[c]) : Get(flushed[c], i).message = m
                 /\ \A i \in Keys(flushed[c]) :
                       \/ /\ i \in Keys(rest[c])
                          /\ Get(rest[c], i).message = Get(flushed[c], i).message
                       \/ i \in sent[c] /\ Get(rest[c], i) = None
                 /\ \A i \in Keys(rest[c]) :
                       /\ i \in Keys(flushed[c])
                       /\ Get(rest[c], i).message = Get(flushed[c], i).message
                       /\ Get(rest[c], i).ack = Get(flushed[c], i).ack
                 /\ \A i \in sent[c] :
                       /\ i \in Keys(flushed[c]) /\ Get(flushed[c], i) \in Pending
                       /\ Get(flushed[c], i).message < C + k
                       /\ i = Id(Get(flushed[c], i).message)
                 /\ ~ GivesUp => \A i \in sent[c] : Get(rest[c], i) # None
  <2>1. /\ sendPackets[n][c] \in Rings(Pending) /\ sendQueue[n][c] \in Seq(Nat)
        /\ Constructed(n, c) \in Nat /\ due[c] \in SUBSET Keys(sendPackets[n][c])
        /\ QueueInOrder(sendQueue[n][c], Constructed(n, c))
        /\ SendWindow(sendPackets[n][c], Constructed(n, c) - 1)
    BY Types, AcceptedBounds DEF WindowsAgree, Windows
  <2> HIDE DEF ack
  <2> DEFINE r == sendPackets[n][c]
             queue == sendQueue[n][c]
             C == Constructed(n, c)
             d == due[c]
             k == FlushCount(r, queue)
             f == Flushed(r, queue, k, ack)
             s == (Keys(f) \ Keys(r)) \cup d
             left == Resent(f, s)
  <2>2. k = count[c] /\ f = flushed[c] /\ s = sent[c] /\ left = rest[c]
    OBVIOUS
  <2>3. SentRing(r, queue, ack, C, k, f, s, left)
    <3>1. /\ r \in Rings(Pending) /\ queue \in Seq(Nat) /\ C \in Nat
          /\ d \in SUBSET Keys(r) /\ QueueInOrder(queue, C) /\ SendWindow(r, C - 1)
      BY <2>1
    <3> HIDE DEF r, queue, C, d
    <3>2. /\ k = FlushCount(r, queue) /\ f = Flushed(r, queue, k, ack)
          /\ s = (Keys(f) \ Keys(r)) \cup d
          /\ left = Resent(f, s)
      OBVIOUS
    <3> HIDE DEF k, f, s, left
    <3>3. QED BY <1>1, <3>1, <3>2, SentWindow
  <2> HIDE DEF count, flushed, sent, rest, k, f, s, left
  <2>4. QED BY <2>2, <2>3 DEF SentRing
<1>3. /\ sendQueue' = [sendQueue EXCEPT ![n] =
            [c \in Channel |-> SubSeq(@[c], count[c] + 1, Len(@[c]))]]
      /\ sendPackets' = [sendPackets EXCEPT ![n] = rest]
      /\ givenUp' = [givenUp EXCEPT ![n] =
            [c \in Channel |-> @[c] \cup
                {Get(flushed[c], i).message : i \in {j \in sent[c] : Get(rest[c], j) = None}}]]
      /\ net' = {q \in net \cup (data \cup heartbeats) : Recent(q, constructed)}
      /\ unreliablePackets' = [unreliablePackets EXCEPT ![n] = {}]
      /\ written' = written
      /\ receivedPackets' = receivedPackets /\ orderedHead' = orderedHead
      /\ unorderedReceived' = unorderedReceived /\ orderedReceived' = orderedReceived
  BY DEF Send, receiveVars
<1>4. ASSUME NEW q \in data
      PROVE  \E c \in Channel : \E i \in sent[c] :
                 q = DataPacket(Peer(n), c, i, Get(flushed[c], i))
  BY <1>4
<1>5. \A q \in heartbeats : \E x \in acks : q = AckPacket(Peer(n), x)
  OBVIOUS
<1>6. \A x \in acks : GoodAck(n, x)
  BY <1>1 DEF WindowsAgree, GoodAcks
<1> HIDE DEF ack, count, flushed, sent, rest, data, acks, heartbeats
<1>7. ASSUME NEW c \in Channel
      PROVE  /\ sendPackets'[n][c] = rest[c]
             /\ sendQueue'[n][c] = SubSeq(sendQueue[n][c], count[c] + 1, Len(sendQueue[n][c]))
             /\ givenUp'[n][c] = givenUp[n][c] \cup
                   {Get(flushed[c], i).message : i \in {j \in sent[c] : Get(rest[c], j) = None}}
  <2>1. rest[c] = sendPackets'[n][c]  BY <1>3 DEF TypeOK
  <2>2. QED BY <1>3, <2>1 DEF TypeOK
<1>8. \A m \in Node : m # n => /\ sendPackets'[m] = sendPackets[m]
                               /\ sendQueue'[m] = sendQueue[m]
                               /\ givenUp'[m] = givenUp[m]
                               /\ unreliablePackets'[m] = unreliablePackets[m]
  BY <1>3 DEF TypeOK
<1>9. ASSUME NEW m \in Node, NEW c \in Channel
      PROVE  /\ Accepted(m, c)' = Accepted(m, c)
             /\ \A k : DoneWith(m, c, k) => DoneWith(m, c, k)'
  <2>1. Accepted(m, c)' = Accepted(m, c)  BY <1>3 DEF Accepted, Delivered
  <2>2. givenUp[Peer(m)][c] \subseteq givenUp'[Peer(m)][c]
    <3>1. CASE Peer(m) = n  BY <1>7, <3>1
    <3>2. CASE Peer(m) # n  BY <1>8, <3>2, PeerOfPeer
    <3>3. QED BY <3>1, <3>2
  <2>3. QED BY <1>3, <2>1, <2>2 DEF DoneWith, Stranded
<1>10. ASSUME NEW m \in Node, NEW c \in Channel
       PROVE  /\ Constructed(m, c)' = constructed[m][c]
              /\ Constructed(m, c) \in Nat /\ Constructed(m, c)' \in Nat
              /\ Constructed(m, c) <= Constructed(m, c)'
              /\ m = n => Constructed(m, c)' = Constructed(m, c) + count[c]
              /\ m # n => Constructed(m, c)' = Constructed(m, c)
  <2>1. Constructed(m, c) \in Nat  BY AcceptedBounds
  <2>2. CASE m = n
    <3>1. /\ Len(SubSeq(sendQueue[n][c], count[c] + 1, Len(sendQueue[n][c])))
               = Len(sendQueue[n][c]) - count[c]
          /\ Len(sendQueue[n][c]) \in Nat /\ count[c] \in Nat
      <4>1. sendQueue[n][c] \in Seq(Nat)  BY Types
      <4>2. count[c] \in Nat /\ count[c] <= Len(sendQueue[n][c])  BY <1>2
      <4>3. ASSUME NEW queue \in Seq(Nat), NEW k \in Nat, k <= Len(queue)
            PROVE  /\ Len(SubSeq(queue, k + 1, Len(queue))) = Len(queue) - k
                   /\ Len(queue) \in Nat
        BY <4>3
      <4>4. QED BY <4>1, <4>2, <4>3
    <3>2. Constructed(n, c)' = written[n][c] - (Len(sendQueue[n][c]) - count[c])
      BY <1>3, <1>7, <3>1 DEF Constructed
    <3>3. Constructed(n, c)' = Constructed(n, c) + count[c]
      <4>1. ASSUME NEW w \in Nat, NEW l \in Nat, NEW k \in Nat
            PROVE  w - (l - k) = (w - l) + k
        OBVIOUS
      <4>2. written[n][c] \in Nat  BY Types
      <4>3. QED BY <3>1, <3>2, <4>1, <4>2 DEF Constructed
    <3>4. QED BY <2>1, <2>2, <3>1, <3>3
  <2>3. CASE m # n
    <3>1. Constructed(m, c)' = Constructed(m, c)
      BY <1>3, <1>8, <2>3 DEF Constructed
    <3>2. QED BY <2>1, <2>3, <3>1
  <2>4. QED BY <2>2, <2>3
<1>11. ASSUME NEW m \in Node, NEW c \in Channel PROVE NothingLost(m, c)'
  <2>1. NothingLost(m, c) /\ Peer(m) \in Node  BY PeerOfPeer DEF WindowsAgree, Windows
  <2>2. CASE m # n
    <3>1. InFlight(m, c)' = InFlight(m, c)  BY <1>8, <2>2 DEF InFlight
    <3>2. Constructed(m, c)' = Constructed(m, c)  BY <1>10, <2>2
    <3>3. QED BY <1>9, <2>1, <3>1, <3>2 DEF NothingLost
  <2>3. CASE m = n
    <3>1. SUFFICES ASSUME NEW k \in 0 .. Constructed(n, c)' - 1
                   PROVE  k \in InFlight(n, c)' \/ DoneWith(Peer(n), c, k)'
      BY <2>3 DEF NothingLost
    <3>2. CASE DoneWith(Peer(n), c, k)  BY <1>9, <2>1, <2>3, <3>2
    <3>3. CASE \E i \in Keys(flushed[c]) : Get(flushed[c], i).message = k
      <4>1. PICK i \in Keys(flushed[c]) : Get(flushed[c], i).message = k  BY <3>3
      <4>2. CASE i \in Keys(rest[c]) /\ Get(rest[c], i).message = k
        BY <1>7, <4>2 DEF InFlight, InRing
      <4>3. CASE i \in sent[c] /\ Get(rest[c], i) = None
        <5>1. k \in givenUp'[n][c]  BY <1>7, <4>1, <4>3
        <5>2. QED BY <5>1, PeerOfPeer DEF DoneWith
      <4>4. QED BY <1>2, <4>1, <4>2, <4>3
    <3>4. CASE k \in InFlight(n, c)
      <4>1. PICK i \in Keys(sendPackets[n][c]) : Get(sendPackets[n][c], i).message = k
        BY <3>4 DEF InFlight, InRing
      <4>2. i \in Keys(flushed[c]) /\ Get(flushed[c], i).message = k  BY <1>2, <4>1
      <4>3. QED BY <3>3, <4>2
    <3>5. CASE k \notin 0 .. Constructed(n, c) - 1
      <4>1. k \in Constructed(n, c) .. Constructed(n, c) + count[c] - 1
        BY <1>2, <1>10, <3>5
      <4>2. QED BY <1>2, <3>3, <4>1
    <3>6. QED BY <2>1, <2>3, <3>2, <3>4, <3>5 DEF NothingLost
  <2>4. QED BY <2>2, <2>3
<1>12. ASSUME NEW m \in Node, NEW c \in Channel PROVE Windows(m, c)'
  <2>1. Windows(m, c) /\ Peer(m) \in Node  BY PeerOfPeer DEF WindowsAgree
  <2>2. /\ QueueInOrder(sendQueue[m][c], Constructed(m, c))'
        /\ SendWindow(sendPackets[m][c], Constructed(m, c) - 1)'
    <3>1. CASE m = n
      <4>1. Constructed(n, c)' - 1 = Constructed(n, c) + count[c] - 1
        BY <1>2, <1>10
      <4>2. QED BY <1>2, <1>7, <1>10, <3>1, <4>1
    <3>2. CASE m # n
      BY <1>8, <1>10, <2>1, <3>2 DEF Windows
    <3>3. QED BY <3>1, <3>2
  <2>3. ReceiveWindow(receivedPackets[m][c], Newest(receivedPackets[m][c]), Accepted(m, c))'
    BY <1>3, <1>9, <2>1 DEF Windows
  <2>4. (Newest(receivedPackets[m][c]) < Constructed(Peer(m), c))'
    <3>1. Newest(receivedPackets[m][c]) < Constructed(Peer(m), c)  BY <2>1 DEF Windows
    <3>2. Newest(receivedPackets[m][c]) \in Nat \cup {-1}  BY Types
    <3>3. /\ Constructed(Peer(m), c) \in Nat /\ Constructed(Peer(m), c)' \in Nat
          /\ Constructed(Peer(m), c) <= Constructed(Peer(m), c)'
      BY <1>10, <2>1
    <3>4. QED BY <1>3, <3>1, <3>2, <3>3
  <2>5. QED BY <1>11, <2>2, <2>3, <2>4 DEF Windows
<1>13. ASSUME NEW m \in Node, NEW x, GoodAck(m, x) PROVE GoodAck(m, x)'
  <2>1. ASSUME NEW c \in Channel, NEW b \in x[c].bits PROVE DoneWith(m, c, x[c].upto - b)'
    <3>1. PICK k : k = x[c].upto - b  OBVIOUS
    <3>2. DoneWith(m, c, k)  BY <1>13, <3>1 DEF GoodAck
    <3>3. DoneWith(m, c, k)'  BY <1>9, <3>2
    <3>4. QED BY <3>1, <3>3
  <2>2. QED BY <1>3, <1>13, <2>1 DEF GoodAck
<1>14. ASSUME NEW c \in Channel, NEW i \in Keys(flushed[c])
       PROVE  GoodAck(n, Get(flushed[c], i).ack)
  <2>1. GoodAcks(n)  BY DEF WindowsAgree
  <2>2. \/ Get(flushed[c], i).ack = ack
        \/ i \in Keys(sendPackets[n][c]) /\ Get(flushed[c], i) = Get(sendPackets[n][c], i)
    BY <1>2
  <2>3. QED BY <1>1, <2>1, <2>2 DEF GoodAcks
<1>15. ASSUME NEW m \in Node PROVE GoodAcks(m)'
  <2>1. GoodAcks(m)  BY DEF WindowsAgree
  <2>2. ASSUME NEW c \in Channel, NEW i \in Keys(sendPackets'[m][c])
        PROVE  GoodAck(m, Get(sendPackets[m][c], i).ack)'
    <3>1. PICK x : x = Get(sendPackets'[m][c], i).ack  OBVIOUS
    <3>2. GoodAck(m, x)
      <4>1. CASE m # n
        BY <1>8, <2>1, <2>2, <3>1, <4>1 DEF GoodAcks
      <4>2. CASE m = n
        <5>1. i \in Keys(rest[c]) /\ x = Get(rest[c], i).ack
          BY <1>7, <2>2, <3>1, <4>2
        <5>2. i \in Keys(flushed[c]) /\ x = Get(flushed[c], i).ack  BY <1>2, <5>1
        <5>3. QED BY <4>2, <5>2, <1>14
      <4>3. QED BY <4>1, <4>2
    <3>3. GoodAck(m, x)'  BY <1>13, <3>2
    <3>4. QED BY <3>1, <3>3
  <2>3. ASSUME NEW x \in unreliablePackets'[m] PROVE GoodAck(m, x)'
    <3>1. x \in unreliablePackets[m]  BY <1>3, <1>8, <2>3 DEF TypeOK
    <3>2. QED BY <1>13, <2>1, <3>1 DEF GoodAcks
  <2>4. QED BY <2>2, <2>3 DEF GoodAcks
<1>16. ASSUME NEW m \in Node PROVE (HandedOnOnce(m) /\ HeadIsFirstMissing(m))'
  <2>1. HandedOnOnce(m) /\ HeadIsFirstMissing(m)  BY DEF WindowsAgree
  <2>2. HandedOnOnce(m)'  BY <1>3, <2>1 DEF HandedOnOnce
  <2>3. HeadIsFirstMissing(m)'  BY <1>3, <1>9, <2>1 DEF HeadIsFirstMissing, Channel
  <2>4. QED BY <2>2, <2>3
<1>17. ASSUME NEW q \in net' PROVE GoodPacket(q)'
  <2>1. [m \in Node |-> [c \in Channel |-> Constructed(m, c)]]' = constructed
    BY <1>10 DEF constructed
  <2>2. Recent(q, constructed)  BY <1>3
  <2>3. Recent(q, [m \in Node |-> [c \in Channel |-> Constructed(m, c)]])'
    BY <2>1, <2>2 DEF Recent
  <2>4. Peer(n) \in Node /\ Peer(Peer(n)) = n  BY PeerOfPeer
  <2>5. CASE q \in net
    <3>1. GoodPacket(q) /\ q.to \in Node
      BY <2>5 DEF WindowsAgree, TypeOK, DataPackets, AckPackets
    <3>2. Peer(q.to) \in Node  BY <3>1, PeerOfPeer
    <3>3. GoodAck(Peer(q.to), q.ack)'  BY <1>13, <3>1, <3>2 DEF GoodPacket
    <3>4. ASSUME q.channel \in Channel
          PROVE  q.message < Constructed(Peer(q.to), q.channel)'
      <4>1. q.message \in Nat
        BY <2>5, <3>4 DEF TypeOK, DataPackets, AckPackets, Channel
      <4>2. q.message < Constructed(Peer(q.to), q.channel)
        BY <3>1, <3>4 DEF GoodPacket
      <4>3. QED BY <1>10, <3>2, <3>4, <4>1, <4>2
    <3>5. QED BY <2>3, <3>1, <3>3, <3>4 DEF GoodPacket
  <2>6. CASE q \in data
    <3>7. PICK c \in Channel : \E i \in sent[c] :
              q = DataPacket(Peer(n), c, i, Get(flushed[c], i))
      BY <1>4, <2>6
    <3>1. PICK i \in sent[c] : q = DataPacket(Peer(n), c, i, Get(flushed[c], i))
      BY <3>7
    <3>2. /\ q.to = Peer(n) /\ q.channel = c /\ q.sequenceId = i
          /\ q.message = Get(flushed[c], i).message /\ q.ack = Get(flushed[c], i).ack
      BY <3>1 DEF DataPacket
    <3>3. GoodAck(n, q.ack)
      <4>1. i \in Keys(flushed[c])  BY <1>2, <3>1
      <4>2. QED BY <1>14, <3>2, <4>1
    <3>4. GoodAck(n, q.ack)'  BY <1>13, <3>3
    <3>5. q.message < Constructed(n, c)' /\ q.sequenceId = Id(q.message)
      BY <1>2, <1>10, <3>1, <3>2
    <3>6. QED BY <2>3, <2>4, <3>2, <3>4, <3>5 DEF GoodPacket
  <2>7. CASE q \in heartbeats
    <3>1. PICK x \in acks : q = AckPacket(Peer(n), x)  BY <1>5, <2>7
    <3>2. q.to = Peer(n) /\ q.ack = x /\ q.channel \notin Channel
      BY <3>1 DEF AckPacket, Channel
    <3>3. GoodAck(n, x)'  BY <1>6, <1>13, <3>1
    <3>4. QED BY <2>3, <2>4, <3>2, <3>3 DEF GoodPacket
  <2>8. QED BY <1>3, <2>5, <2>6, <2>7
<1>18. ASSUME NEW c \in Channel PROVE Settled(n, c) \subseteq Settled(n, c)'
  <2>1. SUFFICES ASSUME NEW m \in 0 .. Constructed(n, c) - 1, m \notin InFlight(n, c),
                        NEW i \in Keys(rest[c]), Get(rest[c], i).message = m
                 PROVE  FALSE
    <3>1. 0 .. Constructed(n, c) - 1 \subseteq 0 .. Constructed(n, c)' - 1  BY <1>10
    <3>2. InFlight(n, c)' = {Get(rest[c], i).message : i \in Keys(rest[c])}
      BY <1>7 DEF InFlight, InRing
    <3>3. QED BY <2>1, <3>1, <3>2 DEF Settled
  <2>2. Constructed(n, c) \in Nat /\ ~ (m >= Constructed(n, c))  BY <1>10
  <2>3. i \in Keys(flushed[c]) /\ Get(flushed[c], i).message = m  BY <1>2, <2>1
  <2>4. i \in Keys(sendPackets[n][c]) /\ Get(flushed[c], i) = Get(sendPackets[n][c], i)
    BY <1>2, <2>2, <2>3
  <2>5. QED BY <2>1, <2>3, <2>4 DEF InFlight, InRing
<1>19. ASSUME ~ GivesUp, NothingGivenUp PROVE NothingGivenUp'
  <2>1. SUFFICES ASSUME NEW m \in Node, NEW c \in Channel PROVE givenUp'[m][c] = {}
    BY DEF NothingGivenUp
  <2>2. givenUp[m][c] = {}  BY <1>19 DEF NothingGivenUp
  <2>3. CASE m = n
    <3>1. {j \in sent[c] : Get(rest[c], j) = None} = {}  BY <1>2, <1>19
    <3>2. QED BY <1>7, <2>2, <2>3, <3>1
  <2>4. CASE m # n  BY <1>8, <2>2, <2>4
  <2>5. QED BY <2>3, <2>4
<1>20. QED BY <1>12, <1>15, <1>16, <1>17, <1>18, <1>19 DEF WindowsAgree

\* inner.rs:129-179: a packet without content only acknowledges.
LEMMA ReceiveUnreliableAgrees ==
    ASSUME ShortLag, TypeOK, TypeOK', WindowsAgree,
           NEW n \in Node, NEW p \in net, p.to = n, ReceiveUnreliable(n, p)
    PROVE  WindowsAgree'
<1>1. /\ Acknowledge(n, p.ack) /\ written' = written /\ sendQueue' = sendQueue
      /\ unreliablePackets' = unreliablePackets /\ net' = net
      /\ receivedPackets' = receivedPackets /\ orderedHead' = orderedHead
      /\ unorderedReceived' = unorderedReceived /\ orderedReceived' = orderedReceived
      /\ givenUp' = givenUp
  BY DEF ReceiveUnreliable, receiveVars, unreliableVars
<1>2. ASSUME NEW m \in Node, NEW c \in Channel
      PROVE  /\ Accepted(m, c)' = Accepted(m, c)
             /\ \A k : DoneWith(m, c, k) => DoneWith(m, c, k)'
  <2>1. Accepted(m, c)' = Accepted(m, c)  BY <1>1 DEF Accepted, Delivered
  <2>2. QED BY <1>1, <2>1 DEF DoneWith, Stranded
<1>3. ASSUME NEW m \in Node, NEW c \in Channel
      PROVE  /\ \A k : DoneWith(m, c, k) => DoneWith(m, c, k)'
             /\ Newest(receivedPackets[m][c]) <= Newest(receivedPackets[m][c])'
             /\ Newest(receivedPackets[m][c])' < Constructed(Peer(m), c)
             /\ ReceiveWindow(receivedPackets[m][c], Newest(receivedPackets[m][c]),
                              Accepted(m, c))'
  <2>1. Newest(receivedPackets[m][c]) \in Int
    <3>1. Newest(receivedPackets[m][c]) \in Nat \cup {-1}  BY Types
    <3>2. QED BY <3>1
  <2>2. /\ Newest(receivedPackets[m][c]) < Constructed(Peer(m), c)
        /\ ReceiveWindow(receivedPackets[m][c], Newest(receivedPackets[m][c]),
                         Accepted(m, c))
    BY DEF WindowsAgree, Windows
  <2>3. QED BY <1>1, <1>2, <2>1, <2>2
<1>4. ASSUME NEW m \in Node PROVE (HandedOnOnce(m) /\ HeadIsFirstMissing(m))'
  <2>1. HandedOnOnce(m) /\ HeadIsFirstMissing(m)  BY DEF WindowsAgree
  <2>2. HandedOnOnce(m)'  BY <1>1, <2>1 DEF HandedOnOnce
  <2>3. HeadIsFirstMissing(m)'  BY <1>1, <1>2, <2>1 DEF HeadIsFirstMissing, Channel
  <2>4. QED BY <2>2, <2>3
<1>5. QED BY <1>1, <1>3, <1>4, AcknowledgeAgrees

\* inner.rs:129-246: reading one datagram.
LEMMA ReceivesAgree ==
    ASSUME ShortLag, TypeOK, WindowsAgree, ShortOutage, NEW n \in Node, Receives(n)
    PROVE  WindowsAgree'
<1>1. PICK p \in net : Receive(n, p)  BY DEF Receives
<1>2. TypeOK' /\ p.to = n  BY <1>1, ReceivesType DEF Receive
<1>3. CASE Refuse(n, p)
  <2>1. UNCHANGED <<sendVars, receiveVars, net>> /\ unreliablePackets' = unreliablePackets
    BY <1>3 DEF Refuse, unreliableVars
  <2>2. \A m \in Node : \A ack \in unreliablePackets'[m] : GoodAck(m, ack)
    BY <2>1 DEF WindowsAgree, GoodAcks
  <2>3. QED BY <2>1, <2>2, SameWindows
<1>4. CASE ReceiveUnreliable(n, p)  BY <1>2, <1>4, ReceiveUnreliableAgrees
<1>5. CASE AcceptReliable(n, p)  BY <1>2, <1>5, AcceptReliableAgrees
<1>6. CASE AcceptOrdered(n, p)  BY <1>2, <1>6, AcceptOrderedAgrees
<1>7. QED BY <1>1, <1>3, <1>4, <1>5, <1>6 DEF Receive

\* inner.rs:80-122, 286-336: one call of send, whatever is due.
LEMMA SendsAgree ==
    ASSUME TypeOK, WindowsAgree, NEW n \in Node, Sends(n)
    PROVE  WindowsAgree'
<1>1. PICK due \in [Channel -> SUBSET Index] :
          /\ \A c \in Channel : due[c] \subseteq Keys(sendPackets[n][c])
          /\ Send(n, due)
  BY SomeAreDue
<1>2. TypeOK'  BY <1>1, SendType
<1>3. QED BY <1>1, <1>2, SendAgrees

\* No step of either side, and nothing that arrives, takes the windows apart.
LEMMA StepAgrees ==
    ASSUME ShortLag, TypeOK, WindowsAgree, ShortOutage, [Next]_vars
    PROVE  WindowsAgree'
<1>1. ASSUME NEW n \in Node, Writes(n) PROVE WindowsAgree'
  BY <1>1, WritesAgree
<1>2. ASSUME NEW n \in Node, Sends(n) PROVE WindowsAgree'
  BY <1>2, SendsAgree
<1>3. ASSUME NEW n \in Node, Receives(n) PROVE WindowsAgree'
  BY <1>3, ReceivesAgree
<1>4. CASE UNCHANGED vars
  <2>1. UNCHANGED <<sendVars, receiveVars, net>> /\ unreliablePackets' = unreliablePackets
    BY <1>4 DEF vars, unreliableVars
  <2>2. \A m \in Node : \A ack \in unreliablePackets'[m] : GoodAck(m, ack)
    BY <2>1 DEF WindowsAgree, GoodAcks
  <2>3. QED BY <2>1, <2>2, SameWindows
<1>5. QED BY <1>1, <1>2, <1>3, <1>4 DEF Next

-----------------------------------------------------------------------------
(* The theorems.                                                           *)

\* inner.rs:34-58: before anything is sent, no outage was long.
LEMMA InitShort == Init => ShortOutage
<1> SUFFICES ASSUME Init, NEW n \in Node, NEW c \in Channel
             PROVE  /\ Constructed(Peer(n), c) - 1 - Newest(receivedPackets[n][c]) <= U16 - NumItems
                    /\ Constructed(Peer(n), "ordered") - Len(orderedReceived[n]) <= U16
  BY DEF ShortOutage, Channel
<1>1. TypeOK  BY InitType
<1>2. \A d \in Channel : Constructed(Peer(n), d) = 0
  BY PeerOfPeer DEF Init, Constructed
<1>3. Newest(receivedPackets[n][c]) \in Nat \cup {-1}  BY <1>1, Types
<1>4. Len(orderedReceived[n]) = 0 /\ "ordered" \in Channel  BY DEF Init, Channel
<1>5. QED BY <1>2, <1>3, <1>4, U16Assumption, RingAssumption

\* Both windows of each channel, with what the argument needs besides.
LEMMA LinkInductive ==
    ASSUME ShortLag
    PROVE  OutageSpec => [](TypeOK /\ WindowsAgree /\ ShortOutage)
<1> DEFINE IInv == TypeOK /\ WindowsAgree /\ ShortOutage
<1>1. Init => IInv  BY InitType, InitAgrees, InitShort
<1>2. IInv /\ [Next /\ ShortOutage']_vars => IInv'
  <2> SUFFICES ASSUME IInv, [Next /\ ShortOutage']_vars PROVE IInv'
    OBVIOUS
  <2>1. TypeOK'  BY StepType
  <2>2. WindowsAgree'  BY StepAgrees
  <2>3. ShortOutage'
    <3>1. CASE UNCHANGED vars
      BY <3>1 DEF vars, sendVars, receiveVars, ShortOutage, Constructed
    <3>2. QED BY <3>1
  <2>4. QED BY <2>1, <2>2, <2>3
<1>3. QED BY <1>1, <1>2, PTL DEF OutageSpec

\* inner.rs:80-246: while no datagram is too old and no outage too long, the windows
\* of a channel stay so close to each other that no sequence id and no ack bit ever
\* stands for another message than it was built for, whether or not packets are
\* given up.
THEOREM LinkWindowsAgree ==
    ASSUME ShortLag
    PROVE  OutageSpec => []WindowsAgree
BY LinkInductive, PTL

\* packet_ack.rs:19-30, inner.rs:225-242: what leaves a send ring was received or
\* given up, or is behind an ordered message that was given up.
THEOREM LinkAckSound ==
    ASSUME ShortLag
    PROVE  OutageSpec => []AckSound
<1>1. TypeOK /\ WindowsAgree => AckSound
  <2> SUFFICES ASSUME TypeOK, WindowsAgree, NEW n \in Node, NEW c \in Channel,
                      NEW m \in 0 .. Constructed(n, c) - 1,
                      m \notin InFlight(n, c), m \notin Accepted(Peer(n), c)
               PROVE  m \in Forsaken(n, c)
    BY DEF AckSound
  <2> DEFINE lost == givenUp[n][c] \ Accepted(Peer(n), c)
  <2>1. Peer(n) \in Node /\ Peer(Peer(n)) = n /\ Constructed(n, c) \in Nat
    BY PeerOfPeer, AcceptedBounds
  <2>2. DoneWith(Peer(n), c, m)  BY DEF WindowsAgree, Windows, NothingLost
  <2>3. CASE m \in lost
    <3>1. m \in m .. Constructed(n, c) - 1  BY <2>1
    <3>2. QED BY <2>3, <3>1 DEF Forsaken
  <2>4. CASE c = "ordered" /\ Stranded(Peer(n), m)
    <3> DEFINE h == Len(orderedReceived[Peer(n)])
    <3>1. h \in lost  BY <2>1, <2>4, HoleWasGivenUp
    <3>2. h \in Nat /\ h < m
      <4>1. orderedReceived[Peer(n)] \in Seq(Nat)  BY <2>1 DEF TypeOK
      <4>2. QED BY <2>4, <4>1 DEF Stranded
    <3> HIDE DEF h
    <3>3. m \in h .. Constructed(n, c) - 1  BY <2>1, <3>2
    <3>4. QED BY <2>4, <3>1, <3>3 DEF Forsaken
  <2>5. QED BY <2>1, <2>2, <2>3, <2>4 DEF DoneWith
<1>2. QED BY <1>1, LinkInductive, PTL

\* mod.rs:361: a reliable message is handed to the application at most once.
THEOREM LinkDeliveredOnce ==
    ASSUME ShortLag
    PROVE  OutageSpec => []DeliveredOnce
<1>1. WindowsAgree => DeliveredOnce
  BY DEF WindowsAgree, HandedOnOnce, DeliveredOnce
<1>2. QED BY <1>1, LinkInductive, PTL

\* mod.rs:25-26: the ordered channel delivers a prefix of what was written; after a
\* message that was given up, nothing.
THEOREM LinkDeliveredInOrder ==
    ASSUME ShortLag
    PROVE  OutageSpec => []DeliveredInOrder
<1>1. TypeOK /\ WindowsAgree => DeliveredInOrder
  <2> SUFFICES ASSUME TypeOK, WindowsAgree, NEW n \in Node,
                      NEW k \in DOMAIN orderedReceived[n]
               PROVE  orderedReceived[n][k] = k - 1
    BY DEF DeliveredInOrder
  <2>1. orderedReceived[n] \in Seq(Nat)  BY DEF TypeOK
  <2>2. k \in 1 .. Len(orderedReceived[n])  BY <2>1
  <2>3. QED BY <2>2 DEF WindowsAgree, HeadIsFirstMissing
<1>2. QED BY <1>1, LinkInductive, PTL

-----------------------------------------------------------------------------
(* When no outage is too long.                                             *)

\* inner.rs:422-469: while retries do not run out, nothing is given up.
LEMMA StepGivesNothingUp ==
    ASSUME ~ GivesUp, TypeOK, WindowsAgree, NothingGivenUp, [Next]_vars
    PROVE  NothingGivenUp'
<1>1. ASSUME NEW n \in Node, Writes(n) PROVE givenUp' = givenUp
  BY <1>1 DEF Writes, Write, WriteUnreliable, WriteHeartbeat, sendVars
<1>2. ASSUME NEW n \in Node, Sends(n) PROVE NothingGivenUp'
  <2>1. PICK due \in [Channel -> SUBSET Index] :
            /\ \A c \in Channel : due[c] \subseteq Keys(sendPackets[n][c])
            /\ Send(n, due)
    BY <1>2, SomeAreDue
  <2>2. TypeOK'  BY <2>1, SendType
  <2>3. QED BY <2>1, <2>2, SendAgrees
<1>3. ASSUME NEW n \in Node, Receives(n) PROVE givenUp' = givenUp
  BY <1>3 DEF Receives, Receive, ReceiveUnreliable, Refuse, AcceptReliable,
              AcceptOrdered, sendVars
<1>4. CASE UNCHANGED vars  BY <1>4 DEF vars, sendVars, NothingGivenUp
<1>5. QED BY <1>1, <1>2, <1>3, <1>4 DEF Next, NothingGivenUp

\* A sender whose packets are not given up does not leave the receiver behind.
LEMMA NothingGivenUpIsShort == TypeOK /\ WindowsAgree /\ NothingGivenUp => ShortOutage
<1> SUFFICES ASSUME TypeOK, WindowsAgree, NothingGivenUp, NEW n \in Node
             PROVE  /\ \A c \in Channel :
                          Constructed(Peer(n), c) - 1 - Newest(receivedPackets[n][c]) <= U16 - NumItems
                    /\ Constructed(Peer(n), "ordered") - Len(orderedReceived[n]) <= U16
  BY DEF ShortOutage
<1>1. ASSUME NEW c \in Channel
      PROVE  LET C == Constructed(Peer(n), c)
                 last == Newest(receivedPackets[n][c])
             IN  /\ C \in Nat /\ last \in Nat \cup {-1}
                 /\ Accepted(n, c) \subseteq 0 .. last
                 /\ \A k \in 0 .. C - NumItems - 1 : k \in Accepted(n, c)
  BY PeerOfPeer, Types, AcceptedBounds, DoneIsAccepted DEF WindowsAgree, Windows, ReceiveWindow
<1>2. NumItems \in Nat \ {0} /\ U16 \in Nat /\ 4 * NumItems <= U16
  BY RingAssumption, U16Assumption
<1>3. ASSUME NEW c \in Channel
      PROVE  Constructed(Peer(n), c) - 1 - Newest(receivedPackets[n][c]) <= U16 - NumItems
  <2> DEFINE C == Constructed(Peer(n), c)
             last == Newest(receivedPackets[n][c])
  <2>1. /\ C \in Nat /\ last \in Nat \cup {-1} /\ Accepted(n, c) \subseteq 0 .. last
        /\ \A k \in 0 .. C - NumItems - 1 : k \in Accepted(n, c)
    BY <1>1
  <2> HIDE DEF C, last
  <2>2. C - 1 - last <= NumItems
    <3>1. CASE C - NumItems - 1 < 0  BY <1>2, <2>1, <3>1
    <3>2. CASE C - NumItems - 1 >= 0
      <4>1. C - NumItems - 1 \in 0 .. C - NumItems - 1  BY <1>2, <2>1, <3>2
      <4>2. C - NumItems - 1 \in 0 .. last  BY <2>1, <4>1
      <4>3. QED BY <1>2, <2>1, <4>2
    <3>3. QED BY <1>2, <2>1, <3>1, <3>2
  <2>3. QED BY <1>2, <2>1, <2>2 DEF C, last
<1>4. Constructed(Peer(n), "ordered") - Len(orderedReceived[n]) <= U16
  <2> DEFINE C == Constructed(Peer(n), "ordered")
             h == Len(orderedReceived[n])
  <2>1. "ordered" \in Channel  BY DEF Channel
  <2>2. h \in Nat /\ h \notin Accepted(n, "ordered")
    <3>1. orderedReceived[n] \in Seq(Nat)  BY DEF TypeOK
    <3>2. QED BY <3>1 DEF WindowsAgree, HeadIsFirstMissing
  <2>3. C \in Nat /\ h \notin 0 .. C - NumItems - 1  BY <1>1, <2>1, <2>2
  <2> HIDE DEF C, h
  <2>4. C - h <= NumItems  BY <1>2, <2>2, <2>3
  <2>5. QED BY <1>2, <2>2, <2>3, <2>4 DEF C, h
<1>5. QED BY <1>3, <1>4

\* The windows without retries that run out: an inductive invariant of Spec itself.
LEMMA LinkWithoutLosses ==
    ASSUME ShortLag, ~ GivesUp
    PROVE  Spec => [](TypeOK /\ WindowsAgree /\ NothingGivenUp /\ ShortOutage)
<1> DEFINE IInv == TypeOK /\ WindowsAgree /\ NothingGivenUp
<1>1. Init => IInv
  <2>1. Init => NothingGivenUp  BY DEF Init, NothingGivenUp
  <2>2. QED BY <2>1, InitType, InitAgrees
<1>2. IInv /\ [Next]_vars => IInv'
  BY NothingGivenUpIsShort, StepType, StepAgrees, StepGivesNothingUp
<1>3. IInv => ShortOutage  BY NothingGivenUpIsShort
<1>4. QED BY <1>1, <1>2, <1>3, PTL DEF Spec

\* inner.rs:80-246: while nothing is given up, the sender's window waits for what
\* the receiver misses, so no outage is long: all of the above holds of Spec.
THEOREM LinkOutagesAreShort ==
    ASSUME ShortLag, ~ GivesUp
    PROVE  Spec => OutageSpec
<1>1. ShortOutage' /\ [Next]_vars => [Next /\ ShortOutage']_vars
  OBVIOUS
<1>2. QED BY <1>1, LinkWithoutLosses, PTL DEF Spec, OutageSpec

\* inner.rs:181-190, 203-213: a duplicate was received before.
THEOREM LinkDuplicateWasReceived ==
    ASSUME ShortLag, ~ GivesUp
    PROVE  Spec => DuplicateWasReceived
<1> DEFINE RefusesOld == \A n \in Node, p \in net :
               Refuse(n, p) /\ p.to = n => p.message \in Accepted(n, p.channel)
<1>1. TypeOK /\ WindowsAgree /\ NothingGivenUp /\ ShortOutage => RefusesOld
  BY Arriving DEF Refuse
<1>2. (TypeOK /\ WindowsAgree /\ NothingGivenUp /\ ShortOutage) /\ [Next]_vars
          => [RefusesOld]_vars
  BY <1>1
<1>3. QED BY <1>2, LinkWithoutLosses, PTL DEF Spec, DuplicateWasReceived

\* Workloads so small that no id of a message comes round again.
FewMessages ==
    \A w \in Workloads, n \in Node, c \in Channel : w[n][c] <= U16 - NumItems

\* What is built, was written, and at most as much as a workload allows.
BoundedLoad ==
    \A n \in Node, c \in Channel : written[n][c] <= U16 - NumItems

\* inner.rs:80-246: with at most U16 - NumItems messages on each channel no outage
\* is long, whether or not packets are given up: all of the above holds of Spec.
THEOREM LinkFewMessages ==
    ASSUME ShortLag, FewMessages
    PROVE  Spec => OutageSpec
<1> DEFINE IInv == TypeOK /\ WindowsAgree /\ BoundedLoad
<1>1. IInv => ShortOutage
  <2> SUFFICES ASSUME IInv, NEW n \in Node, NEW c \in Channel
               PROVE  /\ Constructed(Peer(n), c) - 1 - Newest(receivedPackets[n][c])
                             <= U16 - NumItems
                      /\ Constructed(Peer(n), "ordered") - Len(orderedReceived[n]) <= U16
    BY DEF ShortOutage, Channel
  <2>1. ASSUME NEW d \in Channel PROVE Constructed(Peer(n), d) <= U16 - NumItems
    <3>1. /\ written[Peer(n)][d] \in Nat /\ written[Peer(n)][d] <= U16 - NumItems
          /\ sendQueue[Peer(n)][d] \in Seq(Nat)
      BY PeerOfPeer, Types DEF BoundedLoad
    <3>2. Len(sendQueue[Peer(n)][d]) \in Nat  BY <3>1
    <3>3. QED BY <3>1, <3>2, U16Assumption, RingAssumption DEF Constructed
  <2>2. /\ Constructed(Peer(n), c) \in Nat /\ Constructed(Peer(n), "ordered") \in Nat
        /\ Constructed(Peer(n), "ordered") <= U16 - NumItems
    BY <2>1, PeerOfPeer, AcceptedBounds DEF Channel
  <2>3. Newest(receivedPackets[n][c]) \in Nat \cup {-1} /\ Len(orderedReceived[n]) \in Nat
    <3>1. orderedReceived[n] \in Seq(Nat)  BY Types
    <3>2. QED BY <3>1, Types
  <2>4. QED BY <2>1, <2>2, <2>3, U16Assumption, RingAssumption
<1>2. Init => IInv
  <2>1. Init => BoundedLoad
    BY U16Assumption, RingAssumption DEF Init, BoundedLoad
  <2>2. QED BY <2>1, InitType, InitAgrees
<1>3. IInv /\ [Next]_vars => IInv'
  <2> SUFFICES ASSUME IInv, [Next]_vars PROVE IInv'
    OBVIOUS
  <2>1. TypeOK' /\ WindowsAgree'  BY <1>1, StepType, StepAgrees
  <2>2. ASSUME NEW n \in Node, NEW c \in Channel, Write(n, c) PROVE BoundedLoad'
    <3>1. written' = [written EXCEPT ![n][c] = @ + 1] /\ written[n][c] \in Nat
      BY <2>2, Types DEF Write
    <3>2. PICK w \in Workloads : written[n][c] < w[n][c]  BY <2>2 DEF Write
    <3>3. w[n][c] \in Nat /\ w[n][c] <= U16 - NumItems
      BY LinkAssumption DEF FewMessages
    <3>4. written[n][c] + 1 <= U16 - NumItems
      BY <3>1, <3>2, <3>3, U16Assumption, RingAssumption
    <3>5. ASSUME NEW m \in Node, NEW d \in Channel PROVE written'[m][d] <= U16 - NumItems
      <4>1. CASE m = n /\ d = c  BY <3>1, <3>4, <4>1 DEF TypeOK
      <4>2. CASE ~ (m = n /\ d = c)
        <5>1. written'[m][d] = written[m][d]  BY <3>1, <4>2 DEF TypeOK
        <5>2. QED BY <5>1 DEF BoundedLoad
      <4>3. QED BY <4>1, <4>2
    <3>6. QED BY <3>5 DEF BoundedLoad
  <2>3. ASSUME written' = written PROVE BoundedLoad'
    BY <2>3 DEF BoundedLoad
  <2>4. ASSUME NEW n \in Node, Writes(n) PROVE BoundedLoad'
    BY <2>2, <2>3, <2>4 DEF Writes, WriteUnreliable, WriteHeartbeat, sendVars
  <2>5. ASSUME NEW n \in Node, Sends(n) PROVE BoundedLoad'
    <3>1. PICK due : Send(n, due)  BY <2>5 DEF Sends
    <3>2. written' = written  BY <3>1 DEF Send
    <3>3. QED BY <2>3, <3>2
  <2>6. ASSUME NEW n \in Node, Receives(n) PROVE BoundedLoad'
    BY <2>3, <2>6 DEF Receives, Receive, ReceiveUnreliable, Refuse, AcceptReliable,
                      AcceptOrdered, sendVars
  <2>7. CASE UNCHANGED vars
    <3>1. written' = written  BY <2>7 DEF vars, sendVars
    <3>2. QED BY <2>1, <2>3, <3>1
  <2>8. QED BY <2>1, <2>4, <2>5, <2>6, <2>7 DEF Next
<1>4. ShortOutage' /\ [Next]_vars => [Next /\ ShortOutage']_vars
  OBVIOUS
<1>5. QED BY <1>1, <1>2, <1>3, <1>4, PTL DEF Spec, OutageSpec

=============================================================================
