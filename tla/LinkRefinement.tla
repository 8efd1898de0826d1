--------------------------- MODULE LinkRefinement ---------------------------
(***************************************************************************)
(* Link implements Delivery, for every width of the sequence ids, every    *)
(* capacity of the rings and every workload, while no datagram is too late *)
(* and no packet is given up: with WindowsAgree, every step maps to one of *)
(* Delivery or changes nothing there.                                      *)
(***************************************************************************)
EXTENDS LinkSafety

-----------------------------------------------------------------------------
(* What does not change, or only as Delivery allows.                       *)

\* A step that leaves the sequence numbers, the rings and what was received as
\* they are is invisible.
LEMMA SameMaps ==
    ASSUME UNCHANGED <<written, sendQueue, sendPackets, receiveVars>>
    PROVE  UNCHANGED Promise!vars
<1>1. /\ written' = written /\ sendQueue' = sendQueue /\ sendPackets' = sendPackets
      /\ receivedPackets' = receivedPackets
      /\ unorderedReceived' = unorderedReceived /\ orderedReceived' = orderedReceived
  BY DEF receiveVars
<1>2. ArrivedOf' = ArrivedOf
  BY <1>1 DEF ArrivedOf, Accepted, Delivered
<1>3. SettledOf' = SettledOf
  BY <1>1 DEF SettledOf, Settled, Constructed, InFlight
<1>4. UnorderedOf' = UnorderedOf /\ OrderedOf' = OrderedOf
  BY <1>1 DEF UnorderedOf, OrderedOf
<1>5. QED BY <1>1, <1>2, <1>3, <1>4 DEF Promise!vars

\* What is settled, the other side took in.
SettledArrived ==
    \A n \in Node, c \in Channel : Settled(n, c) \subseteq Accepted(Peer(n), c)

\* inner.rs:80-246: while nothing is given up, this is always so.
LEMMA SettledHasArrived == TypeOK /\ WindowsAgree /\ NothingGivenUp => SettledArrived
<1> SUFFICES ASSUME TypeOK, WindowsAgree, NothingGivenUp,
                    NEW n \in Node, NEW c \in Channel, NEW k \in Settled(n, c)
             PROVE  k \in Accepted(Peer(n), c)
  BY DEF SettledArrived
<1>1. DoneWith(Peer(n), c, k)
  BY DEF Settled, WindowsAgree, Windows, NothingLost
<1>2. QED BY <1>1, PeerOfPeer, DoneIsAccepted

\* The same after a step.
LEMMA SettledHasArrivedNext ==
    TypeOK' /\ WindowsAgree' /\ NothingGivenUp' => SettledArrived'
BY SettledHasArrived, PTL

\* packet_ack.rs:19-31, inner.rs:80-113: what a node settles is what the other
\* side took in before this step.
LEMMA SettleMaps ==
    ASSUME TypeOK, WindowsAgree, NothingGivenUp,
           TypeOK', WindowsAgree', NothingGivenUp', NEW n \in Node,
           \A m \in Node, c \in Channel : m # n => Settled(m, c)' = Settled(m, c),
           \A c \in Channel : /\ Accepted(Peer(n), c)' = Accepted(Peer(n), c)
                              /\ Settled(n, c) \subseteq Settled(n, c)'
    PROVE  Promise!Settle
<1>1. SUFFICES ASSUME NEW m \in Node, NEW c \in Channel
               PROVE  /\ Settled(m, c) \subseteq Settled(m, c)'
                      /\ Settled(m, c)' \subseteq Accepted(Peer(m), c)
  BY DEF Promise!Settle, SettledOf, ArrivedOf
<1>2. CASE m = n
  <2>1. Settled(n, c)' \subseteq Accepted(Peer(n), c)'
    BY SettledHasArrivedNext DEF SettledArrived
  <2>2. QED BY <1>2, <2>1
<1>3. CASE m # n
  <2>1. Settled(m, c) \subseteq Accepted(Peer(m), c)
    BY SettledHasArrived DEF SettledArrived
  <2>2. QED BY <1>3, <2>1
<1>4. QED BY <1>2, <1>3

\* packet_ack.rs:19-31: an ack only takes packets out of the rings.
LEMMA AcknowledgeSettles ==
    ASSUME TypeOK, NEW n \in Node, NEW p \in net, Acknowledge(n, p.ack),
           UNCHANGED <<written, sendQueue>>,
           NEW m \in Node, NEW c \in Channel
    PROVE  /\ Settled(m, c) \subseteq Settled(m, c)'
           /\ m # n => Settled(m, c)' = Settled(m, c)
<1> DEFINE r == sendPackets[n][c]
           r2 == Acknowledged(r, p.ack[c])
<1>1. Constructed(m, c)' = Constructed(m, c)  BY DEF Constructed
<1>2. p.ack[c] \in AckType  BY DEF TypeOK, DataPackets, AckPackets, Acks
<1>3. /\ sendPackets'[n][c] = r2
      /\ \A k \in Node : k # n => sendPackets'[k] = sendPackets[k]
  BY DEF TypeOK, Acknowledge
<1>4. r \in Rings(Pending)  BY DEF TypeOK
<1>5. r2 \in Rings(Pending)  BY <1>2, <1>4, AcknowledgedType
<1>6. \A i \in Keys(r2) : i \in Keys(r) /\ Get(r2, i) = Get(r, i)
  <2>1. /\ Keys(r) = {i \in Index : Get(r, i) # None}
        /\ Keys(r2) = {i \in Index : Get(r2, i) # None}
    BY <1>4, <1>5, KeysAreFound
  <2>2. \A i \in Index : Get(r2, i) = None \/ Get(r2, i) = Get(r, i)
    BY <1>2, <1>4, GetAfterAcknowledged DEF AckType
  <2>3. QED BY <2>1, <2>2
<1> HIDE DEF r2
<1>7. CASE m = n
  <2>1. InFlight(n, c)' \subseteq InFlight(n, c)
    BY <1>3, <1>6 DEF InFlight, InRing
  <2>2. QED BY <1>1, <1>7, <2>1 DEF Settled
<1>8. CASE m # n
  <2>1. InFlight(m, c)' = InFlight(m, c)  BY <1>3, <1>8 DEF InFlight
  <2>2. QED BY <1>1, <2>1 DEF Settled
<1>9. QED BY <1>7, <1>8

-----------------------------------------------------------------------------
(* The steps.                                                              *)

\* inner.rs:34-58: two new communicators have promised nothing yet.
LEMMA InitMaps == Init => Promise!Init
<1> SUFFICES ASSUME Init PROVE Promise!Init
  OBVIOUS
<1>1. TypeOK /\ WindowsAgree  BY InitType, InitAgrees
<1>2. ASSUME NEW n \in Node, NEW c \in Channel PROVE Constructed(n, c) = 0
  BY DEF Init, Constructed
<1>3. ASSUME NEW n \in Node, NEW c \in Channel PROVE Settled(n, c) = {}
  BY <1>2 DEF Settled
<1>4. ASSUME NEW n \in Node, NEW c \in Channel PROVE Accepted(Peer(n), c) = {}
  <2> DEFINE k == Peer(n)
             last == Newest(receivedPackets[k][c])
  <2>1. k \in Node /\ Peer(k) = n  BY PeerOfPeer
  <2>2. last \in Int
    <3>1. last \in Nat \cup {-1}  BY <1>1, <2>1, Types
    <3>2. QED BY <3>1
  <2>3. Accepted(k, c) \subseteq 0 .. last /\ last < 0
    BY <1>1, <1>2, <2>1 DEF WindowsAgree, Windows, ReceiveWindow
  <2>4. QED BY <2>2, <2>3
<1>5. /\ ArrivedOf = [n \in Node |-> [c \in Channel |-> {}]]
      /\ SettledOf = [n \in Node |-> [c \in Channel |-> {}]]
  BY <1>3, <1>4 DEF ArrivedOf, SettledOf
<1>6. \A n \in Node : unorderedReceived[Peer(n)] = EmptyBag /\ orderedReceived[Peer(n)] = << >>
  BY PeerOfPeer DEF Init
<1>7. EmptyBag = Promise!EmptyBag
  BY DEF EmptyBag, Promise!EmptyBag, SetToBag, Promise!SetToBag
<1>8. QED
  BY <1>5, <1>6, <1>7 DEF Init, Promise!Init, UnorderedOf, OrderedOf

\* mod.rs:135-145: writing a message puts it behind those not yet packed.
LEMMA WriteMaps ==
    ASSUME TypeOK, NEW n \in Node, NEW c \in Channel, Write(n, c)
    PROVE  Promise!Write(n, c)
<1>1. /\ written' = [written EXCEPT ![n][c] = @ + 1]
      /\ sendQueue' = [sendQueue EXCEPT ![n][c] = Append(@, written[n][c])]
      /\ sendPackets' = sendPackets /\ receivedPackets' = receivedPackets
      /\ unorderedReceived' = unorderedReceived /\ orderedReceived' = orderedReceived
  BY DEF Write, receiveVars
<1>2. ASSUME NEW m \in Node, NEW d \in Channel
      PROVE  Constructed(m, d)' = Constructed(m, d)
  <2>1. sendQueue[m][d] \in Seq(Nat) /\ written[m][d] \in Nat  BY Types
  <2>2. CASE m = n /\ d = c
    <3>1. /\ written'[m][d] = written[m][d] + 1
          /\ sendQueue'[m][d] = Append(sendQueue[m][d], written[m][d])
      BY <1>1, <2>2 DEF TypeOK
    <3>2. Len(Append(sendQueue[m][d], written[m][d])) = Len(sendQueue[m][d]) + 1
          /\ Len(sendQueue[m][d]) \in Nat
      BY <2>1
    <3>3. ASSUME NEW a \in Nat, NEW b \in Nat PROVE (a + 1) - (b + 1) = a - b
      OBVIOUS
    <3>4. QED BY <2>1, <3>1, <3>2, <3>3 DEF Constructed
  <2>3. CASE ~ (m = n /\ d = c)
    <3>1. written'[m][d] = written[m][d] /\ sendQueue'[m][d] = sendQueue[m][d]
      BY <1>1, <2>3 DEF TypeOK
    <3>2. QED BY <3>1 DEF Constructed
  <2>4. QED BY <2>2, <2>3
<1>3. SettledOf' = SettledOf
  <2>1. \A m \in Node, d \in Channel : Settled(m, d)' = Settled(m, d)
    BY <1>1, <1>2 DEF Settled, InFlight
  <2>2. QED BY <2>1 DEF SettledOf
<1>4. ArrivedOf' = ArrivedOf
  BY <1>1 DEF ArrivedOf, Accepted, Delivered
<1>5. UnorderedOf' = UnorderedOf /\ OrderedOf' = OrderedOf
  BY <1>1 DEF UnorderedOf, OrderedOf
<1>6. QED BY <1>1, <1>3, <1>4, <1>5 DEF Promise!Write

\* inner.rs:80-113: sending moves messages into flight and settles none.
LEMMA SendMaps ==
    ASSUME ~ GivesUp, TypeOK, WindowsAgree, NothingGivenUp, NEW n \in Node, Sends(n)
    PROVE  Promise!Transfer
<1>1. PICK due \in [Channel -> SUBSET Index] :
          /\ \A c \in Channel : due[c] \subseteq Keys(sendPackets[n][c])
          /\ Send(n, due)
  BY SomeAreDue
<1>2. TypeOK'  BY <1>1, SendType
<1>3. /\ WindowsAgree' /\ NothingGivenUp'
      /\ \A c \in Channel : Settled(n, c) \subseteq Settled(n, c)'
  BY <1>1, <1>2, SendAgrees
<1>4. /\ written' = written /\ receivedPackets' = receivedPackets
      /\ unorderedReceived' = unorderedReceived /\ orderedReceived' = orderedReceived
      /\ \A m \in Node : m # n => /\ sendPackets'[m] = sendPackets[m]
                                  /\ sendQueue'[m] = sendQueue[m]
  BY <1>1 DEF Send, receiveVars, TypeOK
<1>5. \A m \in Node, c \in Channel : Accepted(m, c)' = Accepted(m, c)
  BY <1>4 DEF Accepted, Delivered
<1>6. \A m \in Node, c \in Channel : m # n => Settled(m, c)' = Settled(m, c)
  BY <1>4 DEF Settled, Constructed, InFlight
<1>7. Promise!Settle  BY <1>2, <1>3, <1>5, <1>6, PeerOfPeer, SettleMaps
<1>8. Promise!NothingArrives
  BY <1>4, <1>5, PeerOfPeer
     DEF Promise!NothingArrives, ArrivedOf, UnorderedOf, OrderedOf
<1>9. QED BY <1>4, <1>7, <1>8 DEF Promise!Transfer

\* inner.rs:129-179: a packet without content brings news only.
LEMMA ReceiveUnreliableMaps ==
    ASSUME TypeOK, WindowsAgree, NothingGivenUp,
           TypeOK', WindowsAgree', NothingGivenUp',
           NEW n \in Node, NEW p \in net, p.to = n, ReceiveUnreliable(n, p)
    PROVE  Promise!Transfer
<1>1. /\ Acknowledge(n, p.ack) /\ written' = written /\ sendQueue' = sendQueue
      /\ receivedPackets' = receivedPackets
      /\ unorderedReceived' = unorderedReceived /\ orderedReceived' = orderedReceived
  BY DEF ReceiveUnreliable, receiveVars
<1>2. \A m \in Node, c \in Channel : Accepted(m, c)' = Accepted(m, c)
  BY <1>1 DEF Accepted, Delivered
<1>3. Promise!Settle
  BY <1>1, <1>2, AcknowledgeSettles, PeerOfPeer, SettleMaps
<1>4. Promise!NothingArrives
  BY <1>1, <1>2, PeerOfPeer
     DEF Promise!NothingArrives, ArrivedOf, UnorderedOf, OrderedOf
<1>5. QED BY <1>1, <1>3, <1>4 DEF Promise!Transfer

\* What arrives was written by the other side, and is new.
LEMMA NewMaps ==
    ASSUME ShortLag, TypeOK, WindowsAgree, ShortOutage,
           NEW n \in Node, NEW p \in net, p.to = n, p.channel \in Channel,
           p.message \notin Accepted(n, p.channel)
    PROVE  p.message \in Promise!New(Peer(n), p.channel)
<1> DEFINE k == Peer(n)
           c == p.channel
<1>1. k \in Node /\ Peer(k) = n  BY PeerOfPeer
<1>2. /\ p.message \in Nat /\ p.message < Constructed(k, c)
      /\ Constructed(k, c) \in Nat
  BY Arriving
<1>3. written[k][c] \in Nat /\ Len(sendQueue[k][c]) \in Nat
  <2>1. sendQueue[k][c] \in Seq(Nat) /\ written[k][c] \in Nat  BY <1>1, Types
  <2>2. QED BY <2>1
<1>4. p.message \in 0 .. written[k][c] - 1
  <2>1. Constructed(k, c) = written[k][c] - Len(sendQueue[k][c])  BY DEF Constructed
  <2> HIDE DEF k, c
  <2>2. QED BY <1>2, <1>3, <2>1
<1>5. ArrivedOf[k][c] = Accepted(n, c)  BY <1>1 DEF ArrivedOf
<1>6. QED BY <1>4, <1>5 DEF Promise!New

\* One element of a nested function grows.
LEMMA OneGrows ==
    ASSUME NEW f, NEW g, NEW k \in Node, NEW c \in Channel, NEW x,
           f = [m \in Node |-> [d \in Channel |-> f[m][d]]],
           g = [m \in Node |-> [d \in Channel |-> g[m][d]]],
           g[k][c] = f[k][c] \cup {x},
           \A m \in Node, d \in Channel : ~ (m = k /\ d = c) => g[m][d] = f[m][d]
    PROVE  g = [f EXCEPT ![k][c] = @ \cup {x}]
<1> DEFINE h == [f EXCEPT ![k][c] = @ \cup {x}]
<1>1. /\ \A m \in Node : f[m] = [d \in Channel |-> f[m][d]]
      /\ \A m \in Node : g[m] = [d \in Channel |-> g[m][d]]
  OBVIOUS
<1>2. h = [m \in Node |-> IF m = k THEN [f[k] EXCEPT ![c] = f[k][c] \cup {x}] ELSE f[m]]
  OBVIOUS
<1>3. [f[k] EXCEPT ![c] = f[k][c] \cup {x}]
         = [d \in Channel |-> IF d = c THEN f[k][c] \cup {x} ELSE f[k][d]]
  BY <1>1
<1> HIDE DEF h
<1>4. \A m \in Node : g[m] = h[m]
  <2>1. ASSUME NEW m \in Node, m # k PROVE g[m] = f[m]
    BY <1>1, <2>1
  <2>2. g[k] = [d \in Channel |-> IF d = c THEN f[k][c] \cup {x} ELSE f[k][d]]
    BY <1>1
  <2>3. QED BY <1>2, <1>3, <2>1, <2>2
<1>5. g = [m \in Node |-> g[m]] /\ h = [m \in Node |-> h[m]]
  BY <1>2
<1>6. g = h  BY <1>4, <1>5
<1>7. QED BY <1>6 DEF h

\* inner.rs:225-242: a reliable packet that is accepted brings one message, which
\* is handed on at once.
LEMMA AcceptReliableMaps ==
    ASSUME ShortLag, TypeOK, TypeOK', WindowsAgree, NothingGivenUp, NothingGivenUp',
           NEW n \in Node, NEW p \in net, p.to = n, AcceptReliable(n, p)
    PROVE  Promise!Transfer
<1> DEFINE k == Peer(n)
           x == p.message
<1>1. /\ p.channel = "reliable" /\ "reliable" \in Channel
      /\ Acknowledge(n, p.ack) /\ written' = written /\ sendQueue' = sendQueue
      /\ orderedReceived' = orderedReceived
      /\ receivedPackets' = [receivedPackets EXCEPT ![n]["reliable"] =
                                Insert(@, p.sequenceId, x)]
      /\ unorderedReceived' = [unorderedReceived EXCEPT ![n] = @ (+) SetToBag({x})]
  BY DEF AcceptReliable, Channel
<1>2. /\ WindowsAgree' /\ x \notin Accepted(n, "reliable")
      /\ Accepted(n, "reliable")' = Accepted(n, "reliable") \cup {x}
  BY NothingGivenUpIsShort, AcceptReliableAgrees
<1>3. k \in Node /\ k # n /\ Peer(k) = n /\ \A m \in Node : Peer(m) \in Node /\ (Peer(m) = n => m = k)
  BY PeerOfPeer DEF Node, Peer
<1>4. /\ \A m \in Node : m # n => /\ receivedPackets'[m] = receivedPackets[m]
                                  /\ unorderedReceived'[m] = unorderedReceived[m]
      /\ receivedPackets'[n]["ordered"] = receivedPackets[n]["ordered"]
      /\ unorderedReceived'[n] = unorderedReceived[n] (+) SetToBag({x})
  BY <1>1 DEF TypeOK
<1>5. \A m \in Node, c \in Channel :
          ~ (m = n /\ c = "reliable") => Accepted(m, c)' = Accepted(m, c)
  BY <1>1, <1>4 DEF Accepted, Delivered, Channel
<1>6. Promise!Settle
  <2>1. \A c \in Channel : Accepted(k, c)' = Accepted(k, c)  BY <1>3, <1>5
  <2>2. QED BY <1>1, <1>2, <2>1, AcknowledgeSettles, SettleMaps
<1>7. x \in Promise!New(k, "reliable")
  BY <1>1, <1>2, NothingGivenUpIsShort, NewMaps
<1>8. ArrivedOf' = [ArrivedOf EXCEPT ![k]["reliable"] = @ \cup {x}]
  <2>1. /\ \A m \in Node, c \in Channel : ArrivedOf[m][c] = Accepted(Peer(m), c)
        /\ \A m \in Node, c \in Channel : ArrivedOf'[m][c] = Accepted(Peer(m), c)'
        /\ ArrivedOf = [m \in Node |-> [c \in Channel |-> ArrivedOf[m][c]]]
        /\ ArrivedOf' = [m \in Node |-> [c \in Channel |-> ArrivedOf'[m][c]]]
    BY DEF ArrivedOf
  <2> HIDE DEF k, x
  <2>2. ArrivedOf'[k]["reliable"] = ArrivedOf[k]["reliable"] \cup {x}
    BY <1>1, <1>2, <1>3, <2>1
  <2>3. \A m \in Node, c \in Channel :
            ~ (m = k /\ c = "reliable") => ArrivedOf'[m][c] = ArrivedOf[m][c]
    BY <1>3, <1>5, <2>1
  <2>4. QED BY <1>1, <1>3, <2>1, <2>2, <2>3, OneGrows
<1>9. UnorderedOf' = [UnorderedOf EXCEPT ![k] = Promise!(+)(@, Promise!SetToBag({x}))]
  <2>1. unorderedReceived[n] (+) SetToBag({x})
           = Promise!(+)(unorderedReceived[n], Promise!SetToBag({x}))
    BY DEF (+), SetToBag, Promise!(+), Promise!SetToBag
  <2>2. \A m \in Node : UnorderedOf'[m] =
            IF m = k THEN Promise!(+)(UnorderedOf[m], Promise!SetToBag({x})) ELSE UnorderedOf[m]
    BY <1>3, <1>4, <2>1 DEF UnorderedOf
  <2>3. /\ UnorderedOf' = [m \in Node |-> UnorderedOf'[m]]
        /\ UnorderedOf = [m \in Node |-> UnorderedOf[m]]
    BY DEF UnorderedOf
  <2>4. QED BY <1>3, <2>2, <2>3
<1>10. OrderedOf' = OrderedOf  BY <1>1 DEF OrderedOf
<1>11. Promise!ArriveReliable(k, x)
  BY <1>7, <1>8, <1>9, <1>10 DEF Promise!ArriveReliable
<1>12. QED BY <1>1, <1>3, <1>6, <1>7, <1>11 DEF Promise!Transfer

\* inner.rs:225-242: an ordered packet that is accepted brings one message; all
\* that is now free of gaps is handed on.
LEMMA AcceptOrderedMaps ==
    ASSUME ShortLag, TypeOK, TypeOK', WindowsAgree, NothingGivenUp, NothingGivenUp',
           NEW n \in Node, NEW p \in net, p.to = n, AcceptOrdered(n, p)
    PROVE  Promise!Transfer
<1> DEFINE k == Peer(n)
           x == p.message
           row == orderedReceived'[n]
<1>1. /\ p.channel = "ordered" /\ "ordered" \in Channel
      /\ Acknowledge(n, p.ack) /\ written' = written /\ sendQueue' = sendQueue
      /\ unorderedReceived' = unorderedReceived
  BY DEF AcceptOrdered, Channel
<1>2. /\ WindowsAgree' /\ x \notin Accepted(n, "ordered")
      /\ Accepted(n, "ordered")' = Accepted(n, "ordered") \cup {x}
  BY NothingGivenUpIsShort, AcceptOrderedAgrees
<1>3. k \in Node /\ k # n /\ Peer(k) = n /\ \A m \in Node : Peer(m) \in Node /\ (Peer(m) = n => m = k)
  BY PeerOfPeer DEF Node, Peer
<1>4. /\ \A m \in Node : m # n => /\ receivedPackets'[m] = receivedPackets[m]
                                  /\ orderedReceived'[m] = orderedReceived[m]
      /\ receivedPackets'[n]["reliable"] = receivedPackets[n]["reliable"]
  BY DEF AcceptOrdered, TypeOK
<1>5. \A m \in Node, c \in Channel :
          ~ (m = n /\ c = "ordered") => Accepted(m, c)' = Accepted(m, c)
  BY <1>1, <1>4 DEF Accepted, Delivered, Channel
<1>6. Promise!Settle
  <2>1. \A c \in Channel : Accepted(k, c)' = Accepted(k, c)  BY <1>3, <1>5
  <2>2. QED BY <1>1, <1>2, <2>1, AcknowledgeSettles, SettleMaps
<1>7. x \in Promise!New(k, "ordered")
  BY <1>1, <1>2, NothingGivenUpIsShort, NewMaps
<1>8. ArrivedOf' = [ArrivedOf EXCEPT ![k]["ordered"] = @ \cup {x}]
  <2>1. /\ \A m \in Node, c \in Channel : ArrivedOf[m][c] = Accepted(Peer(m), c)
        /\ \A m \in Node, c \in Channel : ArrivedOf'[m][c] = Accepted(Peer(m), c)'
        /\ ArrivedOf = [m \in Node |-> [c \in Channel |-> ArrivedOf[m][c]]]
        /\ ArrivedOf' = [m \in Node |-> [c \in Channel |-> ArrivedOf'[m][c]]]
    BY DEF ArrivedOf
  <2> HIDE DEF k, x
  <2>2. ArrivedOf'[k]["ordered"] = ArrivedOf[k]["ordered"] \cup {x}
    BY <1>1, <1>2, <1>3, <2>1
  <2>3. \A m \in Node, c \in Channel :
            ~ (m = k /\ c = "ordered") => ArrivedOf'[m][c] = ArrivedOf[m][c]
    BY <1>3, <1>5, <2>1
  <2>4. QED BY <1>1, <1>3, <2>1, <2>2, <2>3, OneGrows
<1>9. UnorderedOf' = UnorderedOf  BY <1>1 DEF UnorderedOf
<1>10. OrderedOf'[k] = row /\ \A m \in Node \ {k} : OrderedOf'[m] = OrderedOf[m]
  BY <1>3, <1>4 DEF OrderedOf
<1>11. Promise!UpToTheGap(row, Accepted(n, "ordered")')
  <2>1. row \in Seq(Nat)  BY DEF TypeOK
  <2>2. /\ \A j \in 1 .. Len(row) : row[j] = j - 1
        /\ Len(row) \notin Accepted(n, "ordered")'
    BY <1>2 DEF WindowsAgree, HeadIsFirstMissing
  <2>3. \A j \in DOMAIN row : row[j] \in Accepted(n, "ordered")'
    BY DEF Accepted, Delivered
  <2>4. DOMAIN row = 1 .. Len(row)  BY <2>1
  <2>5. QED BY <2>2, <2>3, <2>4 DEF Promise!UpToTheGap
<1>12. ArrivedOf'[k]["ordered"] = Accepted(n, "ordered")'
  BY <1>1, <1>3 DEF ArrivedOf
<1>13. Promise!ArriveOrdered(k, x)
  BY <1>7, <1>8, <1>9, <1>10, <1>11, <1>12 DEF Promise!ArriveOrdered
<1>14. QED BY <1>1, <1>3, <1>6, <1>7, <1>13 DEF Promise!Transfer

\* inner.rs:129-246: reading one datagram, accepted or refused.
LEMMA ReceiveMaps ==
    ASSUME ShortLag, TypeOK, WindowsAgree, NothingGivenUp, NEW n \in Node, Receives(n)
    PROVE  [Promise!Next]_(Promise!vars)
<1>1. PICK p \in net : Receive(n, p)  BY DEF Receives
<1>2. p.to = n /\ TypeOK' /\ WindowsAgree' /\ NothingGivenUp'
  <2>1. p.to = n /\ TypeOK' /\ WindowsAgree'
    BY <1>1, NothingGivenUpIsShort, ReceivesType, ReceivesAgree DEF Receive
  <2>2. givenUp' = givenUp
    BY <1>1 DEF Receive, ReceiveUnreliable, Refuse, AcceptReliable, AcceptOrdered, sendVars
  <2>3. QED BY <2>1, <2>2 DEF NothingGivenUp
<1>3. CASE Refuse(n, p)
  <2>1. UNCHANGED <<written, sendQueue, sendPackets, receiveVars>>
    BY <1>3 DEF Refuse, sendVars
  <2>2. QED BY <2>1, SameMaps
<1>4. CASE ReceiveUnreliable(n, p)
  BY <1>2, <1>4, ReceiveUnreliableMaps DEF Promise!Next
<1>5. CASE AcceptReliable(n, p)
  BY <1>2, <1>5, AcceptReliableMaps DEF Promise!Next
<1>6. CASE AcceptOrdered(n, p)
  BY <1>2, <1>6, AcceptOrderedMaps DEF Promise!Next
<1>7. QED BY <1>1, <1>3, <1>4, <1>5, <1>6 DEF Receive

-----------------------------------------------------------------------------
(* The theorem.                                                            *)

\* mod.rs:23-30: while no packet is given up and no datagram is too old, what
\* arrived stays arrived, what can be handed on is handed on at once and once,
\* and a message is settled only after it arrived.
THEOREM LinkImplementsDelivery ==
    ASSUME ShortLag, ~ GivesUp
    PROVE  Spec => ImplementsDelivery
<1>1. Init => Promise!Init
  BY InitMaps
<1>2. (TypeOK /\ WindowsAgree /\ NothingGivenUp /\ ShortOutage) /\ [Next]_vars
          => [Promise!Next]_(Promise!vars)
  <2> SUFFICES ASSUME TypeOK, WindowsAgree, NothingGivenUp, [Next]_vars
               PROVE  [Promise!Next]_(Promise!vars)
    OBVIOUS
  <2>1. ASSUME NEW n \in Node, Writes(n) PROVE [Promise!Next]_(Promise!vars)
    <3>1. CASE \E c \in Channel : Write(n, c)
      BY <3>1, WriteMaps DEF Promise!Next
    <3>2. CASE WriteUnreliable(n) \/ WriteHeartbeat(n)
      <4>1. UNCHANGED <<written, sendQueue, sendPackets, receiveVars>>
        BY <3>2 DEF WriteUnreliable, WriteHeartbeat, sendVars
      <4>2. QED BY <4>1, SameMaps
    <3>3. QED BY <2>1, <3>1, <3>2 DEF Writes
  <2>2. ASSUME NEW n \in Node, Sends(n) PROVE [Promise!Next]_(Promise!vars)
    BY <2>2, SendMaps DEF Promise!Next
  <2>3. ASSUME NEW n \in Node, Receives(n) PROVE [Promise!Next]_(Promise!vars)
    BY <2>3, ReceiveMaps
  <2>4. CASE UNCHANGED vars
    <3>1. UNCHANGED <<written, sendQueue, sendPackets, receiveVars>>
      BY <2>4 DEF vars, sendVars
    <3>2. QED BY <3>1, SameMaps
  <2>5. QED BY <2>1, <2>2, <2>3, <2>4 DEF Next
<1>3. QED
  BY <1>1, <1>2, LinkWithoutLosses, PTL
     DEF Spec, ImplementsDelivery, Promise!Spec

=============================================================================
