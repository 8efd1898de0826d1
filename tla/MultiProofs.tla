---------------------------- MODULE MultiProofs ----------------------------
(***************************************************************************)
(* Theorems about a MultiUdpCommunicator and its clients.  First what the  *)
(* methods of one communicator do to its types, then that every step keeps *)
(* them; then, step by step, the invariant of MultiInvariant: what reading *)
(* a packet delivers, what the connections of the server make of it, and   *)
(* that the clients number their messages as the connections rely on.      *)
(***************************************************************************)
EXTENDS MultiInvariant, ProtocolFacts, FiniteSetTheorems

\* The other communicator has more to send.
SameButQueue(inner, other) ==
    /\ other \in Inners
    /\ other.sendPackets = inner.sendPackets
    /\ other.received = inner.received
    /\ other.head = inner.head
    /\ other.unordered = inner.unordered
    /\ other.ordered = inner.ordered

LEMMA EnqueueType ==
    ASSUME NEW inner \in Inners, NEW c \in Channel, NEW m \in Messages
    PROVE  SameButQueue(inner, Enqueue(inner, c, m))
<1>1. Append(inner.sendQueue[c], m) \in Seq(Messages)  BY DEF Inners
<1>2. inner.sendQueue \in [Channel -> Seq(Messages)]  BY DEF Inners
<1>3. [inner.sendQueue EXCEPT ![c] = Append(@, m)] \in [Channel -> Seq(Messages)]
  BY <1>1, <1>2
<1>4. Enqueue(inner, c, m) = [inner EXCEPT !.sendQueue = [inner.sendQueue EXCEPT ![c] = Append(@, m)]]
  BY DEF Enqueue, Inners
<1> DEFINE q == [inner.sendQueue EXCEPT ![c] = Append(@, m)]
<1> HIDE DEF q
<1>5. [inner EXCEPT !.sendQueue = q] \in Inners  BY <1>3 DEF Inners, q
<1>6. QED BY <1>4, <1>5 DEF SameButQueue, Inners, q

\* multi.rs:263-293
LEMMA PassedType ==
    ASSUME NEW D, NEW f \in [D -> Inners], NEW request \in Requests
    PROVE  /\ Passed(f, request) \in [D -> Inners]
           /\ \A a \in D : SameButQueue(f[a], Passed(f, request)[a])
<1>1. request.channel \in Channel /\ request.message \in Messages  BY DEF Requests
<1>2. ASSUME NEW a \in D PROVE SameButQueue(f[a], Enqueue(f[a], request.channel, request.message))
  BY <1>1, EnqueueType
<1>3. ASSUME NEW a \in D PROVE SameButQueue(f[a], f[a])  BY DEF SameButQueue
<1>4. Passed(f, request) = [a \in D |-> IF a = request.exception THEN f[a]
                               ELSE Enqueue(f[a], request.channel, request.message)]
  BY DEF Passed
<1>5. ASSUME NEW a \in D PROVE SameButQueue(f[a], Passed(f, request)[a])
  BY <1>2, <1>3, <1>4
<1>6. QED BY <1>4, <1>5 DEF SameButQueue

\* A function can be applied again and again: what a recursive definition needs.
RunsOn(n, T, x, step) ==
    \E g \in [0 .. n -> T] : g[0] = x /\ \A k \in 1 .. n : g[k] = step[k][g[k - 1]]

LEMMA Iterates ==
    ASSUME NEW n \in Nat, NEW T, NEW x \in T, NEW step \in [1 .. n -> [T -> T]]
    PROVE  RunsOn(n, T, x, step)
<1> DEFINE Runs(k) == {g \in [0 .. k -> T] :
                         g[0] = x /\ \A j \in 1 .. k : g[j] = step[j][g[j - 1]]}
           bad == {k \in 0 .. n : Runs(k) = {}}
<1>1. bad = {}
  <2> SUFFICES ASSUME bad # {} PROVE FALSE  OBVIOUS
  <2>1. PICK k \in bad : \A j \in bad : k <= j
    <3>1. bad \subseteq Nat  OBVIOUS
    <3>2. QED BY <3>1, Least
  <2>2. k \in 0 .. n /\ Runs(k) = {}  BY <2>1
  <2>3. CASE k = 0
    <3>1. [j \in 0 .. 0 |-> x] \in Runs(0)  OBVIOUS
    <3>2. QED BY <2>2, <2>3, <3>1
  <2>4. CASE k # 0
    <3>1. k - 1 \in 0 .. n /\ k - 1 \notin bad /\ k \in 1 .. n
      <4> HIDE DEF bad
      <4>1. k \in Nat /\ k - 1 \in 0 .. n /\ k \in 1 .. n  BY <2>2, <2>4
      <4>2. k - 1 \in bad => k <= k - 1  BY <2>1
      <4>3. QED BY <4>1, <4>2
    <3>2. PICK g : g \in Runs(k - 1)  BY <3>1
    <3>3. g \in [0 .. k - 1 -> T] /\ g[0] = x  BY <3>2
    <3>4. \A j \in 1 .. k - 1 : g[j] = step[j][g[j - 1]]  BY <3>2
    <3> DEFINE next == step[k][g[k - 1]]
               h == [j \in 0 .. k |-> IF j = k THEN next ELSE g[j]]
    <3>5. next \in T
      <4>1. g[k - 1] \in T  BY <3>1, <3>3
      <4>2. step[k] \in [T -> T]  BY <3>1
      <4>3. QED BY <4>1, <4>2
    <3>6. h[k] = next /\ \A j \in 0 .. k - 1 : h[j] = g[j]  BY <3>1
    <3>7. ASSUME NEW j \in 0 .. k PROVE h[j] \in T
      <4>1. j = k \/ j \in 0 .. k - 1  BY <3>1
      <4>2. QED BY <3>3, <3>5, <3>6, <4>1
    <3>8. ASSUME NEW j \in 1 .. k PROVE h[j] = step[j][h[j - 1]]
      <4>1. j - 1 \in 0 .. k - 1 /\ (j = k \/ j \in 1 .. k - 1)  BY <3>1
      <4>2. j \in 1 .. k - 1 => j \in 0 .. k - 1  OBVIOUS
      <4> HIDE DEF h
      <4>3. QED BY <3>4, <3>6, <4>1, <4>2
    <3>9. h \in Runs(k)
      <4>1. h \in [0 .. k -> T]  BY <3>7
      <4>2. h[0] = x
        <5>1. 0 \in 0 .. k - 1  BY <3>1
        <5> HIDE DEF h
        <5>2. QED BY <3>3, <3>6, <5>1
      <4> HIDE DEF h
      <4>3. QED BY <3>8, <4>1, <4>2
    <3>10. QED BY <2>2, <3>9
  <2>5. QED BY <2>3, <2>4
<1>2. n \in 0 .. n /\ n \notin bad
  <2> HIDE DEF bad
  <2>1. QED BY <1>1
<1>3. PICK g : g \in Runs(n)  BY <1>2
<1>4. QED BY <1>3 DEF RunsOn

\* And whatever is defined so stays where the function stays.
LEMMA IteratesInside ==
    ASSUME NEW n \in Nat, NEW T, NEW h, h[0] \in T,
           \A k \in 1 .. n : h[k - 1] \in T => h[k] \in T
    PROVE  \A k \in 0 .. n : h[k] \in T
<1> DEFINE strange == {k \in 0 .. n : h[k] \notin T}
<1> SUFFICES ASSUME strange # {} PROVE FALSE  OBVIOUS
<1>1. PICK k \in strange : \A j \in strange : k <= j
  <2>1. strange \subseteq Nat  OBVIOUS
  <2>2. QED BY <2>1, Least
<1>2. k \in 0 .. n /\ h[k] \notin T  BY <1>1
<1>3. CASE k = 0  BY <1>2, <1>3
<1>4. CASE k # 0
  <2> HIDE DEF strange
  <2>1. k \in Nat /\ k - 1 \in 0 .. n /\ k \in 1 .. n  BY <1>2, <1>4
  <2>2. k - 1 \notin strange  BY <1>1, <2>1
  <2>3. h[k - 1] \in T  BY <2>1, <2>2 DEF strange
  <2>4. QED BY <1>2, <2>1, <2>3
<1>5. QED BY <1>3, <1>4

\* multi.rs:366-417: finish passes on one request after another.
LEMMA FinishedRuns ==
    ASSUME requests \in Seq(Requests), NEW D, NEW f \in [D -> Inners]
    PROVE  \E after :
              /\ after[0] = f /\ after[Len(requests)] = Finished(f)
              /\ \A k \in 1 .. Len(requests) : after[k] = Passed(after[k - 1], requests[k])
<1> DEFINE n == Len(requests)
           T == [D -> Inners]
           step == [k \in 1 .. n |-> [g \in T |-> Passed(g, requests[k])]]
           F(h) == [k \in 0 .. Len(requests) |-> IF k = 0 THEN f ELSE Passed(h[k - 1], requests[k])]
           after == CHOOSE h : h = F(h)
<1>1. n \in Nat /\ \A j \in 1 .. n : requests[j] \in Requests  OBVIOUS
<1>2. step \in [1 .. n -> [T -> T]]
  <2>1. ASSUME NEW k \in 1 .. n, NEW g \in T PROVE Passed(g, requests[k]) \in T
    BY <1>1, PassedType
  <2>2. QED BY <2>1
<1>3. PICK g \in [0 .. n -> T] : g[0] = f /\ \A k \in 1 .. n : g[k] = step[k][g[k - 1]]
  <2> HIDE DEF n, T, step
  <2>1. f \in T  BY DEF T
  <2>2. n \in Nat  BY <1>1
  <2>3. RunsOn(n, T, f, step)  BY ONLY <1>2, <2>1, <2>2, Iterates
  <2>4. QED BY <2>3 DEF RunsOn
<1>4. ASSUME NEW k \in 1 .. n PROVE g[k] = Passed(g[k - 1], requests[k])
  <2>1. k - 1 \in 0 .. n  BY <1>1
  <2>2. g[k - 1] \in T  BY <1>3, <2>1
  <2>3. QED BY <1>3, <2>2
<1>5. g = F(g)
  <2>1. \A k \in 0 .. n : k = 0 \/ k \in 1 .. n  BY <1>1
  <2>2. \A k \in 0 .. n : g[k] = IF k = 0 THEN f ELSE Passed(g[k - 1], requests[k])
    BY <1>3, <1>4, <2>1
  <2>3. g = [k \in 0 .. n |-> g[k]]  BY <1>3
  <2>4. QED BY <2>2, <2>3
<1>6. after = F(after)
  <2> HIDE DEF F
  <2>1. QED BY <1>5
<1>7. Finished(f) = after[n]  BY DEF Finished
<1> HIDE DEF after
<1>8. after[0] = f /\ \A k \in 1 .. n : after[k] = Passed(after[k - 1], requests[k])
  <2>1. 0 \in 0 .. n /\ \A k \in 1 .. n : k \in 0 .. n /\ k # 0  BY <1>1
  <2>2. \A k \in 0 .. n : after[k] = IF k = 0 THEN f ELSE Passed(after[k - 1], requests[k])
    BY <1>6
  <2>3. QED BY <2>1, <2>2
<1>9. QED BY <1>7, <1>8 DEF n

\* multi.rs:366-417: so finish changes nothing but the send queues.
LEMMA FinishedType ==
    ASSUME requests \in Seq(Requests), NEW D, NEW f \in [D -> Inners]
    PROVE  /\ Finished(f) \in [D -> Inners]
           /\ \A a \in D : SameButQueue(f[a], Finished(f)[a])
<1> DEFINE n == Len(requests)
           Later == {g \in [D -> Inners] : \A a \in D : SameButQueue(f[a], g[a])}
<1>1. n \in Nat /\ \A j \in 1 .. n : requests[j] \in Requests  OBVIOUS
<1>2. PICK after : /\ after[0] = f /\ after[n] = Finished(f)
                   /\ \A k \in 1 .. n : after[k] = Passed(after[k - 1], requests[k])
  BY FinishedRuns
<1> HIDE DEF n
<1>3. f \in Later  BY DEF SameButQueue
<1>4. ASSUME NEW g \in Later, NEW j \in 1 .. n PROVE Passed(g, requests[j]) \in Later
  <2>1. /\ Passed(g, requests[j]) \in [D -> Inners]
        /\ \A a \in D : SameButQueue(g[a], Passed(g, requests[j])[a])
    BY <1>1, PassedType
  <2>2. QED BY <2>1 DEF SameButQueue
<1> HIDE DEF Later
<1>5. \A k \in 0 .. n : after[k] \in Later
  BY <1>1, <1>2, <1>3, <1>4, IteratesInside
<1>6. Finished(f) \in Later
  <2>1. n \in 0 .. n  BY <1>1
  <2>2. QED BY <1>2, <1>5, <2>1
<1>7. QED BY <1>6 DEF Later

\* What one request makes the server owe, and what all of them do.
LEMMA OwingType ==
    ASSUME NEW owes \in [Client -> Lines], NEW request \in Requests
    PROVE  Owing(owes, request) \in [Client -> Lines]
<1>1. request.channel \in Channel /\ request.message \in Messages  BY DEF Requests
<1>2. ASSUME NEW a \in Client
      PROVE  [owes[a] EXCEPT ![request.channel] = Append(@, request.message)] \in Lines
  <2>1. owes[a] \in [Channel -> Seq(Messages)]  BY DEF Lines
  <2>2. Append(owes[a][request.channel], request.message) \in Seq(Messages)
    BY <1>1, <2>1
  <2>3. QED BY <2>1, <2>2 DEF Lines
<1>3. QED BY <1>2 DEF Owing

LEMMA OwedRuns ==
    ASSUME requests \in Seq(Requests), owed \in [Client -> Lines]
    PROVE  \E after :
              /\ after[0] = owed /\ after[Len(requests)] = OwedFinally
              /\ \A k \in 1 .. Len(requests) : after[k] = Owing(after[k - 1], requests[k])
<1> DEFINE n == Len(requests)
           T == [Client -> Lines]
           step == [k \in 1 .. n |-> [g \in T |-> Owing(g, requests[k])]]
           F(h) == [k \in 0 .. Len(requests) |-> IF k = 0 THEN owed ELSE Owing(h[k - 1], requests[k])]
           after == CHOOSE h : h = F(h)
<1>1. n \in Nat /\ \A j \in 1 .. n : requests[j] \in Requests  OBVIOUS
<1>2. step \in [1 .. n -> [T -> T]]
  <2>1. ASSUME NEW k \in 1 .. n, NEW g \in T PROVE Owing(g, requests[k]) \in T
    BY <1>1, OwingType
  <2>2. QED BY <2>1
<1>3. PICK g \in [0 .. n -> T] : g[0] = owed /\ \A k \in 1 .. n : g[k] = step[k][g[k - 1]]
  <2> HIDE DEF n, T, step
  <2>1. owed \in T  BY DEF T
  <2>2. n \in Nat  BY <1>1
  <2>3. RunsOn(n, T, owed, step)  BY ONLY <1>2, <2>1, <2>2, Iterates
  <2>4. QED BY <2>3 DEF RunsOn
<1>4. ASSUME NEW k \in 1 .. n PROVE g[k] = Owing(g[k - 1], requests[k])
  <2>1. k - 1 \in 0 .. n  BY <1>1
  <2>2. g[k - 1] \in T  BY <1>3, <2>1
  <2>3. QED BY <1>3, <2>2
<1>5. g = F(g)
  <2>1. \A k \in 0 .. n : k = 0 \/ k \in 1 .. n  BY <1>1
  <2>2. \A k \in 0 .. n : g[k] = IF k = 0 THEN owed ELSE Owing(g[k - 1], requests[k])
    BY <1>3, <1>4, <2>1
  <2>3. g = [k \in 0 .. n |-> g[k]]  BY <1>3
  <2>4. QED BY <2>2, <2>3
<1>6. after = F(after)
  <2> HIDE DEF F
  <2>1. QED BY <1>5
<1>7. OwedFinally = after[n]  BY DEF OwedFinally
<1> HIDE DEF after
<1>8. after[0] = owed /\ \A k \in 1 .. n : after[k] = Owing(after[k - 1], requests[k])
  <2>1. 0 \in 0 .. n /\ \A k \in 1 .. n : k \in 0 .. n /\ k # 0  BY <1>1
  <2>2. \A k \in 0 .. n : after[k] = IF k = 0 THEN owed ELSE Owing(after[k - 1], requests[k])
    BY <1>6
  <2>3. QED BY <2>1, <2>2
<1>9. QED BY <1>7, <1>8 DEF n

LEMMA OwedFinallyType ==
    ASSUME requests \in Seq(Requests), owed \in [Client -> Lines]
    PROVE  OwedFinally \in [Client -> Lines]
<1> DEFINE n == Len(requests)
<1>1. n \in Nat /\ \A j \in 1 .. n : requests[j] \in Requests  OBVIOUS
<1>2. PICK after : /\ after[0] = owed /\ after[n] = OwedFinally
                   /\ \A k \in 1 .. n : after[k] = Owing(after[k - 1], requests[k])
  BY OwedRuns
<1> HIDE DEF n
<1>3. \A k \in 1 .. n : after[k - 1] \in [Client -> Lines] => after[k] \in [Client -> Lines]
  BY <1>1, <1>2, OwingType
<1>4. \A k \in 0 .. n : after[k] \in [Client -> Lines]
  BY <1>1, <1>2, <1>3, IteratesInside
<1>5. n \in 0 .. n  BY <1>1
<1>6. QED BY <1>2, <1>4, <1>5

-----------------------------------------------------------------------------
(* Types of one communicator.                                              *)

\* inner.rs:34-58: a new communicator.
LEMMA NewInnerType == NewInner \in Inners
<1>1. ASSUME NEW Item PROVE NewRing \in Rings(Item)
  BY U16Assumption DEF NewRing, Rings, Index, LastIndex
<1>2. 0 \in Index /\ << >> \in Seq(Messages)  BY U16Assumption DEF Index
<1>3. QED BY <1>1, <1>2 DEF NewInner, Inners

\* packet_ack.rs:34-58: an ack names indices of the window of a ring.
LEMMA PacketAckType ==
    ASSUME NEW inner \in Inners PROVE PacketAck(inner) \in Acks
<1>1. ASSUME NEW c \in Channel
      PROVE  /\ inner.received[c].newest \in Index
             /\ \A i \in Keys(inner.received[c]) :
                   WrappingSub(inner.received[c].newest, i) \in Slots
  <2> DEFINE r == inner.received[c]
  <2>1. r \in Rings(Contents)  BY DEF Inners
  <2> HIDE DEF r
  <2>2. r.newest \in Index  BY <2>1 DEF Rings
  <2>3. ASSUME NEW i \in Keys(r) PROVE WrappingSub(r.newest, i) \in Slots
    <3>1. i \in Index /\ Get(r, i) # None  BY <2>1, KeysAreFound
    <3>2. InWindow(r, i)  BY <3>1 DEF Get
    <3>3. QED
      BY <2>2, <3>1, <3>2, U16Assumption, RingAssumption
         DEF InWindow, WrappingSub, Index, Slots
  <2>4. QED BY <2>2, <2>3 DEF r
<1>2. QED BY <1>1 DEF PacketAck, Acks

\* inner.rs:80-113: what send leaves behind, and what it sends.
LEMMA SendTypes ==
    ASSUME NEW inner \in Inners, NEW due
    PROVE  /\ AfterSend(inner, due) \in Inners
           /\ Outgoing(inner, due) \subseteq Packets
<1> DEFINE ack == PacketAck(inner)
           k(c) == FlushCount(inner.sendPackets[c], inner.sendQueue[c])
           rings == FlushedRings(inner)
           sent(c) == SentNow(inner, due)[c]
<1>1. ack \in Acks  BY PacketAckType
<1> HIDE DEF ack
<1>2. ASSUME NEW c \in Channel
      PROVE  /\ SubSeq(inner.sendQueue[c], k(c) + 1, Len(inner.sendQueue[c])) \in Seq(Messages)
             /\ \A i \in sent(c) : i \in Index /\ Get(rings[c], i) \in Pending
             /\ Resent(rings[c], sent(c)) \in Rings(Pending)
  <2>1. inner.sendPackets[c] \in Rings(Pending) /\ inner.sendQueue[c] \in Seq(Messages)
    BY DEF Inners
  <2>2. rings[c] = Flushed(inner.sendPackets[c], inner.sendQueue[c], k(c), ack)
    BY DEF FlushedRings, ack
  <2>3. k(c) \in Nat /\ rings[c] \in Rings(Pending)
    BY <1>1, <2>1, <2>2, FlushingType DEF Pending
  <2>4. sent(c) \in SUBSET Keys(rings[c])  BY DEF SentNow
  <2>5. /\ \A i \in sent(c) : i \in Index /\ Get(rings[c], i) \in Pending
        /\ Resent(rings[c], sent(c)) \in Rings(Pending)
    BY <2>3, <2>4, ResentType DEF Pending
  <2>6. QED BY <2>1, <2>3, <2>5
<1>3. AfterSend(inner, due) \in Inners
  <2> DEFINE q == [c \in Channel |-> SubSeq(inner.sendQueue[c], k(c) + 1, Len(inner.sendQueue[c]))]
             p == [c \in Channel |-> Resent(rings[c], sent(c))]
  <2>1. q \in [Channel -> Seq(Messages)] /\ p \in [Channel -> Rings(Pending)]  BY <1>2
  <2>2. AfterSend(inner, due) =
            [inner EXCEPT !.sendQueue = q, !.sendPackets = p, !.duplicate = FALSE]
    BY DEF AfterSend
  <2> HIDE DEF q, p
  <2>3. QED BY <2>1, <2>2 DEF Inners
<1>4. Outgoing(inner, due) \subseteq Packets
  <2> DEFINE packet(c, i) == [channel |-> c, sequenceId |-> i,
                              content |-> <<Get(rings[c], i).message>>,
                              ack |-> Get(rings[c], i).ack]
  <2>1. ASSUME NEW c \in Channel, NEW i \in sent(c) PROVE packet(c, i) \in Packets
    <3>1. i \in Index /\ Get(rings[c], i) \in Pending  BY <1>2
    <3>2. Get(rings[c], i).message \in Messages /\ Get(rings[c], i).ack \in Acks
      BY <3>1 DEF Pending, PendingPackets
    <3>3. <<Get(rings[c], i).message>> \in Contents  BY <3>2 DEF Contents
    <3>4. QED BY <3>1, <3>2, <3>3 DEF Packets
  <2> DEFINE heartbeat == [channel |-> "unreliable", content |-> << >>, ack |-> PacketAck(inner)]
             data == UNION {{packet(c, i) : i \in sent(c)} : c \in Channel}
  <2>2. heartbeat \in Packets  BY <1>1 DEF Packets, ack
  <2>3. Outgoing(inner, due) = data \cup (IF HeartbeatDue(inner) THEN {heartbeat} ELSE {})
    BY DEF Outgoing
  <2> HIDE DEF sent, heartbeat, packet
  <2>4. data \subseteq Packets  BY <2>1
  <2> HIDE DEF data
  <2>5. QED BY <2>2, <2>3, <2>4
<1>5. QED BY <1>3, <1>4

\* inner.rs:129-246: what read_packet leaves behind.
LEMMA AcknowledgeType ==
    ASSUME NEW inner \in Inners, NEW ack
    PROVE  /\ Acknowledge(inner, ack) \in Inners
           /\ Acknowledge(inner, ack).received = inner.received
           /\ Acknowledge(inner, ack).head = inner.head
           /\ Acknowledge(inner, ack).unordered = inner.unordered
           /\ Acknowledge(inner, ack).ordered = inner.ordered
<1> DEFINE p == [c \in Channel |-> Acknowledged(inner.sendPackets[c], ack[c])]
<1>1. p \in [Channel -> Rings(Pending)]  BY AcknowledgedType DEF Inners
<1>2. Acknowledge(inner, ack) = [inner EXCEPT !.sendPackets = p]  BY DEF Acknowledge, Inners
<1> HIDE DEF p
<1>3. QED BY <1>1, <1>2 DEF Inners

LEMMA ReadOrderedType ==
    ASSUME NEW inner \in Inners, NEW p \in Packets, p.channel = "ordered"
    PROVE  ReadOrdered(inner, p) \in Inners
<1> DEFINE ring == Insert(inner.received["ordered"], p.sequenceId, p.content)
           count == ReadyCount(ring, inner.head)
           ready == [j \in 1 .. count |-> Get(ring, WrappingAdd(inner.head, j - 1))[1]]
           acked == Acknowledge(inner, p.ack)
<1>1. p.sequenceId \in Index /\ p.content \in Contents  BY DEF Packets
<1>2. inner.received \in [Channel -> Rings(Contents)] /\ inner.head \in Index  BY DEF Inners
<1>3. ring \in Rings(Contents)
  <2>1. inner.received["ordered"] \in Rings(Contents)  BY <1>2 DEF Channel
  <2>2. QED BY <1>1, <2>1, InsertType
<1> HIDE DEF ring
<1>4. /\ count \in 0 .. NumItems
      /\ \A j \in 0 .. count - 1 : Get(ring, WrappingAdd(inner.head, j)) # None
  BY <1>2, <1>3, ReadyCountType
<1> HIDE DEF count
<1>5. ASSUME NEW j \in 1 .. count
      PROVE  Get(ring, WrappingAdd(inner.head, j - 1))[1] \in Messages
  <2>1. count \in Nat /\ count <= NumItems /\ NumItems \in Nat  BY <1>4, RingAssumption
  <2>2. j - 1 \in 0 .. NumItems /\ j - 1 \in 0 .. count - 1  BY <2>1
  <2>3. WrappingAdd(inner.head, j - 1) \in Index  BY <1>2, <2>2, PushedIndices
  <2>4. Get(ring, WrappingAdd(inner.head, j - 1)) \in Contents
    BY <1>3, <1>4, <2>2, <2>3, GetType
  <2> DEFINE content == Get(ring, WrappingAdd(inner.head, j - 1))
  <2> HIDE DEF content
  <2>5. content \in Contents => content[1] \in Messages  BY DEF Contents
  <2>6. QED BY <2>4, <2>5 DEF content
<1>6. ready \in Seq(Messages)
  <2>1. count \in Nat  BY <1>4, RingAssumption
  <2>2. ready \in [1 .. count -> Messages]  BY <1>5
  <2>3. QED BY <2>1, <2>2
<1>7. WrappingAdd(inner.head, count) \in Index  BY <1>2, <1>4, PushedIndices
<1>8. acked \in Inners /\ acked.received = inner.received /\ acked.head = inner.head
      /\ acked.ordered = inner.ordered
  BY AcknowledgeType
<1>9. ReadOrdered(inner, p) =
          [acked EXCEPT !.received = [inner.received EXCEPT !["ordered"] = ring],
                        !.head = WrappingAdd(inner.head, count),
                        !.ordered = inner.ordered \o ready]
  BY <1>8 DEF ReadOrdered, ring, count, Inners
<1>10. [inner.received EXCEPT !["ordered"] = ring] \in [Channel -> Rings(Contents)]
  BY <1>2, <1>3
<1>11. inner.ordered \o ready \in Seq(Messages)
  <2>1. inner.ordered \in Seq(Messages)  BY DEF Inners
  <2> HIDE DEF ready
  <2>2. QED BY <1>6, <2>1
<1> DEFINE received == [inner.received EXCEPT !["ordered"] = ring]
           head == WrappingAdd(inner.head, count)
           ordered == inner.ordered \o ready
<1> HIDE DEF acked, ready, received, head, ordered
<1>12. [acked EXCEPT !.received = received, !.head = head, !.ordered = ordered] \in Inners
  BY <1>7, <1>8, <1>10, <1>11 DEF Inners, received, head, ordered
<1>13. QED BY <1>9, <1>12 DEF received, head, ordered

LEMMA ReadPacketType ==
    ASSUME NEW inner \in Inners, NEW p \in Packets
    PROVE  ReadPacket(inner, p) \in Inners
<1>1. CASE p.channel = "unreliable"
  <2>1. ReadPacket(inner, p) = Acknowledge(inner, p.ack)
    BY <1>1 DEF ReadPacket, ReadHeartbeat, Channel
  <2>2. QED BY <2>1, AcknowledgeType
<1>2. p.channel \in Channel \/ p.channel = "unreliable"  BY DEF Packets
<1>3. CASE p.channel \in Channel /\ Refused(inner, p)
  <2>1. p.channel # "unreliable"  BY <1>3 DEF Channel
  <2>2. ReadPacket(inner, p) = [inner EXCEPT !.duplicate = TRUE]
    BY <1>3, <2>1 DEF ReadPacket, Channel
  <2>3. QED BY <2>2 DEF Inners
<1>4. CASE p.channel = "reliable" /\ ~ Refused(inner, p)
  <2>1. p.sequenceId \in Index /\ p.content \in Contents /\ p.content \in Seq(Messages)
    BY <1>4 DEF Packets, Contents
  <2> DEFINE acked == Acknowledge(inner, p.ack)
             ring == Insert(inner.received["reliable"], p.sequenceId, p.content)
             received == [inner.received EXCEPT !["reliable"] = ring]
             unordered == inner.unordered \o p.content
  <2>2. received \in [Channel -> Rings(Contents)]
    <3>1. /\ inner.received \in [Channel -> Rings(Contents)]
          /\ inner.received["reliable"] \in Rings(Contents)
      BY DEF Inners, Channel
    <3>2. ring \in Rings(Contents)  BY <2>1, <3>1, InsertType
    <3>3. QED BY <3>1, <3>2
  <2>3. unordered \in Seq(Messages)
    <3>1. inner.unordered \in Seq(Messages)  BY DEF Inners
    <3>2. QED BY <2>1, <3>1
  <2>4. acked \in Inners /\ acked.received = inner.received /\ acked.unordered = inner.unordered
    BY AcknowledgeType
  <2>5. ReadReliable(inner, p) = [acked EXCEPT !.received = received, !.unordered = unordered]
    BY <2>4 DEF ReadReliable, Inners
  <2> HIDE DEF acked, received, unordered
  <2>6. [acked EXCEPT !.received = received, !.unordered = unordered] \in Inners
    BY <2>2, <2>3, <2>4 DEF Inners
  <2>7. ReadPacket(inner, p) = ReadReliable(inner, p)  BY <1>4 DEF ReadPacket, Channel
  <2>8. QED BY <2>5, <2>6, <2>7
<1>5. CASE p.channel = "ordered" /\ ~ Refused(inner, p)
  <2>1. ReadPacket(inner, p) = ReadOrdered(inner, p)  BY <1>5 DEF ReadPacket, Channel
  <2>2. QED BY <1>5, <2>1, ReadOrderedType
<1>6. QED BY <1>1, <1>2, <1>3, <1>4, <1>5 DEF Channel

\* read and read_ordered until they return None.
LEMMA EmptiedType ==
    ASSUME NEW inner \in Inners
    PROVE  [inner EXCEPT !.unordered = << >>, !.ordered = << >>] \in Inners
<1>1. << >> \in Seq(Messages)  OBVIOUS
<1>2. QED BY <1>1 DEF Inners

-----------------------------------------------------------------------------
(* Every action keeps the type.                                            *)

LEMMA InitType == Init => TypeOK
<1> SUFFICES ASSUME Init PROVE TypeOK
  OBVIOUS
<1>1. coms \in [DOMAIN coms -> Inners] /\ DOMAIN coms \subseteq Client  BY DEF Init
<1>2. client \in [Client -> Inners]  BY NewInnerType DEF Init
<1>3. delayed \in Seq({d \in net : d.to = Server}) /\ Len(delayed) <= MaxDelayed
  BY MultiAssumption DEF Init
<1>4. requests \in Seq(Requests) /\ log \in Seq(LogEntries)  BY DEF Init
<1>5. owed \in [Client -> Lines]
  <2>1. << >> \in Seq(Messages)  OBVIOUS
  <2>2. NoLines \in Lines  BY <2>1 DEF NoLines, Lines
  <2>3. QED BY <2>2 DEF Init
<1>6. owedBefore \in [Client -> Seq(Lines)] /\ heardOrdered \in [Client -> Seq(Messages)]
  <2>1. << >> \in Seq(Lines) /\ << >> \in Seq(Messages)  OBVIOUS
  <2>2. QED BY <2>1 DEF Init
<1>7. DOMAIN heard = Client /\ \A a \in Client : IsABag(heard[a])
  BY DEF Init, IsABag, EmptyBag, SetToBag
<1>8. removals \in [Client -> Nat] /\ restarts \in [Client -> Nat]  BY DEF Init
<1>9. QED BY <1>1, <1>2, <1>3, <1>4, <1>5, <1>6, <1>7, <1>8 DEF Init, TypeOK

\* A bag of what was read is a bag, and so is the one it is added to.
LEMMA BagType ==
    ASSUME NEW bag, IsABag(bag), NEW S, NEW s \in Seq(S)
    PROVE  IsABag(bag (+) ToBag(s))
<1>1. DOMAIN s = 1 .. Len(s) /\ Len(s) \in Nat  OBVIOUS
<1>2. ASSUME NEW x \in Range(s)
      PROVE  Cardinality({i \in DOMAIN s : s[i] = x}) \in {n \in Nat : n > 0}
  <2> DEFINE places == {i \in DOMAIN s : s[i] = x}
  <2>1. IsFiniteSet(1 .. Len(s))  BY <1>1, FS_Interval
  <2>2. IsFiniteSet(places)  BY <1>1, <2>1, FS_Subset
  <2>3. places # {}  BY DEF Range
  <2>4. Cardinality(places) \in Nat /\ Cardinality(places) # 0
    BY <2>2, <2>3, FS_CardinalityType, FS_EmptySet
  <2>5. QED BY <2>4
<1>3. ToBag(s) = [x \in Range(s) |-> Cardinality({i \in DOMAIN s : s[i] = x})]
  BY DEF ToBag
<1> DEFINE more == ToBag(s)
<1>4. DOMAIN more = Range(s) /\ \A x \in DOMAIN more : more[x] \in {n \in Nat : n > 0}
  BY <1>2, <1>3
<1> HIDE DEF more
<1>5. IsABag(bag (+) more)  BY <1>4 DEF IsABag, (+)
<1>6. QED BY <1>5 DEF more

\* What clients do leaves the server alone, and what they send is for it.
LEMMA DelayedKept ==
    ASSUME NEW S, NEW T, S \subseteq T, delayed \in Seq({d \in S : d.to = Server})
    PROVE  delayed \in Seq({d \in T : d.to = Server})
<1> DEFINE A == {d \in S : d.to = Server}
           B == {d \in T : d.to = Server}
<1>1. A \subseteq B  OBVIOUS
<1> HIDE DEF A, B
<1>2. delayed \in Seq(A) => delayed \in Seq(B)  BY <1>1
<1>3. QED BY <1>2 DEF A, B

LEMMA MessageType ==
    ASSUME TypeOK, NEW x \in Client \cup {Server}, NEW c \in Channel
    PROVE  Message(x, c) \in Messages
<1>1. written[x][c] \in Nat  BY DEF TypeOK
<1>2. QED BY <1>1 DEF Message, Messages

\* mod.rs:135-157, 52-133: the methods of a client.
LEMMA ClientStepType ==
    ASSUME TypeOK, NEW a \in Client, ClientSteps(a) PROVE TypeOK'
<1>1. client[a] \in Inners  BY DEF TypeOK
<1>2. ASSUME NEW c \in Channel, ClientWrite(a, c) PROVE TypeOK'
  <2>1. Enqueue(client[a], c, Message(a, c)) \in Inners
    BY <1>1, MessageType, EnqueueType DEF SameButQueue
  <2>2. client' \in [Client -> Inners]  BY <1>2, <2>1 DEF ClientWrite, TypeOK
  <2>3. written' \in [Client \cup {Server} -> [Channel -> Nat]]
    <3>1. written[a] \in [Channel -> Nat] /\ written[a][c] + 1 \in Nat  BY DEF TypeOK
    <3>2. [written[a] EXCEPT ![c] = @ + 1] \in [Channel -> Nat]  BY <3>1
    <3>3. QED BY <1>2, <3>2 DEF ClientWrite, TypeOK
  <2>4. QED BY <1>2, <2>2, <2>3 DEF ClientWrite, TypeOK, serverVars
<1>3. ASSUME NEW due, ClientSend(a, due) PROVE TypeOK'
  <2>1. AfterSend(client[a], due) \in Inners /\ Outgoing(client[a], due) \subseteq Packets
    BY <1>1, SendTypes
  <2>2. client' \in [Client -> Inners]  BY <1>3, <2>1 DEF ClientSend, TypeOK
  <2>3. net \subseteq net'  BY <1>3 DEF ClientSend
  <2>4. ASSUME NEW d \in net'
        PROVE  /\ d.packet \in Packets
               /\ d.from \in Client \cup {Server}
               /\ IF d.from = Server THEN d.to \in Client ELSE d.to = Server
    <3>1. CASE d \in net  BY <3>1 DEF TypeOK
    <3>2. CASE d \in Datagrams(a, Server, Outgoing(client[a], due))
      BY <2>1, <3>2, MultiAssumption DEF Datagrams
    <3>3. QED BY <1>3, <3>1, <3>2 DEF ClientSend
  <2>5. delayed' \in Seq({d \in net' : d.to = Server})
    BY <1>3, <2>3, DelayedKept DEF TypeOK, ClientSend, serverVars
  <2>6. QED BY <1>3, <2>2, <2>4, <2>5 DEF ClientSend, TypeOK, serverVars, history
<1>4. ASSUME NEW datagram \in net, ClientReceive(a, datagram) PROVE TypeOK'
  <2>1. ReadPacket(client[a], datagram.packet) \in Inners
    BY <1>1, ReadPacketType DEF TypeOK
  <2> DEFINE read == ReadPacket(client[a], datagram.packet)
             next == [read EXCEPT !.unordered = << >>, !.ordered = << >>]
  <2>2. next \in Inners  BY <2>1, EmptiedType
  <2>3. client' = [client EXCEPT ![a] = next]  BY <1>4 DEF ClientReceive
  <2> HIDE DEF next
  <2>4. client' \in [Client -> Inners]  BY <2>2, <2>3 DEF TypeOK
  <2>5. read.unordered \in Seq(Messages) /\ read.ordered \in Seq(Messages)  BY <2>1 DEF Inners
  <2>6. /\ heard' = [heard EXCEPT ![a] = @ (+) ToBag(read.unordered)]
        /\ heardOrdered' = [heardOrdered EXCEPT ![a] = @ \o read.ordered]
    BY <1>4 DEF ClientReceive
  <2> HIDE DEF read
  <2>7. DOMAIN heard' = Client /\ \A b \in Client : IsABag(heard'[b])
    <3>1. IsABag(heard[a] (+) ToBag(read.unordered))  BY <2>5, BagType DEF TypeOK
    <3>2. QED BY <2>6, <3>1 DEF TypeOK
  <2>8. heardOrdered' \in [Client -> Seq(Messages)]
    <3>1. heardOrdered[a] \o read.ordered \in Seq(Messages)  BY <2>5 DEF TypeOK
    <3>2. QED BY <2>6, <3>1 DEF TypeOK
  <2>9. QED BY <1>4, <2>4, <2>7, <2>8 DEF ClientReceive, TypeOK, serverVars
<1>5. ASSUME ClientRestart(a) PROVE TypeOK'
  <2>1. client' \in [Client -> Inners]  BY <1>5, NewInnerType DEF ClientRestart, TypeOK
  <2>2. restarts' \in [Client -> Nat]  BY <1>5 DEF ClientRestart, TypeOK
  <2>3. QED BY <1>5, <2>1, <2>2 DEF ClientRestart, TypeOK, serverVars
<1>6. QED BY <1>2, <1>3, <1>4, <1>5 DEF ClientSteps

\* multi.rs:218-219: entry, and or_default.
LEMMA EntryType ==
    ASSUME TypeOK, NEW a PROVE Entry(a) \in Inners
BY NewInnerType DEF Entry, TypeOK

LEMMA WithEntryType ==
    ASSUME TypeOK, NEW a \in Client, NEW inner \in Inners, coms' = WithEntry(a, inner)
    PROVE  DOMAIN coms' \subseteq Client /\ coms' \in [DOMAIN coms' -> Inners]
BY DEF TypeOK, WithEntry

LEMMA EntriesType ==
    ASSUME TypeOK, NEW a \in Client, NEW read \in Seq(Messages)
    PROVE  Entries(a, read) \in Seq(LogEntries)
<1>1. Len(read) \in Nat /\ DOMAIN read = 1 .. Len(read)  OBVIOUS
<1>2. \A k \in DOMAIN read : read[k] \in Messages  OBVIOUS
<1>3. \A k \in DOMAIN read :
          [from |-> a, message |-> read[k], life |-> removals[a]] \in LogEntries
  BY <1>2 DEF LogEntries, TypeOK
<1>4. QED BY <1>1, <1>3 DEF Entries

\* multi.rs:209-245: reading one datagram.
LEMMA HandleType ==
    ASSUME TypeOK, NEW datagram \in net, datagram.to = Server,
           NEW intact \in BOOLEAN, Handle(datagram, intact)
    PROVE  /\ DOMAIN coms' \subseteq Client /\ coms' \in [DOMAIN coms' -> Inners]
           /\ requests' \in Seq(Requests)
           /\ log' \in Seq(LogEntries)
           /\ owed' \in [Client -> Lines]
<1> DEFINE a     == datagram.from
           inner == IF intact THEN ReadPacket(Entry(a), datagram.packet) ELSE Entry(a)
           read  == inner.unordered \o inner.ordered
           empty == [inner EXCEPT !.unordered = << >>, !.ordered = << >>]
           answered == [empty EXCEPT !.sendQueue["reliable"] = @ \o read]
<1>1. a \in Client /\ datagram.packet \in Packets  BY MultiAssumption DEF TypeOK
<1>2. inner \in Inners  BY <1>1, EntryType, ReadPacketType
<1>3. requests \in Seq(Requests) /\ log \in Seq(LogEntries) /\ removals[a] \in Nat
  BY <1>1 DEF TypeOK
<1>4. \/ coms' = WithEntry(a, inner) /\ UNCHANGED <<requests, log, owed>>
      \/ /\ coms' = WithEntry(a, answered)
         /\ log' = log \o Entries(a, read)
         /\ owed' = [owed EXCEPT ![a]["reliable"] = @ \o read]
         /\ UNCHANGED requests
      \/ /\ coms' = WithEntry(a, empty)
         /\ requests' = requests \o [k \in DOMAIN read |-> Request(a, read[k])]
         /\ log' = log \o Entries(a, read)
         /\ UNCHANGED owed
  BY Zenon DEF Handle
<1> HIDE DEF a, inner
<1>5. read \in Seq(Messages)
  <2>1. inner.unordered \in Seq(Messages) /\ inner.ordered \in Seq(Messages)  BY <1>2 DEF Inners
  <2>2. QED BY <2>1
<1> HIDE DEF read
<1>6. empty \in Inners  BY <1>2, EmptiedType
<1>7. answered \in Inners
  <2> DEFINE q == [inner.sendQueue EXCEPT !["reliable"] = @ \o read]
  <2>1. q \in [Channel -> Seq(Messages)]
    <3>1. inner.sendQueue \in [Channel -> Seq(Messages)]  BY <1>2 DEF Inners
    <3>2. inner.sendQueue["reliable"] \o read \in Seq(Messages)  BY <1>5, <3>1 DEF Channel
    <3>3. QED BY <3>1, <3>2
  <2>2. answered = [empty EXCEPT !.sendQueue = q]  BY <1>2 DEF Inners
  <2> HIDE DEF q, empty
  <2>3. QED BY <1>6, <2>1, <2>2 DEF Inners
<1>8. Entries(a, read) \in Seq(LogEntries)  BY <1>1, <1>5, EntriesType
<1>9. [k \in DOMAIN read |-> Request(a, read[k])] \in Seq(Requests)
  <2>1. Len(read) \in Nat /\ DOMAIN read = 1 .. Len(read)  BY <1>5
  <2>2. \A k \in DOMAIN read : read[k] \in Messages  BY <1>5
  <2>3. \A k \in DOMAIN read : Request(a, read[k]) \in Requests
    BY <1>1, <2>2 DEF Request, Requests, Channel
  <2>4. QED BY <2>1, <2>3
<1>10. log \o Entries(a, read) \in Seq(LogEntries)  BY <1>3, <1>8
<1>11. requests \o [k \in DOMAIN read |-> Request(a, read[k])] \in Seq(Requests)
  BY <1>3, <1>9
<1> HIDE DEF empty, answered
<1>12. DOMAIN coms' \subseteq Client /\ coms' \in [DOMAIN coms' -> Inners]
  BY <1>1, <1>2, <1>4, <1>6, <1>7, WithEntryType
<1>13. owed' \in [Client -> Lines]
  <2>1. owed \in [Client -> Lines] /\ owed[a] \in [Channel -> Seq(Messages)]
    BY <1>1 DEF TypeOK, Lines
  <2> DEFINE line == [owed[a] EXCEPT !["reliable"] = @ \o read]
  <2>2. line \in Lines
    <3>1. owed[a]["reliable"] \o read \in Seq(Messages)  BY <1>5, <2>1 DEF Channel
    <3>2. QED BY <2>1, <3>1 DEF Lines
  <2>3. UNCHANGED owed \/ owed' = [owed EXCEPT ![a] = line]  BY <1>1, <1>4, <2>1
  <2> HIDE DEF line
  <2>4. QED BY <1>1, <2>1, <2>2, <2>3
<1>14. QED BY <1>3, <1>4, <1>10, <1>11, <1>12, <1>13

\* debug.rs:45-55: what swap_remove leaves is part of what it was given.
LEMMA SwapRemoveType ==
    ASSUME NEW S, NEW s \in Seq(S), NEW i \in DOMAIN s
    PROVE  SwapRemove(s, i) \in Seq(S) /\ Len(SwapRemove(s, i)) = Len(s) - 1
<1>1. Len(s) \in Nat \ {0} /\ DOMAIN s = 1 .. Len(s)  OBVIOUS
<1>2. ASSUME NEW k \in 1 .. Len(s) - 1
      PROVE  (IF k = i THEN s[Len(s)] ELSE s[k]) \in S
  BY <1>1
<1>3. SwapRemove(s, i) = [k \in 1 .. Len(s) - 1 |-> IF k = i THEN s[Len(s)] ELSE s[k]]
  BY DEF SwapRemove
<1>4. Len(s) - 1 \in Nat  BY <1>1
<1>5. SwapRemove(s, i) \in [1 .. Len(s) - 1 -> S]
  BY <1>2, <1>3
<1>6. QED BY <1>4, <1>5

\* multi.rs:145-260: recv, with what fake_delay puts in between.
LEMMA RecvType ==
    ASSUME TypeOK,
           \/ \E datagram \in net, intact \in BOOLEAN : ReceiveDatagram(datagram, intact)
           \/ \E datagram \in net : DelayPacket(datagram)
           \/ \E i \in DOMAIN delayed, intact \in BOOLEAN : ReceiveDelayed(i, intact)
           \/ Finish
    PROVE  TypeOK'
<1> DEFINE Late == {d \in net : d.to = Server}
<1>1. ASSUME NEW datagram \in net, NEW intact \in BOOLEAN, ReceiveDatagram(datagram, intact)
      PROVE  TypeOK'
  <2>1. datagram.to = Server /\ Handle(datagram, intact)  BY <1>1 DEF ReceiveDatagram
  <2>2. /\ DOMAIN coms' \subseteq Client /\ coms' \in [DOMAIN coms' -> Inners]
        /\ requests' \in Seq(Requests)
        /\ log' \in Seq(LogEntries)
        /\ owed' \in [Client -> Lines]
    BY <2>1, HandleType
  <2>3. QED BY <1>1, <2>2 DEF ReceiveDatagram, TypeOK
<1>2. ASSUME NEW datagram \in net, DelayPacket(datagram) PROVE TypeOK'
  <2>1. delayed \in Seq(Late) /\ datagram \in Late  BY <1>2 DEF DelayPacket, TypeOK
  <2> HIDE DEF Late
  <2>2. Append(delayed, datagram) \in Seq(Late) /\ Len(Append(delayed, datagram)) = Len(delayed) + 1
    BY <2>1
  <2>3. delayed' \in Seq(Late) /\ Len(delayed') <= MaxDelayed
    <3>1. Len(delayed) \in Nat  BY <2>1
    <3>2. QED BY <1>2, <2>2, <3>1, MultiAssumption DEF DelayPacket
  <2>4. delayed' \in Seq({d \in net' : d.to = Server})  BY <1>2, <2>3 DEF DelayPacket, Late
  <2>5. QED BY <1>2, <2>3, <2>4 DEF DelayPacket, TypeOK, history
<1>3. ASSUME NEW i \in DOMAIN delayed, NEW intact \in BOOLEAN, ReceiveDelayed(i, intact)
      PROVE  TypeOK'
  <2>1. delayed \in Seq(Late)  BY DEF TypeOK
  <2>2. delayed[i] \in Late
    <3> HIDE DEF Late
    <3>1. QED BY <2>1
  <2>3. SwapRemove(delayed, i) \in Seq(Late) /\ Len(SwapRemove(delayed, i)) = Len(delayed) - 1
    <3> HIDE DEF Late
    <3>1. QED BY <2>1, SwapRemoveType
  <2>4. delayed' \in Seq({d \in net' : d.to = Server})  BY <1>3, <2>3 DEF ReceiveDelayed
  <2>5. Len(delayed') <= MaxDelayed
    <3>1. Len(delayed) \in Nat /\ Len(delayed) <= MaxDelayed /\ MaxDelayed \in Nat
      BY <2>1, MultiAssumption DEF TypeOK
    <3>2. QED BY <1>3, <2>3, <3>1 DEF ReceiveDelayed
  <2>6. /\ DOMAIN coms' \subseteq Client /\ coms' \in [DOMAIN coms' -> Inners]
        /\ requests' \in Seq(Requests)
        /\ log' \in Seq(LogEntries)
        /\ owed' \in [Client -> Lines]
    <3>1. Handle(delayed[i], intact)  BY <1>3 DEF ReceiveDelayed
    <3>2. QED BY <2>2, <3>1, HandleType
  <2>7. QED BY <1>3, <2>4, <2>5, <2>6 DEF ReceiveDelayed, TypeOK
<1>4. ASSUME Finish PROVE TypeOK'
  <2>1. requests \in Seq(Requests) /\ coms \in [DOMAIN coms -> Inners]  BY DEF TypeOK
  <2>2. Finished(coms) \in [DOMAIN coms -> Inners]  BY <2>1, FinishedType
  <2>3. DOMAIN coms' = DOMAIN coms /\ coms' \in [DOMAIN coms -> Inners]
    BY <1>4, <2>2 DEF Finish
  <2>4. requests' \in Seq(Requests) /\ requests' = << >>  BY <1>4 DEF Finish
  <2>5. owed' \in [Client -> Lines]
    <3>1. owed \in [Client -> Lines]  BY DEF TypeOK
    <3>2. owed' = OwedFinally  BY <1>4 DEF Finish
    <3>3. QED BY <2>1, <3>1, <3>2, OwedFinallyType
  <2>6. QED BY <1>4, <2>3, <2>4, <2>5 DEF Finish, TypeOK
<1>5. QED BY <1>1, <1>2, <1>3, <1>4

\* multi.rs:112-143, 183-207, 263-347: the other methods of the server.
LEMMA OtherMethodsType ==
    ASSUME TypeOK,
           \/ \E a \in Client : Connect(a) \/ RemoveConnection(a)
           \/ \E to \in SUBSET Client : ServerWrite(to)
           \/ ReadAll
           \/ ServerSends
    PROVE  TypeOK'
<1>1. ASSUME NEW a \in Client, Connect(a) PROVE TypeOK'
  <2>1. DOMAIN coms' \subseteq Client /\ coms' \in [DOMAIN coms' -> Inners]
    BY <1>1, EntryType, WithEntryType DEF Connect
  <2>2. QED BY <1>1, <2>1 DEF Connect, TypeOK, history
<1>2. ASSUME NEW a \in Client, RemoveConnection(a) PROVE TypeOK'
  <2>1. DOMAIN coms' \subseteq Client /\ coms' \in [DOMAIN coms' -> Inners]
    BY <1>2 DEF RemoveConnection, TypeOK
  <2>2. removals' \in [Client -> Nat]  BY <1>2 DEF RemoveConnection, TypeOK
  <2>3. owed' \in [Client -> Lines]
    <3>1. << >> \in Seq(Messages)  OBVIOUS
    <3>2. NoLines \in Lines  BY <3>1 DEF NoLines, Lines
    <3>3. owed' = [owed EXCEPT ![a] = NoLines]  BY <1>2 DEF RemoveConnection
    <3>4. QED BY <3>2, <3>3 DEF TypeOK
  <2>4. owedBefore' \in [Client -> Seq(Lines)]
    <3>1. owedBefore[a] \in Seq(Lines) /\ owed[a] \in Lines  BY DEF TypeOK
    <3>2. Append(owedBefore[a], owed[a]) \in Seq(Lines)  BY <3>1
    <3>3. owedBefore' = [owedBefore EXCEPT ![a] = Append(@, owed[a])]
      BY <1>2 DEF RemoveConnection
    <3>4. QED BY <3>2, <3>3 DEF TypeOK
  <2>5. QED BY <1>2, <2>1, <2>2, <2>3, <2>4 DEF RemoveConnection, TypeOK
<1>3. ASSUME NEW to \in SUBSET Client, ServerWrite(to) PROVE TypeOK'
  <2> DEFINE m == Message(Server, "reliable")
  <2>1. m \in Messages  BY MessageType DEF Channel
  <2> HIDE DEF m
  <2>2. \A a \in DOMAIN coms : Enqueue(coms[a], "reliable", m) \in Inners
    BY <2>1, EnqueueType DEF TypeOK, SameButQueue, Channel
  <2>3. coms' = [a \in DOMAIN coms |->
                    IF a \in to THEN Enqueue(coms[a], "reliable", m) ELSE coms[a]]
    BY <1>3 DEF ServerWrite, m
  <2>4. DOMAIN coms' \subseteq Client /\ coms' \in [DOMAIN coms' -> Inners]
    BY <2>2, <2>3 DEF TypeOK
  <2>5. written' \in [Client \cup {Server} -> [Channel -> Nat]]
    <3>1. written[Server] \in [Channel -> Nat] /\ written[Server]["reliable"] + 1 \in Nat
      BY DEF TypeOK, Channel
    <3>2. [written[Server] EXCEPT !["reliable"] = @ + 1] \in [Channel -> Nat]  BY <3>1
    <3>3. written' = [written EXCEPT ![Server] = [written[Server] EXCEPT !["reliable"] = @ + 1]]
      BY <1>3 DEF ServerWrite, TypeOK
    <3>4. QED BY <3>2, <3>3 DEF TypeOK
  <2>6. owed' \in [Client -> Lines]
    <3>1. ASSUME NEW a \in Client PROVE [owed[a] EXCEPT !["reliable"] = Append(@, m)] \in Lines
      <4>1. owed[a] \in [Channel -> Seq(Messages)]  BY DEF TypeOK, Lines
      <4>2. Append(owed[a]["reliable"], m) \in Seq(Messages)  BY <2>1, <4>1 DEF Channel
      <4>3. QED BY <4>1, <4>2 DEF Lines
    <3>2. owed' = [a \in Client |->
                      IF a \in to THEN [owed[a] EXCEPT !["reliable"] = Append(@, m)] ELSE owed[a]]
      BY <1>3 DEF ServerWrite, m
    <3>3. QED BY <3>1, <3>2 DEF TypeOK
  <2>7. QED BY <1>3, <2>4, <2>5, <2>6 DEF ServerWrite, TypeOK
<1>4. ASSUME ReadAll PROVE TypeOK'
  <2>1. PICK a \in DOMAIN coms :
           LET read == coms[a].unordered \o coms[a].ordered
           IN  /\ coms' = [coms EXCEPT ![a].unordered = << >>, ![a].ordered = << >>]
               /\ log' = log \o Entries(a, read)
    BY <1>4 DEF ReadAll
  <2> DEFINE read == coms[a].unordered \o coms[a].ordered
             next == [coms[a] EXCEPT !.unordered = << >>, !.ordered = << >>]
  <2>2. a \in Client /\ coms[a] \in Inners  BY DEF TypeOK
  <2>3. next \in Inners  BY <2>2, EmptiedType
  <2>4. coms' = [coms EXCEPT ![a] = next]
    BY <2>1, <2>2 DEF TypeOK, Inners
  <2> HIDE DEF next
  <2>5. DOMAIN coms' \subseteq Client /\ coms' \in [DOMAIN coms' -> Inners]
    BY <2>3, <2>4 DEF TypeOK
  <2>6. log' \in Seq(LogEntries)
    <3>1. read \in Seq(Messages)
      <4>1. coms[a].unordered \in Seq(Messages) /\ coms[a].ordered \in Seq(Messages)
        BY <2>2 DEF Inners
      <4>2. QED BY <4>1
    <3>2. Entries(a, read) \in Seq(LogEntries)  BY <2>2, <3>1, EntriesType
    <3>3. log \in Seq(LogEntries) /\ log' = log \o Entries(a, read)  BY <2>1 DEF TypeOK
    <3> HIDE DEF read
    <3>4. QED BY <3>2, <3>3
  <2>7. QED BY <1>4, <2>5, <2>6 DEF ReadAll, TypeOK
<1>5. ASSUME NEW due, ServerSend(due) PROVE TypeOK'
  <2> DEFINE dueOn(a) == {<<d[2], d[3]>> : d \in {e \in due : e[1] = a}}
             of(a) == Datagrams(Server, a, Outgoing(coms[a], dueOn(a)))
             sent == UNION {of(a) : a \in DOMAIN coms}
  <2> HIDE DEF dueOn
  <2>1. ASSUME NEW a \in DOMAIN coms
        PROVE  AfterSend(coms[a], dueOn(a)) \in Inners /\ Outgoing(coms[a], dueOn(a)) \subseteq Packets
    BY SendTypes DEF TypeOK
  <2>2. /\ coms' = [a \in DOMAIN coms |-> AfterSend(coms[a], dueOn(a))]
        /\ net' = net \cup sent
    BY <1>5 DEF ServerSend, dueOn
  <2>3. DOMAIN coms' \subseteq Client /\ coms' \in [DOMAIN coms' -> Inners]
    BY <2>1, <2>2 DEF TypeOK
  <2>4. ASSUME NEW a \in DOMAIN coms, NEW d \in of(a)
        PROVE  d.packet \in Packets /\ d.from = Server /\ d.to \in Client
    BY <2>1 DEF Datagrams, TypeOK
  <2> HIDE DEF of
  <2>5. ASSUME NEW d \in net'
        PROVE  /\ d.packet \in Packets
               /\ d.from \in Client \cup {Server}
               /\ IF d.from = Server THEN d.to \in Client ELSE d.to = Server
    <3>1. CASE d \in net  BY <3>1 DEF TypeOK
    <3>2. CASE d \in sent  BY <2>4, <3>2
    <3>3. QED BY <2>2, <3>1, <3>2
  <2>6. delayed' \in Seq({d \in net' : d.to = Server})
    BY <1>5, <2>2, DelayedKept DEF TypeOK, ServerSend
  <2>7. QED BY <1>5, <2>3, <2>5, <2>6 DEF ServerSend, TypeOK, history
<1>6. QED BY <1>1, <1>2, <1>3, <1>4, <1>5 DEF ServerSends

\* multi.rs:9-32, 145-148: the map of connections is to clients only, every
\* communicator in it, and every client's, keeps the types of its fields whatever
\* is called and whatever arrives, and what the callbacks of recv asked for is
\* empty whenever recv has ended.
THEOREM MultiTypeCorrect == Spec => []TypeOK
<1>1. TypeOK /\ [Next]_vars => TypeOK'
  <2> SUFFICES ASSUME TypeOK, [Next]_vars PROVE TypeOK'
    OBVIOUS
  <2>1. CASE ServerSteps
    BY <2>1, RecvType, OtherMethodsType DEF ServerSteps
  <2>2. CASE \E a \in Client : ClientSteps(a)
    BY <2>2, ClientStepType
  <2>3. CASE UNCHANGED vars
    BY <2>3 DEF TypeOK, vars, serverVars, history
  <2>4. QED BY <2>1, <2>2, <2>3 DEF Next
<1>2. QED BY <1>1, InitType, PTL DEF Spec

-----------------------------------------------------------------------------
(* A ring knows the packets it was given, as long as ids do not wrap.      *)

TooOld(ring, i) == WrappingGt(WrappingSub(ring.newest, NumItems - 1), i, 2 * NumItems)

LEMMA KnownIsRefused ==
    ASSUME NEW Item, NEW ring \in Rings(Item), NEW bound \in Nat, bound < U16 - NumItems,
           NEW i \in Index, i < bound,
           ring.newest = LastIndex \/ ring.newest < bound,
           Known(ring, i)
    PROVE  Get(ring, i) # None \/ TooOld(ring, i)
<1>1. /\ ring.newest \in Nat /\ i \in Nat /\ i <= ring.newest /\ ring.newest < bound
      /\ NumItems \in Nat \ {0} /\ U16 \in Nat /\ 4 * NumItems <= U16
  BY U16Assumption, RingAssumption DEF Known, Rings, Index
<1>2. CASE ring.newest < i + NumItems  BY <1>2 DEF Known
<1>3. CASE ~ (ring.newest < i + NumItems)
  <2>1. WrappingSub(ring.newest, NumItems - 1) = ring.newest - (NumItems - 1)
    BY <1>1, <1>3 DEF WrappingSub
  <2>2. TooOld(ring, i)
    BY <1>1, <1>3, <2>1 DEF TooOld, WrappingGt, AcrossWrap, LastIndex
  <2>3. QED BY <2>2
<1>4. QED BY <1>2, <1>3

\* ring_buffer.rs:53-92, inner.rs:181-213: what is not refused is stored, and
\* then the ring knows it and all that it knew before.
LEMMA KnownAfterInsert ==
    ASSUME NEW Item, None \notin Item, NEW ring \in Rings(Item), NEW item \in Item,
           NEW bound \in Nat, bound < U16 - NumItems,
           NEW i \in Index, i < bound,
           ring.newest = LastIndex \/ ring.newest < bound,
           Get(ring, i) = None, ~ TooOld(ring, i)
    PROVE  LET next == Insert(ring, i, item)
           IN  /\ next.newest < bound
               /\ Known(next, i)
               /\ \A j \in Index : Known(ring, j) => Known(next, j)
               /\ \A j \in Index : Get(next, j) # None =>
                     \/ j = i /\ Get(next, j) = item
                     \/ Get(next, j) = Get(ring, j)
<1> DEFINE next == Insert(ring, i, item)
           w == ring.newest
           new == IF InWindow(ring, i) THEN w ELSE i
<1>1. /\ w \in Nat /\ i \in Nat /\ w <= LastIndex
      /\ NumItems \in Nat \ {0} /\ U16 \in Nat /\ 4 * NumItems <= U16 /\ LastIndex = U16 - 1
  BY U16Assumption, RingAssumption DEF Rings, Index, LastIndex
<1>2. /\ next.newest = new
      /\ \A j \in Index :
            Get(next, j) = IF j = i THEN item
                           ELSE IF WrappingSub(new, j) < NumItems THEN Get(ring, j) ELSE None
  BY GetAfterInsert
<1>3. item # None  OBVIOUS
<1> HIDE DEF next
<1>4. CASE w = LastIndex
  <2>1. new = i  BY <1>1, <1>4 DEF InWindow, WrappingSub
  <2>2. \A j \in Index : ~ Known(ring, j)  BY <1>4 DEF Known
  <2>3. Known(next, i)  BY <1>1, <1>2, <1>3, <2>1 DEF Known
  <2>4. QED BY <1>2, <2>1, <2>2, <2>3 DEF next
<1>5. CASE w # LastIndex
  <2>1. w < bound  BY <1>5
  <2>2. CASE InWindow(ring, i)
    <3>1. new = w /\ i <= w /\ w < i + NumItems
      BY <1>1, <2>1, <2>2 DEF InWindow, WrappingSub
    <3>2. Known(next, i)  BY <1>2, <1>3, <1>5, <3>1 DEF Known
    <3>3. ASSUME NEW j \in Index, Known(ring, j) PROVE Known(next, j)
      <4>1. j \in Nat /\ j <= w  BY <3>3, U16Assumption DEF Known, Index
      <4>2. w < j + NumItems => WrappingSub(w, j) < NumItems
        BY <1>1, <4>1 DEF WrappingSub
      <4>3. w < j + NumItems => Get(next, j) # None
        BY <1>2, <1>3, <3>1, <3>3, <4>2 DEF Known
      <4>4. QED BY <1>2, <1>5, <3>1, <4>1, <4>3 DEF Known
    <3>4. QED BY <1>2, <2>1, <3>1, <3>2, <3>3 DEF next
  <2>3. CASE ~ InWindow(ring, i)
    <3>1. new = i /\ i > w
      <4>1. WrappingSub(w, i) >= NumItems
        BY <1>1, <2>3 DEF InWindow, WrappingSub
      <4>2. SUFFICES ASSUME i <= w PROVE FALSE  BY <1>1, <2>3
      <4>3. w >= i + NumItems  BY <1>1, <4>1, <4>2 DEF WrappingSub
      <4>4. WrappingSub(w, NumItems - 1) = w - (NumItems - 1)
        BY <1>1, <4>3 DEF WrappingSub
      <4>5. TooOld(ring, i)
        BY <1>1, <2>1, <4>3, <4>4 DEF TooOld, WrappingGt, AcrossWrap
      <4>6. QED BY <4>5
    <3>2. Known(next, i)  BY <1>1, <1>2, <1>3, <3>1 DEF Known
    <3>3. ASSUME NEW j \in Index, Known(ring, j) PROVE Known(next, j)
      <4>1. j \in Nat /\ j <= w  BY <3>3, U16Assumption DEF Known, Index
      <4>2. i < j + NumItems => w < j + NumItems /\ WrappingSub(i, j) < NumItems
        BY <1>1, <3>1, <4>1 DEF WrappingSub
      <4>3. i < j + NumItems => Get(next, j) # None
        BY <1>2, <1>3, <3>1, <3>3, <4>2 DEF Known
      <4>4. j <= i /\ i # LastIndex  BY <1>1, <3>1, <4>1
      <4>5. QED BY <1>2, <3>1, <4>3, <4>4 DEF Known
    <3>4. QED BY <1>2, <3>1, <3>2, <3>3 DEF next
  <2>4. QED BY <2>2, <2>3
<1>6. QED BY <1>4, <1>5

-----------------------------------------------------------------------------
(* One connection reads a packet.                                          *)

\* An element of a concatenation is one of the two sequences.
LEMMA OfConcat ==
    ASSUME NEW S, NEW s \in Seq(S), NEW t \in Seq(S)
    PROVE  /\ s \o t \in Seq(S)
           /\ \A k \in DOMAIN (s \o t) :
                 \/ k \in DOMAIN s /\ (s \o t)[k] = s[k]
                 \/ k - Len(s) \in DOMAIN t /\ (s \o t)[k] = t[k - Len(s)]
           /\ \A k \in DOMAIN s : k \in DOMAIN (s \o t) /\ (s \o t)[k] = s[k]
           /\ \A k \in DOMAIN t : k + Len(s) \in DOMAIN (s \o t) /\ (s \o t)[k + Len(s)] = t[k]
<1>1. /\ Len(s) \in Nat /\ DOMAIN s = 1 .. Len(s)
      /\ Len(t) \in Nat /\ DOMAIN t = 1 .. Len(t)
      /\ Len(s \o t) = Len(s) + Len(t) /\ s \o t \in Seq(S)
  OBVIOUS
<1>2. DOMAIN (s \o t) = 1 .. Len(s) + Len(t)  BY <1>1
<1>3. \A k \in 1 .. Len(s) + Len(t) : (s \o t)[k] = IF k <= Len(s) THEN s[k] ELSE t[k - Len(s)]
  OBVIOUS
<1>4. QED BY <1>1, <1>2, <1>3

LEMMA DistinctConcat ==
    ASSUME NEW S, NEW s \in Seq(S), NEW t \in Seq(S), Distinct(s), Distinct(t),
           \A j \in DOMAIN s, k \in DOMAIN t : s[j] # t[k]
    PROVE  Distinct(s \o t)
<1>1. ASSUME NEW j \in DOMAIN (s \o t), NEW k \in DOMAIN (s \o t), (s \o t)[j] = (s \o t)[k]
      PROVE  j = k
  <2>1. j \in Nat /\ k \in Nat /\ Len(s) \in Nat  OBVIOUS
  <2>2. /\ \/ j \in DOMAIN s /\ (s \o t)[j] = s[j]
           \/ j - Len(s) \in DOMAIN t /\ (s \o t)[j] = t[j - Len(s)]
        /\ \/ k \in DOMAIN s /\ (s \o t)[k] = s[k]
           \/ k - Len(s) \in DOMAIN t /\ (s \o t)[k] = t[k - Len(s)]
    BY OfConcat
  <2>3. CASE j \in DOMAIN s /\ k \in DOMAIN s /\ s[j] = s[k]  BY <2>3 DEF Distinct
  <2>4. CASE j - Len(s) \in DOMAIN t /\ k - Len(s) \in DOMAIN t /\ t[j - Len(s)] = t[k - Len(s)]
    BY <2>1, <2>4 DEF Distinct
  <2>5. QED BY <1>1, <2>2, <2>3, <2>4
<1>2. QED BY <1>1 DEF Distinct

\* A message has one id.
LEMMA OneId ==
    ASSUME NEW P, NEW a, NEW bound, Numbered(P, a, bound),
           NEW p \in P, NEW q \in P, p.content = q.content
    PROVE  p.channel = q.channel /\ p.sequenceId = q.sequenceId
<1>1. PICK n : p.content = <<[from |-> a, channel |-> p.channel, number |-> n]>>
  BY Zenon DEF Numbered
<1>2. PICK k : q.content = <<[from |-> a, channel |-> q.channel, number |-> k]>>
  BY Zenon DEF Numbered
<1> DEFINE m == [from |-> a, channel |-> p.channel, number |-> n]
           l == [from |-> a, channel |-> q.channel, number |-> k]
<1>3. m.channel = p.channel /\ l.channel = q.channel  OBVIOUS
<1> HIDE DEF m, l
<1>4. <<m>> = <<l>>  BY <1>1, <1>2 DEF m, l
<1>5. m = l  BY <1>4
<1>6. QED BY <1>3, <1>5 DEF Numbered

\* What a connection has delivered stays delivered, and what waits for a reader
\* now was waiting before or had not been delivered.
StaysDelivered(inner, next, P) ==
    \A m : Delivered(inner, P, m) => Delivered(next, P, m)

OldOrNew(queue, longer, inner, P) ==
    \A k \in DOMAIN longer : \/ \E j \in DOMAIN queue : longer[k] = queue[j]
                             \/ ~ Delivered(inner, P, longer[k])

Progress(inner, next, P) ==
    /\ StaysDelivered(inner, next, P)
    /\ OldOrNew(inner.unordered, next.unordered, inner, P)
    /\ OldOrNew(inner.ordered, next.ordered, inner, P)

LEMMA SameReads ==
    ASSUME NEW inner, NEW next, NEW P, NEW bound, Reads(inner, P, bound),
           next.received = inner.received, next.head = inner.head,
           next.unordered = inner.unordered, next.ordered = inner.ordered
    PROVE  Reads(next, P, bound) /\ Progress(inner, next, P)
<1>1. \A m : Delivered(inner, P, m) <=> Delivered(next, P, m)
  BY DEF Delivered
<1>2. Waits(next.unordered, "reliable", next, P) /\ Waits(next.ordered, "ordered", next, P)
  BY <1>1 DEF Reads, Waits
<1>3. Reads(next, P, bound)
  BY <1>2 DEF Reads
<1>4. Progress(inner, next, P)
  BY <1>1 DEF Progress, StaysDelivered, OldOrNew
<1>5. QED BY <1>3, <1>4

\* The messages that a packet delivers.
News(more, c, inner, next, P) ==
    /\ Distinct(more)
    /\ \A k \in DOMAIN more : /\ more[k].channel = c
                              /\ Delivered(next, P, more[k])
                              /\ ~ Delivered(inner, P, more[k])

LEMMA WaitsLonger ==
    ASSUME NEW inner, NEW next, NEW P, NEW c, StaysDelivered(inner, next, P),
           NEW queue \in Seq(Messages), Waits(queue, c, inner, P),
           NEW more \in Seq(Messages), News(more, c, inner, next, P)
    PROVE  Waits(queue \o more, c, next, P) /\ OldOrNew(queue, queue \o more, inner, P)
<1>1. \A k \in DOMAIN (queue \o more) :
         \/ k \in DOMAIN queue /\ (queue \o more)[k] = queue[k]
         \/ k - Len(queue) \in DOMAIN more /\ (queue \o more)[k] = more[k - Len(queue)]
  BY OfConcat
<1>2. Distinct(queue \o more)
  <2>1. Distinct(queue) /\ \A j \in DOMAIN queue : Delivered(inner, P, queue[j])  BY DEF Waits
  <2>2. QED BY <2>1, DistinctConcat DEF News
<1>3. QED BY <1>1, <1>2 DEF Waits, News, StaysDelivered, OldOrNew

\* What the lemmas about read_packet assume of a connection, and of the packets P
\* of its client.
Reading(inner, P, a, bound) ==
    /\ inner \in Inners
    /\ P \subseteq Packets /\ \A q \in P : q.channel \in Channel
    /\ bound \in [Channel -> Nat] /\ \A c \in Channel : bound[c] < U16 - NumItems
    /\ Numbered(P, a, bound)
    /\ Reads(inner, P, bound)

\* inner.rs:181-237: a packet that is not refused is stored in its ring.
LEMMA StoresPacket ==
    ASSUME NEW inner, NEW P, NEW a, NEW bound, Reading(inner, P, a, bound),
           NEW p \in P, NEW c \in Channel, p.channel = c, ~ Refused(inner, p)
    PROVE  LET ring == inner.received[c]
               next == Insert(ring, p.sequenceId, p.content)
           IN  /\ p.sequenceId \in Index /\ p.content \in Contents
               /\ next \in Rings(Contents)
               /\ ReceivesWhatWasSent(next, P, c, bound[c])
               /\ ~ Known(ring, p.sequenceId)
               /\ Known(next, p.sequenceId)
               /\ \A j \in Index : Known(ring, j) => Known(next, j)
<1> DEFINE ring == inner.received[c]
           next == Insert(ring, p.sequenceId, p.content)
           i == p.sequenceId
<1>1. i \in Index /\ p.content \in Contents /\ p \in Packets  BY DEF Reading, Packets, Channel
<1>2. i < bound[c] /\ bound[c] \in Nat /\ bound[c] < U16 - NumItems
  BY DEF Reading, Numbered
<1>3. ring \in Rings(Contents)  BY DEF Reading, Inners
<1>4. ReceivesWhatWasSent(ring, P, c, bound[c])  BY DEF Reading, Reads
<1>5. ring.newest = LastIndex \/ ring.newest < bound[c]  BY <1>4 DEF ReceivesWhatWasSent
<1>6. Get(ring, i) = None /\ ~ TooOld(ring, i)  BY DEF Refused, TooOld
<1> HIDE DEF ring, i
<1>7. ~ Known(ring, i)  BY <1>1, <1>2, <1>3, <1>5, <1>6, KnownIsRefused
<1>8. next \in Rings(Contents)  BY <1>1, <1>3, InsertType DEF i
<1>9. /\ next.newest < bound[c]
      /\ Known(next, i)
      /\ \A j \in Index : Known(ring, j) => Known(next, j)
      /\ \A j \in Index : Get(next, j) # None =>
            \/ j = i /\ Get(next, j) = p.content
            \/ Get(next, j) = Get(ring, j)
  <2>1. None \notin Contents  BY NoneAssumption
  <2> HIDE DEF next
  <2>2. next = Insert(ring, i, p.content)  BY DEF next, i
  <2> HIDE DEF next
  <2>3. QED BY <1>1, <1>2, <1>3, <1>5, <1>6, <2>1, <2>2, KnownAfterInsert
<1> HIDE DEF next
<1>10. ReceivesWhatWasSent(next, P, c, bound[c])
  <2>1. ASSUME NEW j \in Index, Get(next, j) # None
        PROVE  \E q \in P : q.channel = c /\ q.sequenceId = j /\ q.content = Get(next, j)
    <3>1. CASE j = i /\ Get(next, j) = p.content  BY <3>1 DEF i
    <3>2. CASE Get(next, j) = Get(ring, j)  BY <1>4, <2>1, <3>2 DEF ReceivesWhatWasSent
    <3>3. QED BY <1>9, <2>1, <3>1, <3>2
  <2>2. QED BY <1>9, <2>1 DEF ReceivesWhatWasSent
<1>11. QED BY <1>1, <1>7, <1>8, <1>9, <1>10 DEF ring, next, i

\* inner.rs:225-242, the reliable channel.
LEMMA ReadReliableOnce ==
    ASSUME NEW inner, NEW P, NEW a, NEW bound, Reading(inner, P, a, bound),
           NEW p \in P, p.channel = "reliable", ~ Refused(inner, p)
    PROVE  /\ Reads(ReadReliable(inner, p), P, bound)
           /\ Progress(inner, ReadReliable(inner, p), P)
<1> DEFINE acked == Acknowledge(inner, p.ack)
           ring == inner.received["reliable"]
           stored == Insert(ring, p.sequenceId, p.content)
           received == [inner.received EXCEPT !["reliable"] = stored]
           unordered == inner.unordered \o p.content
           next == ReadReliable(inner, p)
<1>1. inner \in Inners /\ "reliable" \in Channel  BY DEF Reading, Channel
<1>2. /\ acked \in Inners /\ acked.received = inner.received /\ acked.head = inner.head
      /\ acked.unordered = inner.unordered /\ acked.ordered = inner.ordered
  BY <1>1, AcknowledgeType
<1>3. next = [acked EXCEPT !.received = received, !.unordered = unordered]
  BY <1>2 DEF ReadReliable, Inners
<1> HIDE DEF acked, received, unordered
<1>4. /\ next.received = received /\ next.head = inner.head
      /\ next.unordered = unordered /\ next.ordered = inner.ordered
  BY <1>2, <1>3 DEF Inners
<1> HIDE DEF next
<1>5. /\ p.sequenceId \in Index /\ p.content \in Contents
      /\ ReceivesWhatWasSent(stored, P, "reliable", bound["reliable"])
      /\ ~ Known(ring, p.sequenceId)
      /\ Known(stored, p.sequenceId)
      /\ \A j \in Index : Known(ring, j) => Known(stored, j)
  BY <1>1, StoresPacket
<1>6. /\ received["reliable"] = stored
      /\ \A c \in Channel : c # "reliable" => received[c] = inner.received[c]
  BY <1>1 DEF received, Inners
<1> HIDE DEF ring, stored
<1>7. \A q \in P : q.channel = "reliable" => q.sequenceId \in Index
  BY DEF Reading, Packets, Channel
<1>8. StaysDelivered(inner, next, P)
  <2> SUFFICES ASSUME NEW m, Delivered(inner, P, m) PROVE Delivered(next, P, m)
    BY DEF StaysDelivered
  <2>1. PICK q \in P : /\ q.content = <<m>>
                       /\ IF q.channel = "reliable" THEN Known(ring, q.sequenceId)
                          ELSE q.sequenceId < inner.head
    BY DEF Delivered, ring
  <2>2. IF q.channel = "reliable" THEN Known(next.received["reliable"], q.sequenceId)
        ELSE q.sequenceId < next.head
    BY <1>4, <1>5, <1>6, <1>7, <2>1
  <2>3. QED BY <2>1, <2>2 DEF Delivered
<1> DEFINE m == p.content[1]
<1>9. p.content = <<m>> /\ m.channel = "reliable" /\ p.content \in Seq(Messages)
  <2>1. PICK n : p.content = <<[from |-> a, channel |-> p.channel, number |-> n]>>
    BY Zenon DEF Reading, Numbered
  <2>2. QED BY <1>5, <2>1 DEF Contents
<1>10. Delivered(next, P, m)
  <2>1. Known(next.received["reliable"], p.sequenceId)  BY <1>4, <1>5, <1>6
  <2>2. QED BY <1>9, <2>1 DEF Delivered
<1>11. ~ Delivered(inner, P, m)
  <2>1. SUFFICES ASSUME Delivered(inner, P, m) PROVE FALSE  OBVIOUS
  <2>2. PICK q \in P : /\ q.content = <<m>>
                       /\ IF q.channel = "reliable" THEN Known(ring, q.sequenceId)
                          ELSE q.sequenceId < inner.head
    BY <2>1 DEF Delivered, ring
  <2>3. p.content = q.content  BY <1>9, <2>2
  <2>4. q.channel = p.channel /\ q.sequenceId = p.sequenceId
    BY <2>3, OneId DEF Reading
  <2>5. QED BY <1>5, <2>2, <2>4
<1> HIDE DEF m
<1>12. Waits(unordered, "reliable", next, P) /\ OldOrNew(inner.unordered, unordered, inner, P)
  <2>1. Waits(inner.unordered, "reliable", inner, P) /\ inner.unordered \in Seq(Messages)
    BY <1>1 DEF Reading, Reads, Inners
  <2>2. Distinct(p.content) /\ \A k \in DOMAIN p.content : p.content[k] = m
    BY <1>9 DEF Distinct
  <2>3. News(p.content, "reliable", inner, next, P)  BY <1>9, <1>10, <1>11, <2>2 DEF News
  <2>4. QED BY <1>8, <1>9, <2>1, <2>3, WaitsLonger DEF unordered
<1>13. Waits(next.ordered, "ordered", next, P)
  BY <1>4, <1>8 DEF Reading, Reads, Waits, StaysDelivered
<1>14. Reads(next, P, bound)
  <2>1. \A c \in Channel : ReceivesWhatWasSent(next.received[c], P, c, bound[c])
    BY <1>4, <1>5, <1>6 DEF Reading, Reads
  <2>2. next.head <= bound["ordered"]  BY <1>4 DEF Reading, Reads
  <2>3. QED BY <1>4, <1>12, <1>13, <2>1, <2>2 DEF Reads
<1>15. Progress(inner, next, P)
  <2>1. OldOrNew(inner.ordered, inner.ordered, inner, P)  BY DEF OldOrNew
  <2>2. QED BY <1>4, <1>8, <1>12, <2>1 DEF Progress
<1>16. QED BY <1>14, <1>15 DEF next

\* inner.rs:225-237, the ordered channel: the row of packets from the head on is
\* handed on, each with an id that the head had not passed.
LEMMA ReadOrderedOnce ==
    ASSUME NEW inner, NEW P, NEW a, NEW bound, Reading(inner, P, a, bound),
           NEW p \in P, p.channel = "ordered", ~ Refused(inner, p)
    PROVE  /\ Reads(ReadOrdered(inner, p), P, bound)
           /\ Progress(inner, ReadOrdered(inner, p), P)
<1> DEFINE acked == Acknowledge(inner, p.ack)
           stored == Insert(inner.received["ordered"], p.sequenceId, p.content)
           count == ReadyCount(stored, inner.head)
           ready == [j \in 1 .. count |-> Get(stored, WrappingAdd(inner.head, j - 1))[1]]
           received == [inner.received EXCEPT !["ordered"] = stored]
           ordered == inner.ordered \o ready
           next == ReadOrdered(inner, p)
           h == inner.head
           most == bound["ordered"]
<1>1. /\ inner \in Inners /\ "ordered" \in Channel /\ h \in Index /\ h <= most
      /\ most \in Nat /\ most < U16 - NumItems /\ h \in Nat /\ most \in Index
  BY U16Assumption, RingAssumption DEF Reading, Reads, Inners, Channel, Index
<1>2. /\ acked \in Inners /\ acked.received = inner.received /\ acked.head = h
      /\ acked.unordered = inner.unordered /\ acked.ordered = inner.ordered
  BY <1>1, AcknowledgeType
<1>3. next = [acked EXCEPT !.received = received, !.head = WrappingAdd(h, count),
                           !.ordered = ordered]
  BY <1>2 DEF ReadOrdered, Inners
<1> HIDE DEF acked, received, ordered
<1>4. /\ next.received = received /\ next.head = WrappingAdd(h, count)
      /\ next.unordered = inner.unordered /\ next.ordered = ordered
  BY <1>2, <1>3 DEF Inners
<1> HIDE DEF next
<1>5. stored \in Rings(Contents) /\ ReceivesWhatWasSent(stored, P, "ordered", most)
  BY <1>1, StoresPacket
<1>6. /\ received["ordered"] = stored
      /\ \A c \in Channel : c # "ordered" => received[c] = inner.received[c]
  BY <1>1 DEF received, Inners
<1> HIDE DEF stored
<1>7. /\ count \in 0 .. NumItems
      /\ \A j \in 0 .. count - 1 : Get(stored, WrappingAdd(h, j)) # None
  BY <1>1, <1>5, ReadyCountType
<1> HIDE DEF count
<1>8. ASSUME NEW i \in Index, Get(stored, i) # None
      PROVE  /\ i < most
             /\ \E q \in P : q.channel = "ordered" /\ q.sequenceId = i /\ q.content = Get(stored, i)
  <2>1. PICK q \in P : q.channel = "ordered" /\ q.sequenceId = i /\ q.content = Get(stored, i)
    BY <1>5, <1>8 DEF ReceivesWhatWasSent
  <2>2. q.sequenceId < most  BY <2>1 DEF Reading, Numbered
  <2>3. QED BY <2>1, <2>2
<1>9. /\ count \in Nat /\ NumItems \in Nat /\ count <= NumItems /\ h + count <= most
  <2>1. count \in Nat /\ NumItems \in Nat /\ count <= NumItems  BY <1>7, RingAssumption
  <2>2. SUFFICES ASSUME h + count > most PROVE FALSE  BY <1>1, <2>1
  <2> DEFINE j == most - h
  <2>3. j \in 0 .. count - 1 /\ WrappingAdd(h, j) = most
    BY <1>1, <2>1, <2>2, U16Assumption, RingAssumption DEF WrappingAdd
  <2>4. Get(stored, most) # None  BY <1>7, <2>3
  <2>5. QED BY <1>1, <1>8, <2>4
<1>10. ASSUME NEW j \in 1 .. count
       PROVE  /\ h + j - 1 \in Index /\ h + j - 1 \in Nat
              /\ \E q \in P : /\ q.channel = "ordered" /\ q.sequenceId = h + j - 1
                              /\ q.content = <<ready[j]>>
              /\ ready[j].channel = "ordered" /\ ready[j] \in Messages
  <2>1. /\ j - 1 \in 0 .. count - 1 /\ h + j - 1 \in Index /\ h + j - 1 \in Nat
        /\ WrappingAdd(h, j - 1) = h + j - 1
    BY <1>1, <1>9, U16Assumption, RingAssumption DEF WrappingAdd, Index
  <2> DEFINE i == h + j - 1
             content == Get(stored, i)
  <2>2. content # None  BY <1>7, <2>1
  <2>3. PICK q \in P : q.channel = "ordered" /\ q.sequenceId = i /\ q.content = content
    BY <1>8, <2>1, <2>2
  <2>4. ready[j] = content[1]  BY <2>1
  <2> HIDE DEF content, i, ready
  <2>5. PICK n : q.content = <<[from |-> a, channel |-> q.channel, number |-> n]>>
    BY Zenon DEF Reading, Numbered
  <2>6. q.content \in Contents  BY <2>3 DEF Reading, Packets, Channel
  <2>7. q.content = <<q.content[1]>> /\ q.content[1].channel = "ordered" /\ q.content[1] \in Messages
    BY <2>3, <2>5, <2>6 DEF Contents
  <2>8. QED BY <2>1, <2>3, <2>4, <2>7 DEF i
<1>11. next.head = h + count
  BY <1>1, <1>4, <1>9, U16Assumption, RingAssumption DEF WrappingAdd
<1>12. \A q \in P : q.sequenceId \in Nat
  BY U16Assumption DEF Reading, Packets, Channel, Index
<1>13. StaysDelivered(inner, next, P)
  <2> SUFFICES ASSUME NEW m, Delivered(inner, P, m) PROVE Delivered(next, P, m)
    BY DEF StaysDelivered
  <2>1. PICK q \in P : /\ q.content = <<m>>
                       /\ IF q.channel = "reliable"
                          THEN Known(inner.received["reliable"], q.sequenceId)
                          ELSE q.sequenceId < h
    BY DEF Delivered
  <2>2. next.received["reliable"] = inner.received["reliable"]
    BY <1>4, <1>6 DEF Channel
  <2>3. q.sequenceId < h => q.sequenceId < next.head  BY <1>1, <1>9, <1>11, <1>12
  <2>4. QED BY <2>1, <2>2, <2>3 DEF Delivered
<1>14. DOMAIN ready = 1 .. count /\ ready \in Seq(Messages)
  <2>1. ready \in [1 .. count -> Messages]  BY <1>10
  <2>2. QED BY <1>9, <2>1
<1> HIDE DEF ready
<1>15. News(ready, "ordered", inner, next, P)
  <2>1. ASSUME NEW j \in 1 .. count, NEW k \in 1 .. count, ready[j] = ready[k]
        PROVE  j = k
    <3>1. PICK q \in P : q.sequenceId = h + j - 1 /\ q.content = <<ready[j]>>  BY <1>10
    <3>2. PICK r \in P : r.sequenceId = h + k - 1 /\ r.content = <<ready[k]>>  BY <1>10
    <3>3. q.sequenceId = r.sequenceId
      <4>1. q.content = r.content  BY <2>1, <3>1, <3>2
      <4>2. QED BY <4>1, OneId DEF Reading
    <3>4. QED BY <1>1, <3>1, <3>2, <3>3
  <2>2. ASSUME NEW j \in 1 .. count
        PROVE  /\ ready[j].channel = "ordered"
               /\ Delivered(next, P, ready[j])
               /\ ~ Delivered(inner, P, ready[j])
    <3>1. PICK q \in P : q.channel = "ordered" /\ q.sequenceId = h + j - 1 /\ q.content = <<ready[j]>>
      BY <1>10
    <3>2. q.sequenceId < next.head /\ ~ (q.sequenceId < h)
      BY <1>1, <1>9, <1>11, <3>1
    <3>3. Delivered(next, P, ready[j])  BY <3>1, <3>2 DEF Delivered
    <3>4. ASSUME Delivered(inner, P, ready[j]) PROVE FALSE
      <4>1. PICK r \in P : /\ r.content = <<ready[j]>>
                           /\ IF r.channel = "reliable"
                              THEN Known(inner.received["reliable"], r.sequenceId)
                              ELSE r.sequenceId < h
        BY <3>4 DEF Delivered
      <4>2. r.content = q.content  BY <3>1, <4>1
      <4>3. r.channel = q.channel /\ r.sequenceId = q.sequenceId
        BY <4>2, OneId DEF Reading
      <4>4. QED BY <3>1, <3>2, <4>1, <4>3
    <3>5. QED BY <1>10, <3>3, <3>4
  <2>3. QED BY <1>14, <2>1, <2>2 DEF News, Distinct
<1>16. Waits(ordered, "ordered", next, P) /\ OldOrNew(inner.ordered, ordered, inner, P)
  <2>1. Waits(inner.ordered, "ordered", inner, P) /\ inner.ordered \in Seq(Messages)
    BY <1>1 DEF Reading, Reads, Inners
  <2>2. QED BY <1>13, <1>14, <1>15, <2>1, WaitsLonger DEF ordered
<1>17. Waits(next.unordered, "reliable", next, P)
  BY <1>4, <1>13 DEF Reading, Reads, Waits, StaysDelivered
<1>18. Reads(next, P, bound)
  <2>1. \A c \in Channel : ReceivesWhatWasSent(next.received[c], P, c, bound[c])
    BY <1>4, <1>5, <1>6 DEF Reading, Reads
  <2>2. next.head <= bound["ordered"]  BY <1>9, <1>11
  <2>3. QED BY <1>4, <1>16, <1>17, <2>1, <2>2 DEF Reads
<1>19. Progress(inner, next, P)
  <2>1. OldOrNew(inner.unordered, inner.unordered, inner, P)  BY DEF OldOrNew
  <2>2. QED BY <1>4, <1>13, <1>16, <2>1 DEF Progress
<1>20. QED BY <1>18, <1>19 DEF next

\* inner.rs:129-246: whatever is read, nothing is delivered again.
LEMMA ReadPacketOnce ==
    ASSUME NEW inner, NEW P, NEW a, NEW bound, Reading(inner, P, a, bound),
           NEW p \in Packets, p.channel \in Channel => p \in P
    PROVE  /\ Reads(ReadPacket(inner, p), P, bound)
           /\ Progress(inner, ReadPacket(inner, p), P)
<1>1. inner \in Inners /\ Reads(inner, P, bound)  BY DEF Reading
<1>2. p.channel \in Channel \/ p.channel = "unreliable"  BY DEF Packets
<1>3. CASE p.channel = "unreliable"
  <2>1. ReadPacket(inner, p) = Acknowledge(inner, p.ack)
    BY <1>3 DEF ReadPacket, ReadHeartbeat, Channel
  <2>2. QED BY <1>1, <2>1, AcknowledgeType, SameReads
<1>4. CASE p.channel \in Channel /\ Refused(inner, p)
  <2>1. ReadPacket(inner, p) = [inner EXCEPT !.duplicate = TRUE]
    BY <1>4 DEF ReadPacket, Channel
  <2>2. /\ ReadPacket(inner, p).received = inner.received
        /\ ReadPacket(inner, p).head = inner.head
        /\ ReadPacket(inner, p).unordered = inner.unordered
        /\ ReadPacket(inner, p).ordered = inner.ordered
    BY <1>1, <2>1 DEF Inners
  <2>3. QED BY <1>1, <2>2, SameReads
<1>5. CASE p.channel = "reliable" /\ ~ Refused(inner, p)
  <2>1. ReadPacket(inner, p) = ReadReliable(inner, p)  BY <1>5 DEF ReadPacket, Channel
  <2>2. p \in P  BY <1>5 DEF Channel
  <2>3. QED BY <1>5, <2>1, <2>2, ReadReliableOnce
<1>6. CASE p.channel = "ordered" /\ ~ Refused(inner, p)
  <2>1. ReadPacket(inner, p) = ReadOrdered(inner, p)  BY <1>6 DEF ReadPacket, Channel
  <2>2. p \in P  BY <1>6 DEF Channel
  <2>3. QED BY <1>6, <2>1, <2>2, ReadOrderedOnce
<1>7. QED BY <1>2, <1>3, <1>4, <1>5, <1>6 DEF Channel

-----------------------------------------------------------------------------
(* Reading once: the connections of the server.                            *)

\* More packets, and a communicator that reads like the one before.
LEMMA MorePackets ==
    ASSUME NEW inner, NEW next, NEW P, NEW Q, P \subseteq Q, NEW bound,
           Reads(inner, P, bound),
           next.received = inner.received, next.head = inner.head,
           next.unordered = inner.unordered, next.ordered = inner.ordered
    PROVE  /\ Reads(next, Q, bound)
           /\ \A m : Delivered(inner, P, m) => Delivered(next, Q, m)
<1>1. \A m : Delivered(inner, P, m) => Delivered(next, Q, m)
  BY DEF Delivered
<1>2. Waits(next.unordered, "reliable", next, Q) /\ Waits(next.ordered, "ordered", next, Q)
  BY <1>1 DEF Reads, Waits
<1>3. \A c \in Channel : ReceivesWhatWasSent(next.received[c], Q, c, bound[c])
  BY DEF Reads, ReceivesWhatWasSent
<1>4. Reads(next, Q, bound)  BY <1>2, <1>3 DEF Reads
<1>5. QED BY <1>1, <1>4

LEMMA MoreFromClient ==
    ASSUME net \subseteq net', NEW a PROVE FromClient(a) \subseteq FromClient(a)'
BY DEF FromClient

LEMMA SameConnection ==
    ASSUME NEW a \in Client, ConnectionOnce(a), net \subseteq net',
           scenario' = scenario, log' = log, removals'[a] = removals[a],
           Entry(a)'.received = Entry(a).received, Entry(a)'.head = Entry(a).head,
           Entry(a)'.unordered = Entry(a).unordered, Entry(a)'.ordered = Entry(a).ordered
    PROVE  ConnectionOnce(a)'
<1> DEFINE inner == Entry(a)
           next == Entry(a)'
           P == FromClient(a)
           Q == FromClient(a)'
<1>1. P \subseteq Q  BY MoreFromClient
<1>2. Reads(inner, P, scenario.load[a]) /\ ReadBefore(inner, P, a)  BY DEF ConnectionOnce
<1>3. /\ next.received = inner.received /\ next.head = inner.head
      /\ next.unordered = inner.unordered /\ next.ordered = inner.ordered
  OBVIOUS
<1> HIDE DEF inner, next, P, Q
<1>4. /\ Reads(next, Q, scenario.load[a])
      /\ \A m : Delivered(inner, P, m) => Delivered(next, Q, m)
  BY <1>1, <1>2, <1>3, MorePackets
<1>5. ASSUME NEW j \in DOMAIN log', log'[j].from = a
      PROVE  /\ log'[j].life <= removals'[a]
             /\ log'[j].life = removals'[a] =>
                   /\ Delivered(next, Q, log'[j].message)
                   /\ \A k \in DOMAIN next.unordered : next.unordered[k] # log'[j].message
                   /\ \A k \in DOMAIN next.ordered : next.ordered[k] # log'[j].message
  BY <1>2, <1>3, <1>4, <1>5 DEF ReadBefore
<1>6. QED BY <1>4, <1>5 DEF ConnectionOnce, ReadBefore, next, Q

\* A connection that was just created has read nothing.
LEMMA NewReads ==
    ASSUME NEW P, NEW bound \in [Channel -> Nat]
    PROVE  Reads(NewInner, P, bound) /\ NewInner.unordered = << >> /\ NewInner.ordered = << >>
<1>1. /\ \A c \in Channel : NewInner.received[c] = NewRing
      /\ NewInner.head = 0
      /\ NewInner.unordered = << >> /\ NewInner.ordered = << >>
  BY DEF NewInner
<1>2. bound["ordered"] \in Nat  BY DEF Channel
<1>3. ASSUME NEW i \in Index PROVE Get(NewRing, i) = None
  BY SlotType DEF Get, NewRing
<1>4. \A c \in Channel : ReceivesWhatWasSent(NewInner.received[c], P, c, bound[c])
  BY <1>1, <1>3 DEF ReceivesWhatWasSent, NewRing
<1>5. Waits(<< >>, "reliable", NewInner, P) /\ Waits(<< >>, "ordered", NewInner, P)
  BY DEF Waits, Distinct
<1>6. QED BY <1>1, <1>2, <1>4, <1>5 DEF Reads

\* The packets of a client, as its connection reads them.
LEMMA ReadingConnection ==
    ASSUME FewMessages, TypeOK, NEW a \in Client, ClientInOrder(a),
           Reads(Entry(a), FromClient(a), scenario.load[a])
    PROVE  Reading(Entry(a), FromClient(a), a, scenario.load[a])
<1> DEFINE P == FromClient(a)
           bound == scenario.load[a]
<1>1. Entry(a) \in Inners  BY EntryType
<1>2. P \subseteq Packets /\ \A q \in P : q.channel \in Channel
  BY DEF TypeOK, FromClient
<1>3. bound \in [Channel -> Nat] /\ \A c \in Channel : bound[c] < U16 - NumItems
  <2>1. scenario \in Scenarios  BY DEF TypeOK
  <2>2. scenario.load \in [Client -> [Channel -> Nat]]  BY <2>1, MultiAssumption
  <2>3. QED BY <2>1, <2>2 DEF FewMessages
<1>4. ASSUME NEW c \in Channel PROVE Packed(a, c) <= bound[c] /\ Packed(a, c) \in Nat
  <2>1. client[a].sendQueue[c] \in Seq(Messages) /\ written[a][c] \in Nat
    BY DEF TypeOK, Inners
  <2>2. Len(client[a].sendQueue[c]) \in Nat /\ bound[c] \in Nat  BY <1>3, <2>1
  <2>3. Packed(a, c) >= 0 /\ written[a][c] <= bound[c]  BY DEF ClientInOrder
  <2>4. Packed(a, c) = written[a][c] - Len(client[a].sendQueue[c])  BY DEF Packed
  <2> HIDE DEF bound
  <2>5. QED BY <2>1, <2>2, <2>3, <2>4
<1>5. Numbered(P, a, [c \in Channel |-> Packed(a, c)])  BY DEF ClientInOrder
<1> HIDE DEF P, bound
<1>6. Numbered(P, a, bound)
  <2>1. ASSUME NEW p \in P
        PROVE  /\ p.sequenceId < bound[p.channel]
               /\ \E n \in 0 .. bound[p.channel] - 1 :
                     p.content = <<[from |-> a, channel |-> p.channel, number |-> n]>>
    <3>1. p.channel \in Channel  BY <1>2
    <3>2. p.sequenceId \in Nat  BY <1>2, <3>1, U16Assumption DEF Packets, Channel, Index
    <3>3. /\ p.sequenceId < Packed(a, p.channel)
          /\ \E n \in 0 .. Packed(a, p.channel) - 1 :
                p.content = <<[from |-> a, channel |-> p.channel, number |-> n]>>
      BY <1>5, <3>1 DEF Numbered
    <3>4. PICK n \in 0 .. Packed(a, p.channel) - 1 :
             p.content = <<[from |-> a, channel |-> p.channel, number |-> n]>>
      BY <3>3
    <3>5. bound[p.channel] \in Nat /\ Packed(a, p.channel) \in Nat
          /\ Packed(a, p.channel) <= bound[p.channel]
      BY <1>3, <1>4, <3>1
    <3>6. n \in 0 .. bound[p.channel] - 1  BY <3>5
    <3>7. QED BY <3>2, <3>3, <3>4, <3>5, <3>6
  <2>2. QED BY <1>5, <2>1 DEF Numbered
<1>7. QED BY <1>1, <1>2, <1>3, <1>6 DEF Reading, P, bound

\* Reading out what waits: for a callback, for_each or iter_mut.
LEMMA ReadOut ==
    ASSUME TypeOK, ReadOnce, NEW a \in Client, NEW inner \in Inners, NEW P, NEW bound,
           Numbered(P, a, bound), Reads(inner, P, bound), ReadBefore(inner, P, a),
           log' = log \o Entries(a, inner.unordered \o inner.ordered),
           removals' = removals,
           NEW next, next.received = inner.received, next.head = inner.head,
           next.unordered = << >>, next.ordered = << >>
    PROVE  /\ ReadOnce'
           /\ Reads(next, P, bound)
           /\ \A j \in DOMAIN log' : log'[j].from = a =>
                 /\ log'[j].life <= removals[a]
                 /\ log'[j].life = removals[a] => Delivered(next, P, log'[j].message)
<1> DEFINE read == inner.unordered \o inner.ordered
           u == inner.unordered
           o == inner.ordered
           more == Entries(a, read)
<1>1. u \in Seq(Messages) /\ o \in Seq(Messages)  BY DEF Inners
<1>2. Waits(u, "reliable", inner, P) /\ Waits(o, "ordered", inner, P)  BY DEF Reads
<1>3. log' = log \o more  OBVIOUS
<1> HIDE DEF u, o
<1>4. read = u \o o  BY DEF u, o
<1> HIDE DEF read
<1>5. Distinct(read)
  <2>1. \A j \in DOMAIN u, k \in DOMAIN o : u[j] # o[k]
    <3>1. \A j \in DOMAIN u : u[j].channel = "reliable"  BY <1>2 DEF Waits
    <3>2. \A k \in DOMAIN o : o[k].channel = "ordered"  BY <1>2 DEF Waits
    <3>3. "reliable" # "ordered"  OBVIOUS
    <3>4. QED BY <3>1, <3>2, <3>3
  <2>2. QED BY <1>1, <1>2, <1>4, <2>1, DistinctConcat DEF Waits
<1>6. read \in Seq(Messages)  BY <1>1, <1>4
<1>7. ASSUME NEW k \in DOMAIN read
      PROVE  /\ Delivered(inner, P, read[k])
             /\ \/ \E j \in DOMAIN u : read[k] = u[j]
                \/ \E j \in DOMAIN o : read[k] = o[j]
  <2>1. \/ k \in DOMAIN u /\ read[k] = u[k]
        \/ k - Len(u) \in DOMAIN o /\ read[k] = o[k - Len(u)]
    BY <1>1, <1>4, OfConcat
  <2>2. QED BY <1>2, <2>1 DEF Waits
<1>8. ASSUME NEW m, Delivered(inner, P, m) PROVE m.from = a
  <2>1. PICK p \in P : p.content = <<m>>  BY <1>8 DEF Delivered
  <2>2. PICK n : p.content = <<[from |-> a, channel |-> p.channel, number |-> n]>>
    BY Zenon DEF Numbered
  <2>3. QED BY <2>1, <2>2
<1>9. more \in Seq(LogEntries) /\ log \in Seq(LogEntries)
  BY <1>6, EntriesType DEF TypeOK
<1>10. /\ DOMAIN more = DOMAIN read
       /\ \A k \in DOMAIN read :
             more[k].from = a /\ more[k].message = read[k] /\ more[k].life = removals[a]
  BY DEF Entries
<1> HIDE DEF more
<1>11. \A j \in DOMAIN log' :
          \/ j \in DOMAIN log /\ log'[j] = log[j]
          \/ j - Len(log) \in DOMAIN more /\ log'[j] = more[j - Len(log)]
  BY <1>3, <1>9, OfConcat
<1>12. \A m : Delivered(inner, P, m) => Delivered(next, P, m)
  BY DEF Delivered
<1>13. Reads(next, P, bound)
  <2>1. Waits(<< >>, "reliable", next, P) /\ Waits(<< >>, "ordered", next, P)
    BY DEF Waits, Distinct
  <2>2. QED BY <2>1 DEF Reads
<1>14. ASSUME NEW j \in DOMAIN log, NEW k \in DOMAIN more PROVE log[j] # more[k]
  <2>1. SUFFICES ASSUME log[j] = more[k] PROVE FALSE  OBVIOUS
  <2>2. log[j].from = a /\ log[j].life = removals[a] /\ log[j].message = read[k]
    BY <1>10, <2>1
  <2>3. /\ \A i \in DOMAIN u : u[i] # log[j].message
        /\ \A i \in DOMAIN o : o[i] # log[j].message
    BY <2>2 DEF ReadBefore, u, o
  <2>4. QED BY <1>7, <1>10, <2>2, <2>3
<1>15. ReadOnce'
  <2>1. ASSUME NEW j \in DOMAIN log'
        PROVE  log'[j].message.from = log'[j].from
    <3>1. CASE j \in DOMAIN log /\ log'[j] = log[j]  BY <3>1 DEF ReadOnce
    <3>2. CASE j - Len(log) \in DOMAIN more /\ log'[j] = more[j - Len(log)]
      BY <1>7, <1>8, <1>10, <3>2
    <3>3. QED BY <1>11, <3>1, <3>2
  <2>2. \A j \in DOMAIN log, k \in DOMAIN log : log[j] = log[k] => j = k  BY DEF ReadOnce
  <2>3. \A j \in DOMAIN more, k \in DOMAIN more : more[j] = more[k] => j = k
    BY <1>5, <1>10 DEF Distinct
  <2>4. Distinct(log \o more)
    BY <1>9, <1>14, <2>2, <2>3, DistinctConcat DEF Distinct
  <2>5. QED BY <1>3, <2>1, <2>4 DEF ReadOnce, Distinct
<1>16. ASSUME NEW j \in DOMAIN log', log'[j].from = a
       PROVE  /\ log'[j].life <= removals[a]
              /\ log'[j].life = removals[a] => Delivered(next, P, log'[j].message)
  <2>1. CASE j \in DOMAIN log /\ log'[j] = log[j]
    BY <1>12, <1>16, <2>1 DEF ReadBefore
  <2>2. CASE j - Len(log) \in DOMAIN more /\ log'[j] = more[j - Len(log)]
    <3>1. removals[a] \in Nat  BY DEF TypeOK
    <3>2. QED BY <1>7, <1>10, <1>12, <2>2, <3>1
  <2>3. QED BY <1>11, <2>1, <2>2
<1>17. QED BY <1>13, <1>15, <1>16

\* multi.rs:218-219: the entry that was just written is found again.
LEMMA EntryAfter ==
    ASSUME NEW a, NEW inner, coms' = WithEntry(a, inner)
    PROVE  Entry(a)' = inner /\ \A b : b # a => Entry(b)' = Entry(b)
BY DEF WithEntry, Entry

\* What is read on one connection is nothing to the others.
LEMMA OtherConnections ==
    ASSUME TypeOK, NEW a \in Client, NEW read \in Seq(Messages),
           log' = log \/ log' = log \o Entries(a, read),
           UNCHANGED <<net, scenario>>,
           NEW b \in Client, b # a, ConnectionOnce(b), Entry(b)' = Entry(b),
           removals'[b] = removals[b]
    PROVE  ConnectionOnce(b)'
<1> DEFINE more == Entries(a, read)
<1>1. more \in Seq(LogEntries) /\ log \in Seq(LogEntries)  BY EntriesType DEF TypeOK
<1>2. \A k \in DOMAIN more : more[k].from = a  BY DEF Entries
<1> HIDE DEF more
<1>3. ASSUME NEW j \in DOMAIN log', log'[j].from = b
      PROVE  j \in DOMAIN log /\ log'[j] = log[j]
  <2>1. CASE log' = log  BY <2>1
  <2>2. CASE log' = log \o more
    <3>1. \/ j \in DOMAIN log /\ log'[j] = log[j]
          \/ j - Len(log) \in DOMAIN more /\ log'[j] = more[j - Len(log)]
      BY <1>1, <2>2, OfConcat
    <3>2. QED BY <1>2, <1>3, <3>1
  <2>3. QED BY <2>1, <2>2 DEF more
<1>4. FromClient(b)' = FromClient(b)  BY DEF FromClient
<1> DEFINE inner == Entry(b)
           P == FromClient(b)
<1>5. Reads(inner, P, scenario.load[b]) /\ ReadBefore(inner, P, b)  BY DEF ConnectionOnce
<1>6. Entry(b)' = inner /\ FromClient(b)' = P  BY <1>4
<1> HIDE DEF inner, P
<1>7. ASSUME NEW j \in DOMAIN log', log'[j].from = b
      PROVE  /\ log'[j].life <= removals'[b]
             /\ log'[j].life = removals'[b] =>
                   /\ Delivered(inner, P, log'[j].message)
                   /\ \A k \in DOMAIN inner.unordered : inner.unordered[k] # log'[j].message
                   /\ \A k \in DOMAIN inner.ordered : inner.ordered[k] # log'[j].message
  BY <1>3, <1>5, <1>7 DEF ReadBefore
<1>8. QED BY <1>5, <1>6, <1>7 DEF ConnectionOnce, ReadBefore

\* multi.rs:209-245: a datagram is read, intact or not, and the callback is called.
LEMMA HandleOnce ==
    ASSUME FewMessages, ReadInvariant, NEW datagram \in net, datagram.to = Server,
           NEW intact \in BOOLEAN, Handle(datagram, intact),
           UNCHANGED <<net, scenario, removals>>
    PROVE  ReadOnce' /\ \A b \in Client : ConnectionOnce(b)'
<1> DEFINE a     == datagram.from
           before == Entry(a)
           P     == FromClient(a)
           bound == scenario.load[a]
           inner == IF intact THEN ReadPacket(Entry(a), datagram.packet) ELSE Entry(a)
           read  == inner.unordered \o inner.ordered
           empty == [inner EXCEPT !.unordered = << >>, !.ordered = << >>]
           answered == [empty EXCEPT !.sendQueue["reliable"] = @ \o read]
<1>1. TypeOK /\ ReadOnce  BY DEF ReadInvariant
<1>2. a \in Client /\ datagram.packet \in Packets  BY <1>1, MultiAssumption DEF TypeOK
<1>3. /\ ClientInOrder(a) /\ Reads(before, P, bound) /\ ReadBefore(before, P, a)
      /\ \A b \in Client : ConnectionOnce(b)
  BY <1>2 DEF ReadInvariant, ConnectionOnce
<1>4. datagram.packet.channel \in Channel => datagram.packet \in P  BY DEF FromClient
<1>5. Reading(before, P, a, bound)
  <2> HIDE DEF a
  <2>1. QED BY <1>1, <1>2, <1>3, ReadingConnection
<1>6. \/ coms' = WithEntry(a, inner) /\ UNCHANGED log
      \/ /\ coms' = WithEntry(a, answered)
         /\ log' = log \o Entries(a, read)
      \/ /\ coms' = WithEntry(a, empty)
         /\ log' = log \o Entries(a, read)
  BY Zenon DEF Handle
<1>7. FromClient(a)' = P  BY DEF FromClient
<1>8. inner \in Inners  BY <1>1, <1>2, EntryType, ReadPacketType
<1>9. Reads(inner, P, bound) /\ Progress(before, inner, P)
  <2>1. CASE intact
    <3>1. inner = ReadPacket(before, datagram.packet)  BY <2>1
    <3> HIDE DEF inner, before, P, bound, a
    <3>2. QED BY <1>2, <1>4, <1>5, <3>1, ReadPacketOnce
  <2>2. CASE ~ intact
    <3>1. inner = before  BY <2>2
    <3> HIDE DEF inner, before, P, bound, a
    <3>2. QED BY <1>3, <3>1, SameReads
  <2>3. QED BY <2>1, <2>2
<1> HIDE DEF before, P, bound, inner
<1>10. ReadBefore(inner, P, a)
  <2>1. ASSUME NEW j \in DOMAIN log, log[j].from = a, log[j].life = removals[a]
        PROVE  /\ Delivered(inner, P, log[j].message)
               /\ \A k \in DOMAIN inner.unordered : inner.unordered[k] # log[j].message
               /\ \A k \in DOMAIN inner.ordered : inner.ordered[k] # log[j].message
    <3>1. /\ Delivered(before, P, log[j].message)
          /\ \A k \in DOMAIN before.unordered : before.unordered[k] # log[j].message
          /\ \A k \in DOMAIN before.ordered : before.ordered[k] # log[j].message
      BY <1>3, <2>1 DEF ReadBefore
    <3>2. Delivered(inner, P, log[j].message)
      BY <1>9, <3>1 DEF Progress, StaysDelivered
    <3>3. ASSUME NEW k \in DOMAIN inner.unordered, inner.unordered[k] = log[j].message
          PROVE  FALSE
      BY <1>9, <3>1, <3>3 DEF Progress, OldOrNew
    <3>4. ASSUME NEW k \in DOMAIN inner.ordered, inner.ordered[k] = log[j].message
          PROVE  FALSE
      BY <1>9, <3>1, <3>4 DEF Progress, OldOrNew
    <3>5. QED BY <3>2, <3>3, <3>4
  <2>2. \A j \in DOMAIN log : log[j].from = a => log[j].life <= removals[a]
    BY <1>3 DEF ReadBefore
  <2>3. QED BY <2>1, <2>2 DEF ReadBefore
<1>11. read \in Seq(Messages)
  <2>1. inner.unordered \in Seq(Messages) /\ inner.ordered \in Seq(Messages)  BY <1>8 DEF Inners
  <2>2. QED BY <2>1
<1>12. /\ empty.received = inner.received /\ empty.head = inner.head
       /\ empty.unordered = << >> /\ empty.ordered = << >>
       /\ answered.received = inner.received /\ answered.head = inner.head
       /\ answered.unordered = << >> /\ answered.ordered = << >>
  BY <1>8 DEF Inners
<1> HIDE DEF empty, answered
<1>13. \A b \in Client : b # a => Entry(b)' = Entry(b)
  BY <1>6, EntryAfter
<1>14. \A b \in Client : b # a => ConnectionOnce(b)'
  <2>1. log' = log \/ log' = log \o Entries(a, read)  BY <1>6
  <2> HIDE DEF read, a
  <2>2. QED BY <1>1, <1>2, <1>3, <1>11, <1>13, <2>1, OtherConnections
<1>15. CASE coms' = WithEntry(a, inner) /\ UNCHANGED log
  <2>1. Entry(a)' = inner  BY <1>15, EntryAfter
  <2>2. Reads(Entry(a)', FromClient(a)', scenario'.load[a])  BY <1>7, <1>9, <2>1 DEF bound
  <2>3. ReadBefore(Entry(a), FromClient(a), a)'
    BY <1>7, <1>10, <1>15, <2>1 DEF ReadBefore
  <2>4. ConnectionOnce(a)'  BY <2>2, <2>3 DEF ConnectionOnce
  <2>5. ReadOnce'  BY <1>1, <1>15 DEF ReadOnce
  <2>6. QED BY <1>14, <2>4, <2>5
<1>16. ASSUME NEW next, next.received = inner.received, next.head = inner.head,
              next.unordered = << >>, next.ordered = << >>,
              coms' = WithEntry(a, next), log' = log \o Entries(a, read)
       PROVE  ReadOnce' /\ \A b \in Client : ConnectionOnce(b)'
  <2>1. Entry(a)' = next  BY <1>16, EntryAfter
  <2>2. /\ ReadOnce'
        /\ Reads(next, P, bound)
        /\ \A j \in DOMAIN log' : log'[j].from = a =>
              /\ log'[j].life <= removals[a]
              /\ log'[j].life = removals[a] => Delivered(next, P, log'[j].message)
    <3>1. Numbered(P, a, bound)  BY <1>5 DEF Reading
    <3> HIDE DEF a
    <3>2. QED BY <1>1, <1>2, <1>8, <1>9, <1>10, <1>16, <3>1, ReadOut DEF read
  <2>3. ConnectionOnce(a)'
    BY <1>7, <1>16, <2>1, <2>2 DEF ConnectionOnce, ReadBefore, bound
  <2>4. QED BY <1>14, <2>2, <2>3
<1>17. QED BY <1>6, <1>12, <1>15, <1>16

-----------------------------------------------------------------------------
(* Reading once: what the clients send.                                    *)

\* What write and read do to a client leaves the messages that it packed alone.
LEMMA SameClient ==
    ASSUME NEW a \in Client, ClientInOrder(a), scenario' = scenario,
           written'[a] = written[a], FromClient(a)' = FromClient(a),
           client'[a].sendQueue = client[a].sendQueue,
           client'[a].sendPackets = client[a].sendPackets
    PROVE  ClientInOrder(a)'
<1>1. \A c \in Channel : Packed(a, c)' = Packed(a, c)  BY DEF Packed
<1>2. ASSUME NEW c \in Channel
      PROVE  /\ Packed(a, c)' >= 0
             /\ written'[a][c] <= scenario'.load[a][c]
             /\ QueueInOrder(a, c)'
             /\ SendsInOrder(a, c)'
  <2>1. Packed(a, c) >= 0 /\ written[a][c] <= scenario.load[a][c]  BY DEF ClientInOrder
  <2>2. QueueInOrder(a, c)'
    <3>1. QueueInOrder(a, c)  BY DEF ClientInOrder
    <3>2. QED BY <1>1, <3>1 DEF QueueInOrder
  <2>3. SendsInOrder(a, c)'
    <3>1. SendsInOrder(a, c)  BY DEF ClientInOrder
    <3>2. QED BY <1>1, <3>1 DEF SendsInOrder
  <2>4. QED BY <1>1, <2>1, <2>2, <2>3
<1>3. [c \in Channel |-> Packed(a, c)'] = [c \in Channel |-> Packed(a, c)]  BY <1>1
<1>4. Numbered(FromClient(a), a, [c \in Channel |-> Packed(a, c)])'
  <2>1. Numbered(FromClient(a), a, [c \in Channel |-> Packed(a, c)])  BY DEF ClientInOrder
  <2> DEFINE bound == [c \in Channel |-> Packed(a, c)]
             P == FromClient(a)
  <2>2. bound' = bound /\ P' = P  BY <1>3
  <2> HIDE DEF bound, P
  <2>3. Numbered(P, a, bound) => Numbered(P, a, bound)'  BY <2>2 DEF Numbered
  <2>4. QED BY <2>1, <2>3 DEF bound, P
<1>5. QED BY <1>2, <1>4 DEF ClientInOrder

\* One channel of send: every packet that is sent holds what was in flight under
\* its id, or one of the next messages under one of the next ids.
SendsOn(inner, due, c) ==
    LET queue == inner.sendQueue[c]
        ring  == inner.sendPackets[c]
        k     == FlushCount(ring, queue)
        f     == FlushedRings(inner)[c]
        sent  == SentNow(inner, due)[c]
        rest  == AfterSend(inner, due).sendPackets[c]
        first == WrappingAdd(ring.newest, 1)
    IN  /\ k \in Nat /\ k <= Len(queue) /\ first \in Nat
        /\ AfterSend(inner, due).sendQueue[c] = SubSeq(queue, k + 1, Len(queue))
        /\ WrappingAdd(rest.newest, 1) = first + k
        /\ \A i \in sent :
              /\ i \in Index
              /\ \/ i \in Keys(ring) /\ Get(f, i).message = Get(ring, i).message
                 \/ \E j \in 1 .. k : i = first + j - 1 /\ Get(f, i).message = queue[j]
        /\ \A i \in Keys(rest) :
              /\ i \in Index
              /\ \/ i \in Keys(ring) /\ Get(rest, i).message = Get(ring, i).message
                 \/ i \in sent /\ Get(rest, i).message = Get(f, i).message

\* inner.rs:374-469: send does so on both channels.
LEMMA SendsNext ==
    ASSUME NEW inner \in Inners, NEW due, NEW c \in Channel,
           NEW C \in Nat, C + Len(inner.sendQueue[c]) < U16 - NumItems,
           WrappingAdd(inner.sendPackets[c].newest, 1) <= C
    PROVE  SendsOn(inner, due, c)
<1> DEFINE queue == inner.sendQueue[c]
           ring  == inner.sendPackets[c]
           ack   == PacketAck(inner)
           k     == FlushCount(ring, queue)
           f     == FlushedRings(inner)[c]
           sent  == SentNow(inner, due)[c]
           rest  == AfterSend(inner, due).sendPackets[c]
           w     == ring.newest
           first == WrappingAdd(w, 1)
<1>1. /\ queue \in Seq(Messages) /\ ring \in Rings(PendingPackets(Messages, Acks)) /\ ack \in Acks
      /\ Len(queue) \in Nat
  <2>1. ack \in Acks  BY PacketAckType
  <2>2. queue \in Seq(Messages) /\ ring \in Rings(PendingPackets(Messages, Acks))
    BY DEF Inners, Pending
  <2> HIDE DEF queue, ring, ack
  <2>3. QED BY <2>1, <2>2
<1>2. f = Flushed(ring, queue, k, ack)  BY DEF FlushedRings
<1>3. /\ rest = Resent(f, sent)
      /\ AfterSend(inner, due).sendQueue[c] = SubSeq(queue, k + 1, Len(queue))
  BY DEF AfterSend, Inners
<1>4. /\ sent \subseteq Keys(f)
      /\ \A i \in Keys(f) : i \in Keys(ring) \/ i \in sent
  BY DEF SentNow
<1> HIDE DEF queue, ring, ack, f, sent, rest
<1>5. /\ k \in 0 .. NumItems /\ k \in Nat /\ k <= Len(queue)
      /\ \A j \in 1 .. k : FreeSlot(ring, j)
      /\ f \in Rings(PendingPackets(Messages, Acks))
      /\ \A i \in Keys(ring) : i \in Keys(f) /\ Get(f, i) = Get(ring, i)
  BY <1>1, <1>2, FlushingType
<1>6. \A i \in Index :
         LET d == WrappingSub(WrappingAdd(w, k), i)
         IN  /\ f.newest = WrappingAdd(w, k)
             /\ Get(f, i) = IF d < k
                            THEN [message |-> queue[k - d], ack |-> ack, retries |-> MaxRetries]
                            ELSE Get(ring, i)
  BY <1>1, <1>2, <1>5, GetAfterFlush
<1> HIDE DEF k
<1>7. /\ w \in Index /\ U16 \in Nat /\ NumItems \in Nat \ {0} /\ first \in Nat /\ first <= C
      /\ C + Len(queue) < U16 - NumItems
      /\ first = IF w = U16 - 1 THEN 0 ELSE w + 1
  <2>1. w \in Index  BY <1>1 DEF Rings
  <2>2. first <= C /\ C + Len(queue) < U16 - NumItems  BY DEF queue, ring
  <2> HIDE DEF w
  <2>3. U16 \in Nat /\ NumItems \in Nat \ {0} /\ U16 > 1
    BY U16Assumption, RingAssumption
  <2>4. first = IF w = U16 - 1 THEN 0 ELSE w + 1
    <3>1. \A x \in Index : WrappingAdd(x, 1) = IF x = U16 - 1 THEN 0 ELSE x + 1
      BY ONLY <2>3 DEF Index, WrappingAdd
    <3>2. QED BY <2>1, <3>1
  <2>5. first \in Nat  BY <2>1, <2>3, <2>4 DEF Index
  <2> HIDE DEF first
  <2>6. QED BY <2>1, <2>2, <2>3, <2>4, <2>5
<1> HIDE DEF w, first
<1>8. WrappingAdd(WrappingAdd(w, k), 1) = first + k /\ first + k < U16
  <2> DEFINE n == Len(queue)
  <2>1. /\ n \in Nat /\ k \in Nat /\ k <= n /\ first <= C /\ C + n < U16 - NumItems
        /\ first \in Nat /\ w \in Index /\ U16 \in Nat /\ NumItems \in Nat
        /\ first = IF w = U16 - 1 THEN 0 ELSE w + 1
    BY <1>1, <1>5, <1>7
  <2> HIDE DEF n, first
  <2>2. first + k < U16  BY <2>1
  <2>3. CASE w = U16 - 1
    <3>1. WrappingAdd(w, k) = IF k = 0 THEN w ELSE k - 1  BY <2>1, <2>2, <2>3 DEF WrappingAdd
    <3>2. QED BY <2>1, <2>2, <2>3, <3>1 DEF WrappingAdd
  <2>4. CASE w # U16 - 1
    <3>1. w \in Nat /\ WrappingAdd(w, k) = w + k  BY <2>1, <2>2, <2>4 DEF WrappingAdd, Index
    <3>2. QED BY <2>1, <2>2, <2>4, <3>1 DEF WrappingAdd
  <2>5. QED BY <2>2, <2>3, <2>4
<1>9. Keys(f) = {i \in Index : Get(f, i) # None} /\ Keys(ring) = {i \in Index : Get(ring, i) # None}
  BY <1>1, <1>5, KeysAreFound
<1>10. ASSUME NEW i \in Keys(f)
       PROVE  /\ i \in Index
              /\ \/ i \in Keys(ring) /\ Get(f, i).message = Get(ring, i).message
                 \/ \E j \in 1 .. k : i = first + j - 1 /\ Get(f, i).message = queue[j]
  <2> DEFINE d == WrappingSub(WrappingAdd(w, k), i)
  <2>1. i \in Index /\ Get(f, i) # None  BY <1>9
  <2>2. CASE d < k
    <3>1. k - d \in 1 .. k /\ i = first + (k - d) - 1
      BY <1>5, <1>7, <1>8, <2>1, <2>2 DEF WrappingAdd, WrappingSub, Index
    <3>2. Get(f, i).message = queue[k - d]  BY <1>6, <2>1, <2>2
    <3>3. QED BY <2>1, <3>1, <3>2
  <2>3. CASE ~ (d < k)
    <3>1. Get(f, i) = Get(ring, i)  BY <1>6, <2>1, <2>3
    <3>2. QED BY <1>9, <2>1, <3>1
  <2>4. QED BY <2>2, <2>3
<1>11. 0 \in Index  BY <1>7 DEF Index
<1>12. WrappingAdd(rest.newest, 1) = first + k
  <2>1. rest.newest = f.newest  BY <1>3, <1>5, <1>11, GetAfterResend
  <2>2. f.newest = WrappingAdd(w, k)  BY <1>6, <1>11
  <2>3. QED BY <1>8, <2>1, <2>2
<1>13. ASSUME NEW i \in Keys(rest)
       PROVE  /\ i \in Index
              /\ \/ i \in Keys(ring) /\ Get(rest, i).message = Get(ring, i).message
                 \/ i \in sent /\ Get(rest, i).message = Get(f, i).message
  <2>1. i \in Index /\ Get(rest, i) # None
    <3>1. rest \in Rings(PendingPackets(Messages, Acks))
      <4>1. AfterSend(inner, due) \in Inners  BY SendTypes
      <4>2. QED BY <4>1 DEF Inners, Pending, rest
    <3>2. Keys(rest) = {j \in Index : Get(rest, j) # None}  BY <3>1, KeysAreFound
    <3>3. QED BY <3>2
  <2>2. Get(f, i) # None /\ Get(rest, i).message = Get(f, i).message
    BY <1>3, <1>5, <2>1, GetAfterResend
  <2>3. i \in Keys(f)  BY <1>9, <2>1, <2>2
  <2>4. CASE i \in Keys(ring)  BY <1>5, <2>1, <2>2, <2>4
  <2>5. CASE i \in sent  BY <2>1, <2>2, <2>5
  <2>6. QED BY <1>4, <2>3, <2>4, <2>5
<1>14. \A i \in sent : i \in Keys(f)  BY <1>4
<1>15. /\ k \in Nat /\ k <= Len(queue) /\ first \in Nat
       /\ AfterSend(inner, due).sendQueue[c] = SubSeq(queue, k + 1, Len(queue))
  BY <1>3, <1>5, <1>7
<1>16. QED BY <1>10, <1>12, <1>13, <1>14, <1>15 DEF SendsOn, queue, ring, k, f, sent, rest, first, w

\* inner.rs:323-354: the packets with messages among those that send_packets sends.
LEMMA OutgoingPackets ==
    ASSUME NEW inner, NEW due
    PROVE  /\ \A p \in Outgoing(inner, due) : p.channel \in Channel =>
                 /\ p.sequenceId \in SentNow(inner, due)[p.channel]
                 /\ p.content = <<Get(FlushedRings(inner)[p.channel], p.sequenceId).message>>
           /\ \A c \in Channel : \A i \in SentNow(inner, due)[c] :
                 \E p \in Outgoing(inner, due) :
                    /\ p.channel = c /\ p.sequenceId = i
                    /\ p.content = <<Get(FlushedRings(inner)[c], i).message>>
<1> DEFINE ring(c) == FlushedRings(inner)[c]
           sent(c) == SentNow(inner, due)[c]
           packet(c, i) == [channel |-> c, sequenceId |-> i,
                            content |-> <<Get(FlushedRings(inner)[c], i).message>>,
                            ack |-> Get(FlushedRings(inner)[c], i).ack]
           heartbeat == [channel |-> "unreliable", content |-> << >>, ack |-> PacketAck(inner)]
           data == UNION {{packet(c, i) : i \in sent(c)} : c \in Channel}
<1>1. Outgoing(inner, due) = data \cup (IF HeartbeatDue(inner) THEN {heartbeat} ELSE {})
  BY DEF Outgoing
<1>2. heartbeat.channel \notin Channel  BY DEF Channel
<1>3. \A c, i : /\ packet(c, i).channel = c /\ packet(c, i).sequenceId = i
                /\ packet(c, i).content = <<Get(ring(c), i).message>>
  OBVIOUS
<1> HIDE DEF sent, heartbeat, packet, ring
<1>4. \A p \in data : \E c \in Channel : \E i \in sent(c) : p = packet(c, i)
  OBVIOUS
<1>5. \A c \in Channel : \A i \in sent(c) : packet(c, i) \in data
  OBVIOUS
<1> HIDE DEF data
<1>6. ASSUME NEW p \in Outgoing(inner, due), p.channel \in Channel
      PROVE  /\ p.sequenceId \in sent(p.channel)
             /\ p.content = <<Get(ring(p.channel), p.sequenceId).message>>
  <2>1. p \in data  BY <1>1, <1>2, <1>6
  <2>2. PICK c \in Channel : \E i \in sent(c) : p = packet(c, i)  BY <1>4, <2>1
  <2>3. PICK i \in sent(c) : p = packet(c, i)  BY <2>2
  <2>4. QED BY <1>3, <2>3
<1>7. ASSUME NEW c \in Channel, NEW i \in sent(c)
      PROVE  \E p \in Outgoing(inner, due) :
                /\ p.channel = c /\ p.sequenceId = i
                /\ p.content = <<Get(ring(c), i).message>>
  <2>1. packet(c, i) \in Outgoing(inner, due)  BY <1>1, <1>5
  <2>2. QED BY <1>3, <2>1
<1>8. QED BY <1>6, <1>7 DEF sent, ring

\* inner.rs:80-113, 374-469: the next messages get the next ids, and a packet that
\* is sent again holds what it held.
LEMMA SendInOrder ==
    ASSUME FewMessages, TypeOK, NEW a \in Client, ClientInOrder(a),
           NEW due, ClientSend(a, due)
    PROVE  ClientInOrder(a)'
<1> DEFINE inner == client[a]
           after == AfterSend(inner, due)
           queue(c) == inner.sendQueue[c]
           ring(c) == inner.sendPackets[c]
           k(c) == FlushCount(ring(c), queue(c))
           f(c) == FlushedRings(inner)[c]
           sent(c) == SentNow(inner, due)[c]
           rest(c) == after.sendPackets[c]
           first(c) == WrappingAdd(ring(c).newest, 1)
           C(c) == Packed(a, c)
           P == FromClient(a)
           Q == FromClient(a)'
<1>1. /\ inner \in Inners /\ client'[a] = after
      /\ net' = net \cup Datagrams(a, Server, Outgoing(inner, due))
      /\ UNCHANGED <<scenario, written>>
  BY DEF TypeOK, ClientSend, history
<1>2. P \subseteq Q
  <2>1. net \subseteq net'  BY <1>1
  <2>2. QED BY <2>1, MoreFromClient
<1>3. \A p \in Q : p \in P \/ (p \in Outgoing(inner, due) /\ p.channel \in Channel)
  BY <1>1 DEF FromClient, Datagrams
<1>4. \A p \in Outgoing(inner, due) : p.channel \in Channel => p \in Q
  <2>1. ASSUME NEW p \in Outgoing(inner, due), p.channel \in Channel PROVE p \in Q
    <3> DEFINE d == [from |-> a, to |-> Server, packet |-> p]
    <3>1. d \in net'  BY <1>1 DEF Datagrams
    <3>2. d.from = a /\ d.packet = p  OBVIOUS
    <3> HIDE DEF d
    <3>3. QED BY <2>1, <3>1, <3>2 DEF FromClient
  <2>2. QED BY <2>1
<1> HIDE DEF P, Q
<1>5. ASSUME NEW c \in Channel
      PROVE  /\ queue(c) \in Seq(Messages) /\ Len(queue(c)) \in Nat
             /\ C(c) \in Nat /\ written[a][c] = C(c) + Len(queue(c))
             /\ written[a][c] <= scenario.load[a][c]
             /\ C(c) + Len(queue(c)) < U16 - NumItems
             /\ first(c) <= C(c)
  <2>1. queue(c) \in Seq(Messages) /\ written[a][c] \in Nat /\ scenario \in Scenarios
    BY <1>1 DEF TypeOK, Inners
  <2>2. Len(queue(c)) \in Nat  BY <2>1
  <2>3. scenario.load[a][c] \in Nat /\ scenario.load[a][c] < U16 - NumItems
    BY <2>1, MultiAssumption DEF FewMessages
  <2>4. C(c) = written[a][c] - Len(queue(c))  BY DEF Packed
  <2>5. C(c) >= 0 /\ written[a][c] <= scenario.load[a][c] /\ SendsInOrder(a, c)
    BY DEF ClientInOrder
  <2>6. first(c) <= C(c)  BY <2>5 DEF SendsInOrder
  <2> HIDE DEF C, queue
  <2>7. QED BY <2>1, <2>2, <2>3, <2>4, <2>5, <2>6, U16Assumption, RingAssumption
<1>6. ASSUME NEW c \in Channel
      PROVE  /\ k(c) \in Nat /\ k(c) <= Len(queue(c)) /\ first(c) \in Nat
             /\ after.sendQueue[c] = SubSeq(queue(c), k(c) + 1, Len(queue(c)))
             /\ WrappingAdd(rest(c).newest, 1) = first(c) + k(c)
             /\ \A i \in sent(c) :
                   /\ i \in Index
                   /\ \/ i \in Keys(ring(c)) /\ Get(f(c), i).message = Get(ring(c), i).message
                      \/ \E j \in 1 .. k(c) :
                            i = first(c) + j - 1 /\ Get(f(c), i).message = queue(c)[j]
             /\ \A i \in Keys(rest(c)) :
                   /\ i \in Index
                   /\ \/ i \in Keys(ring(c)) /\ Get(rest(c), i).message = Get(ring(c), i).message
                      \/ i \in sent(c) /\ Get(rest(c), i).message = Get(f(c), i).message
  <2> DEFINE n == C(c)
  <2>1. /\ inner \in Inners /\ n \in Nat /\ n + Len(inner.sendQueue[c]) < U16 - NumItems
        /\ WrappingAdd(inner.sendPackets[c].newest, 1) <= n
    BY <1>1, <1>5
  <2> HIDE DEF n, inner
  <2>2. SendsOn(inner, due, c)  BY <2>1, SendsNext
  <2>3. QED BY <2>2, Zenon DEF SendsOn
<1>7. /\ \A p \in Outgoing(inner, due) : p.channel \in Channel =>
            p.sequenceId \in sent(p.channel)
            /\ p.content = <<Get(f(p.channel), p.sequenceId).message>>
      /\ \A c \in Channel : \A i \in sent(c) : \E p \in Outgoing(inner, due) :
            p.channel = c /\ p.sequenceId = i /\ p.content = <<Get(f(c), i).message>>
  BY OutgoingPackets
<1>8. /\ \A c \in Channel : \A j \in 1 .. Len(queue(c)) :
            queue(c)[j] = [from |-> a, channel |-> c, number |-> C(c) + j - 1]
      /\ \A c \in Channel : \A i \in Keys(ring(c)) : \E p \in P :
            p.channel = c /\ p.sequenceId = i /\ p.content = <<Get(ring(c), i).message>>
  <2>1. ASSUME NEW c \in Channel, NEW j \in 1 .. Len(queue(c))
        PROVE  queue(c)[j] = [from |-> a, channel |-> c, number |-> C(c) + j - 1]
    <3>1. QueueInOrder(a, c) /\ DOMAIN queue(c) = 1 .. Len(queue(c))
      BY <1>5 DEF ClientInOrder
    <3>2. QED BY <3>1 DEF QueueInOrder
  <2>2. ASSUME NEW c \in Channel, NEW i \in Keys(ring(c))
        PROVE  \E p \in P : p.channel = c /\ p.sequenceId = i
                            /\ p.content = <<Get(ring(c), i).message>>
    BY DEF ClientInOrder, SendsInOrder, P
  <2>3. QED BY <2>1, <2>2
<1>9. Numbered(P, a, [c \in Channel |-> C(c)]) /\ \A p \in P : p.channel \in Channel
  BY DEF ClientInOrder, P, FromClient
<1>10. ASSUME NEW c \in Channel PROVE Packed(a, c)' = C(c) + k(c) /\ Packed(a, c)' \in Nat
  <2>1. Packed(a, c)' = written[a][c] - Len(after.sendQueue[c])  BY <1>1 DEF Packed
  <2> DEFINE unsent == after.sendQueue[c]
             s == queue(c)
             n == k(c)
  <2>2. /\ s \in Seq(Messages) /\ n \in Nat /\ n <= Len(s)
        /\ unsent = SubSeq(s, n + 1, Len(s))
    BY <1>5, <1>6
  <2>3. C(c) \in Nat /\ written[a][c] = C(c) + Len(s) /\ Len(s) \in Nat  BY <1>5
  <2>4. Packed(a, c)' = written[a][c] - Len(unsent)  BY <2>1
  <2> HIDE DEF s, n, unsent, C
  <2>5. Len(unsent) = Len(s) - n  BY <2>2
  <2>6. Packed(a, c)' = C(c) + n /\ Packed(a, c)' \in Nat
    BY <2>2, <2>3, <2>4, <2>5
  <2>7. QED BY <2>6 DEF n
<1> HIDE DEF queue, ring, k, f, sent, rest, first, C, inner, after
\* What a packet of this call of send may hold.
<1> DEFINE Old(p) == \E q \in P : /\ q.channel = p.channel /\ q.sequenceId = p.sequenceId
                                  /\ q.content = p.content
           New(p) == \E j \in 1 .. k(p.channel) :
                        /\ p.sequenceId = first(p.channel) + j - 1
                        /\ p.content = <<[from |-> a, channel |-> p.channel,
                                          number |-> C(p.channel) + j - 1]>>
<1>11. \A p \in Q : p.channel \in Channel /\ (Old(p) \/ New(p))
  <2> SUFFICES ASSUME NEW p \in Q PROVE p.channel \in Channel /\ (Old(p) \/ New(p))
    OBVIOUS
  <2>1. CASE p \in P  BY <1>9, <2>1
  <2>2. CASE p \in Outgoing(inner, due) /\ p.channel \in Channel
    <3> DEFINE c == p.channel
               i == p.sequenceId
    <3>1. i \in sent(c) /\ p.content = <<Get(f(c), i).message>> /\ c \in Channel  BY <1>7, <2>2
    <3>2. CASE i \in Keys(ring(c)) /\ Get(f(c), i).message = Get(ring(c), i).message
      <4>1. \E q \in P : q.channel = c /\ q.sequenceId = i
                         /\ q.content = <<Get(ring(c), i).message>>
        BY <1>8, <3>1, <3>2
      <4>2. QED BY <3>1, <3>2, <4>1
    <3>3. ASSUME NEW j \in 1 .. k(c), i = first(c) + j - 1, Get(f(c), i).message = queue(c)[j]
          PROVE  New(p)
      <4>1. j \in 1 .. Len(queue(c))  BY <1>5, <1>6, <3>1
      <4>2. p.content = <<[from |-> a, channel |-> c, number |-> C(c) + j - 1]>>
        BY <1>8, <3>1, <3>3, <4>1
      <4>3. QED BY <3>3, <4>2
    <3>4. QED BY <1>6, <3>1, <3>2, <3>3
  <2>3. QED BY <1>3, <2>1, <2>2
\* The contents of packets of a: one message each, told by channel and number.
<1> DEFINE Holds(c, n) == <<[from |-> a, channel |-> c, number |-> n]>>
<1>12. \A c, d, n, l : Holds(c, n) = Holds(d, l) => c = d /\ n = l
  <2>1. ASSUME NEW c, NEW d, NEW n, NEW l, Holds(c, n) = Holds(d, l) PROVE c = d /\ n = l
    <3>1. Holds(c, n)[1] = [from |-> a, channel |-> c, number |-> n]  OBVIOUS
    <3>2. Holds(d, l)[1] = [from |-> a, channel |-> d, number |-> l]  OBVIOUS
    <3>3. [from |-> a, channel |-> c, number |-> n] = [from |-> a, channel |-> d, number |-> l]
      BY <2>1, <3>1, <3>2
    <3>4. QED BY <3>3
  <2>2. QED BY <2>1
<1>13. \A p \in P : /\ p.sequenceId < C(p.channel) /\ p.sequenceId \in Nat
                   /\ \E n \in 0 .. C(p.channel) - 1 : p.content = Holds(p.channel, n)
  <2> DEFINE bound == [c \in Channel |-> C(c)]
  <2>1. \A p \in P : /\ p.sequenceId < bound[p.channel]
                    /\ \E n \in 0 .. bound[p.channel] - 1 : p.content = Holds(p.channel, n)
    BY <1>9, Zenon DEF Numbered
  <2>2. \A c \in Channel : bound[c] = C(c)  OBVIOUS
  <2>3. \A p \in P : p.sequenceId \in Nat
    <3>1. \A p \in P : p \in Packets /\ p.channel \in Channel  BY DEF TypeOK, FromClient, P
    <3>2. \A p \in Packets : p.channel \in Channel => p.sequenceId \in Nat
      BY DEF Packets, Channel, Index
    <3>3. QED BY <3>1, <3>2
  <2> HIDE DEF bound, Holds
  <2>4. QED BY <1>9, <2>1, <2>2, <2>3
<1>14. \A p, q \in P : p.content = q.content => p.sequenceId = q.sequenceId
  BY <1>9, Zenon DEF Numbered
<1>15. \A p : New(p) => \E j \in 1 .. k(p.channel) :
                          /\ p.sequenceId = first(p.channel) + j - 1
                          /\ p.content = Holds(p.channel, C(p.channel) + j - 1)
  OBVIOUS
<1> HIDE DEF Holds, New
<1>16. \A p : Old(p) => \E q \in P : /\ q.channel = p.channel /\ q.sequenceId = p.sequenceId
                                   /\ q.content = p.content
  OBVIOUS
<1> HIDE DEF Old
<1>17. ASSUME NEW p \in Q, Old(p)
       PROVE  \E q \in P : /\ q.sequenceId = p.sequenceId /\ q.content = p.content
                          /\ p.sequenceId < C(p.channel) /\ p.sequenceId \in Nat
                          /\ \E n \in 0 .. C(p.channel) - 1 : p.content = Holds(p.channel, n)
  BY <1>13, <1>16, <1>17
<1>18. ASSUME NEW p \in Q, New(p)
       PROVE  \E j \in 1 .. k(p.channel) :
                 /\ p.sequenceId = first(p.channel) + j - 1
                 /\ p.sequenceId < C(p.channel) + k(p.channel)
                 /\ C(p.channel) + j - 1 \in C(p.channel) .. C(p.channel) + k(p.channel) - 1
                 /\ p.content = Holds(p.channel, C(p.channel) + j - 1)
  <2>1. PICK j \in 1 .. k(p.channel) : /\ p.sequenceId = first(p.channel) + j - 1
                                      /\ p.content = Holds(p.channel, C(p.channel) + j - 1)
    BY <1>15, <1>18
  <2>2. p.channel \in Channel  BY <1>11
  <2>3. /\ first(p.channel) \in Nat /\ C(p.channel) \in Nat /\ k(p.channel) \in Nat
        /\ first(p.channel) <= C(p.channel)
    BY <1>5, <1>6, <2>2
  <2>4. QED BY <2>1, <2>3
<1>19. ASSUME NEW p \in Q
       PROVE  /\ p.sequenceId < C(p.channel) + k(p.channel)
              /\ \E n \in 0 .. (C(p.channel) + k(p.channel)) - 1 : p.content = Holds(p.channel, n)
  <2>1. p.channel \in Channel /\ (Old(p) \/ New(p))  BY <1>11
  <2>2. C(p.channel) \in Nat /\ k(p.channel) \in Nat  BY <1>5, <1>6, <2>1
  <2>3. CASE Old(p)
    <3>1. /\ p.sequenceId < C(p.channel) /\ p.sequenceId \in Nat
          /\ \E n \in 0 .. C(p.channel) - 1 : p.content = Holds(p.channel, n)
      BY <1>17, <2>3
    <3>2. PICK n \in 0 .. C(p.channel) - 1 : p.content = Holds(p.channel, n)  BY <3>1
    <3>3. n \in 0 .. (C(p.channel) + k(p.channel)) - 1  BY <2>2
    <3>4. QED BY <2>2, <3>1, <3>2, <3>3
  <2>4. CASE New(p)
    <3>1. PICK j \in 1 .. k(p.channel) :
             /\ p.sequenceId < C(p.channel) + k(p.channel)
             /\ C(p.channel) + j - 1 \in C(p.channel) .. C(p.channel) + k(p.channel) - 1
             /\ p.content = Holds(p.channel, C(p.channel) + j - 1)
      BY <1>18, <2>4
    <3>2. C(p.channel) + j - 1 \in 0 .. (C(p.channel) + k(p.channel)) - 1  BY <2>2, <3>1
    <3>3. QED BY <3>1, <3>2
  <2>5. QED BY <2>1, <2>3, <2>4
<1>20. ASSUME NEW p \in Q, NEW q \in Q, p.content = q.content
       PROVE  p.sequenceId = q.sequenceId
  <2>1. /\ p.channel \in Channel /\ (Old(p) \/ New(p))
        /\ q.channel \in Channel /\ (Old(q) \/ New(q))
    BY <1>11
  <2>2. /\ C(p.channel) \in Nat /\ k(p.channel) \in Nat
        /\ C(q.channel) \in Nat /\ k(q.channel) \in Nat
    BY <1>5, <1>6, <2>1
  <2>3. CASE Old(p) /\ Old(q)
    <3>1. PICK o \in P : o.sequenceId = p.sequenceId /\ o.content = p.content  BY <1>17, <2>3
    <3>2. PICK r \in P : r.sequenceId = q.sequenceId /\ r.content = q.content  BY <1>17, <2>3
    <3>3. QED BY <1>14, <1>20, <3>1, <3>2
  <2>4. CASE New(p) /\ New(q)
    <3>1. PICK j \in 1 .. k(p.channel) :
             /\ p.sequenceId = first(p.channel) + j - 1
             /\ p.content = Holds(p.channel, C(p.channel) + j - 1)
      BY <1>18, <2>4
    <3>2. PICK l \in 1 .. k(q.channel) :
             /\ q.sequenceId = first(q.channel) + l - 1
             /\ q.content = Holds(q.channel, C(q.channel) + l - 1)
      BY <1>18, <2>4
    <3> DEFINE n == C(p.channel) + j - 1
               o == C(q.channel) + l - 1
    <3> HIDE DEF n, o
    <3>3. Holds(p.channel, n) = Holds(q.channel, o)  BY <1>20, <3>1, <3>2 DEF n, o
    <3>4. p.channel = q.channel /\ n = o  BY <1>12, <3>3
    <3>5. j = l  BY <2>2, <3>4 DEF n, o
    <3>6. QED BY <3>1, <3>2, <3>4, <3>5
  <2>5. ASSUME NEW u \in Q, NEW v \in Q, Old(u), New(v), u.content = v.content,
               C(u.channel) \in Nat, C(v.channel) \in Nat
        PROVE  FALSE
    <3>1. PICK n \in 0 .. C(u.channel) - 1 : u.content = Holds(u.channel, n)  BY <1>17, <2>5
    <3>2. PICK j \in 1 .. k(v.channel) :
             /\ C(v.channel) + j - 1 \in C(v.channel) .. C(v.channel) + k(v.channel) - 1
             /\ v.content = Holds(v.channel, C(v.channel) + j - 1)
      BY <1>18, <2>5
    <3> DEFINE o == C(v.channel) + j - 1
    <3> HIDE DEF o
    <3>3. Holds(u.channel, n) = Holds(v.channel, o)  BY <2>5, <3>1, <3>2 DEF o
    <3>4. u.channel = v.channel /\ n = o  BY <1>12, <3>3
    <3>5. n < C(v.channel) /\ n >= C(v.channel)  BY <2>5, <3>1, <3>2, <3>4 DEF o
    <3>6. QED BY <2>5, <3>1, <3>5
  <2>6. QED BY <1>20, <2>1, <2>2, <2>3, <2>4, <2>5
<1>21. Numbered(Q, a, [c \in Channel |-> Packed(a, c)'])
  <2> DEFINE bound == [c \in Channel |-> Packed(a, c)']
  <2>1. \A c \in Channel : bound[c] = C(c) + k(c)  BY <1>10
  <2> HIDE DEF bound
  <2>2. \A p \in Q : /\ p.sequenceId < bound[p.channel]
                    /\ \E n \in 0 .. bound[p.channel] - 1 : p.content = Holds(p.channel, n)
    <3>1. ASSUME NEW p \in Q
          PROVE  /\ p.sequenceId < bound[p.channel]
                 /\ \E n \in 0 .. bound[p.channel] - 1 : p.content = Holds(p.channel, n)
      <4>1. bound[p.channel] = C(p.channel) + k(p.channel)  BY <1>11, <2>1
      <4>2. QED BY <1>19, <4>1
    <3>2. QED BY <3>1
  <2>3. \A p, q \in Q : p.content = q.content => p.sequenceId = q.sequenceId  BY <1>20
  <2>4. Numbered(Q, a, bound)  BY <2>2, <2>3, Zenon DEF Numbered, Holds
  <2>5. QED BY <2>4 DEF bound
<1>22. ASSUME NEW c \in Channel PROVE QueueInOrder(a, c)'
  <2> DEFINE s == queue(c)
             n == k(c)
             unsent == client'[a].sendQueue[c]
  <2>1. /\ s \in Seq(Messages) /\ n \in Nat /\ n <= Len(s)
        /\ unsent = SubSeq(s, n + 1, Len(s)) /\ C(c) \in Nat
    BY <1>1, <1>5, <1>6
  <2>2. \A j \in 1 .. Len(s) : s[j] = [from |-> a, channel |-> c, number |-> C(c) + j - 1]
    BY <1>8
  <2>3. Packed(a, c)' = C(c) + n /\ Packed(a, c)' \in Nat  BY <1>10
  <2> HIDE DEF s, n, unsent
  <2>4. n \in Nat /\ C(c) \in Nat  BY <2>1
  <2>5. ASSUME NEW j \in DOMAIN unsent
        PROVE  unsent[j] = [from |-> a, channel |-> c, number |-> Packed(a, c)' + j - 1]
    <3>1. j \in Nat /\ n + j \in 1 .. Len(s) /\ unsent[j] = s[n + j]  BY <2>1
    <3> DEFINE m == Packed(a, c)'
               b == C(c)
    <3>2. m = b + n /\ b \in Nat /\ n \in Nat /\ j \in Nat  BY <2>3, <2>4, <3>1
    <3> HIDE DEF m, b
    <3>3. b + (n + j) - 1 = m + j - 1  BY <3>2
    <3>4. unsent[j] = [from |-> a, channel |-> c, number |-> C(c) + (n + j) - 1]
      BY <2>2, <3>1
    <3>5. QED BY <3>3, <3>4 DEF m, b
  <2>6. QED BY <2>5 DEF QueueInOrder, unsent
<1>23. ASSUME NEW c \in Channel PROVE SendsInOrder(a, c)'
  <2>1. client'[a].sendPackets[c] = rest(c)  BY <1>1 DEF rest
  <2>2. WrappingAdd(rest(c).newest, 1) <= Packed(a, c)'
    <3>1. /\ WrappingAdd(rest(c).newest, 1) = first(c) + k(c) /\ first(c) <= C(c)
          /\ first(c) \in Nat /\ C(c) \in Nat /\ k(c) \in Nat
      BY <1>5, <1>6
    <3>2. QED BY <1>10, <3>1
  <2>3. ASSUME NEW i \in Keys(rest(c))
        PROVE  \E p \in Q : /\ p.channel = c /\ p.sequenceId = i
                           /\ p.content = <<Get(rest(c), i).message>>
    <3>1. CASE i \in Keys(ring(c)) /\ Get(rest(c), i).message = Get(ring(c), i).message
      <4>1. PICK p \in P : p.channel = c /\ p.sequenceId = i
                          /\ p.content = <<Get(ring(c), i).message>>
        BY <1>8, <3>1
      <4>2. p \in Q  BY <1>2
      <4>3. QED BY <3>1, <4>1, <4>2
    <3>2. CASE i \in sent(c) /\ Get(rest(c), i).message = Get(f(c), i).message
      <4>1. PICK p \in Outgoing(inner, due) : p.channel = c /\ p.sequenceId = i
                                             /\ p.content = <<Get(f(c), i).message>>
        BY <1>7, <3>2
      <4>2. p \in Q  BY <1>4, <4>1
      <4>3. QED BY <3>2, <4>1, <4>2
    <3>3. QED BY <1>6, <3>1, <3>2
  <2>4. QED BY <2>1, <2>2, <2>3 DEF SendsInOrder, Q
<1>24. \A c \in Channel : Packed(a, c)' >= 0 /\ written'[a][c] <= scenario'.load[a][c]
  BY <1>1, <1>5, <1>10
<1>25. Numbered(FromClient(a)', a, [c \in Channel |-> Packed(a, c)'])  BY <1>21 DEF Q
<1>26. QED BY <1>22, <1>23, <1>24, <1>25 DEF ClientInOrder

\* A step of client a that sends nothing, and forgets some of what is in flight.
LEMMA FewerInFlight ==
    ASSUME TypeOK, NEW a \in Client, ClientInOrder(a),
           scenario' = scenario, FromClient(a)' = FromClient(a),
           \A c \in Channel :
              /\ Packed(a, c) \in Nat /\ Packed(a, c)' \in Nat
              /\ Packed(a, c) <= Packed(a, c)'
              /\ written'[a][c] <= scenario.load[a][c]
              /\ QueueInOrder(a, c)'
              /\ WrappingAdd(client'[a].sendPackets[c].newest, 1) <= Packed(a, c)'
              /\ \A i \in Keys(client'[a].sendPackets[c]) :
                    /\ i \in Keys(client[a].sendPackets[c])
                    /\ Get(client'[a].sendPackets[c], i) = Get(client[a].sendPackets[c], i)
    PROVE  ClientInOrder(a)'
<1> DEFINE P == FromClient(a)
           old == [c \in Channel |-> Packed(a, c)]
           new == [c \in Channel |-> Packed(a, c)']
<1>1. ASSUME NEW c \in Channel
      PROVE  /\ Packed(a, c)' >= 0
             /\ written'[a][c] <= scenario'.load[a][c]
             /\ QueueInOrder(a, c)'
  OBVIOUS
<1>2. ASSUME NEW c \in Channel PROVE SendsInOrder(a, c)'
  <2>1. \A i \in Keys(client[a].sendPackets[c]) : \E p \in P :
           /\ p.channel = c /\ p.sequenceId = i
           /\ p.content = <<Get(client[a].sendPackets[c], i).message>>
    BY DEF ClientInOrder, SendsInOrder
  <2>2. \A i \in Keys(client'[a].sendPackets[c]) : \E p \in P :
           /\ p.channel = c /\ p.sequenceId = i
           /\ p.content = <<Get(client'[a].sendPackets[c], i).message>>
    BY <2>1
  <2>3. P' = P  OBVIOUS
  <2> HIDE DEF P
  <2>4. \A i \in Keys(client'[a].sendPackets[c]) : \E p \in P' :
           /\ p.channel = c /\ p.sequenceId = i
           /\ p.content = <<Get(client'[a].sendPackets[c], i).message>>
    BY <2>2, <2>3
  <2>5. QED BY <2>4 DEF SendsInOrder, P
<1>3. \A p \in P : p.channel \in Channel /\ p.sequenceId \in Nat
  <2>1. \A p \in P : p \in Packets /\ p.channel \in Channel  BY DEF TypeOK, FromClient
  <2>2. \A p \in Packets : p.channel \in Channel => p.sequenceId \in Nat
    BY DEF Packets, Channel, Index
  <2>3. QED BY <2>1, <2>2
<1>4. \A c \in Channel : old[c] \in Nat /\ new[c] \in Nat /\ old[c] <= new[c]  OBVIOUS
<1>5. Numbered(P, a, old)  BY DEF ClientInOrder
<1>6. P' = P /\ new = [c \in Channel |-> Packed(a, c)]'  OBVIOUS
<1> HIDE DEF P, old, new
<1>7. Numbered(P, a, new)
  <2>1. ASSUME NEW p \in P
        PROVE  /\ p.sequenceId < new[p.channel]
               /\ \E n \in 0 .. new[p.channel] - 1 :
                     p.content = <<[from |-> a, channel |-> p.channel, number |-> n]>>
    <3>1. /\ p.sequenceId < old[p.channel]
          /\ \E n \in 0 .. old[p.channel] - 1 :
                p.content = <<[from |-> a, channel |-> p.channel, number |-> n]>>
      BY <1>5, Zenon DEF Numbered
    <3>2. 0 .. old[p.channel] - 1 \subseteq 0 .. new[p.channel] - 1  BY <1>3, <1>4
    <3>3. p.sequenceId < new[p.channel]  BY <1>3, <1>4, <3>1
    <3>4. QED BY <3>1, <3>2, <3>3, Zenon
  <2>2. \A p, q \in P : p.content = q.content => p.sequenceId = q.sequenceId
    BY <1>5, Zenon DEF Numbered
  <2>3. QED BY <2>1, <2>2, Zenon DEF Numbered
<1>8. Numbered(FromClient(a)', a, [c \in Channel |-> Packed(a, c)]')
  BY <1>6, <1>7 DEF P
<1>9. QED BY <1>1, <1>2, <1>8 DEF ClientInOrder

\* What ClientInOrder and the types say of the numbers of one channel.
LEMMA PackedType ==
    ASSUME TypeOK, NEW a \in Client, ClientInOrder(a), NEW c \in Channel
    PROVE  /\ client[a].sendQueue[c] \in Seq(Messages)
           /\ client[a].sendPackets[c] \in Rings(Pending)
           /\ Packed(a, c) \in Nat /\ written[a][c] \in Nat
           /\ written[a][c] = Packed(a, c) + Len(client[a].sendQueue[c])
           /\ WrappingAdd(client[a].sendPackets[c].newest, 1) <= Packed(a, c)
<1>1. client[a] \in Inners /\ written[a][c] \in Nat  BY DEF TypeOK
<1>2. /\ client[a].sendQueue[c] \in Seq(Messages)
      /\ client[a].sendPackets[c] \in Rings(Pending)
  BY <1>1 DEF Inners
<1>3. Packed(a, c) >= 0 /\ SendsInOrder(a, c)  BY DEF ClientInOrder
<1> DEFINE n == Len(client[a].sendQueue[c])
           x == Packed(a, c)
<1>4. x = written[a][c] - n /\ n \in Nat  BY <1>2 DEF Packed
<1> HIDE DEF n
<1>5. x \in Nat /\ written[a][c] = x + n  BY <1>1, <1>3, <1>4
<1>6. QED BY <1>1, <1>2, <1>3, <1>5 DEF SendsInOrder, n

\* mod.rs:135-148: a message that is written has the next number.
LEMMA WriteInOrder ==
    ASSUME TypeOK, NEW a \in Client, ClientInOrder(a), NEW d \in Channel, ClientWrite(a, d)
    PROVE  ClientInOrder(a)'
<1> DEFINE queue(c) == client[a].sendQueue[c]
           m == Message(a, d)
<1>1. client[a] \in Inners /\ scenario \in Scenarios /\ written[a] \in [Channel -> Nat]
  BY DEF TypeOK
<1>2. /\ client'[a] = Enqueue(client[a], d, m)
      /\ written'[a] = [written[a] EXCEPT ![d] = @ + 1]
      /\ written[a][d] < scenario.load[a][d]
      /\ scenario' = scenario /\ FromClient(a)' = FromClient(a)
  BY DEF ClientWrite, TypeOK, FromClient
<1>3. /\ client'[a].sendPackets = client[a].sendPackets
      /\ client'[a].sendQueue = [client[a].sendQueue EXCEPT ![d] = Append(@, m)]
  BY <1>1, <1>2 DEF Enqueue, Inners
<1>4. m = [from |-> a, channel |-> d, number |-> written[a][d]]  BY DEF Message
<1>5. \A c \in Channel : /\ written[a][c] <= scenario.load[a][c] /\ QueueInOrder(a, c)
                         /\ scenario.load[a][c] \in Nat
  BY <1>1, MultiAssumption DEF ClientInOrder
<1> HIDE DEF m
<1>6. ASSUME NEW c \in Channel
      PROVE  /\ Packed(a, c) \in Nat /\ Packed(a, c)' = Packed(a, c)
             /\ written'[a][c] <= scenario.load[a][c]
             /\ QueueInOrder(a, c)'
             /\ WrappingAdd(client[a].sendPackets[c].newest, 1) <= Packed(a, c)
  <2> DEFINE s == queue(c)
             t == client'[a].sendQueue[c]
             x == Packed(a, c)
             w == written[a][c]
  <2>1. /\ s \in Seq(Messages) /\ x \in Nat /\ w \in Nat /\ w = x + Len(s) /\ Len(s) \in Nat
        /\ WrappingAdd(client[a].sendPackets[c].newest, 1) <= x
    BY PackedType
  <2>2. IF c = d THEN t = Append(s, m) /\ written'[a][c] = w + 1
        ELSE t = s /\ written'[a][c] = w
    BY <1>1, <1>2, <1>3 DEF Inners
  <2>3. Packed(a, c)' = written'[a][c] - Len(t)  BY DEF Packed
  <2>4. w <= scenario.load[a][c] /\ (c = d => w < scenario.load[a][c])
    BY <1>2, <1>5
  <2>5. \A k \in DOMAIN s : s[k] = [from |-> a, channel |-> c, number |-> x + k - 1]
    BY <1>5 DEF QueueInOrder
  <2>6. c = d => m = [from |-> a, channel |-> c, number |-> w]  BY <1>4
  <2>7. scenario.load[a][c] \in Nat  BY <1>5
  <2> HIDE DEF s, t, w
  <2>8. Packed(a, c)' = x
    <3>1. Len(t) = IF c = d THEN Len(s) + 1 ELSE Len(s)  BY <2>1, <2>2
    <3> HIDE DEF x
    <3>2. QED BY <2>1, <2>2, <2>3, <3>1
  <2>9. written'[a][c] <= scenario.load[a][c]  BY <2>1, <2>2, <2>4, <2>7
  <2>10. \A k \in DOMAIN t : t[k] = [from |-> a, channel |-> c, number |-> x + k - 1]
    <3> HIDE DEF x
    <3>1. ASSUME NEW k \in DOMAIN t, c = d
          PROVE  t[k] = [from |-> a, channel |-> c, number |-> x + k - 1]
      <4>1. \/ k \in DOMAIN s /\ t[k] = s[k]
            \/ k = Len(s) + 1 /\ t[k] = m
        BY <2>1, <2>2, <3>1
      <4>2. CASE k \in DOMAIN s /\ t[k] = s[k]  BY <2>5, <4>2
      <4>3. CASE k = Len(s) + 1 /\ t[k] = m
        <5>1. x + k - 1 = w  BY <2>1, <4>3
        <5>2. QED BY <2>6, <3>1, <4>3, <5>1
      <4>4. QED BY <4>1, <4>2, <4>3
    <3>2. c # d => \A k \in DOMAIN t :
                      t[k] = [from |-> a, channel |-> c, number |-> x + k - 1]
      BY <2>2, <2>5
    <3>3. QED BY <3>1, <3>2
  <2>11. QueueInOrder(a, c)'
    <3>1. \A k \in DOMAIN t :
             t[k] = [from |-> a, channel |-> c, number |-> Packed(a, c)' + k - 1]
      BY <2>8, <2>10
    <3>2. QED BY <3>1, Zenon DEF QueueInOrder, t
  <2>12. QED BY <2>1, <2>8, <2>9, <2>11
<1>7. \A c \in Channel : Packed(a, c) <= Packed(a, c)  BY <1>6
<1>8. QED BY <1>2, <1>3, <1>6, <1>7, FewerInFlight

\* inner.rs:129-246: read_packet queues nothing to be sent, and of what is in
\* flight takes only what is acknowledged.
LEMMA ReadPacketSends ==
    ASSUME NEW inner \in Inners, NEW p \in Packets
    PROVE  /\ ReadPacket(inner, p).sendQueue = inner.sendQueue
           /\ \/ ReadPacket(inner, p).sendPackets = inner.sendPackets
              \/ ReadPacket(inner, p).sendPackets =
                    [c \in Channel |-> Acknowledged(inner.sendPackets[c], p.ack[c])]
           /\ p.ack \in Acks
<1> DEFINE acked == [c \in Channel |-> Acknowledged(inner.sendPackets[c], p.ack[c])]
<1>1. p.ack \in Acks /\ (p.channel \in Channel \/ p.channel = "unreliable")  BY DEF Packets
<1>2. /\ Acknowledge(inner, p.ack).sendQueue = inner.sendQueue
      /\ Acknowledge(inner, p.ack).sendPackets = acked
      /\ Acknowledge(inner, p.ack) \in Inners
  <2>1. Acknowledge(inner, p.ack) = [inner EXCEPT !.sendPackets = acked]
    BY DEF Acknowledge, Inners
  <2> HIDE DEF acked
  <2>2. QED BY <2>1, AcknowledgeType DEF Inners
<1> HIDE DEF acked
<1>3. CASE p.channel = "unreliable"
  <2>1. ReadPacket(inner, p) = Acknowledge(inner, p.ack)
    BY <1>3 DEF ReadPacket, ReadHeartbeat, Channel
  <2>2. QED BY <1>1, <1>2, <2>1 DEF acked
<1>4. CASE p.channel \in Channel /\ Refused(inner, p)
  <2>1. ReadPacket(inner, p) = [inner EXCEPT !.duplicate = TRUE]
    BY <1>4 DEF ReadPacket, Channel
  <2>2. QED BY <1>1, <2>1 DEF Inners
<1>5. CASE p.channel = "reliable" /\ ~ Refused(inner, p)
  <2>1. ReadPacket(inner, p) = ReadReliable(inner, p)  BY <1>5 DEF ReadPacket, Channel
  <2>2. /\ ReadReliable(inner, p).sendQueue = Acknowledge(inner, p.ack).sendQueue
        /\ ReadReliable(inner, p).sendPackets = Acknowledge(inner, p.ack).sendPackets
    BY <1>2 DEF ReadReliable, Inners
  <2>3. QED BY <1>1, <1>2, <2>1, <2>2 DEF acked
<1>6. CASE p.channel = "ordered" /\ ~ Refused(inner, p)
  <2>1. ReadPacket(inner, p) = ReadOrdered(inner, p)  BY <1>6 DEF ReadPacket, Channel
  <2>2. /\ ReadOrdered(inner, p).sendQueue = Acknowledge(inner, p.ack).sendQueue
        /\ ReadOrdered(inner, p).sendPackets = Acknowledge(inner, p.ack).sendPackets
    BY <1>2 DEF ReadOrdered, Inners
  <2>3. QED BY <1>1, <1>2, <2>1, <2>2 DEF acked
<1>7. QED BY <1>1, <1>3, <1>4, <1>5, <1>6 DEF Channel

\* mod.rs:52-75: what a client receives changes nothing of what it has to send.
LEMMA ReceiveInOrder ==
    ASSUME TypeOK, NEW a \in Client, ClientInOrder(a),
           NEW datagram \in net, ClientReceive(a, datagram)
    PROVE  ClientInOrder(a)'
<1> DEFINE read == ReadPacket(client[a], datagram.packet)
<1>1. client[a] \in Inners /\ datagram.packet \in Packets /\ read \in Inners
  BY ReadPacketType DEF TypeOK
<1>2. /\ client'[a].sendQueue = read.sendQueue
      /\ client'[a].sendPackets = read.sendPackets
      /\ written' = written /\ scenario' = scenario /\ FromClient(a)' = FromClient(a)
  <2>1. client'[a] = [read EXCEPT !.unordered = << >>, !.ordered = << >>]
    BY DEF ClientReceive, TypeOK
  <2> HIDE DEF read
  <2>2. client'[a].sendQueue = read.sendQueue /\ client'[a].sendPackets = read.sendPackets
    BY <1>1, <2>1 DEF Inners
  <2>3. QED BY <2>2 DEF ClientReceive, FromClient
<1>3. /\ read.sendQueue = client[a].sendQueue
      /\ \/ read.sendPackets = client[a].sendPackets
         \/ read.sendPackets = [c \in Channel |->
               Acknowledged(client[a].sendPackets[c], datagram.packet.ack[c])]
      /\ datagram.packet.ack \in Acks
  BY <1>1, ReadPacketSends
<1> HIDE DEF read
<1>4. ASSUME NEW c \in Channel
      PROVE  /\ Packed(a, c) \in Nat /\ Packed(a, c)' = Packed(a, c)
             /\ written'[a][c] <= scenario.load[a][c]
             /\ QueueInOrder(a, c)'
  <2>1. Packed(a, c)' = Packed(a, c) /\ Packed(a, c) \in Nat
    BY <1>2, <1>3, PackedType DEF Packed
  <2>2. written[a][c] <= scenario.load[a][c] /\ QueueInOrder(a, c)  BY DEF ClientInOrder
  <2>3. QueueInOrder(a, c)'  BY <1>2, <1>3, <2>1, <2>2 DEF QueueInOrder
  <2>4. QED BY <1>2, <2>1, <2>2, <2>3
<1>5. ASSUME NEW c \in Channel
      PROVE  /\ WrappingAdd(client'[a].sendPackets[c].newest, 1) <= Packed(a, c)'
             /\ \A i \in Keys(client'[a].sendPackets[c]) :
                   /\ i \in Keys(client[a].sendPackets[c])
                   /\ Get(client'[a].sendPackets[c], i) = Get(client[a].sendPackets[c], i)
  <2> DEFINE ring == client[a].sendPackets[c]
             next == client'[a].sendPackets[c]
             ack == datagram.packet.ack[c]
  <2>1. /\ ring \in Rings(Pending) /\ WrappingAdd(ring.newest, 1) <= Packed(a, c)'
        /\ ack.newest \in Index /\ ack.bits \subseteq Slots
    BY <1>3, <1>4, PackedType DEF Acks
  <2>2. next = ring \/ next = Acknowledged(ring, ack)  BY <1>2, <1>3
  <2> HIDE DEF ring, next, ack
  <2>3. next \in Rings(Pending)  BY <2>1, <2>2, AcknowledgedType
  <2>4. /\ Keys(ring) = {i \in Index : Get(ring, i) # None}
        /\ Keys(next) = {i \in Index : Get(next, i) # None}
    BY <2>1, <2>3, KeysAreFound
  <2>5. next.newest = ring.newest
        /\ \A i \in Index : Get(next, i) = Get(ring, i) \/ Get(next, i) = None
    BY <2>1, <2>2, GetAfterAcknowledged
  <2>6. QED BY <2>1, <2>4, <2>5 DEF ring, next
<1>6. \A c \in Channel : Packed(a, c) <= Packed(a, c)'  BY <1>4
<1>7. QED BY <1>2, <1>4, <1>5, <1>6, FewerInFlight

\* A client that starts again counts its packets from 0.
LEMMA RestartInOrder ==
    ASSUME TypeOK, NEW a \in Client, ClientInOrder(a), ClientRestart(a)
    PROVE  ClientInOrder(a)'
<1>1. /\ client'[a] = NewInner /\ written' = written /\ scenario' = scenario
      /\ FromClient(a)' = FromClient(a)
  BY DEF ClientRestart, TypeOK, FromClient
<1>2. \A c \in Channel : NewInner.sendQueue[c] = << >> /\ NewInner.sendPackets[c] = NewRing
  BY DEF NewInner
<1>3. WrappingAdd(NewRing.newest, 1) = 0
  BY U16Assumption DEF NewRing, WrappingAdd, LastIndex
<1>4. \A i : i \notin Keys(NewRing)
  <2>1. NewRing \in Rings(Pending)  BY NewInnerType DEF Inners, NewInner, Channel
  <2>2. \A i \in Index : Get(NewRing, i) = None  BY SlotType DEF NewRing, Get
  <2>3. QED BY <2>1, <2>2, KeysAreFound
<1>5. ASSUME NEW c \in Channel
      PROVE  /\ Packed(a, c) \in Nat /\ Packed(a, c)' = written[a][c]
             /\ written[a][c] \in Nat /\ Packed(a, c) <= written[a][c]
             /\ written'[a][c] <= scenario.load[a][c]
             /\ QueueInOrder(a, c)'
  <2> DEFINE n == Len(client[a].sendQueue[c])
             x == Packed(a, c)
  <2>1. x \in Nat /\ written[a][c] = x + n /\ n \in Nat /\ written[a][c] \in Nat
    BY PackedType
  <2> HIDE DEF n
  <2>2. x <= written[a][c]  BY <2>1
  <2>3. client'[a].sendQueue[c] = << >>  BY <1>1, <1>2
  <2>4. Packed(a, c)' = written[a][c]  BY <1>1, <2>1, <2>3 DEF Packed
  <2>5. QueueInOrder(a, c)'  BY <2>3 DEF QueueInOrder
  <2>6. written[a][c] <= scenario.load[a][c]  BY DEF ClientInOrder
  <2>7. QED BY <1>1, <2>1, <2>2, <2>4, <2>5, <2>6
<1>6. ASSUME NEW c \in Channel
      PROVE  /\ WrappingAdd(client'[a].sendPackets[c].newest, 1) <= Packed(a, c)'
             /\ \A i : i \notin Keys(client'[a].sendPackets[c])
  BY <1>1, <1>2, <1>3, <1>4, <1>5
<1>7. QED BY <1>1, <1>5, <1>6, FewerInFlight

\* What another address sends is not from a.
LEMMA FromOthers ==
    ASSUME NEW a, NEW more, net' = net \cup more, \A d \in more : d.from # a
    PROVE  FromClient(a)' = FromClient(a)
<1>1. {e \in net' : e.from = a /\ e.packet.channel \in Channel}
         = {e \in net : e.from = a /\ e.packet.channel \in Channel}
  OBVIOUS
<1>2. QED BY <1>1 DEF FromClient

\* multi.rs:282-315: every packet of the server comes from its address.
LEMMA ServerDatagrams ==
    ASSUME NEW due, ServerSend(due)
    PROVE  \E more : net' = net \cup more /\ \A d \in more : d.from = Server
<1> DEFINE dueOn(a) == {<<d[2], d[3]>> : d \in {e \in due : e[1] = a}}
           out(a) == Datagrams(Server, a, Outgoing(coms[a], dueOn(a)))
           more == UNION {out(a) : a \in DOMAIN coms}
<1>1. net' = net \cup more  BY DEF ServerSend
<1>2. \A a, contents : \A d \in Datagrams(Server, a, contents) : d.from = Server
  BY DEF Datagrams
<1> HIDE DEF dueOn
<1>3. \A d \in more : d.from = Server  BY <1>2
<1>4. QED BY <1>1, <1>3

\* Every step keeps the order of what the clients send.
LEMMA ClientsInOrder ==
    ASSUME FewMessages, TypeOK, \A a \in Client : ClientInOrder(a), Next
    PROVE  \A a \in Client : ClientInOrder(a)'
<1> SUFFICES ASSUME NEW a \in Client PROVE ClientInOrder(a)'
  OBVIOUS
<1>1. ClientInOrder(a)  OBVIOUS
<1>2. ASSUME NEW b \in Client, ClientSteps(b) PROVE ClientInOrder(a)'
  <2>1. CASE a = b
    <3>1. ASSUME NEW c \in Channel, ClientWrite(a, c) PROVE ClientInOrder(a)'
      BY <1>1, <3>1, WriteInOrder
    <3>2. ASSUME NEW due, ClientSend(a, due) PROVE ClientInOrder(a)'
      BY <1>1, <3>2, SendInOrder
    <3>3. ASSUME NEW datagram \in net, ClientReceive(a, datagram) PROVE ClientInOrder(a)'
      BY <1>1, <3>3, ReceiveInOrder
    <3>4. ASSUME ClientRestart(a) PROVE ClientInOrder(a)'
      BY <1>1, <3>4, RestartInOrder
    <3>5. QED BY <1>2, <2>1, <3>1, <3>2, <3>3, <3>4 DEF ClientSteps
  <2>2. CASE a # b
    <3>1. client \in [Client -> Inners] /\ written \in [Client \cup {Server} -> [Channel -> Nat]]
      BY DEF TypeOK
    <3>2. ASSUME NEW c \in Channel, ClientWrite(b, c)
          PROVE  /\ client'[a] = client[a] /\ written'[a] = written[a]
                 /\ scenario' = scenario /\ FromClient(a)' = FromClient(a)
      BY <2>2, <3>1, <3>2 DEF ClientWrite, FromClient
    <3>3. ASSUME NEW due, ClientSend(b, due)
          PROVE  /\ client'[a] = client[a] /\ written'[a] = written[a]
                 /\ scenario' = scenario /\ FromClient(a)' = FromClient(a)
      <4>1. /\ client'[a] = client[a] /\ written'[a] = written[a] /\ scenario' = scenario
            /\ net' = net \cup Datagrams(b, Server, Outgoing(client[b], due))
        BY <2>2, <3>1, <3>3 DEF ClientSend, history
      <4>2. \A d \in Datagrams(b, Server, Outgoing(client[b], due)) : d.from # a
        BY <2>2 DEF Datagrams
      <4>3. QED BY <4>1, <4>2, FromOthers
    <3>4. ASSUME NEW datagram \in net, ClientReceive(b, datagram)
          PROVE  /\ client'[a] = client[a] /\ written'[a] = written[a]
                 /\ scenario' = scenario /\ FromClient(a)' = FromClient(a)
      <4> DEFINE next == [ReadPacket(client[b], datagram.packet) EXCEPT
                             !.unordered = << >>, !.ordered = << >>]
      <4>1. client' = [client EXCEPT ![b] = next]  BY <3>4 DEF ClientReceive
      <4> HIDE DEF next
      <4>2. client'[a] = client[a]  BY <2>2, <3>1, <4>1
      <4>3. QED BY <3>4, <4>2 DEF ClientReceive, FromClient
    <3>5. ASSUME ClientRestart(b)
          PROVE  /\ client'[a] = client[a] /\ written'[a] = written[a]
                 /\ scenario' = scenario /\ FromClient(a)' = FromClient(a)
      BY <2>2, <3>1, <3>5 DEF ClientRestart, FromClient
    <3>6. /\ client'[a] = client[a] /\ written'[a] = written[a]
          /\ scenario' = scenario /\ FromClient(a)' = FromClient(a)
      BY <1>2, <3>2, <3>3, <3>4, <3>5 DEF ClientSteps
    <3>7. QED BY <1>1, <3>6, SameClient
  <2>3. QED BY <2>1, <2>2
<1>3. ASSUME ServerSteps
      PROVE  /\ client' = client /\ written'[a] = written[a]
             /\ scenario' = scenario /\ FromClient(a)' = FromClient(a)
  <2> DEFINE Keeps == /\ client' = client /\ written'[a] = written[a]
                      /\ scenario' = scenario /\ FromClient(a)' = FromClient(a)
  <2>1. ASSUME NEW datagram, NEW intact, ReceiveDatagram(datagram, intact) PROVE Keeps
    BY <2>1 DEF ReceiveDatagram, FromClient
  <2>2. ASSUME NEW datagram, DelayPacket(datagram) PROVE Keeps
    BY <2>2 DEF DelayPacket, FromClient, history
  <2>3. ASSUME NEW i, NEW intact, ReceiveDelayed(i, intact) PROVE Keeps
    BY <2>3 DEF ReceiveDelayed, FromClient
  <2>4. ASSUME Finish PROVE Keeps  BY <2>4 DEF Finish, FromClient
  <2>5. ASSUME NEW b, Connect(b) PROVE Keeps  BY <2>5 DEF Connect, FromClient, history
  <2>6. ASSUME NEW b, RemoveConnection(b) PROVE Keeps
    BY <2>6 DEF RemoveConnection, FromClient
  <2>7. ASSUME NEW to, ServerWrite(to) PROVE Keeps
    <3>1. a # Server /\ written \in [Client \cup {Server} -> [Channel -> Nat]]
      BY MultiAssumption DEF TypeOK
    <3>2. QED BY <2>7, <3>1 DEF ServerWrite, FromClient
  <2>8. ASSUME ReadAll PROVE Keeps  BY <2>8 DEF ReadAll, FromClient
  <2>9. ASSUME NEW due, ServerSend(due) PROVE Keeps
    <3>1. PICK more : net' = net \cup more /\ \A d \in more : d.from = Server
      BY <2>9, ServerDatagrams
    <3>2. \A d \in more : d.from # a  BY <3>1, MultiAssumption
    <3>3. FromClient(a)' = FromClient(a)  BY <3>1, <3>2, FromOthers
    <3>4. QED BY <2>9, <3>3 DEF ServerSend, history
  <2> HIDE DEF Keeps
  <2>10. Keeps
    BY <1>3, <2>1, <2>2, <2>3, <2>4, <2>5, <2>6, <2>7, <2>8, <2>9 DEF ServerSteps, ServerSends
  <2>11. QED BY <2>10 DEF Keeps
<1>4. CASE ServerSteps  BY <1>1, <1>3, <1>4, SameClient
<1>5. QED BY <1>2, <1>4 DEF Next

-----------------------------------------------------------------------------
(* Reading once: every step, and the theorem.                              *)

\* What the connection to a has read, and what it holds for a reader.
SameAsRead(old, new) ==
    /\ new.received = old.received
    /\ new.head = old.head
    /\ new.unordered = old.unordered
    /\ new.ordered = old.ordered

\* A step that reads nothing.
LEMMA NothingRead ==
    ASSUME ReadInvariant, net \subseteq net', UNCHANGED <<scenario, log, removals>>,
           \A a \in Client : SameAsRead(Entry(a), Entry(a)')
    PROVE  ReadOnce' /\ \A a \in Client : ConnectionOnce(a)'
<1>1. ReadOnce'  BY DEF ReadInvariant, ReadOnce
<1>2. ASSUME NEW a \in Client PROVE ConnectionOnce(a)'
  <2>1. ConnectionOnce(a) /\ SameAsRead(Entry(a), Entry(a)')  BY DEF ReadInvariant
  <2>2. QED BY <2>1, SameConnection DEF SameAsRead
<1>3. QED BY <1>1, <1>2

LEMMA NothingReadOnMap ==
    ASSUME TypeOK, DOMAIN coms' = DOMAIN coms,
           \A a \in DOMAIN coms : SameAsRead(coms[a], coms'[a]),
           NEW a \in Client
    PROVE  SameAsRead(Entry(a), Entry(a)')
<1>1. CASE a \in DOMAIN coms  BY <1>1 DEF Entry
<1>2. CASE a \notin DOMAIN coms  BY <1>2 DEF Entry, SameAsRead
<1>3. QED BY <1>1, <1>2

LEMMA SendReadsNothing ==
    ASSUME NEW inner \in Inners, NEW due PROVE SameAsRead(inner, AfterSend(inner, due))
<1> DEFINE queue == [c \in Channel |->
                        SubSeq(inner.sendQueue[c],
                               FlushCount(inner.sendPackets[c], inner.sendQueue[c]) + 1,
                               Len(inner.sendQueue[c]))]
           rings == [c \in Channel |-> Resent(FlushedRings(inner)[c], SentNow(inner, due)[c])]
<1>1. AfterSend(inner, due) =
         [inner EXCEPT !.sendQueue = queue, !.sendPackets = rings, !.duplicate = FALSE]
  BY DEF AfterSend
<1> HIDE DEF queue, rings
<1>2. QED BY <1>1 DEF Inners, SameAsRead

\* multi.rs:327-348: retain and remove.
LEMMA RemoveOnce ==
    ASSUME ReadInvariant, NEW a \in Client, RemoveConnection(a)
    PROVE  ReadOnce' /\ \A b \in Client : ConnectionOnce(b)'
<1>1. /\ coms' = [b \in DOMAIN coms \ {a} |-> coms[b]]
      /\ removals' = [removals EXCEPT ![a] = @ + 1]
      /\ UNCHANGED <<net, scenario, log>>
  BY DEF RemoveConnection
<1>2. TypeOK /\ removals \in [Client -> Nat]  BY DEF ReadInvariant, TypeOK
<1>3. ReadOnce'  BY <1>1 DEF ReadInvariant, ReadOnce
<1>4. ASSUME NEW b \in Client, b # a PROVE ConnectionOnce(b)'
  <2>1. Entry(b)' = Entry(b)  BY <1>1, <1>4 DEF Entry
  <2>2. removals'[b] = removals[b]  BY <1>1, <1>2, <1>4
  <2>3. ConnectionOnce(b)  BY DEF ReadInvariant
  <2>4. QED BY <1>1, <2>1, <2>2, <2>3, SameConnection
<1>5. ConnectionOnce(a)'
  <2>1. Entry(a)' = NewInner  BY <1>1 DEF Entry
  <2>2. scenario.load[a] \in [Channel -> Nat]
    <3>1. scenario \in Scenarios  BY <1>2 DEF TypeOK
    <3>2. QED BY <3>1, MultiAssumption
  <2>3. Reads(Entry(a)', FromClient(a)', scenario'.load[a])
    BY <1>1, <2>1, <2>2, NewReads
  <2>4. ASSUME NEW j \in DOMAIN log', log'[j].from = a
        PROVE  log'[j].life <= removals'[a] /\ log'[j].life # removals'[a]
    <3>1. log[j].life <= removals[a]
      <4>1. ReadBefore(Entry(a), FromClient(a), a)  BY DEF ReadInvariant, ConnectionOnce
      <4>2. j \in DOMAIN log /\ log[j].from = a  BY <1>1, <2>4
      <4>3. QED BY <4>1, <4>2 DEF ReadBefore
    <3>2. log[j].life \in Nat
      <4>1. log \in Seq(LogEntries)  BY <1>2 DEF TypeOK
      <4>2. log[j] \in LogEntries  BY <1>1, <2>4, <4>1
      <4>3. QED BY <4>2 DEF LogEntries
    <3>3. removals[a] \in Nat /\ removals'[a] = removals[a] + 1  BY <1>1, <1>2
    <3>4. QED BY <1>1, <3>1, <3>2, <3>3
  <2>5. ReadBefore(Entry(a), FromClient(a), a)'  BY <2>4 DEF ReadBefore
  <2>6. QED BY <2>3, <2>5 DEF ConnectionOnce
<1>6. QED BY <1>3, <1>4, <1>5

\* multi.rs:253-261, 317-325: for_each or iter_mut with read.
LEMMA ReadAllOnce ==
    ASSUME FewMessages, ReadInvariant, ReadAll
    PROVE  ReadOnce' /\ \A b \in Client : ConnectionOnce(b)'
<1>1. PICK a \in DOMAIN coms :
         /\ coms' = [coms EXCEPT ![a].unordered = << >>, ![a].ordered = << >>]
         /\ log' = log \o Entries(a, coms[a].unordered \o coms[a].ordered)
  BY DEF ReadAll
<1>2. UNCHANGED <<net, scenario, removals>>  BY DEF ReadAll
<1>3. TypeOK /\ ReadOnce /\ a \in Client  BY DEF ReadInvariant, TypeOK
<1> DEFINE inner == coms[a]
           next == [inner EXCEPT !.unordered = << >>, !.ordered = << >>]
           P == FromClient(a)
           bound == scenario.load[a]
<1>4. Entry(a) = inner /\ inner \in Inners /\ coms \in [DOMAIN coms -> Inners]
  BY <1>3 DEF Entry, TypeOK
<1>5. coms' = [coms EXCEPT ![a] = next]  BY <1>1, <1>4
<1>6. ClientInOrder(a) /\ Reads(inner, P, bound) /\ ReadBefore(inner, P, a)
  BY <1>3, <1>4 DEF ReadInvariant, ConnectionOnce
<1>7. Numbered(P, a, bound)
  <2>1. Reading(Entry(a), P, a, bound)  BY <1>3, <1>4, <1>6, ReadingConnection
  <2>2. QED BY <2>1 DEF Reading
<1>8. /\ next.received = inner.received /\ next.head = inner.head
      /\ next.unordered = << >> /\ next.ordered = << >>
  BY <1>4 DEF Inners
<1>9. log' = log \o Entries(a, inner.unordered \o inner.ordered) /\ removals' = removals
  BY <1>1, <1>2
<1> HIDE DEF next
<1>10. Entry(a)' = next /\ \A b \in Client : b # a => Entry(b)' = Entry(b)
  BY <1>1, <1>4, <1>5 DEF Entry
<1>11. FromClient(a)' = P /\ scenario' = scenario  BY <1>2 DEF FromClient
<1>12. inner.unordered \o inner.ordered \in Seq(Messages)
  <2>1. inner.unordered \in Seq(Messages) /\ inner.ordered \in Seq(Messages)  BY <1>4 DEF Inners
  <2>2. QED BY <2>1
<1> HIDE DEF inner, P, bound
<1>13. /\ ReadOnce'
       /\ Reads(next, P, bound)
       /\ \A j \in DOMAIN log' : log'[j].from = a =>
             /\ log'[j].life <= removals[a]
             /\ log'[j].life = removals[a] => Delivered(next, P, log'[j].message)
  <2>1. /\ TypeOK /\ ReadOnce /\ a \in Client /\ inner \in Inners
        /\ Numbered(P, a, bound) /\ Reads(inner, P, bound) /\ ReadBefore(inner, P, a)
        /\ log' = log \o Entries(a, inner.unordered \o inner.ordered)
        /\ removals' = removals
        /\ next.received = inner.received /\ next.head = inner.head
        /\ next.unordered = << >> /\ next.ordered = << >>
    BY <1>3, <1>4, <1>6, <1>7, <1>8, <1>9
  <2>2. QED BY ONLY <2>1, ReadOut
<1>14. ConnectionOnce(a)'
  BY <1>8, <1>9, <1>10, <1>11, <1>13 DEF ConnectionOnce, ReadBefore, bound
<1>15. ASSUME NEW b \in Client, b # a PROVE ConnectionOnce(b)'
  <2>1. ConnectionOnce(b) /\ Entry(b)' = Entry(b)  BY <1>10, <1>15 DEF ReadInvariant
  <2>2. QED BY <1>2, <1>3, <1>9, <1>12, <1>15, <2>1, OtherConnections
<1>16. QED BY <1>13, <1>14, <1>15

\* Every step of the server reads a message at most once.
LEMMA ServerOnce ==
    ASSUME FewMessages, ReadInvariant, ServerSteps
    PROVE  ReadOnce' /\ \A b \in Client : ConnectionOnce(b)'
<1> DEFINE Once == ReadOnce' /\ \A b \in Client : ConnectionOnce(b)'
<1>1. TypeOK /\ coms \in [DOMAIN coms -> Inners] /\ DOMAIN coms \subseteq Client
  BY DEF ReadInvariant, TypeOK
<1> HIDE DEF Once
<1>2. ASSUME net \subseteq net', UNCHANGED <<scenario, log, removals>>, DOMAIN coms' = DOMAIN coms,
             \A a \in DOMAIN coms : SameAsRead(coms[a], coms'[a])
      PROVE  Once
  <2>1. \A a \in Client : SameAsRead(Entry(a), Entry(a)')  BY <1>1, <1>2, NothingReadOnMap
  <2>2. QED BY <1>2, <2>1, NothingRead DEF Once
<1>3. ASSUME NEW datagram \in net, NEW intact \in BOOLEAN, ReceiveDatagram(datagram, intact)
      PROVE  Once
  <2>1. /\ datagram.to = Server /\ Handle(datagram, intact)
        /\ UNCHANGED <<net, scenario, removals>>
    BY <1>3 DEF ReceiveDatagram
  <2>2. QED BY <2>1, HandleOnce DEF Once
<1>4. ASSUME NEW datagram \in net, DelayPacket(datagram) PROVE Once
  <2>1. UNCHANGED <<coms, net, scenario, log, removals>>  BY <1>4 DEF DelayPacket, history
  <2>2. \A a \in DOMAIN coms : SameAsRead(coms[a], coms'[a])  BY <2>1 DEF SameAsRead
  <2>3. QED BY <1>2, <2>1, <2>2
<1>5. ASSUME NEW i \in DOMAIN delayed, NEW intact \in BOOLEAN, ReceiveDelayed(i, intact)
      PROVE  Once
  <2>1. delayed[i] \in net /\ delayed[i].to = Server
    <3>1. delayed \in Seq({d \in net : d.to = Server})  BY <1>1 DEF TypeOK
    <3>2. delayed[i] \in {d \in net : d.to = Server}  BY <3>1
    <3>3. QED BY <3>2
  <2>2. Handle(delayed[i], intact) /\ UNCHANGED <<net, scenario, removals>>
    BY <1>5 DEF ReceiveDelayed
  <2>3. QED BY <2>1, <2>2, HandleOnce DEF Once
<1>6. ASSUME Finish PROVE Once
  <2>1. coms' = Finished(coms) /\ UNCHANGED <<net, scenario, log, removals>>  BY <1>6 DEF Finish
  <2>2. requests \in Seq(Requests)  BY <1>1 DEF TypeOK
  <2>3. /\ Finished(coms) \in [DOMAIN coms -> Inners]
        /\ \A a \in DOMAIN coms : SameButQueue(coms[a], Finished(coms)[a])
    BY <1>1, <2>2, FinishedType
  <2>4. DOMAIN coms' = DOMAIN coms /\ \A a \in DOMAIN coms : SameAsRead(coms[a], coms'[a])
    BY <2>1, <2>3 DEF SameButQueue, SameAsRead
  <2>5. QED BY <1>2, <2>1, <2>4
<1>7. ASSUME NEW a \in Client, Connect(a) PROVE Once
  <2>1. coms' = WithEntry(a, Entry(a)) /\ UNCHANGED <<net, scenario, log, removals>>
    BY <1>7 DEF Connect, history
  <2>2. \A b \in Client : Entry(b)' = Entry(b)  BY <2>1, EntryAfter
  <2>3. \A b \in Client : SameAsRead(Entry(b), Entry(b)')  BY <2>2 DEF SameAsRead
  <2>4. QED BY <2>1, <2>3, NothingRead DEF Once
<1>8. ASSUME NEW a \in Client, RemoveConnection(a) PROVE Once  BY <1>8, RemoveOnce DEF Once
<1>9. ASSUME NEW to \in SUBSET Client, ServerWrite(to) PROVE Once
  <2> DEFINE m == Message(Server, "reliable")
  <2>1. /\ coms' = [a \in DOMAIN coms |->
                       IF a \in to THEN Enqueue(coms[a], "reliable", m) ELSE coms[a]]
        /\ UNCHANGED <<net, scenario, log, removals>>
    BY <1>9 DEF ServerWrite
  <2>2. m \in Messages  BY <1>1, MessageType DEF Channel
  <2> HIDE DEF m
  <2>3. \A a \in DOMAIN coms : SameButQueue(coms[a], Enqueue(coms[a], "reliable", m))
    BY <1>1, <2>2, EnqueueType DEF Channel
  <2>4. DOMAIN coms' = DOMAIN coms /\ \A a \in DOMAIN coms : SameAsRead(coms[a], coms'[a])
    BY <2>1, <2>3 DEF SameButQueue, SameAsRead
  <2>5. QED BY <1>2, <2>1, <2>4
<1>10. ASSUME ReadAll PROVE Once  BY <1>10, ReadAllOnce DEF Once
<1>11. ASSUME NEW due, ServerSend(due) PROVE Once
  <2> DEFINE dueOn(a) == {<<d[2], d[3]>> : d \in {e \in due : e[1] = a}}
  <2>1. /\ coms' = [a \in DOMAIN coms |-> AfterSend(coms[a], dueOn(a))]
        /\ net \subseteq net' /\ UNCHANGED <<scenario, log, removals>>
    BY <1>11 DEF ServerSend, history
  <2> HIDE DEF dueOn
  <2>2. DOMAIN coms' = DOMAIN coms /\ \A a \in DOMAIN coms : SameAsRead(coms[a], coms'[a])
    BY <1>1, <2>1, SendReadsNothing
  <2>3. QED BY <1>2, <2>1, <2>2
<1>12. Once
  BY <1>3, <1>4, <1>5, <1>6, <1>7, <1>8, <1>9, <1>10, <1>11 DEF ServerSteps, ServerSends
<1>13. QED BY <1>12 DEF Once

\* What the clients do is nothing to what the server has read.
LEMMA ClientOnce ==
    ASSUME ReadInvariant, NEW a \in Client, ClientSteps(a)
    PROVE  ReadOnce' /\ \A b \in Client : ConnectionOnce(b)'
<1>1. net \subseteq net' /\ UNCHANGED <<coms, scenario, log, removals>>
  <2>1. ASSUME NEW c \in Channel, ClientWrite(a, c)
        PROVE  net \subseteq net' /\ UNCHANGED <<coms, scenario, log, removals>>
    BY <2>1 DEF ClientWrite, serverVars
  <2>2. ASSUME NEW due, ClientSend(a, due)
        PROVE  net \subseteq net' /\ UNCHANGED <<coms, scenario, log, removals>>
    BY <2>2 DEF ClientSend, serverVars, history
  <2>3. ASSUME NEW datagram, ClientReceive(a, datagram)
        PROVE  net \subseteq net' /\ UNCHANGED <<coms, scenario, log, removals>>
    BY <2>3 DEF ClientReceive, serverVars
  <2>4. ASSUME ClientRestart(a)
        PROVE  net \subseteq net' /\ UNCHANGED <<coms, scenario, log, removals>>
    BY <2>4 DEF ClientRestart, serverVars
  <2>5. QED BY <2>1, <2>2, <2>3, <2>4 DEF ClientSteps
<1>2. \A b \in Client : SameAsRead(Entry(b), Entry(b)')  BY <1>1 DEF Entry, SameAsRead
<1>3. QED BY <1>1, <1>2, NothingRead

LEMMA InitReads ==
    ASSUME Init PROVE ReadInvariant
<1>1. TypeOK  BY InitType
<1>2. /\ log = << >> /\ net = {} /\ scenario \in Scenarios /\ coms = << >>
      /\ client = [a \in Client |-> NewInner]
      /\ written = [x \in Client \cup {Server} |-> [c \in Channel |-> 0]]
  BY DEF Init
<1>3. ReadOnce  BY <1>2 DEF ReadOnce
<1>4. ASSUME NEW a \in Client PROVE ClientInOrder(a) /\ ConnectionOnce(a)
  <2>1. scenario.load[a] \in [Channel -> Nat]  BY <1>2, MultiAssumption
  <2>2. FromClient(a) = {}  BY <1>2 DEF FromClient
  <2>3. Entry(a) = NewInner  BY <1>2 DEF Entry
  <2>4. ConnectionOnce(a)
    <3>1. Reads(Entry(a), FromClient(a), scenario.load[a])  BY <2>1, <2>3, NewReads
    <3>2. ReadBefore(Entry(a), FromClient(a), a)  BY <1>2 DEF ReadBefore
    <3>3. QED BY <3>1, <3>2 DEF ConnectionOnce
  <2>5. WrappingAdd(NewRing.newest, 1) = 0 /\ \A i : i \notin Keys(NewRing)
    <3>1. NewRing \in Rings(Pending)  BY NewInnerType DEF Inners, NewInner, Channel
    <3>2. \A i \in Index : Get(NewRing, i) = None  BY SlotType DEF NewRing, Get
    <3>3. WrappingAdd(NewRing.newest, 1) = 0
      BY U16Assumption DEF NewRing, WrappingAdd, LastIndex
    <3>4. QED BY <3>1, <3>2, <3>3, KeysAreFound
  <2>6. ASSUME NEW c \in Channel
        PROVE  /\ Packed(a, c) = 0 /\ written[a][c] <= scenario.load[a][c]
               /\ QueueInOrder(a, c) /\ SendsInOrder(a, c)
    <3>1. /\ client[a].sendQueue[c] = << >> /\ client[a].sendPackets[c] = NewRing
          /\ written[a][c] = 0
      BY <1>2 DEF NewInner
    <3>2. Packed(a, c) = 0
      <4>1. Len(<< >>) = 0 /\ 0 - 0 = 0  OBVIOUS
      <4>2. Packed(a, c) = 0 - Len(<< >>)  BY <3>1, Zenon DEF Packed
      <4>3. QED BY <4>1, <4>2
    <3>3. QueueInOrder(a, c)  BY <3>1 DEF QueueInOrder
    <3>4. SendsInOrder(a, c)  BY <2>5, <3>1, <3>2 DEF SendsInOrder
    <3>5. written[a][c] <= scenario.load[a][c]  BY <2>1, <3>1
    <3>6. QED BY <3>2, <3>3, <3>4, <3>5
  <2>7. Numbered(FromClient(a), a, [c \in Channel |-> Packed(a, c)])
    BY <2>2 DEF Numbered
  <2>8. \A c \in Channel : Packed(a, c) >= 0  BY <2>6
  <2>9. QED BY <2>4, <2>6, <2>7, <2>8 DEF ClientInOrder
<1>5. QED BY <1>1, <1>3, <1>4 DEF ReadInvariant

\* multi.rs:209-245, inner.rs:129-246: a connection of the server holds only what was
\* sent to it, the ids of a client follow what it wrote, and each id whose message a
\* connection has handed on is one that read_packet refuses.
THEOREM MultiReadInvariant ==
    ASSUME FewMessages PROVE Spec => []ReadInvariant
<1>1. Init => ReadInvariant  BY InitReads
<1>2. ReadInvariant /\ [Next]_vars => ReadInvariant'
  <2> SUFFICES ASSUME ReadInvariant, [Next]_vars PROVE ReadInvariant'
    OBVIOUS
  <2>1. CASE Next
    <3>1. TypeOK /\ \A a \in Client : ClientInOrder(a)  BY DEF ReadInvariant
    <3>2. TypeOK'  BY <2>1, <3>1, ClientStepType, RecvType, OtherMethodsType DEF Next, ServerSteps
    <3>3. \A a \in Client : ClientInOrder(a)'  BY <2>1, <3>1, ClientsInOrder
    <3>4. ReadOnce' /\ \A a \in Client : ConnectionOnce(a)'
      BY <2>1, ServerOnce, ClientOnce DEF Next
    <3>5. QED BY <3>2, <3>3, <3>4 DEF ReadInvariant
  <2>2. CASE UNCHANGED vars
    <3>1. /\ UNCHANGED <<coms, client, net, calling, requests, delayed, scenario>>
          /\ UNCHANGED <<written, log, heard, heardOrdered, owed, owedBefore, removals, restarts>>
      BY <2>2 DEF vars, history
    <3>2. TypeOK'  BY <3>1 DEF ReadInvariant, TypeOK
    <3>3. \A a \in Client : ClientInOrder(a)'
      <4>1. \A a \in Client : ClientInOrder(a) /\ FromClient(a)' = FromClient(a)
        BY <3>1 DEF ReadInvariant, FromClient
      <4>2. QED BY <3>1, <4>1, SameClient
    <3>4. ReadOnce' /\ \A a \in Client : ConnectionOnce(a)'
      <4>1. \A a \in Client : SameAsRead(Entry(a), Entry(a)')
        BY <3>1 DEF Entry, SameAsRead
      <4>2. QED BY <3>1, <4>1, NothingRead
    <3>5. QED BY <3>2, <3>3, <3>4 DEF ReadInvariant
  <2>3. QED BY <2>1, <2>2
<1>3. QED BY <1>1, <1>2, PTL DEF Spec

\* multi.rs:209-245: as long as the server has a connection it reads a message on
\* it at most once, on the connection to its author, whatever the network repeats,
\* also when the client starts again with the first sequence id.
THEOREM MultiReadOnce ==
    ASSUME FewMessages PROVE Spec => []ReadOnce
<1>1. Spec => []ReadInvariant  BY MultiReadInvariant
<1>2. ReadInvariant => ReadOnce  BY DEF ReadInvariant
<1>3. QED BY <1>1, <1>2, PTL

=============================================================================
