--------------------------- MODULE ProtocolFacts ---------------------------
(***************************************************************************)
(* What the loops of InnerUdpCommunicator do to one ring, for every width  *)
(* of the sequence ids, every capacity and any messages and acks: where    *)
(* they stop, their types, and what `get` finds afterwards.                *)
(***************************************************************************)
EXTENDS Protocol, RingFacts

-----------------------------------------------------------------------------
(* Loops of the code that end at the first place where a condition holds.  *)

\* inner.rs:374-402: the number of packets that flush_messages builds is bounded
\* by the ring and by the queue, and each of them has a free slot.
LEMMA FlushCountType ==
    ASSUME NEW r, NEW queue, Len(queue) \in Nat
    PROVE  /\ FlushCount(r, queue) \in 0 .. NumItems
           /\ \A j \in 1 .. FlushCount(r, queue) : j <= Len(queue) /\ FreeSlot(r, j)
<1> DEFINE stop(k) == k = NumItems \/ k = Len(queue) \/ ~ FreeSlot(r, k + 1)
           stops == {k \in 0 .. NumItems : stop(k)}
<1>1. NumItems \in Nat  BY RingAssumption
<1>2. PICK m \in stops : \A k \in stops : m <= k
  <2>1. NumItems \in stops /\ stops \subseteq Nat  BY <1>1
  <2>2. QED BY <2>1, Least
<1>3. \A j \in 1 .. m : j <= Len(queue) /\ FreeSlot(r, j)
  <2>1. SUFFICES ASSUME NEW j \in 1 .. m
                 PROVE  j <= Len(queue) /\ FreeSlot(r, j)
    OBVIOUS
  <2>2. j - 1 \in 0 .. NumItems /\ j - 1 < m /\ j - 1 + 1 = j /\ m \in Nat
    BY <1>1, <1>2
  <2>3. ~ stop(j - 1)  BY <1>2, <2>2
  <2>4. FreeSlot(r, j)  BY <2>2, <2>3
  <2>5. j <= Len(queue)
    <3>1. SUFFICES ASSUME j > Len(queue) PROVE FALSE
      BY <2>2
    <3>2. Len(queue) \in stops /\ Len(queue) < m
      BY <1>1, <1>2, <2>2, <3>1
    <3>3. QED BY <1>2, <2>2, <3>2
  <2>6. QED BY <2>4, <2>5
<1>4. QED BY <1>2, <1>3 DEF FlushCount

\* inner.rs:229-237: the ordered packets that can be handed on are in the ring,
\* and there are no more than it holds.
LEMMA ReadyCountType ==
    ASSUME NEW Item, NEW r \in Rings(Item), NEW head \in Index
    PROVE  /\ ReadyCount(r, head) \in 0 .. NumItems
           /\ Get(r, WrappingAdd(head, ReadyCount(r, head))) = None
           /\ \A j \in 0 .. ReadyCount(r, head) - 1 : Get(r, WrappingAdd(head, j)) # None
<1> DEFINE gaps == {k \in 0 .. NumItems : Get(r, WrappingAdd(head, k)) = None}
           w == r.newest
<1>1. NumItems \in Nat \ {0} /\ w \in Index  BY RingAssumption DEF Rings
<1>2. gaps # {}
  <2>1. CASE WrappingSub(w, head) < NumItems
    <3> DEFINE k == WrappingSub(w, head) + 1
    <3>1. k \in 0 .. NumItems /\ ~ InWindow(r, WrappingAdd(head, k))
      BY <1>1, <2>1, U16Assumption, RingAssumption
         DEF InWindow, WrappingSub, WrappingAdd, Index
    <3>2. QED BY <3>1 DEF Get
  <2>2. CASE ~ (WrappingSub(w, head) < NumItems)
    <3>1. WrappingAdd(head, 0) = head
      BY U16Assumption DEF WrappingAdd, Index
    <3>2. 0 \in gaps
      BY <1>1, <2>2, <3>1 DEF Get, InWindow
    <3>3. QED BY <3>2
  <2>3. QED BY <2>1, <2>2
<1>3. PICK m \in gaps : \A k \in gaps : m <= k
  <2>1. gaps \subseteq Nat  BY <1>1
  <2>2. QED BY <1>2, <2>1, Least
<1>4. \A j \in 0 .. m - 1 : Get(r, WrappingAdd(head, j)) # None
  <2>1. SUFFICES ASSUME NEW j \in 0 .. m - 1, Get(r, WrappingAdd(head, j)) = None
                 PROVE  FALSE
    OBVIOUS
  <2>2. m \in 0 .. NumItems /\ j \in 0 .. NumItems /\ j < m  BY <1>1, <1>3
  <2>3. QED BY <1>3, <2>1, <2>2
<1>5. QED BY <1>3, <1>4 DEF ReadyCount

-----------------------------------------------------------------------------
(* Types.                                                                  *)

\* The indices that k pushes use are indices.
LEMMA PushedIndices ==
    ASSUME NEW w \in Index, NEW k \in 0 .. NumItems
    PROVE  /\ k \in Index
           /\ WrappingAdd(w, k) \in Index
BY U16Assumption, RingAssumption DEF WrappingAdd, Index

\* inner.rs:374-419: flush_messages leaves a ring of packets.
LEMMA FlushedType ==
    ASSUME NEW Message, NEW Ack, NEW r \in Rings(PendingPackets(Message, Ack)),
           NEW queue \in Seq(Message), NEW ack \in Ack,
           NEW k \in 0 .. NumItems, k <= Len(queue)
    PROVE  Flushed(r, queue, k, ack) \in Rings(PendingPackets(Message, Ack))
<1>1. r.newest \in Index /\ r.items \in [Slots -> PendingPackets(Message, Ack) \cup {None}]
  BY DEF Rings
<1>2. WrappingAdd(r.newest, k) \in Index
  BY <1>1, PushedIndices
<1>3. ASSUME NEW j \in 1 .. k
      PROVE  [message |-> queue[j], ack |-> ack, retries |-> MaxRetries] \in PendingPackets(Message, Ack)
  <2>1. queue[j] \in Message /\ MaxRetries \in 1 .. MaxRetries
    BY RingAssumption, RetryAssumption
  <2>2. QED BY <2>1 DEF PendingPackets
<1>4. ASSUME NEW s \in Slots
      PROVE  Flushed(r, queue, k, ack).items[s] \in PendingPackets(Message, Ack) \cup {None}
  <2>1. CASE \E j \in 1 .. k : Slot(WrappingAdd(r.newest, j)) = s
    <3> DEFINE j == CHOOSE j \in 1 .. k : Slot(WrappingAdd(r.newest, j)) = s
    <3>1. j \in 1 .. k  BY <2>1
    <3>2. QED BY <1>3, <2>1, <3>1 DEF Flushed
  <2>2. CASE ~ \E j \in 1 .. k : Slot(WrappingAdd(r.newest, j)) = s
    BY <1>1, <2>2 DEF Flushed
  <2>3. QED BY <2>1, <2>2
<1>5. QED BY <1>2, <1>4 DEF Flushed, Rings

\* inner.rs:374: flushing overrides no packet in flight and moves none out of
\* the window, because it asks push_will_override first.
LEMMA FlushKeeps ==
    ASSUME NEW Item, NEW r \in Rings(Item), NEW queue, NEW ack, NEW k \in 0 .. NumItems,
           \A j \in 1 .. k : FreeSlot(r, j),
           NEW i \in Keys(r)
    PROVE  Get(Flushed(r, queue, k, ack), i) = Get(r, i)
<1> DEFINE w == r.newest
           f == Flushed(r, queue, k, ack)
           d == WrappingSub(w, i)
<1>1. w \in Index /\ i \in Index /\ NumItems \in Nat \ {0} /\ k \in 0 .. NumItems
  BY KeysAreFound, RingAssumption DEF Rings
<1>2. Get(r, i) # None /\ InWindow(r, i) /\ r.items[Slot(i)] # None
  <2>1. Get(r, i) # None  BY KeysAreFound
  <2>2. QED BY <2>1 DEF Get
<1>3. d \in 0 .. NumItems - 1
  BY <1>1, <1>2, U16Assumption DEF InWindow, WrappingSub, Index
<1>4. ASSUME NEW j \in 1 .. k
      PROVE  Slot(WrappingAdd(w, j)) # Slot(i)
  BY <1>2, <1>4 DEF FreeSlot
<1>5. d + k < NumItems
  <2>1. SUFFICES ASSUME d + k >= NumItems PROVE FALSE
    BY <1>1, <1>3
  <2> DEFINE j == NumItems - d
             x == WrappingAdd(w, j)
  <2>2. j \in 1 .. k  BY <1>1, <1>3, <2>1
  <2>3. x \in Index  BY <1>1, <2>2, PushedIndices
  <2>4. x - i = NumItems \/ x - i = NumItems - U16
    BY <1>1, <2>2, U16Assumption, RingAssumption DEF WrappingAdd, WrappingSub, Index
  <2>5. PICK m \in Int : U16 = NumItems * m  BY U16IsMultiple
  <2>6. x - i = NumItems * 1 \/ x - i = NumItems * (1 - m)
    BY <1>1, <2>4, <2>5
  <2>7. Slot(x) = Slot(i)
    <3>1. 1 \in Int /\ 1 - m \in Int  BY <2>5
    <3>2. QED BY <1>1, <2>3, <2>6, <3>1, SameSlot
  <2>8. QED BY <1>4, <2>2, <2>7
<1>6. f.newest = WrappingAdd(w, k)  BY DEF Flushed
<1>7. InWindow(f, i)
  BY <1>1, <1>3, <1>5, <1>6, U16Assumption, RingAssumption
     DEF InWindow, WrappingSub, WrappingAdd, Index
<1>8. f.items[Slot(i)] = r.items[Slot(i)]
  BY <1>1, <1>4, SlotType DEF Flushed
<1>9. QED BY <1>2, <1>7, <1>8 DEF Get

\* packet_ack.rs:18-31: acknowledging only takes items out of a ring.
LEMMA AcknowledgedType ==
    ASSUME NEW Item, NEW r \in Rings(Item), NEW ack
    PROVE  Acknowledged(r, ack) \in Rings(Item)
BY DEF Acknowledged, Rings

\* inner.rs:463-466: a packet that stays in its ring has retries left.
LEMMA AfterResendType ==
    ASSUME NEW Message, NEW Ack, NEW pending \in PendingPackets(Message, Ack)
    PROVE  AfterResend(pending) \in PendingPackets(Message, Ack) \cup {None}
<1>1. CASE ~ GivesUp \/ pending.retries = 1
  BY <1>1 DEF AfterResend
<1>2. CASE GivesUp /\ pending.retries # 1
  <2>1. /\ pending.retries \in 1 .. MaxRetries
        /\ MaxRetries \in Nat
        /\ pending = [message |-> pending.message, ack |-> pending.ack,
                      retries |-> pending.retries]
        /\ pending.message \in Message /\ pending.ack \in Ack
    BY RetryAssumption DEF PendingPackets
  <2>2. pending.retries - 1 \in 1 .. MaxRetries  BY <1>2, <2>1
  <2>3. [pending EXCEPT !.retries = @ - 1] \in PendingPackets(Message, Ack)  BY <2>1, <2>2 DEF PendingPackets
  <2>4. QED BY <1>2, <2>3 DEF AfterResend
<1>3. QED BY <1>1, <1>2, RetryAssumption

\* inner.rs:374-419: flush_messages takes messages from the front of the queue, and
\* keeps the packets that are in flight.
LEMMA FlushingType ==
    ASSUME NEW Message, NEW Ack, NEW r \in Rings(PendingPackets(Message, Ack)),
           NEW queue \in Seq(Message), NEW ack \in Ack
    PROVE  LET k == FlushCount(r, queue)
               f == Flushed(r, queue, k, ack)
           IN  /\ k \in 0 .. NumItems /\ k \in Nat /\ k <= Len(queue)
               /\ \A j \in 1 .. k : FreeSlot(r, j)
               /\ f \in Rings(PendingPackets(Message, Ack))
               /\ \A i \in Keys(r) : i \in Keys(f) /\ Get(f, i) = Get(r, i)
<1> DEFINE k == FlushCount(r, queue)
           f == Flushed(r, queue, k, ack)
<1>1. /\ k \in 0 .. NumItems
      /\ \A j \in 1 .. k : j <= Len(queue) /\ FreeSlot(r, j)
  BY FlushCountType
<1>2. k \in Nat /\ k <= Len(queue) /\ Len(queue) \in Nat
  <2>1. k \in Nat /\ Len(queue) \in Nat  BY <1>1, RingAssumption
  <2>2. k = 0 \/ k \in 1 .. k  BY <2>1
  <2>3. QED BY <1>1, <2>1, <2>2
<1> HIDE DEF k
<1>3. f \in Rings(PendingPackets(Message, Ack))
  BY <1>1, <1>2, FlushedType
<1>4. \A i \in Keys(r) : Get(f, i) = Get(r, i)
  BY <1>1, FlushKeeps
<1>5. /\ Keys(r) = {i \in Index : Get(r, i) # None}
      /\ Keys(f) = {i \in Index : Get(f, i) # None}
  BY <1>3, KeysAreFound
<1> HIDE DEF f
<1>6. \A i \in Keys(r) : i \in Keys(f)  BY <1>4, <1>5
<1>7. QED BY <1>1, <1>2, <1>3, <1>4, <1>6 DEF k, f

\* inner.rs:323-354, 422-469: what is sent of one channel is in its ring, and what
\* remains is a ring of packets with retries.
LEMMA ResentType ==
    ASSUME NEW Message, NEW Ack, NEW f \in Rings(PendingPackets(Message, Ack)),
           NEW sent \in SUBSET Keys(f)
    PROVE  /\ \A i \in sent : i \in Index /\ Get(f, i) \in PendingPackets(Message, Ack)
           /\ Resent(f, sent) \in Rings(PendingPackets(Message, Ack))
<1> DEFINE verdict == [i \in Keys(f) |->
                          IF i \in sent THEN AfterResend(Get(f, i)) ELSE Get(f, i)]
<1>1. Keys(f) = {i \in Index : Get(f, i) # None}  BY KeysAreFound
<1>2. \A i \in Keys(f) : Get(f, i) \in PendingPackets(Message, Ack)
  <2>1. \A i \in Index : Get(f, i) \in PendingPackets(Message, Ack) \cup {None}  BY GetType
  <2>2. QED BY <1>1, <2>1
<1>3. verdict \in [Keys(f) -> PendingPackets(Message, Ack) \cup {None}]
  BY <1>2, AfterResendType
<1>4. Resent(f, sent) \in Rings(PendingPackets(Message, Ack))
  BY <1>3, RetainType DEF Resent
<1>5. QED BY <1>1, <1>2, <1>4

\* inner.rs:80-113: one channel of send.
LEMMA SendChannelType ==
    ASSUME NEW Message, NEW Ack, NEW r \in Rings(PendingPackets(Message, Ack)),
           NEW queue \in Seq(Message), NEW ack \in Ack,
           NEW d \in SUBSET Keys(r)
    PROVE  LET k == FlushCount(r, queue)
               f == Flushed(r, queue, k, ack)
               sent == (Keys(f) \ Keys(r)) \cup d
               rest == Resent(f, sent)
           IN  /\ SubSeq(queue, k + 1, Len(queue)) \in Seq(Message)
               /\ \A i \in sent : i \in Index /\ Get(f, i) \in PendingPackets(Message, Ack)
               /\ rest \in Rings(PendingPackets(Message, Ack))
<1> DEFINE k == FlushCount(r, queue)
           f == Flushed(r, queue, k, ack)
           sent == (Keys(f) \ Keys(r)) \cup d
<1>1. /\ k \in Nat /\ k <= Len(queue)
      /\ f \in Rings(PendingPackets(Message, Ack))
      /\ Keys(r) \subseteq Keys(f)
  BY FlushingType
<1> HIDE DEF k, f
<1>2. sent \subseteq Keys(f)  BY <1>1
<1>3. /\ \A i \in sent : i \in Index /\ Get(f, i) \in PendingPackets(Message, Ack)
      /\ Resent(f, sent) \in Rings(PendingPackets(Message, Ack))
  BY <1>1, <1>2, ResentType
<1>4. SubSeq(queue, k + 1, Len(queue)) \in Seq(Message)
  BY <1>1
<1>5. QED BY <1>3, <1>4 DEF f, k

-----------------------------------------------------------------------------
(* What a send ring holds after a step.                                    *)

\* The k-th push from now is k - j pushes after the j-th.
LEMMA PushedDistance ==
    ASSUME NEW w \in Index, NEW k \in 0 .. NumItems, NEW j \in 0 .. k
    PROVE  /\ j \in 0 .. NumItems
           /\ WrappingSub(WrappingAdd(w, k), WrappingAdd(w, j)) = k - j
<1>1. k \in Nat /\ j \in Nat /\ j <= k /\ k <= NumItems /\ NumItems \in Nat
  BY RingAssumption
<1>2. QED
  BY <1>1, U16Assumption, RingAssumption DEF WrappingSub, WrappingAdd, Index

\* k pushes increase all distances by k.
LEMMA BeforePushes ==
    ASSUME NEW w \in Index, NEW k \in 0 .. NumItems, NEW i \in Index,
           ~ (WrappingSub(WrappingAdd(w, k), i) < k)
    PROVE  WrappingSub(w, i) = WrappingSub(WrappingAdd(w, k), i) - k
<1>1. k \in Nat /\ k <= NumItems /\ NumItems \in Nat  BY RingAssumption
<1>2. QED
  BY <1>1, U16Assumption, RingAssumption DEF WrappingSub, WrappingAdd, Index

\* inner.rs:374-419: after flush_messages, the newest k indices hold the new
\* packets and all others what they held.
LEMMA GetAfterFlush ==
    ASSUME NEW Item, NEW r \in Rings(Item), NEW queue, NEW ack, NEW k \in 0 .. NumItems,
           \A j \in 1 .. k : FreeSlot(r, j),
           NEW i \in Index
    PROVE  LET f == Flushed(r, queue, k, ack)
               d == WrappingSub(WrappingAdd(r.newest, k), i)
           IN  /\ f.newest = WrappingAdd(r.newest, k)
               /\ Get(f, i) =
                     IF d < k
                     THEN [message |-> queue[k - d], ack |-> ack, retries |-> MaxRetries]
                     ELSE Get(r, i)
<1> DEFINE w == r.newest
           new == WrappingAdd(w, k)
           f == Flushed(r, queue, k, ack)
           d == WrappingSub(new, i)
           packet(j) == [message |-> queue[j], ack |-> ack, retries |-> MaxRetries]
<1>1. /\ w \in Index /\ new \in Index /\ NumItems \in Nat \ {0}
      /\ k \in Nat /\ k <= NumItems
  BY PushedIndices, RingAssumption DEF Rings
<1>2. f.newest = new  BY DEF Flushed
<1>3. d \in Index  BY <1>1, WrappingType
<1>4. ASSUME NEW j \in 1 .. k, d < NumItems, Slot(WrappingAdd(w, j)) = Slot(i)
      PROVE  WrappingAdd(w, j) = i /\ d = k - j
  <2>1. j \in 0 .. k /\ j \in 0 .. NumItems  BY <1>1
  <2>2. WrappingAdd(w, j) \in Index  BY <1>1, <2>1, PushedIndices
  <2>3. WrappingSub(new, WrappingAdd(w, j)) = k - j  BY <1>1, <2>1, PushedDistance
  <2>4. k - j < NumItems  BY <1>1
  <2>5. WrappingAdd(w, j) = i  BY <1>1, <1>4, <2>2, <2>3, <2>4, WindowInjective
  <2>6. QED BY <2>3, <2>5
<1>5. CASE d < k
  <2> DEFINE j == k - d
  <2>1. j \in 1 .. k /\ d < NumItems  BY <1>1, <1>3, <1>5, U16Assumption DEF Index
  <2>2. WrappingAdd(w, j) = i
    BY <1>1, <1>3, <2>1, U16Assumption, RingAssumption DEF WrappingAdd, WrappingSub, Index
  <2>3. (CHOOSE l \in 1 .. k : Slot(WrappingAdd(w, l)) = Slot(i)) = j
    <3> DEFINE l == CHOOSE l \in 1 .. k : Slot(WrappingAdd(w, l)) = Slot(i)
    <3>1. l \in 1 .. k /\ Slot(WrappingAdd(w, l)) = Slot(i)  BY <2>1, <2>2
    <3> HIDE DEF l
    <3>2. d = k - l  BY <1>4, <2>1, <3>1
    <3>3. l = j  BY <1>1, <1>3, <3>1, <3>2 DEF Index
    <3>4. QED BY <3>3 DEF l
  <2>4. \E l \in 1 .. k : Slot(WrappingAdd(w, l)) = Slot(i)  BY <2>1, <2>2
  <2>5. Slot(i) \in Slots  BY SlotType
  <2>6. f.items[Slot(i)] = packet(CHOOSE l \in 1 .. k : Slot(WrappingAdd(w, l)) = Slot(i))
    BY <2>4, <2>5 DEF Flushed
  <2>7. f.items[Slot(i)] = packet(j)  BY <2>3, <2>6
  <2>8. QED BY <1>2, <1>5, <2>1, <2>7 DEF Get, InWindow
<1>6. CASE ~ (d < k) /\ i \in Keys(r)
  BY <1>2, <1>6, FlushKeeps
<1>7. CASE ~ (d < k) /\ i \notin Keys(r)
  <2>1. Get(r, i) = None  BY <1>7, KeysAreFound
  <2>2. Get(f, i) = None
    <3>1. CASE d < NumItems
      <4>1. WrappingSub(w, i) = d - k
        BY <1>1, <1>7, BeforePushes
      <4>2. InWindow(r, i)
        BY <1>1, <1>3, <3>1, <4>1, U16Assumption DEF InWindow, Index
      <4>3. r.items[Slot(i)] = None  BY <2>1, <4>2 DEF Get
      <4>4. ~ \E j \in 1 .. k : Slot(WrappingAdd(w, j)) = Slot(i)
        <5>1. SUFFICES ASSUME NEW j \in 1 .. k, Slot(WrappingAdd(w, j)) = Slot(i)
                       PROVE  FALSE
          OBVIOUS
        <5>2. d = k - j  BY <1>4, <3>1, <5>1
        <5>3. QED BY <1>1, <1>7, <5>2
      <4>5. f.items[Slot(i)] = None  BY <4>3, <4>4, SlotType DEF Flushed
      <4>6. QED BY <4>5 DEF Get
    <3>2. CASE ~ (d < NumItems)  BY <1>2, <3>2 DEF Get, InWindow
    <3>3. QED BY <3>1, <3>2
  <2>3. QED BY <1>2, <1>7, <2>1, <2>2
<1>8. QED BY <1>5, <1>6, <1>7

\* packet_ack.rs:18-31: an ack takes out the packets its bits name, no others.
LEMMA GetAfterAcknowledged ==
    ASSUME NEW Item, NEW r \in Rings(Item), NEW ack, NEW i \in Index,
           ack.newest \in Index, ack.bits \subseteq Slots
    PROVE  /\ Acknowledged(r, ack).newest = r.newest
           /\ Get(Acknowledged(r, ack), i) =
                 IF \E b \in ack.bits : WrappingSub(ack.newest, b) = i
                 THEN None ELSE Get(r, i)
<1> DEFINE p == Acknowledged(r, ack)
           named(b) == WrappingSub(ack.newest, b)
           hit(s) == \E b \in ack.bits : InWindow(r, named(b)) /\ Slot(named(b)) = s
<1>1. /\ r.newest \in Index /\ r.items \in [Slots -> Item \cup {None}]
      /\ r = [newest |-> r.newest, items |-> r.items]
  BY DEF Rings
<1>2. p.newest = r.newest /\ p.items = [s \in Slots |-> IF hit(s) THEN None ELSE r.items[s]]
  BY <1>1 DEF Acknowledged
<1>3. \A b \in ack.bits : named(b) \in Index
  <2>1. Slots \subseteq Index  BY U16Assumption, RingAssumption DEF Slots, Index
  <2>2. QED BY <2>1, WrappingType
<1>4. CASE InWindow(r, i)
  <2>1. hit(Slot(i)) <=> \E b \in ack.bits : named(b) = i
    <3>1. ASSUME NEW b \in ack.bits, InWindow(r, named(b)), Slot(named(b)) = Slot(i)
          PROVE  named(b) = i
      BY <1>1, <1>3, <1>4, <3>1, WindowInjective DEF InWindow
    <3>2. QED BY <1>4, <3>1
  <2>2. p.items[Slot(i)] = IF hit(Slot(i)) THEN None ELSE r.items[Slot(i)]
    BY <1>2, SlotType
  <2>3. QED BY <1>2, <1>4, <2>1, <2>2 DEF Get, InWindow
<1>5. CASE ~ InWindow(r, i)
  BY <1>2, <1>5 DEF Get, InWindow
<1>6. QED BY <1>2, <1>4, <1>5

\* inner.rs:422-469: resending leaves every packet where it is, with its message
\* and its ack, or drops it, if it was sent.
LEMMA GetAfterResend ==
    ASSUME NEW Message, NEW Ack, NEW f \in Rings(PendingPackets(Message, Ack)), NEW sent, NEW i \in Index
    PROVE  LET rest == Resent(f, sent)
           IN  /\ rest.newest = f.newest
               /\ \/ /\ Get(rest, i) # None /\ Get(f, i) # None
                     /\ Get(rest, i).message = Get(f, i).message
                     /\ Get(rest, i).ack = Get(f, i).ack
                  \/ Get(rest, i) = None /\ (Get(f, i) = None \/ i \in sent)
<1> DEFINE verdict == [j \in Keys(f) |->
                          IF j \in sent THEN AfterResend(Get(f, j)) ELSE Get(f, j)]
<1>1. Keys(f) = {j \in Index : Get(f, j) # None}  BY KeysAreFound
<1>2. \A j \in Keys(f) : Get(f, j) \in PendingPackets(Message, Ack)
  <2>1. \A j \in Index : Get(f, j) \in PendingPackets(Message, Ack) \cup {None}  BY GetType
  <2>2. QED BY <1>1, <2>1
<1>3. verdict \in [Keys(f) -> PendingPackets(Message, Ack) \cup {None}]
  BY <1>2, AfterResendType
<1>4. ASSUME i \in Keys(f)
      PROVE  \/ /\ verdict[i] # None
                /\ verdict[i].message = Get(f, i).message /\ verdict[i].ack = Get(f, i).ack
             \/ verdict[i] = None /\ i \in sent
  <2>1. CASE i \notin sent  BY <1>1, <1>4, <2>1
  <2>2. CASE i \in sent
    <3>1. verdict[i] = AfterResend(Get(f, i)) /\ Get(f, i) \in PendingPackets(Message, Ack)
      BY <1>2, <1>4, <2>2
    <3>2. \A pending \in PendingPackets(Message, Ack) :
              \/ AfterResend(pending) = None
              \/ /\ AfterResend(pending).message = pending.message
                 /\ AfterResend(pending).ack = pending.ack
      BY DEF AfterResend, PendingPackets
    <3>3. QED BY <2>2, <3>1, <3>2
  <2>3. QED BY <2>1, <2>2
<1> HIDE DEF verdict
<1>5. Get(Retain(f, verdict), i) = IF i \in Keys(f) THEN verdict[i] ELSE None
  BY <1>3, GetAfterRetain
<1>6. Retain(f, verdict).newest = f.newest  BY DEF Retain, Rings
<1>7. i \in Keys(f) <=> Get(f, i) # None  BY <1>1
<1>8. Resent(f, sent) = Retain(f, verdict)  BY DEF Resent, verdict
<1>9. QED BY <1>4, <1>5, <1>6, <1>7, <1>8 DEF verdict

\* inner.rs:463-468: while retries do not run out, `retain` keeps what was sent.
LEMMA KeptAfterResend ==
    ASSUME ~ GivesUp, NEW Message, NEW Ack, NEW f \in Rings(PendingPackets(Message, Ack)), NEW sent, NEW i \in Keys(f)
    PROVE  Get(Resent(f, sent), i) # None
<1> DEFINE verdict == [j \in Keys(f) |->
                          IF j \in sent THEN AfterResend(Get(f, j)) ELSE Get(f, j)]
<1>1. Keys(f) = {j \in Index : Get(f, j) # None}  BY KeysAreFound
<1>2. \A j \in Keys(f) : verdict[j] = Get(f, j)  BY DEF AfterResend
<1>3. verdict \in [Keys(f) -> PendingPackets(Message, Ack) \cup {None}]
  <2>1. \A j \in Index : Get(f, j) \in PendingPackets(Message, Ack) \cup {None}  BY GetType
  <2>2. QED BY <1>1, <1>2, <2>1
<1>4. Resent(f, sent) = Retain(f, verdict)  BY DEF Resent
<1> HIDE DEF verdict
<1>5. Get(Retain(f, verdict), i) = verdict[i]
  BY <1>1, <1>3, GetAfterRetain
<1>6. QED BY <1>1, <1>2, <1>4, <1>5

=============================================================================
