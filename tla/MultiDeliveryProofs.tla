------------------------ MODULE MultiDeliveryProofs ------------------------
(***************************************************************************)
(* Proofs that Multi keeps the order of its ordered channel and loses      *)
(* nothing, from the invariants of MultiDelivery.                          *)
(***************************************************************************)
EXTENDS MultiDelivery, MultiProofs

-----------------------------------------------------------------------------
(* Ids as numbers.                                                         *)

\* inner.rs:9-32: the parts of a communicator.
LEMMA Parts ==
    ASSUME NEW inner \in Inners, NEW c \in Channel
    PROVE  /\ inner.sendQueue[c] \in Seq(Messages)
           /\ Len(inner.sendQueue[c]) \in Nat
           /\ DOMAIN inner.sendQueue[c] = 1 .. Len(inner.sendQueue[c])
           /\ inner.sendPackets[c] \in Rings(Pending)
           /\ Keys(inner.sendPackets[c]) = {i \in Index : Get(inner.sendPackets[c], i) # None}
           /\ inner.received[c] \in Rings(Contents)
           /\ inner.head \in Index
           /\ inner.unordered \in Seq(Messages) /\ inner.ordered \in Seq(Messages)
<1>1. /\ inner.sendQueue[c] \in Seq(Messages)
      /\ inner.sendPackets[c] \in Rings(Pending)
      /\ inner.received[c] \in Rings(Contents)
      /\ inner.head \in Index
      /\ inner.unordered \in Seq(Messages) /\ inner.ordered \in Seq(Messages)
  BY DEF Inners
<1>2. Keys(inner.sendPackets[c]) = {i \in Index : Get(inner.sendPackets[c], i) # None}
  BY <1>1, KeysAreFound
<1>3. Len(inner.sendQueue[c]) \in Nat /\ DOMAIN inner.sendQueue[c] = 1 .. Len(inner.sendQueue[c])
  BY <1>1
<1>4. QED BY <1>1, <1>2, <1>3

\* The numbers that ids are compared with.
LEMMA Numbers ==
    /\ U16 \in Nat /\ NumItems \in Nat \ {0} /\ 4 * NumItems <= U16
    /\ Index = 0 .. U16 - 1 /\ LastIndex = U16 - 1
    /\ Index \subseteq Nat
BY U16Assumption, RingAssumption DEF Index, LastIndex

\* ring_buffer.rs:46-51: the id of the next packet.
LEMMA NextIdIs ==
    ASSUME NEW inner \in Inners, NEW c \in Channel
    PROVE  /\ inner.sendPackets[c].newest \in Index
           /\ NextId(inner, c) \in Index /\ NextId(inner, c) \in Nat
           /\ NextId(inner, c) = IF inner.sendPackets[c].newest = U16 - 1
                                 THEN 0 ELSE inner.sendPackets[c].newest + 1
<1>1. inner.sendPackets[c].newest \in Index  BY Parts DEF Rings
<1> DEFINE w == inner.sendPackets[c].newest
<1>2. NextId(inner, c) = WrappingAdd(w, 1)  BY DEF NextId
<1> HIDE DEF w
<1>3. w \in Index  BY <1>1 DEF w
<1>4. WrappingAdd(w, 1) = IF w = U16 - 1 THEN 0 ELSE w + 1
  BY <1>3, Numbers DEF WrappingAdd
<1>5. WrappingAdd(w, 1) \in Index /\ WrappingAdd(w, 1) \in Nat
  BY <1>3, <1>4, Numbers
<1>6. QED BY <1>1, <1>2, <1>4, <1>5 DEF w

-----------------------------------------------------------------------------
(* A receiver stores a packet.                                             *)

\* What lets a receiver read the packets of a channel, see Direction.
Reachable(S, R, P, line, c) ==
    /\ S \in Inners /\ R \in Inners /\ P \subseteq Packets
    /\ line \in Lines /\ Len(line[c]) < U16 - NumItems
    /\ InLine(S, line, c)
    /\ PacketsInLine(S, P, line, c)
    /\ HoldsLine(S, R, line, c)

\* Ids are places in the line.
LEMMA IdsInLine ==
    ASSUME NEW S \in Inners, NEW line \in Lines, NEW c \in Channel, InLine(S, line, c)
    PROVE  /\ NextId(S, c) \in Nat /\ Len(line[c]) \in Nat
           /\ NextId(S, c) <= Len(line[c])
           /\ line[c] \in Seq(Messages)
           /\ DOMAIN line[c] = 1 .. Len(line[c])
           /\ \A i \in Nat : i < Len(line[c]) => line[c][i + 1] \in Messages
<1>1. NextId(S, c) \in Nat /\ Len(S.sendQueue[c]) \in Nat  BY Parts, NextIdIs
<1>2. line[c] \in Seq(Messages)  BY DEF Lines
<1>3. Len(line[c]) = NextId(S, c) + Len(S.sendQueue[c])  BY DEF InLine
<1>4. Len(line[c]) \in Nat /\ DOMAIN line[c] = 1 .. Len(line[c])  BY <1>2
<1>5. ASSUME NEW i \in Nat, i < Len(line[c]) PROVE line[c][i + 1] \in Messages
  <2>1. i + 1 \in 1 .. Len(line[c])  BY <1>4, <1>5
  <2>2. QED BY <1>2, <2>1
<1>6. QED BY <1>1, <1>2, <1>3, <1>4, <1>5

\* inner.rs:243-268: the ring then holds one more packet of the line, and forgets
\* only what is NUM_ITEMS older than the newest one.
Stored(S, R, next, line, p, c) ==
    /\ next \in Rings(Contents)
    /\ Get(next, p.sequenceId) = p.content
    /\ next.newest < NextId(S, c)
    /\ \A i \in Index : Get(next, i) # None =>
          i < NextId(S, c) /\ Get(next, i) = <<line[c][i + 1]>>
    /\ \A i \in Index : Get(next, i) # None => i = p.sequenceId \/ Get(R.received[c], i) # None
    /\ \A i \in Index : Get(R.received[c], i) # None =>
          \/ Get(next, i) # None
          \/ i + NumItems < NextId(S, c)

LEMMA StoresInLine ==
    ASSUME NEW S, NEW R, NEW P, NEW line, NEW c \in Channel, Reachable(S, R, P, line, c),
           NEW p \in P, p.channel = c, ~ Refused(R, p)
    PROVE  /\ p.sequenceId \in Index /\ p.sequenceId < NextId(S, c)
           /\ p.content = <<line[c][p.sequenceId + 1]>>
           /\ p.content \in Contents
           /\ Stored(S, R, Insert(R.received[c], p.sequenceId, p.content), line, p, c)
<1> DEFINE ring == R.received[c]
           n    == NextId(S, c)
           i    == p.sequenceId
           item == p.content
           next == Insert(ring, i, item)
<1>1. /\ S \in Inners /\ R \in Inners /\ P \subseteq Packets /\ line \in Lines
      /\ Len(line[c]) < U16 - NumItems /\ InLine(S, line, c)
      /\ PacketsInLine(S, P, line, c) /\ HoldsLine(S, R, line, c)
  BY DEF Reachable
<1>2. i \in Index /\ item \in Contents
  <2>1. p \in Packets /\ c # "unreliable"  BY <1>1 DEF Channel
  <2>2. QED BY <2>1 DEF Packets
<1>3. i < n /\ item = <<line[c][i + 1]>>  BY <1>1 DEF PacketsInLine
<1>4. n \in Nat /\ n < U16 - NumItems
  <2>1. n \in Nat /\ Len(line[c]) \in Nat /\ n <= Len(line[c])  BY <1>1, IdsInLine
  <2> HIDE DEF n
  <2>2. QED BY <1>1, <2>1, Numbers
<1>5. ring \in Rings(Contents)  BY <1>1, Parts
<1>6. Get(ring, i) = None /\ ~ TooOld(ring, i)  BY DEF Refused, TooOld
<1>7. ring.newest = LastIndex \/ ring.newest < n  BY <1>1 DEF HoldsLine
<1>8. \A j \in Index : Get(ring, j) # None => j < n /\ Get(ring, j) = <<line[c][j + 1]>>
  BY <1>1 DEF HoldsLine
<1> HIDE DEF n, ring, i, item
<1>9. None \notin Contents  BY NoneAssumption
<1>10. /\ next.newest < n /\ Known(next, i)
       /\ \A j \in Index : Known(ring, j) => Known(next, j)
       /\ \A j \in Index : Get(next, j) # None =>
             \/ j = i /\ Get(next, j) = item
             \/ Get(next, j) = Get(ring, j)
  BY <1>2, <1>3, <1>4, <1>5, <1>6, <1>7, <1>9, KnownAfterInsert
<1>11. next \in Rings(Contents)  BY <1>2, <1>5, InsertType
<1>12. Get(next, i) = item  BY <1>2, <1>5, GetAfterInsert
<1> HIDE DEF next
<1>13. ASSUME NEW j \in Index, Get(next, j) # None
       PROVE  /\ j < n /\ Get(next, j) = <<line[c][j + 1]>>
              /\ j = i \/ Get(ring, j) # None
  BY <1>3, <1>8, <1>10, <1>13
<1>14. ASSUME NEW j \in Index, Get(ring, j) # None, Get(next, j) = None
       PROVE  j + NumItems < n
  <2>1. next.newest \in Index /\ ring.newest \in Index  BY <1>5, <1>11 DEF Rings
  <2>2. Known(ring, j)
    <3>1. j < n  BY <1>8, <1>14
    <3>2. InWindow(ring, j)  BY <1>14 DEF Get
    <3>3. WrappingSub(ring.newest, j) < NumItems  BY <3>2 DEF InWindow
    <3>4. ring.newest # LastIndex /\ j <= ring.newest
      BY <1>4, <1>7, <2>1, <3>1, <3>3, Numbers DEF WrappingSub
    <3>5. QED BY <1>14, <3>4 DEF Known
  <2>3. Known(next, j)  BY <1>10, <2>2
  <2>4. ~ (next.newest < j + NumItems)  BY <1>14, <2>3 DEF Known
  <2>5. QED BY <1>4, <1>10, <2>1, <2>4, Numbers
<1>15. QED
  BY <1>2, <1>3, <1>10, <1>11, <1>12, <1>13, <1>14 DEF Stored, n, ring, i, item, next

-----------------------------------------------------------------------------
(* A sender writes, sends, and is acknowledged.                            *)

\* What \o does.
Joined(new, old, ext) ==
    /\ Len(old) \in Nat /\ Len(ext) \in Nat
    /\ Len(new) = Len(old) + Len(ext)
    /\ \A k \in 1 .. Len(old) : new[k] = old[k]
    /\ \A k \in 1 .. Len(ext) : new[Len(old) + k] = ext[k]

LEMMA JoinedSequences ==
    ASSUME NEW S, NEW old \in Seq(S), NEW ext \in Seq(S)
    PROVE  Joined(old \o ext, old, ext)
BY DEF Joined

\* A line only grows.
Longer(line, more, c) ==
    /\ Len(line[c]) <= Len(more[c])
    /\ \A k \in 1 .. Len(line[c]) : more[c][k] = line[c][k]

LEMMA Extended ==
    ASSUME NEW line \in Lines, NEW more \in Lines, NEW c \in Channel,
           NEW ext \in Seq(Messages), more[c] = line[c] \o ext
    PROVE  /\ Longer(line, more, c)
           /\ Len(more[c]) = Len(line[c]) + Len(ext)
           /\ \A k \in 1 .. Len(ext) : more[c][Len(line[c]) + k] = ext[k]
<1>1. line[c] \in Seq(Messages)  BY DEF Lines
<1> DEFINE old == line[c]
           new == more[c]
<1>2. old \in Seq(Messages) /\ new = old \o ext  BY <1>1
<1> HIDE DEF old, new
<1>3. /\ Len(old) \in Nat /\ Len(ext) \in Nat
      /\ Len(new) = Len(old) + Len(ext)
      /\ \A k \in 1 .. Len(old) : new[k] = old[k]
      /\ \A k \in 1 .. Len(ext) : new[Len(old) + k] = ext[k]
  BY <1>2
<1>4. Len(old) <= Len(new)  BY <1>3
<1>5. QED BY <1>3, <1>4 DEF Longer, old, new

\* inner.rs:115-151: what is written is queued behind what was written before.
WritesBehind(old, new, line, more, ext, c) ==
    /\ new.sendPackets = old.sendPackets
    /\ new.sendQueue[c] = old.sendQueue[c] \o ext
    /\ more[c] = line[c] \o ext

LEMMA WritesInLine ==
    ASSUME NEW old \in Inners, NEW new \in Inners, NEW line \in Lines, NEW more \in Lines,
           NEW c \in Channel, NEW ext \in Seq(Messages),
           WritesBehind(old, new, line, more, ext, c), InLine(old, line, c)
    PROVE  /\ InLine(new, more, c)
           /\ NextId(new, c) = NextId(old, c)
           /\ Longer(line, more, c)
<1> DEFINE queue == old.sendQueue[c]
           longer == new.sendQueue[c]
           n == NextId(old, c)
<1>1. NextId(new, c) = n  BY DEF NextId, WritesBehind
<1>2. /\ n \in Nat /\ Len(line[c]) \in Nat /\ line[c] \in Seq(Messages)
      /\ DOMAIN line[c] = 1 .. Len(line[c])
  BY IdsInLine
<1>3. queue \in Seq(Messages) /\ Len(queue) \in Nat /\ DOMAIN queue = 1 .. Len(queue)
  BY Parts
<1>4. /\ Len(line[c]) = n + Len(queue)
      /\ \A k \in DOMAIN queue : queue[k] = line[c][n + k]
      /\ \A i \in Keys(old.sendPackets[c]) :
            i < n /\ Get(old.sendPackets[c], i).message = line[c][i + 1]
  BY DEF InLine
<1>5. /\ Longer(line, more, c)
      /\ Len(more[c]) = Len(line[c]) + Len(ext)
      /\ \A k \in 1 .. Len(ext) : more[c][Len(line[c]) + k] = ext[k]
  BY Extended DEF WritesBehind
<1>6. longer = queue \o ext  BY DEF WritesBehind
<1> HIDE DEF queue, longer, n
<1>7. /\ Len(ext) \in Nat /\ Len(longer) = Len(queue) + Len(ext)
      /\ DOMAIN longer = 1 .. Len(longer)
      /\ \A k \in 1 .. Len(queue) : longer[k] = queue[k]
      /\ \A k \in 1 .. Len(ext) : longer[Len(queue) + k] = ext[k]
  BY <1>3, <1>6
<1>8. Len(more[c]) = n + Len(longer)  BY <1>2, <1>3, <1>4, <1>5, <1>7
<1>9. \A k \in 1 .. Len(line[c]) : more[c][k] = line[c][k]  BY <1>5 DEF Longer
<1>10. ASSUME NEW k \in DOMAIN longer PROVE longer[k] = more[c][n + k]
  <2>1. CASE k \in 1 .. Len(queue)
    <3>1. n + k \in 1 .. Len(line[c])  BY <1>2, <1>3, <1>4, <2>1
    <3>2. QED BY <1>3, <1>4, <1>7, <1>9, <2>1, <3>1
  <2>2. CASE k \notin 1 .. Len(queue)
    <3>1. k - Len(queue) \in 1 .. Len(ext) /\ k = Len(queue) + (k - Len(queue))
      BY <1>3, <1>7, <2>2
    <3>2. n + k = Len(line[c]) + (k - Len(queue))  BY <1>2, <1>3, <1>4, <1>7
    <3>3. longer[k] = ext[k - Len(queue)]  BY <1>7, <3>1
    <3>4. QED BY <1>5, <3>1, <3>2, <3>3
  <2>3. QED BY <2>1, <2>2
<1>11. new.sendPackets = old.sendPackets  BY DEF WritesBehind
<1>12. ASSUME NEW i \in Keys(new.sendPackets[c])
       PROVE  i < n /\ Get(new.sendPackets[c], i).message = more[c][i + 1]
  <2>1. i \in Nat  BY Parts, Numbers
  <2>2. i < n /\ Get(new.sendPackets[c], i).message = line[c][i + 1]  BY <1>4, <1>11
  <2>3. i + 1 \in 1 .. Len(line[c])  BY <1>2, <1>3, <1>4, <2>1, <2>2
  <2>4. QED BY <1>9, <2>2, <2>3
<1>13. InLine(new, more, c)  BY <1>1, <1>8, <1>10, <1>12 DEF InLine, longer
<1>14. QED BY <1>1, <1>5, <1>13 DEF n

\* What SubSeq leaves of s after its first k items.
RestOf(rest, s, k) ==
    /\ Len(rest) = Len(s) - k /\ Len(rest) \in Nat
    /\ DOMAIN rest = 1 .. Len(rest)
    /\ \A j \in 1 .. Len(rest) : rest[j] = s[k + j]

LEMMA RestOfSequence ==
    ASSUME NEW S, NEW s \in Seq(S), NEW k \in Nat, k <= Len(s)
    PROVE  RestOf(SubSeq(s, k + 1, Len(s)), s, k)
<1> DEFINE rest == SubSeq(s, k + 1, Len(s))
<1>1. Len(s) \in Nat  OBVIOUS
<1>2. Len(s) - k \in Nat  BY <1>1
<1>3. rest = [j \in 1 .. Len(s) - (k + 1) + 1 |-> s[j + (k + 1) - 1]]
  BY DEF SubSeq
<1>4. Len(s) - (k + 1) + 1 = Len(s) - k  BY <1>1
<1>5. rest = [j \in 1 .. Len(s) - k |-> s[j + (k + 1) - 1]]  BY <1>3, <1>4
<1>6. Len(rest) = Len(s) - k /\ DOMAIN rest = 1 .. Len(s) - k  BY <1>2, <1>5
<1>7. ASSUME NEW j \in 1 .. Len(s) - k PROVE rest[j] = s[k + j]
  <2>1. rest[j] = s[j + (k + 1) - 1]  BY <1>5
  <2>2. j + (k + 1) - 1 = k + j  BY <1>2
  <2>3. QED BY <2>1, <2>2
<1> HIDE DEF rest
<1>8. RestOf(rest, s, k)  BY <1>2, <1>6, <1>7 DEF RestOf
<1>9. QED BY <1>8 DEF rest

\* inner.rs:80-113, 374-469: send packs the next messages of the line.
LEMMA SendsInLine ==
    ASSUME NEW S \in Inners, NEW due, NEW line \in Lines, NEW c \in Channel,
           InLine(S, line, c), Len(line[c]) < U16 - NumItems
    PROVE  /\ InLine(AfterSend(S, due), line, c)
           /\ NextId(S, c) <= NextId(AfterSend(S, due), c)
           /\ \A p \in Outgoing(S, due) : p.channel = c =>
                 /\ p.sequenceId < NextId(AfterSend(S, due), c)
                 /\ p.content = <<line[c][p.sequenceId + 1]>>
<1> DEFINE queue == S.sendQueue[c]
           ring  == S.sendPackets[c]
           k     == FlushCount(ring, queue)
           f     == FlushedRings(S)[c]
           sent  == SentNow(S, due)[c]
           rest  == AfterSend(S, due).sendPackets[c]
           n     == NextId(S, c)
           left  == AfterSend(S, due).sendQueue[c]
           next  == NextId(AfterSend(S, due), c)
           full  == line[c]
<1>1. n \in Nat /\ Len(full) \in Nat /\ full \in Seq(Messages)  BY IdsInLine
<1>2. queue \in Seq(Messages) /\ Len(queue) \in Nat /\ DOMAIN queue = 1 .. Len(queue)
  BY Parts
<1>3. /\ Len(full) = n + Len(queue)
      /\ \A j \in DOMAIN queue : queue[j] = full[n + j]
      /\ \A i \in Keys(ring) : i < n /\ Get(ring, i).message = full[i + 1]
  BY DEF InLine
<1>4. SendsOn(S, due, c)
  <2>1. n + Len(queue) < U16 - NumItems /\ WrappingAdd(ring.newest, 1) <= n
    BY <1>1, <1>3 DEF NextId
  <2>2. QED BY <1>1, <2>1, SendsNext
<1>5. /\ k \in Nat /\ k <= Len(queue)
      /\ left = SubSeq(queue, k + 1, Len(queue))
      /\ next = n + k
      /\ \A i \in sent :
            /\ i \in Index
            /\ \/ i \in Keys(ring) /\ Get(f, i).message = Get(ring, i).message
               \/ \E j \in 1 .. k : i = n + j - 1 /\ Get(f, i).message = queue[j]
      /\ \A i \in Keys(rest) :
            /\ i \in Index
            /\ \/ i \in Keys(ring) /\ Get(rest, i).message = Get(ring, i).message
               \/ i \in sent /\ Get(rest, i).message = Get(f, i).message
  BY <1>4 DEF SendsOn, NextId
<1>6. \A p \in Outgoing(S, due) : p.channel = c =>
          p.sequenceId \in sent /\ p.content = <<Get(f, p.sequenceId).message>>
  BY OutgoingPackets
<1> HIDE DEF queue, ring, k, f, sent, rest, n, left, next, full
<1>7. ASSUME NEW i \in sent PROVE i < next /\ Get(f, i).message = full[i + 1]
  <2>1. CASE i \in Keys(ring) /\ Get(f, i).message = Get(ring, i).message
    <3>1. i \in Nat  BY <1>5, Numbers
    <3>2. i < n /\ Get(f, i).message = full[i + 1]  BY <1>3, <2>1
    <3>3. QED BY <1>1, <1>5, <3>1, <3>2
  <2>2. CASE \E j \in 1 .. k : i = n + j - 1 /\ Get(f, i).message = queue[j]
    <3>1. PICK j \in 1 .. k : i = n + j - 1 /\ Get(f, i).message = queue[j]  BY <2>2
    <3>2. j \in 1 .. Len(queue) /\ i < next /\ i + 1 = n + j
      BY <1>1, <1>2, <1>5, <3>1
    <3>3. QED BY <1>2, <1>3, <3>1, <3>2
  <2>3. QED BY <1>5, <2>1, <2>2
<1>8. ASSUME NEW i \in Keys(rest) PROVE i < next /\ Get(rest, i).message = full[i + 1]
  <2>1. CASE i \in Keys(ring) /\ Get(rest, i).message = Get(ring, i).message
    <3>1. i \in Nat  BY <1>5, Numbers
    <3>2. i < n /\ Get(rest, i).message = full[i + 1]  BY <1>3, <2>1
    <3>3. QED BY <1>1, <1>5, <3>1, <3>2
  <2>2. CASE i \in sent /\ Get(rest, i).message = Get(f, i).message
    BY <1>7, <2>2
  <2>3. QED BY <1>5, <2>1, <2>2
<1>9. /\ Len(left) = Len(queue) - k /\ Len(left) \in Nat
      /\ DOMAIN left = 1 .. Len(left)
      /\ \A j \in 1 .. Len(left) : left[j] = queue[k + j]
  <2>1. left = SubSeq(queue, k + 1, Len(queue))  BY <1>5
  <2>2. k \in Nat /\ k <= Len(queue)  BY <1>5
  <2>3. RestOf(SubSeq(queue, k + 1, Len(queue)), queue, k)
    BY ONLY <1>2, <2>2, RestOfSequence
  <2>4. RestOf(left, queue, k)  BY <2>1, <2>3
  <2>5. QED BY ONLY <2>4, Zenon DEF RestOf
<1>10. k \in Nat /\ k <= Len(queue) /\ next = n + k  BY <1>5
<1>11. Len(full) = next + Len(left)
  <2>1. Len(full) = n + Len(queue) /\ Len(left) = Len(queue) - k  BY <1>3, <1>9
  <2>2. QED BY ONLY <1>1, <1>2, <1>10, <2>1
<1>12. ASSUME NEW j \in DOMAIN left PROVE left[j] = full[next + j]
  <2>1. j \in 1 .. Len(left)  BY <1>9
  <2>2. left[j] = queue[k + j]  BY ONLY <1>9, <2>1, Zenon
  <2>3. Len(left) = Len(queue) - k /\ Len(left) \in Nat  BY <1>9
  <2>4. j \in Nat /\ 1 <= j /\ j <= Len(queue) - k  BY ONLY <2>1, <2>3
  <2>5. k + j \in DOMAIN queue  BY ONLY <1>2, <1>10, <2>4
  <2>6. next + j = n + (k + j)  BY ONLY <1>1, <1>10, <2>4
  <2>7. QED BY <1>3, <2>2, <2>5, <2>6
<1>13. InLine(AfterSend(S, due), line, c)
  BY <1>8, <1>11, <1>12 DEF InLine, rest, left, next, full
<1>14. n <= next  BY <1>1, <1>5
<1>15. ASSUME NEW p \in Outgoing(S, due), p.channel = c
       PROVE  p.sequenceId < next /\ p.content = <<full[p.sequenceId + 1]>>
  BY <1>6, <1>7, <1>15
<1>16. QED BY <1>13, <1>14, <1>15 DEF n, next, full

\* What acknowledgements leave of the packets in flight.
FewerInFlightOn(old, new, c) ==
    /\ new.sendPackets[c].newest = old.sendPackets[c].newest
    /\ \A i \in Keys(new.sendPackets[c]) :
          /\ i \in Keys(old.sendPackets[c])
          /\ Get(new.sendPackets[c], i) = Get(old.sendPackets[c], i)

\* inner.rs:213-237: what is read acknowledges packets, and only those it names.
LEMMA AcksInFlight ==
    ASSUME NEW S \in Inners, NEW p \in Packets, NEW c \in Channel
    PROVE  /\ ReadPacket(S, p).sendQueue = S.sendQueue
           /\ FewerInFlightOn(S, ReadPacket(S, p), c)
           /\ \A i \in Keys(S.sendPackets[c]) :
                 i \in Keys(ReadPacket(S, p).sendPackets[c]) \/ i \in Names(p.ack, c)
<1> DEFINE new == ReadPacket(S, p)
           ring == S.sendPackets[c]
           rest == new.sendPackets[c]
<1>1. new \in Inners  BY ReadPacketType
<1>2. /\ new.sendQueue = S.sendQueue
      /\ rest = ring \/ rest = Acknowledged(ring, p.ack[c])
      /\ p.ack \in Acks
  BY ReadPacketSends
<1>3. /\ ring \in Rings(Pending) /\ Keys(ring) = {i \in Index : Get(ring, i) # None}
      /\ Keys(rest) = {i \in Index : Get(rest, i) # None}
  BY <1>1, Parts
<1> HIDE DEF new, ring, rest
<1>4. CASE rest = ring
  BY <1>2, <1>4 DEF FewerInFlightOn, new, ring, rest
<1>5. CASE rest = Acknowledged(ring, p.ack[c])
  <2>1. p.ack[c].newest \in Index /\ p.ack[c].bits \subseteq Slots  BY <1>2 DEF Acks
  <2>2. \A i \in Index :
           /\ rest.newest = ring.newest
           /\ Get(rest, i) = IF \E b \in p.ack[c].bits : WrappingSub(p.ack[c].newest, b) = i
                             THEN None ELSE Get(ring, i)
    BY <1>3, <1>5, <2>1, GetAfterAcknowledged
  <2>3. 0 \in Index  BY Numbers
  <2>4. rest.newest = ring.newest  BY <2>2, <2>3
  <2>5. \A i \in Keys(rest) : i \in Keys(ring) /\ Get(rest, i) = Get(ring, i)
    BY <1>3, <2>2
  <2>6. \A i \in Keys(ring) : i \in Keys(rest) \/ i \in Names(p.ack, c)
    BY <1>3, <2>2 DEF Names
  <2>7. QED BY <1>2, <2>4, <2>5, <2>6 DEF FewerInFlightOn, new, ring, rest
<1>6. QED BY <1>2, <1>4, <1>5

LEMMA AcksInLine ==
    ASSUME NEW old \in Inners, NEW new \in Inners, NEW line, NEW c \in Channel,
           new.sendQueue[c] = old.sendQueue[c], FewerInFlightOn(old, new, c),
           InLine(old, line, c)
    PROVE  InLine(new, line, c) /\ NextId(new, c) = NextId(old, c)
<1>1. NextId(new, c) = NextId(old, c)  BY DEF NextId, FewerInFlightOn
<1>2. QED BY <1>1 DEF InLine, FewerInFlightOn

-----------------------------------------------------------------------------
(* A receiver reads.                                                       *)

\* What it hands on is the line from the old head to the new one.
HandsOn(R, new, line) ==
    /\ new.head \in Nat /\ R.head <= new.head /\ new.head <= Len(line["ordered"])
    /\ Get(new.received["ordered"], new.head) = None
    /\ Len(new.ordered) = Len(R.ordered) + (new.head - R.head)
    /\ \A k \in 1 .. Len(R.ordered) : new.ordered[k] = R.ordered[k]
    /\ \A k \in 1 .. new.head - R.head :
          new.ordered[Len(R.ordered) + k] = line["ordered"][R.head + k]

\* It forgets only what the sender's window has left, and what it stores on the
\* reliable channel it hands on at once.
ReadsOn(S, R, new, line, c) ==
    /\ HoldsLine(S, new, line, c)
    /\ \A i \in Index : Get(R.received[c], i) # None =>
          Get(new.received[c], i) # None \/ i + NumItems < NextId(S, c)
    /\ c = "reliable" => \A i \in Index : Get(new.received[c], i) # None =>
          \/ Get(R.received[c], i) # None
          \/ line[c][i + 1] \in Range(new.unordered)
    /\ c = "ordered" => HandsOn(R, new, line)

\* Where a receiver of the ordered channel stands.
AtHead(R, line) ==
    /\ R.head <= Len(line["ordered"])
    /\ Get(R.received["ordered"], R.head) = None

LEMMA ReadsNothing ==
    ASSUME NEW S, NEW R \in Inners, NEW new, NEW line, NEW c \in Channel,
           HoldsLine(S, R, line, c), c = "ordered" => AtHead(R, line),
           new.received[c] = R.received[c],
           c = "ordered" => new.head = R.head /\ new.ordered = R.ordered
    PROVE  ReadsOn(S, R, new, line, c)
<1>1. HoldsLine(S, new, line, c)  BY DEF HoldsLine
<1>2. CASE c = "ordered"
  <2>1. /\ R.head \in Nat /\ Len(R.ordered) \in Nat /\ R.head - R.head = 0
        /\ Len(R.ordered) + 0 = Len(R.ordered)
    BY Parts, Numbers
  <2>2. 1 .. 0 = {}  OBVIOUS
  <2>3. HandsOn(R, new, line)  BY <1>2, <2>1, <2>2 DEF HandsOn, AtHead
  <2>4. QED BY <1>1, <1>2, <2>3 DEF ReadsOn
<1>3. CASE c # "ordered"
  BY <1>1, <1>3 DEF ReadsOn
<1>4. QED BY <1>2, <1>3

\* inner.rs:239-252: on the reliable channel.
LEMMA ReadsReliableOn ==
    ASSUME NEW S, NEW R, NEW P, NEW line, Reachable(S, R, P, line, "reliable"),
           NEW p \in P, p.channel = "reliable", ~ Refused(R, p)
    PROVE  ReadsOn(S, R, ReadReliable(R, p), line, "reliable")
<1> DEFINE acked == Acknowledge(R, p.ack)
           stored == Insert(R.received["reliable"], p.sequenceId, p.content)
           received == [R.received EXCEPT !["reliable"] = stored]
           unordered == R.unordered \o p.content
           new == ReadReliable(R, p)
           i == p.sequenceId
           item == p.content
           n == NextId(S, "reliable")
           full == line["reliable"]
<1>1. /\ S \in Inners /\ R \in Inners /\ P \subseteq Packets /\ "reliable" \in Channel
      /\ line \in Lines /\ InLine(S, line, "reliable")
  BY DEF Reachable, Channel
<1>2. /\ acked \in Inners /\ acked.received = R.received
      /\ acked.unordered = R.unordered
  BY <1>1, AcknowledgeType
<1>3. new = [acked EXCEPT !.received = received, !.unordered = unordered]
  BY <1>2 DEF ReadReliable, Inners
<1> HIDE DEF acked, received, unordered
<1>4. new.received = received /\ new.unordered = unordered
  BY <1>2, <1>3 DEF Inners
<1>5. received["reliable"] = stored  BY <1>1 DEF received, Inners
<1>6. /\ i \in Index /\ i < n /\ item = <<full[i + 1]>> /\ item \in Contents
      /\ Stored(S, R, stored, line, p, "reliable")
  BY <1>1, StoresInLine
<1>7. R.unordered \in Seq(Messages)  BY <1>1 DEF Inners
<1>8. full[i + 1] \in Range(unordered)
  <2>1. i \in Nat  BY <1>6, Numbers
  <2>2. item \in Seq(Messages) /\ Len(item) = 1  BY <1>6 DEF Contents
  <2>3. unordered = R.unordered \o item  BY DEF unordered
  <2> HIDE DEF item, i, full
  <2>4. 1 \in DOMAIN item  BY <2>2
  <2>5. /\ 1 + Len(R.unordered) \in DOMAIN unordered
        /\ unordered[1 + Len(R.unordered)] = item[1]
    BY <1>7, <2>2, <2>3, <2>4, OfConcat
  <2>6. item[1] = full[i + 1]  BY <1>6
  <2>7. QED BY <2>5, <2>6 DEF Range
<1> HIDE DEF new, stored, n, full, i, item
<1>9. HoldsLine(S, new, line, "reliable")
  BY <1>4, <1>5, <1>6 DEF Stored, HoldsLine
<1>10. \A j \in Index : Get(R.received["reliable"], j) # None =>
          Get(stored, j) # None \/ j + NumItems < NextId(S, "reliable")
  BY <1>6 DEF Stored
<1>11. \A j \in Index : Get(stored, j) # None => j = i \/ Get(R.received["reliable"], j) # None
  BY <1>6 DEF Stored, i
<1>12. \A j \in Index : Get(new.received["reliable"], j) # None =>
          \/ Get(R.received["reliable"], j) # None
          \/ line["reliable"][j + 1] \in Range(new.unordered)
  BY <1>4, <1>5, <1>8, <1>11 DEF full
<1>13. \A j \in Index : Get(R.received["reliable"], j) # None =>
          Get(new.received["reliable"], j) # None \/ j + NumItems < NextId(S, "reliable")
  BY <1>4, <1>5, <1>10
<1>14. QED BY <1>9, <1>12, <1>13 DEF ReadsOn, new

\* inner.rs:253-268: on the ordered channel.
LEMMA ReadsOrderedOn ==
    ASSUME NEW S, NEW R, NEW P, NEW line, Reachable(S, R, P, line, "ordered"),
           AtHead(R, line),
           NEW p \in P, p.channel = "ordered", ~ Refused(R, p)
    PROVE  ReadsOn(S, R, ReadOrdered(R, p), line, "ordered")
<1> DEFINE acked == Acknowledge(R, p.ack)
           stored == Insert(R.received["ordered"], p.sequenceId, p.content)
           count == ReadyCount(stored, R.head)
           ready == [j \in 1 .. count |-> Get(stored, WrappingAdd(R.head, j - 1))[1]]
           received == [R.received EXCEPT !["ordered"] = stored]
           ordered == R.ordered \o ready
           new == ReadOrdered(R, p)
           h == R.head
           n == NextId(S, "ordered")
           full == line["ordered"]
<1>1. /\ S \in Inners /\ R \in Inners /\ P \subseteq Packets /\ "ordered" \in Channel
      /\ line \in Lines /\ InLine(S, line, "ordered") /\ Len(full) < U16 - NumItems
  BY DEF Reachable, Channel
<1>2. /\ acked \in Inners /\ acked.received = R.received
      /\ acked.ordered = R.ordered /\ acked.head = h
  BY <1>1, AcknowledgeType
<1>3. new = [acked EXCEPT !.received = received, !.head = WrappingAdd(h, count),
                          !.ordered = ordered]
  BY <1>2 DEF ReadOrdered, Inners
<1> HIDE DEF acked, received, ordered
<1>4. new.received = received /\ new.ordered = ordered /\ new.head = WrappingAdd(h, count)
  BY <1>2, <1>3 DEF Inners
<1>5. received["ordered"] = stored  BY <1>1 DEF received, Inners
<1>6. Stored(S, R, stored, line, p, "ordered")  BY <1>1, StoresInLine
<1>7. R.ordered \in Seq(Messages) /\ h \in Index  BY <1>1 DEF Inners
<1>8. /\ n \in Nat /\ Len(full) \in Nat /\ n <= Len(full)
      /\ \A i \in Nat : i < Len(full) => full[i + 1] \in Messages
  BY <1>1, IdsInLine
<1>9. h <= Len(full)  BY DEF AtHead
<1>10. /\ stored \in Rings(Contents) /\ stored.newest < n
       /\ \A i \in Index : Get(stored, i) # None => i < n /\ Get(stored, i) = <<full[i + 1]>>
       /\ \A i \in Index : Get(R.received["ordered"], i) # None =>
             Get(stored, i) # None \/ i + NumItems < n
  BY <1>6 DEF Stored
<1> HIDE DEF new, stored, n, full, h
<1>11. /\ count \in 0 .. NumItems
       /\ Get(stored, WrappingAdd(h, count)) = None
       /\ \A j \in 0 .. count - 1 : Get(stored, WrappingAdd(h, j)) # None
  BY <1>7, <1>10, ReadyCountType DEF h
<1> HIDE DEF count
<1>12. count \in Nat /\ count <= NumItems /\ NumItems \in Nat /\ h \in Nat
  BY <1>7, <1>11, Numbers
<1>13. ASSUME NEW j \in 0 .. count
       PROVE  WrappingAdd(h, j) = h + j /\ h + j \in Index /\ j \in Nat
  BY <1>1, <1>8, <1>9, <1>12, Numbers DEF WrappingAdd
<1>14. ASSUME NEW j \in 0 .. count - 1
       PROVE  h + j < n /\ Get(stored, h + j) = <<full[h + j + 1]>>
  <2>1. j \in 0 .. count  BY <1>12
  <2>2. WrappingAdd(h, j) = h + j /\ h + j \in Index  BY <1>13, <2>1
  <2>3. Get(stored, h + j) # None  BY <1>11, <2>2
  <2>4. QED BY <1>10, <2>2, <2>3
<1>15. new.head = h + count /\ Get(stored, h + count) = None
  <2>1. count \in 0 .. count  BY <1>12
  <2>2. QED BY <1>4, <1>11, <1>13, <2>1
<1>16. h + count <= Len(full)
  <2>1. CASE count = 0  BY <1>9, <1>12, <2>1
  <2>2. CASE count # 0
    <3>1. count - 1 \in 0 .. count - 1  BY <1>12, <2>2
    <3>2. h + (count - 1) < n  BY <1>14, <3>1
    <3>3. QED BY <1>8, <1>12, <3>2
  <2>3. QED BY <2>1, <2>2
<1>17. ASSUME NEW k \in 1 .. count PROVE ready[k] = full[h + k] /\ ready[k] \in Messages
  <2>1. k - 1 \in 0 .. count - 1 /\ k - 1 \in 0 .. count  BY <1>12
  <2>2. WrappingAdd(h, k - 1) = h + (k - 1)  BY <1>13, <2>1
  <2>3. h + (k - 1) < n /\ Get(stored, h + (k - 1)) = <<full[h + (k - 1) + 1]>>
    BY <1>14, <2>1
  <2>4. h + (k - 1) + 1 = h + k /\ h + (k - 1) \in Nat /\ h + (k - 1) < Len(full)
    BY <1>8, <1>12, <2>1, <2>3
  <2>5. ready[k] = Get(stored, WrappingAdd(h, k - 1))[1]  BY DEF h
  <2>6. ready[k] = full[h + k]  BY <2>2, <2>3, <2>4, <2>5
  <2>7. full[h + k] \in Messages  BY <1>8, <2>4
  <2>8. QED BY <2>6, <2>7
<1>18. ready \in Seq(Messages) /\ Len(ready) = count
  BY <1>12, <1>17
<1>19. ordered = R.ordered \o ready  BY DEF ordered
<1> HIDE DEF ready
<1>20. /\ Len(ordered) = Len(R.ordered) + count /\ Len(R.ordered) \in Nat
       /\ \A k \in 1 .. Len(R.ordered) : ordered[k] = R.ordered[k]
       /\ \A k \in 1 .. count : ordered[Len(R.ordered) + k] = ready[k]
  <2> DEFINE before == R.ordered
  <2>1. before \in Seq(Messages) /\ ordered = before \o ready  BY <1>7, <1>19
  <2> HIDE DEF before
  <2>2. Joined(ordered, before, ready)  BY ONLY <1>18, <2>1, JoinedSequences
  <2>3. QED BY <1>18, <2>2 DEF Joined, before
<1>21. HandsOn(R, new, line)
  <2>1. new.head - h = count /\ new.head \in Nat /\ h <= new.head  BY <1>12, <1>15
  <2>2. new.head <= Len(full)  BY <1>15, <1>16
  <2>3. Get(new.received["ordered"], new.head) = None  BY <1>4, <1>5, <1>15
  <2>4. \A k \in 1 .. count : new.ordered[Len(R.ordered) + k] = full[h + k]
    BY <1>4, <1>17, <1>20
  <2>5. QED BY <1>4, <1>20, <2>1, <2>2, <2>3, <2>4 DEF HandsOn, h, full
<1>22. HoldsLine(S, new, line, "ordered")
  BY <1>4, <1>5, <1>10 DEF HoldsLine, n, full
<1>23. \A i \in Index : Get(R.received["ordered"], i) # None =>
          Get(new.received["ordered"], i) # None \/ i + NumItems < NextId(S, "ordered")
  BY <1>4, <1>5, <1>10 DEF n
<1>24. QED BY <1>21, <1>22, <1>23 DEF ReadsOn, new

\* A packet of one channel leaves the other alone.
LEMMA ReadsOtherChannel ==
    ASSUME NEW R \in Inners, NEW p \in Packets
    PROVE  /\ LET new == ReadReliable(R, p)
              IN  /\ new.received["ordered"] = R.received["ordered"]
                  /\ new.head = R.head /\ new.ordered = R.ordered
           /\ ReadOrdered(R, p).received["reliable"] = R.received["reliable"]
<1> DEFINE acked == Acknowledge(R, p.ack)
           reliable == [R.received EXCEPT !["reliable"] =
                           Insert(@, p.sequenceId, p.content)]
           ordered == [R.received EXCEPT !["ordered"] =
                          Insert(@, p.sequenceId, p.content)]
<1>1. /\ acked \in Inners /\ acked.received = R.received
      /\ acked.ordered = R.ordered /\ acked.head = R.head
  BY AcknowledgeType
<1>2. reliable["ordered"] = R.received["ordered"] /\ ordered["reliable"] = R.received["reliable"]
  BY DEF Inners, Channel
<1>3. ReadReliable(R, p) = [acked EXCEPT !.received = reliable,
                                         !.unordered = @ \o p.content]
  BY <1>1 DEF ReadReliable, Inners
<1>4. \E head, out : ReadOrdered(R, p) = [acked EXCEPT !.received = ordered, !.head = head,
                                                       !.ordered = out]
  BY <1>1 DEF ReadOrdered, Inners
<1> HIDE DEF acked, reliable, ordered
<1>5. /\ ReadReliable(R, p).received = reliable
      /\ ReadReliable(R, p).head = R.head /\ ReadReliable(R, p).ordered = R.ordered
  BY <1>1, <1>3 DEF Inners
<1>6. ReadOrdered(R, p).received = ordered  BY <1>1, <1>4 DEF Inners
<1>7. QED BY <1>2, <1>5, <1>6

\* inner.rs:205-304: a packet is read.
LEMMA PacketReadsOn ==
    ASSUME NEW S, NEW R, NEW P, NEW line, NEW c \in Channel, Reachable(S, R, P, line, c),
           c = "ordered" => AtHead(R, line),
           NEW p \in P
    PROVE  ReadsOn(S, R, ReadPacket(R, p), line, c)
<1> DEFINE new == ReadPacket(R, p)
<1>1. R \in Inners /\ p \in Packets /\ HoldsLine(S, R, line, c)  BY DEF Reachable
<1>2. p.channel \in Channel \/ p.channel = "unreliable"  BY <1>1 DEF Packets
<1>3. ASSUME new.received[c] = R.received[c],
             c = "ordered" => new.head = R.head /\ new.ordered = R.ordered
      PROVE  ReadsOn(S, R, new, line, c)
  <2> HIDE DEF new
  <2>1. QED BY <1>1, <1>3, ReadsNothing
<1>4. CASE p.channel = "unreliable"
  <2>1. new = Acknowledge(R, p.ack)
    BY <1>4 DEF ReadPacket, ReadHeartbeat, Channel
  <2>2. QED BY <1>1, <1>3, <2>1, AcknowledgeType
<1>5. CASE p.channel \in Channel /\ Refused(R, p)
  <2>1. new = [R EXCEPT !.duplicate = TRUE]
    BY <1>5 DEF ReadPacket, Channel
  <2>2. new.received = R.received /\ new.head = R.head /\ new.ordered = R.ordered
    BY <1>1, <2>1 DEF Inners
  <2>3. QED BY <1>3, <2>2
<1>6. CASE p.channel = "reliable" /\ ~ Refused(R, p)
  <2>1. new = ReadReliable(R, p)  BY <1>6 DEF ReadPacket, Channel
  <2>2. CASE c = "reliable"
    <3>1. Reachable(S, R, P, line, "reliable")  BY <2>2
    <3>2. QED BY <1>6, <2>1, <2>2, <3>1, ReadsReliableOn
  <2>3. CASE c = "ordered"  BY <1>1, <1>3, <2>1, <2>3, ReadsOtherChannel
  <2>4. QED BY <2>2, <2>3 DEF Channel
<1>7. CASE p.channel = "ordered" /\ ~ Refused(R, p)
  <2>1. new = ReadOrdered(R, p)  BY <1>7 DEF ReadPacket, Channel
  <2>2. CASE c = "ordered"
    <3>1. Reachable(S, R, P, line, "ordered")  BY <2>2
    <3>2. QED BY <1>7, <2>1, <2>2, <3>1, ReadsOrderedOn
  <2>3. CASE c = "reliable"  BY <1>1, <1>3, <2>1, <2>3, ReadsOtherChannel
  <2>4. QED BY <2>2, <2>3 DEF Channel
<1>8. QED BY <1>2, <1>4, <1>5, <1>6, <1>7 DEF Channel

-----------------------------------------------------------------------------
(* The two directions, when one side reads a packet or writes.             *)

\* One step of a communicator but for send: it may read a packet of P, have its
\* readers take what they like, and write ext.
Works(old, new, inner, P, ext) ==
    /\ old \in Inners /\ inner \in Inners /\ new \in Inners
    /\ P \subseteq Packets /\ ext \in Lines
    /\ inner = old \/ \E p \in P : inner = ReadPacket(old, p)
    /\ new.sendPackets = inner.sendPackets
    /\ new.received = inner.received
    /\ new.head = inner.head
    /\ \A c \in Channel : new.sendQueue[c] = inner.sendQueue[c] \o ext[c]

\* What a receiver that works has or holds for its readers.
Hears(had, inner, more) ==
    had \cup Range(inner.unordered) \cup Range(inner.ordered) \subseteq more

LEMMA WorksReadsOn ==
    ASSUME NEW S, NEW R, NEW P, NEW line, NEW c \in Channel, Reachable(S, R, P, line, c),
           c = "ordered" => AtHead(R, line),
           NEW new, NEW inner, NEW ext, Works(R, new, inner, P, ext)
    PROVE  ReadsOn(S, R, inner, line, c)
<1>1. CASE inner = R
  <2>1. R \in Inners /\ HoldsLine(S, R, line, c)  BY DEF Reachable
  <2>2. ReadsOn(S, R, R, line, c)  BY <2>1, ReadsNothing
  <2>3. QED BY <1>1, <2>2
<1>2. CASE \E p \in P : inner = ReadPacket(R, p)
  BY <1>2, PacketReadsOn
<1>3. QED BY <1>1, <1>2 DEF Works

LEMMA DirectionReceives ==
    ASSUME NEW S, NEW R, NEW P, NEW had, NEW line, NEW c \in Channel,
           Reachable(S, R, P, line, c), Direction(S, R, P, had, line, c),
           NEW new, NEW inner, NEW ext, Works(R, new, inner, P, ext),
           NEW more, Hears(had, inner, more)
    PROVE  Direction(S, new, P, more, line, c)
<1>1. c = "ordered" => AtHead(R, line) /\ HandedOn(R, had, line)
  BY DEF Direction, HandedOn, AtHead
<1>2. ReadsOn(S, R, inner, line, c)  BY <1>1, WorksReadsOn
<1>3. new.received = inner.received /\ new.head = inner.head /\ inner \in Inners
  BY DEF Works
<1>4. HoldsLine(S, new, line, c)  BY <1>2, <1>3 DEF ReadsOn, HoldsLine
<1>5. ASSUME c = "ordered" PROVE HandedOn(new, more, line)
  <2>1. HandsOn(R, inner, line) /\ HandedOn(R, had, line)  BY <1>1, <1>2, <1>5 DEF ReadsOn
  <2>2. R \in Inners  BY DEF Reachable
  <2>3. R.head \in Nat /\ R.ordered \in Seq(Messages) /\ inner.ordered \in Seq(Messages)
    BY <1>3, <1>5, <2>2, Parts, Numbers
  <2>4. had \subseteq more /\ Range(inner.ordered) \subseteq more  BY DEF Hears
  <2> DEFINE before == Len(R.ordered)
             h == R.head
             g == inner.head
             full == line["ordered"]
             out == inner.ordered
  <2>5. /\ g \in Nat /\ h <= g /\ g <= Len(full) /\ Len(out) = before + (g - h)
        /\ \A k \in 1 .. g - h : out[before + k] = full[h + k]
        /\ \A k \in 1 .. h : full[k] \in had
        /\ Get(inner.received["ordered"], g) = None
    BY <2>1 DEF HandsOn, HandedOn
  <2>6. before \in Nat /\ h \in Nat /\ out \in Seq(Messages)  BY <2>3
  <2> HIDE DEF before, h, g, full, out
  <2>7. ASSUME NEW k \in 1 .. g PROVE full[k] \in more
    <3>1. CASE k <= h
      <4>1. k \in 1 .. h  BY <2>5, <2>6, <3>1
      <4>2. QED BY <2>4, <2>5, <4>1
    <3>2. CASE ~ (k <= h)
      <4>1. k - h \in 1 .. g - h /\ h + (k - h) = k /\ before + (k - h) \in 1 .. Len(out)
        BY <2>5, <2>6, <3>2
      <4>2. out[before + (k - h)] = full[k]  BY <2>5, <4>1
      <4>3. before + (k - h) \in DOMAIN out  BY <2>6, <4>1
      <4>4. full[k] \in Range(inner.ordered)  BY <4>2, <4>3 DEF Range, out
      <4>5. QED BY <2>4, <4>4
    <3>3. QED BY <3>1, <3>2
  <2>8. QED BY <1>3, <2>5, <2>7 DEF HandedOn, g, full
<1>6. QED BY <1>4, <1>5 DEF Direction

\* The sender's side of a direction.
LEMMA DirectionGrows ==
    ASSUME NEW S, NEW new, NEW R, NEW P, NEW Q, NEW had, NEW line \in Lines, NEW more,
           NEW c \in Channel, S \in Inners, new \in Inners, P \subseteq Packets,
           Direction(S, R, P, had, line, c),
           InLine(new, more, c), NextId(S, c) <= NextId(new, c), Longer(line, more, c),
           \A p \in Q : p \in P \/ (p.channel = c =>
              p.sequenceId < NextId(new, c) /\ p.content = <<more[c][p.sequenceId + 1]>>),
           NEW T, T.received = R.received, T.head = R.head, R \in Inners,
           NEW all, had \subseteq all
    PROVE  Direction(new, T, Q, all, more, c)
<1> DEFINE n == NextId(S, c)
           m == NextId(new, c)
           full == line[c]
           longer == more[c]
<1>1. /\ n \in Nat /\ Len(full) \in Nat /\ n <= Len(full)
      /\ m \in Nat /\ n <= m /\ Len(full) <= Len(longer)
  BY IdsInLine, NextIdIs DEF Direction, Longer
<1>2. /\ PacketsInLine(S, P, line, c) /\ HoldsLine(S, R, line, c)
      /\ c = "ordered" => HandedOn(R, had, line)
  BY DEF Direction
<1>3. \A k \in 1 .. Len(full) : longer[k] = full[k]  BY DEF Longer
<1>4. ASSUME NEW i \in Index, i < n PROVE i < m /\ longer[i + 1] = full[i + 1]
  <2>1. i \in Nat  BY Numbers
  <2> HIDE DEF n, m, full, longer
  <2>2. i < m /\ i + 1 \in 1 .. Len(full)  BY <1>1, <1>4, <2>1
  <2>3. QED BY <1>3, <2>2
<1>5. PacketsInLine(new, Q, more, c)
  <2> SUFFICES ASSUME NEW p \in Q, p.channel = c, p \in P
               PROVE  p.sequenceId < m /\ p.content = <<longer[p.sequenceId + 1]>>
    BY DEF PacketsInLine
  <2>1. p.sequenceId < n /\ p.content = <<full[p.sequenceId + 1]>>
    BY <1>2 DEF PacketsInLine
  <2>2. p.sequenceId \in Index
    <3>1. p \in Packets /\ p.channel # "unreliable"  BY DEF Channel
    <3>2. QED BY <3>1 DEF Packets
  <2> HIDE DEF n, m, full, longer
  <2>3. QED BY <1>4, <2>1, <2>2
<1>6. HoldsLine(new, T, more, c)
  <2>1. R.received[c].newest \in Index  BY Parts DEF Rings
  <2>2. R.received[c].newest = LastIndex \/ R.received[c].newest < n
    BY <1>2 DEF HoldsLine
  <2>3. T.received[c].newest = LastIndex \/ T.received[c].newest < m
    BY <1>4, <2>1, <2>2
  <2>4. \A i \in Index : Get(R.received[c], i) # None =>
           i < n /\ Get(R.received[c], i) = <<full[i + 1]>>
    BY <1>2 DEF HoldsLine
  <2> HIDE DEF n, m, full, longer
  <2>5. \A i \in Index : Get(T.received[c], i) # None =>
           i < m /\ Get(T.received[c], i) = <<longer[i + 1]>>
    BY <1>4, <2>4
  <2>6. QED BY <2>3, <2>5 DEF HoldsLine, m, longer
<1>7. ASSUME c = "ordered" PROVE HandedOn(T, all, more)
  <2>1. R.head <= Len(full) /\ R.head \in Nat  BY <1>2, <1>7, Parts, Numbers DEF HandedOn
  <2>2. /\ \A k \in 1 .. R.head : full[k] \in had
        /\ Get(R.received["ordered"], R.head) = None
    BY <1>2, <1>7 DEF HandedOn
  <2>3. T.head <= Len(longer)
    <3> DEFINE h == R.head
    <3> HIDE DEF n, m, full, longer, h
    <3>1. h <= Len(longer)
      <4>1. h \in Nat /\ h <= Len(full) BY <2>1 DEF h
      <4>2. Len(longer) \in Nat BY DEF InLine, longer
      <4>3. QED BY <1>1, <4>1, <4>2
    <3>2. QED BY <3>1 DEF h
  <2>4. ASSUME NEW k \in 1 .. R.head PROVE longer[k] \in all
    <3>1. k \in 1 .. Len(full)  BY <1>1, <2>1
    <3>2. QED BY <1>3, <2>2, <3>1
  <2>5. QED BY <1>7, <2>2, <2>3, <2>4 DEF HandedOn
<1>8. QED BY <1>5, <1>6, <1>7 DEF Direction

\* A sender that works keeps its line, and acknowledgements take out what they name.
SendsOnward(S, new, P, line, more, c) ==
    /\ InLine(new, more, c)
    /\ NextId(new, c) = NextId(S, c)
    /\ Longer(line, more, c)
    /\ \A i \in Keys(S.sendPackets[c]) :
          i \in Keys(new.sendPackets[c]) \/ \E p \in P : i \in Names(p.ack, c)
    /\ FewerInFlightOn(S, new, c)

LEMMA WorksInLine ==
    ASSUME NEW S, NEW new, NEW inner, NEW P, NEW ext, Works(S, new, inner, P, ext),
           NEW line \in Lines, NEW more \in Lines, NEW c \in Channel,
           InLine(S, line, c), more[c] = line[c] \o ext[c]
    PROVE  SendsOnward(S, new, P, line, more, c)
<1>1. /\ S \in Inners /\ inner \in Inners /\ new \in Inners /\ P \subseteq Packets
      /\ ext[c] \in Seq(Messages)
      /\ new.sendPackets = inner.sendPackets
      /\ new.sendQueue[c] = inner.sendQueue[c] \o ext[c]
  BY DEF Works, Lines
<1>2. /\ inner.sendQueue[c] = S.sendQueue[c]
      /\ FewerInFlightOn(S, inner, c)
      /\ \A i \in Keys(S.sendPackets[c]) :
            i \in Keys(inner.sendPackets[c]) \/ \E p \in P : i \in Names(p.ack, c)
  <2>1. CASE inner = S  BY <2>1 DEF FewerInFlightOn
  <2>2. CASE \E p \in P : inner = ReadPacket(S, p)
    <3>1. PICK p \in P : inner = ReadPacket(S, p)  BY <2>2
    <3>2. p \in Packets  BY <1>1
    <3>3. QED BY <1>1, <3>1, <3>2, AcksInFlight
  <2>3. QED BY <2>1, <2>2 DEF Works
<1>3. InLine(inner, line, c) /\ NextId(inner, c) = NextId(S, c)
  BY <1>1, <1>2, AcksInLine
<1>4. InLine(new, more, c) /\ NextId(new, c) = NextId(inner, c) /\ Longer(line, more, c)
  <2>1. WritesBehind(inner, new, line, more, ext[c], c)  BY <1>1 DEF WritesBehind
  <2>2. inner \in Inners /\ new \in Inners /\ ext[c] \in Seq(Messages) /\ InLine(inner, line, c)
    BY <1>1, <1>3
  <2>3. QED BY <2>1, <2>2, WritesInLine
<1>5. QED BY <1>1, <1>2, <1>3, <1>4 DEF SendsOnward, FewerInFlightOn

LEMMA DirectionWrites ==
    ASSUME NEW S, NEW new, NEW inner, NEW Q, NEW ext, Works(S, new, inner, Q, ext),
           NEW line \in Lines, NEW more \in Lines, NEW c \in Channel,
           more[c] = line[c] \o ext[c],
           NEW R \in Inners, NEW P, P \subseteq Packets, NEW had,
           Direction(S, R, P, had, line, c)
    PROVE  Direction(new, R, P, had, more, c)
<1>1. InLine(S, line, c)  BY DEF Direction
<1>2. SendsOnward(S, new, Q, line, more, c)  BY <1>1, WorksInLine
<1>3. S \in Inners /\ new \in Inners  BY DEF Works
<1>4. /\ InLine(new, more, c) /\ Longer(line, more, c)
      /\ NextId(S, c) \in Nat /\ NextId(new, c) = NextId(S, c)
  BY <1>2, <1>3, NextIdIs DEF SendsOnward
<1>5. NextId(S, c) <= NextId(new, c)  BY <1>4
<1>6. QED BY <1>3, <1>4, <1>5, DirectionGrows

LEMMA LongerThanItself ==
    ASSUME NEW line \in Lines, NEW c \in Channel PROVE Longer(line, line, c)
<1>1. Len(line[c]) \in Nat  BY DEF Lines
<1>2. QED BY <1>1 DEF Longer

LEMMA DirectionPacks ==
    ASSUME NEW S \in Inners, NEW due,
           NEW line \in Lines, NEW c \in Channel, Len(line[c]) < U16 - NumItems,
           NEW R \in Inners, NEW P, P \subseteq Packets, NEW had,
           Direction(S, R, P, had, line, c)
    PROVE  Direction(AfterSend(S, due), R, P \cup Outgoing(S, due), had, line, c)
<1> DEFINE new == AfterSend(S, due)
           Q == P \cup Outgoing(S, due)
<1>1. InLine(S, line, c)  BY DEF Direction
<1>2. new \in Inners  BY SendTypes
<1>3. /\ InLine(new, line, c) /\ NextId(S, c) <= NextId(new, c)
      /\ \A p \in Outgoing(S, due) : p.channel = c =>
            p.sequenceId < NextId(new, c) /\ p.content = <<line[c][p.sequenceId + 1]>>
  BY <1>1, SendsInLine
<1>4. Longer(line, line, c)  BY LongerThanItself
<1>5. \A p \in Q : p \in P \/ (p.channel = c =>
         p.sequenceId < NextId(new, c) /\ p.content = <<line[c][p.sequenceId + 1]>>)
  BY <1>3
<1> HIDE DEF new, Q
<1>6. Direction(new, R, Q, had, line, c)
  BY <1>2, <1>3, <1>4, <1>5, DirectionGrows
<1>7. QED BY <1>6 DEF new, Q

\* What a direction does not look at may change.
LEMMA DirectionSame ==
    ASSUME NEW S, NEW R, NEW P, NEW had, NEW line, NEW c \in Channel,
           Direction(S, R, P, had, line, c),
           NEW new, new.received = R.received, new.head = R.head,
           NEW other, other.sendQueue = S.sendQueue, other.sendPackets = S.sendPackets,
           NEW more, had \subseteq more
    PROVE  Direction(other, new, P, more, line, c)
<1>1. NextId(other, c) = NextId(S, c)  BY DEF NextId
<1>2. InLine(other, line, c) /\ PacketsInLine(other, P, line, c)
  BY <1>1 DEF Direction, InLine, PacketsInLine
<1>3. HoldsLine(other, new, line, c)  BY <1>1 DEF Direction, HoldsLine
<1>4. c = "ordered" => HandedOn(new, more, line)  BY DEF Direction, HandedOn
<1>5. QED BY <1>2, <1>3, <1>4 DEF Direction

-----------------------------------------------------------------------------
(* What has arrived stays arrived, what is in flight is kept.              *)

\* One direction of one channel in the next state: no fact of Settled is lost as
\* long as what had arrived stays so.
LEMMA StaysSettled ==
    ASSUME NEW S, NEW R, NEW Q, NEW had, NEW line, NEW c \in Channel,
           Settled(S, R, Q, had, line, c),
           NEW new, NEW T, NEW P, NEW more, NEW longer,
           Arrived(R, had, line, c) \subseteq Arrived(T, more, longer, c),
           \A i \in 0 .. NextId(new, c) - 1 :
              \/ i \in Keys(new.sendPackets[c])
              \/ i \in Arrived(T, more, longer, c)
              \/ i \in 0 .. NextId(S, c) - 1 /\ i \notin Keys(S.sendPackets[c]),
           \A i \in Index : Get(T.received[c], i) # None =>
              Get(R.received[c], i) # None \/ i \in Arrived(T, more, longer, c),
           \A q \in P : q \in Q \/ Names(q.ack, c) \subseteq Arrived(T, more, longer, c),
           \A d \in Channel : \A i \in Keys(T.sendPackets[d]) :
              \/ Names(Get(T.sendPackets[d], i).ack, c) \subseteq Arrived(T, more, longer, c)
              \/ /\ i \in Keys(R.sendPackets[d])
                 /\ Get(T.sendPackets[d], i).ack = Get(R.sendPackets[d], i).ack
    PROVE  Settled(new, T, P, more, longer, c)
<1> DEFINE old == Arrived(R, had, line, c)
           now == Arrived(T, more, longer, c)
<1>1. /\ \A i \in 0 .. NextId(S, c) - 1 : i \in old \/ i \in Keys(S.sendPackets[c])
      /\ \A i \in Index : Get(R.received[c], i) # None => i \in old
      /\ \A q \in Q : Names(q.ack, c) \subseteq old
      /\ \A d \in Channel : \A i \in Keys(R.sendPackets[d]) :
            Names(Get(R.sendPackets[d], i).ack, c) \subseteq old
  BY DEF Settled
<1>2. old \subseteq now  OBVIOUS
<1>3. \A i \in 0 .. NextId(new, c) - 1 : i \in now \/ i \in Keys(new.sendPackets[c])
  BY <1>1, <1>2
<1>4. \A i \in Index : Get(T.received[c], i) # None => i \in now
  BY <1>1, <1>2
<1>5. \A q \in P : Names(q.ack, c) \subseteq now
  BY <1>1, <1>2
<1>6. \A d \in Channel : \A i \in Keys(T.sendPackets[d]) :
         Names(Get(T.sendPackets[d], i).ack, c) \subseteq now
  BY <1>1, <1>2
<1>7. QED BY <1>3, <1>4, <1>5, <1>6 DEF Settled

\* A sender that works.
LEMMA SettledWrites ==
    ASSUME NEW S, NEW new, NEW inner, NEW Q, NEW ext, Works(S, new, inner, Q, ext),
           NEW line \in Lines, NEW more \in Lines, NEW c \in Channel,
           more[c] = line[c] \o ext[c], InLine(S, line, c),
           NEW R, NEW had, Settled(S, R, Q, had, line, c)
    PROVE  Settled(new, R, Q, had, more, c)
<1>1. SendsOnward(S, new, Q, line, more, c)  BY WorksInLine
<1>2. Len(line[c]) \in Nat /\ Len(more[c]) \in Nat  BY DEF Lines
<1>3. Arrived(R, had, line, c) \subseteq Arrived(R, had, more, c)
  <2>1. CASE c = "reliable"
    <3> SUFFICES ASSUME NEW i \in Index, i < Len(line[c]), line[c][i + 1] \in had
                 PROVE  i < Len(more[c]) /\ more[c][i + 1] \in had
      BY <2>1 DEF Arrived
    <3>1. Len(line[c]) <= Len(more[c]) /\ \A k \in 1 .. Len(line[c]) : more[c][k] = line[c][k]
      BY <1>1 DEF SendsOnward, Longer
    <3>2. i \in Nat  BY Numbers
    <3> DEFINE m == Len(line[c])
               n == Len(more[c])
    <3>3. m \in Nat /\ n \in Nat /\ m <= n /\ i < m  BY <1>2, <3>1
    <3> HIDE DEF m, n
    <3>4. i + 1 \in 1 .. m /\ i < n  BY <3>2, <3>3
    <3>5. QED BY <3>1, <3>4 DEF m, n
  <2>2. CASE c # "reliable"  BY <2>2 DEF Arrived
  <2>3. QED BY <2>1, <2>2
<1>4. ASSUME NEW i \in 0 .. NextId(new, c) - 1
      PROVE  \/ i \in Keys(new.sendPackets[c])
             \/ i \in Arrived(R, had, more, c)
             \/ i \in 0 .. NextId(S, c) - 1 /\ i \notin Keys(S.sendPackets[c])
  <2>1. i \in 0 .. NextId(S, c) - 1  BY <1>1 DEF SendsOnward
  <2>2. CASE i \in Keys(S.sendPackets[c])
    <3>1. i \in Keys(new.sendPackets[c]) \/ \E q \in Q : i \in Names(q.ack, c)
      BY <1>1, <2>2 DEF SendsOnward
    <3>2. \A q \in Q : Names(q.ack, c) \subseteq Arrived(R, had, line, c)  BY DEF Settled
    <3>3. QED BY <1>3, <3>1, <3>2
  <2>3. QED BY <2>1, <2>2
<1>5. QED BY <1>3, <1>4, StaysSettled

\* A receiver that works.  What it forgets it has passed: the packet at the head
\* would have to be in flight, and the sender's window is not that wide.
LEMMA NothingForgotten ==
    ASSUME NEW S, NEW R, NEW P, NEW Q, NEW had, NEW line,
           Reachable(S, R, P, line, "ordered"), AtHead(R, line),
           Settled(S, R, Q, had, line, "ordered"),
           NEW i \in Index, R.head <= i
    PROVE  ~ (i + NumItems < NextId(S, "ordered"))
<1> SUFFICES ASSUME i + NumItems < NextId(S, "ordered") PROVE FALSE  OBVIOUS
<1> DEFINE h == R.head
           n == NextId(S, "ordered")
           ring == S.sendPackets["ordered"]
           w == ring.newest
<1>1. S \in Inners /\ R \in Inners /\ "ordered" \in Channel  BY DEF Reachable, Channel
<1>2. h \in Index /\ n \in Nat /\ i \in Nat /\ h \in Nat /\ NumItems \in Nat
  BY <1>1, Parts, NextIdIs, Numbers
<1>3. w \in Index /\ n = IF w = U16 - 1 THEN 0 ELSE w + 1  BY <1>1, NextIdIs
<1>4. Keys(ring) = {j \in Index : Get(ring, j) # None}  BY <1>1, Parts
<1>5. h \in 0 .. n - 1 => h \in Arrived(R, had, line, "ordered") \/ h \in Keys(ring)
  BY DEF Settled
<1>6. h \notin Arrived(R, had, line, "ordered")
  <2>1. Get(R.received["ordered"], h) = None  BY DEF AtHead
  <2>2. ~ (h < h)  BY <1>2
  <2>3. QED BY <2>1, <2>2 DEF Arrived
<1> HIDE DEF n, h, w
<1>7. h <= i /\ i + NumItems < n  BY DEF h, n
<1>8. h \in 0 .. n - 1  BY <1>2, <1>7
<1>9. ~ (WrappingSub(w, h) < NumItems)
  BY <1>2, <1>3, <1>7, Numbers DEF WrappingSub
<1>10. Get(ring, h) = None  BY <1>9 DEF Get, InWindow, w
<1> HIDE DEF ring
<1>11. QED BY <1>4, <1>5, <1>6, <1>8, <1>10

LEMMA SettledReceives ==
    ASSUME NEW S, NEW R, NEW P, NEW had, NEW line, NEW c \in Channel,
           Reachable(S, R, P, line, c), Direction(S, R, P, had, line, c),
           NEW new, NEW inner, NEW ext, Works(R, new, inner, P, ext),
           NEW more, Hears(had, inner, more),
           NEW Q, Settled(S, R, Q, had, line, c)
    PROVE  Settled(S, new, Q, more, line, c)
<1>1. c = "ordered" => AtHead(R, line)  BY DEF Direction, HandedOn, AtHead
<1>2. ReadsOn(S, R, inner, line, c)  BY <1>1, WorksReadsOn
<1>3. /\ R \in Inners /\ inner \in Inners /\ P \subseteq Packets
      /\ new.sendPackets = inner.sendPackets
      /\ new.received = inner.received /\ new.head = inner.head
  BY DEF Works
<1>4. had \subseteq more /\ Range(inner.unordered) \subseteq more  BY DEF Hears
<1>5. Arrived(R, had, line, c) \subseteq Arrived(new, more, line, c)
  <2>1. CASE c = "reliable"  BY <1>4, <2>1 DEF Arrived
  <2>2. CASE c = "ordered"
    <3> SUFFICES ASSUME NEW i \in Index, i < R.head \/ Get(R.received["ordered"], i) # None
                 PROVE  i < inner.head \/ Get(inner.received["ordered"], i) # None
      BY <1>3, <2>2 DEF Arrived
    <3>1. R.head \in Nat /\ inner.head \in Nat /\ R.head <= inner.head /\ i \in Nat
      BY <1>2, <1>3, <2>2, Parts, Numbers DEF ReadsOn, HandsOn
    <3>2. CASE i < R.head
      <4> DEFINE h == R.head
                 g == inner.head
      <4> HIDE DEF h, g
      <4>1. h \in Nat /\ g \in Nat /\ h <= g /\ i < h  BY <3>1, <3>2 DEF h, g
      <4>2. i < g  BY <3>1, <4>1
      <4>3. QED BY <4>2 DEF g
    <3>3. CASE R.head <= i
      <4>1. Reachable(S, R, P, line, "ordered") /\ Settled(S, R, Q, had, line, "ordered")
        BY <2>2
      <4>2. ~ (i + NumItems < NextId(S, "ordered"))
        BY <1>1, <2>2, <3>3, <4>1, NothingForgotten
      <4>3. Get(R.received["ordered"], i) # None
        <5> DEFINE h == R.head
        <5>1. h \in Nat /\ h <= i  BY <3>1, <3>3
        <5> HIDE DEF h
        <5>2. ~ (i < h)  BY <3>1, <5>1
        <5>3. QED BY <5>2 DEF h
      <4>4. QED BY <1>2, <2>2, <4>2, <4>3 DEF ReadsOn
    <3>4. R.head <= i \/ i < R.head
      <4> DEFINE h == R.head
      <4>1. h \in Nat  BY <3>1
      <4> HIDE DEF h
      <4>2. h <= i \/ i < h  BY <3>1, <4>1
      <4>3. QED BY <4>2 DEF h
    <3>5. QED BY <3>2, <3>3, <3>4
  <2>3. QED BY <2>1, <2>2 DEF Channel
<1>6. ASSUME NEW i \in Index, Get(new.received[c], i) # None
      PROVE  Get(R.received[c], i) # None \/ i \in Arrived(new, more, line, c)
  <2>1. CASE c = "reliable"
    <3>1. Get(R.received[c], i) # None \/ line[c][i + 1] \in more
      BY <1>2, <1>3, <1>4, <1>6, <2>1 DEF ReadsOn
    <3>2. i < Len(line[c])
      <4>1. S \in Inners /\ line \in Lines /\ InLine(S, line, c)  BY DEF Reachable
      <4>2. /\ NextId(S, c) \in Nat /\ Len(line[c]) \in Nat
            /\ NextId(S, c) <= Len(line[c]) /\ i \in Nat
        BY <4>1, IdsInLine, Numbers
      <4>3. i < NextId(S, c)  BY <1>2, <1>3, <1>6 DEF ReadsOn, HoldsLine
      <4> DEFINE m == NextId(S, c)
                 n == Len(line[c])
      <4> HIDE DEF m, n
      <4>4. m \in Nat /\ n \in Nat /\ m <= n /\ i < m  BY <4>2, <4>3 DEF m, n
      <4>5. i < n  BY <4>2, <4>4
      <4>6. QED BY <4>5 DEF n
    <3>3. QED BY <2>1, <3>1, <3>2 DEF Arrived
  <2>2. CASE c = "ordered"  BY <1>6, <2>2 DEF Arrived
  <2>3. QED BY <2>1, <2>2 DEF Channel
<1>7. ASSUME NEW d \in Channel, NEW i \in Keys(new.sendPackets[d])
      PROVE  /\ i \in Keys(R.sendPackets[d])
             /\ Get(new.sendPackets[d], i).ack = Get(R.sendPackets[d], i).ack
  <2>1. CASE inner = R  BY <1>3, <1>7, <2>1
  <2>2. CASE \E p \in P : inner = ReadPacket(R, p)
    <3>1. PICK p \in P : inner = ReadPacket(R, p)  BY <2>2
    <3>2. p \in Packets  BY <1>3
    <3>3. FewerInFlightOn(R, inner, d)  BY <1>3, <3>1, <3>2, AcksInFlight
    <3>4. QED BY <1>3, <1>7, <3>3 DEF FewerInFlightOn
  <2>3. QED BY <2>1, <2>2 DEF Works
<1>8. \A i \in 0 .. NextId(S, c) - 1 :
         \/ i \in Keys(S.sendPackets[c])
         \/ i \in 0 .. NextId(S, c) - 1 /\ i \notin Keys(S.sendPackets[c])
  OBVIOUS
<1>9. QED BY <1>5, <1>6, <1>7, <1>8, StaysSettled

-----------------------------------------------------------------------------
(* The two directions, when one side sends.                                *)

\* inner.rs:80-113: the rings while send is running.
FlushesOn(S, due, c) ==
    LET ring == S.sendPackets[c]
        f    == FlushedRings(S)[c]
        rest == AfterSend(S, due).sendPackets[c]
    IN  /\ f \in Rings(Pending)
        /\ rest = Resent(f, SentNow(S, due)[c])
        /\ SentNow(S, due)[c] \subseteq Keys(f)
        /\ Keys(ring) \subseteq Keys(f)
        /\ \A i \in Keys(f) :
              Get(f, i).ack = PacketAck(S) \/ (i \in Keys(ring) /\ Get(f, i) = Get(ring, i))
        /\ LET k == FlushCount(ring, S.sendQueue[c])
               w == WrappingAdd(ring.newest, k)
           IN  \A i \in Index : WrappingSub(w, i) < k => i \in Keys(f)

LEMMA FlushesRings ==
    ASSUME NEW S \in Inners, NEW due, NEW c \in Channel
    PROVE  FlushesOn(S, due, c)
<1> DEFINE queue == S.sendQueue[c]
           ring  == S.sendPackets[c]
           ack   == PacketAck(S)
           k     == FlushCount(ring, queue)
           f     == FlushedRings(S)[c]
           sent  == SentNow(S, due)[c]
           rest  == AfterSend(S, due).sendPackets[c]
           w     == ring.newest
<1>1. /\ queue \in Seq(Messages) /\ Len(queue) \in Nat
      /\ ring \in Rings(Pending) /\ Keys(ring) = {i \in Index : Get(ring, i) # None}
      /\ ack \in Acks
  BY Parts, PacketAckType
<1>2. f = Flushed(ring, queue, k, ack)  BY DEF FlushedRings
<1>3. rest = Resent(f, sent)  BY DEF AfterSend, Inners
<1>4. sent \subseteq Keys(f)  BY DEF SentNow
<1>5. w \in Index  BY NextIdIs
<1> HIDE DEF queue, ring, ack, f, sent, rest
<1>6. /\ k \in 0 .. NumItems /\ k \in Nat /\ k <= Len(queue)
      /\ \A j \in 1 .. k : FreeSlot(ring, j)
      /\ f \in Rings(Pending)
      /\ \A i \in Keys(ring) : i \in Keys(f) /\ Get(f, i) = Get(ring, i)
  <2>1. ring \in Rings(PendingPackets(Messages, Acks))  BY <1>1 DEF Pending
  <2>2. QED BY <1>1, <1>2, <2>1, FlushingType DEF Pending
<1>7. \A i \in Index :
         LET d == WrappingSub(WrappingAdd(w, k), i)
         IN  Get(f, i) = IF d < k
                         THEN [message |-> queue[k - d], ack |-> ack, retries |-> MaxRetries]
                         ELSE Get(ring, i)
  BY <1>1, <1>2, <1>6, GetAfterFlush
<1>8. f.newest = WrappingAdd(w, k)
  <2>1. 0 \in Index  BY Numbers
  <2>2. QED BY <1>1, <1>2, <1>6, <2>1, GetAfterFlush
<1>9. rest.newest = f.newest
  <2>1. f \in Rings(PendingPackets(Messages, Acks))  BY <1>6 DEF Pending
  <2>2. 0 \in Index  BY Numbers
  <2>3. QED BY <1>3, <2>1, <2>2, GetAfterResend
<1> HIDE DEF k, w
<1>10. Keys(f) = {i \in Index : Get(f, i) # None}  BY <1>6, KeysAreFound
<1>11. ASSUME NEW i \in Keys(f)
       PROVE  Get(f, i).ack = ack \/ (i \in Keys(ring) /\ Get(f, i) = Get(ring, i))
  <2> DEFINE d == WrappingSub(WrappingAdd(w, k), i)
  <2>1. i \in Index /\ Get(f, i) # None  BY <1>10
  <2>2. CASE d < k  BY <1>7, <2>1, <2>2
  <2>3. CASE ~ (d < k)
    <3>1. Get(f, i) = Get(ring, i)  BY <1>7, <2>1, <2>3
    <3>2. QED BY <1>1, <2>1, <3>1
  <2>4. QED BY <2>2, <2>3
<1>12. ASSUME NEW i \in Index, WrappingSub(WrappingAdd(w, k), i) < k PROVE i \in Keys(f)
  <2> DEFINE d == WrappingSub(WrappingAdd(w, k), i)
  <2>1. d < k /\ d \in Nat
    BY <1>5, <1>6, <1>12, Numbers DEF WrappingAdd, WrappingSub
  <2>2. Get(f, i) = [message |-> queue[k - d], ack |-> ack, retries |-> MaxRetries]
    BY <1>7, <2>1
  <2> HIDE DEF d
  <2>3. k - d \in 1 .. Len(queue)  BY <1>1, <1>6, <2>1
  <2>4. queue[k - d] \in Messages  BY <1>1, <2>3
  <2>5. Get(f, i) \in Pending
    BY <1>1, <2>2, <2>4, RetryAssumption DEF Pending, PendingPackets
  <2>6. Get(f, i) # None  BY <2>5, NoneAssumption
  <2>7. QED BY <1>10, <2>6
<1>13. Keys(ring) \subseteq Keys(f)  BY <1>6
<1>14. QED
  BY <1>3, <1>4, <1>6, <1>8, <1>9, <1>11, <1>12, <1>13
  DEF FlushesOn, queue, ring, ack, f, sent, rest, k, w

LEMMA PacksNext ==
    ASSUME NEW S \in Inners, NEW due, NEW line \in Lines, NEW c \in Channel,
           InLine(S, line, c), Len(line[c]) < U16 - NumItems
    PROVE  \A i \in 0 .. NextId(AfterSend(S, due), c) - 1 :
              i \in Keys(FlushedRings(S)[c]) \/ i \in 0 .. NextId(S, c) - 1
<1> DEFINE queue == S.sendQueue[c]
           k     == FlushCount(S.sendPackets[c], queue)
           w     == S.sendPackets[c].newest
           n     == NextId(S, c)
           m     == NextId(AfterSend(S, due), c)
<1>1. /\ w \in Index /\ n \in Nat /\ n = IF w = U16 - 1 THEN 0 ELSE w + 1
      /\ n + Len(queue) < U16 - NumItems /\ Len(queue) \in Nat
  <2>1. w \in Index /\ n \in Nat /\ n = IF w = U16 - 1 THEN 0 ELSE w + 1  BY NextIdIs
  <2>2. Len(line[c]) = n + Len(queue)  BY DEF InLine
  <2>3. QED BY <2>1, <2>2, Parts
<1>2. m = n + k /\ k \in Nat /\ k <= Len(queue)
  <2>1. WrappingAdd(w, 1) <= n  BY <1>1 DEF NextId
  <2>2. SendsOn(S, due, c)  BY <1>1, <2>1, SendsNext
  <2>3. QED BY <2>2 DEF SendsOn, NextId
<1>3. \A i \in Index : WrappingSub(WrappingAdd(w, k), i) < k => i \in Keys(FlushedRings(S)[c])
  BY FlushesRings DEF FlushesOn
<1> HIDE DEF k, w, n, m
<1>4. ASSUME NEW i \in 0 .. m - 1, i \notin 0 .. n - 1
      PROVE  i \in Index /\ WrappingSub(WrappingAdd(w, k), i) < k
  <2> DEFINE l == Len(queue)
  <2>1. l \in Nat /\ n + l < U16 - NumItems /\ k <= l  BY <1>1, <1>2
  <2> HIDE DEF l
  <2>2. n \in Nat /\ k \in Nat /\ m = n + k  BY <1>1, <1>2
  <2>3. U16 \in Nat /\ NumItems \in Nat  BY Numbers
  <2>4. i \in Nat /\ n <= i /\ i < n + k  BY ONLY <1>4, <2>2
  <2>5. n + k < U16  BY ONLY <2>1, <2>2, <2>3
  <2>6. i \in Index  BY <2>2, <2>3, <2>4, <2>5, Numbers
  <2>7. WrappingSub(WrappingAdd(w, k), i) < k
    BY <1>1, <2>2, <2>4, <2>5, Numbers DEF WrappingAdd, WrappingSub
  <2>8. QED BY <2>6, <2>7
<1>5. QED BY <1>3, <1>4 DEF m, n

\* inner.rs:80-113: as long as retries do not run out nothing in flight is given up.
LEMMA SendKeeps ==
    ASSUME ~ GivesUp, NEW S \in Inners, NEW due, NEW line \in Lines, NEW c \in Channel,
           InLine(S, line, c), Len(line[c]) < U16 - NumItems
    PROVE  \A i \in 0 .. NextId(AfterSend(S, due), c) - 1 :
              \/ i \in Keys(AfterSend(S, due).sendPackets[c])
              \/ i \in 0 .. NextId(S, c) - 1 /\ i \notin Keys(S.sendPackets[c])
<1> DEFINE f == FlushedRings(S)[c]
           sent == SentNow(S, due)[c]
           rest == AfterSend(S, due).sendPackets[c]
           new == AfterSend(S, due)
<1>1. /\ f \in Rings(Pending) /\ rest = Resent(f, sent)
      /\ Keys(S.sendPackets[c]) \subseteq Keys(f)
      /\ \A i \in 0 .. NextId(new, c) - 1 : i \in Keys(f) \/ i \in 0 .. NextId(S, c) - 1
  BY FlushesRings, PacksNext DEF FlushesOn
<1>2. new \in Inners  BY SendTypes
<1>3. Keys(rest) = {i \in Index : Get(rest, i) # None}  BY <1>2, Parts
<1> HIDE DEF f, sent, rest, new
<1>4. Keys(f) = {i \in Index : Get(f, i) # None}  BY <1>1, KeysAreFound
<1>5. \A i \in Keys(f) : i \in Keys(rest)
  <2>1. f \in Rings(PendingPackets(Messages, Acks))  BY <1>1 DEF Pending
  <2>2. \A i \in Keys(f) : Get(rest, i) # None  BY <1>1, <2>1, KeptAfterResend
  <2>3. QED BY <1>3, <1>4, <2>2
<1>6. QED BY <1>1, <1>5 DEF rest, new

\* packet_ack: the acknowledgement of what a communicator holds.
LEMMA AckNames ==
    ASSUME NEW R \in Inners, NEW c \in Channel
    PROVE  \A i \in Names(PacketAck(R), c) : i \in Index /\ Get(R.received[c], i) # None
<1> DEFINE ring == R.received[c]
           w == ring.newest
<1>1. ring \in Rings(Contents)  BY Parts
<1>2. w \in Index /\ Keys(ring) = {i \in Index : Get(ring, i) # None}
  BY <1>1, KeysAreFound DEF Rings
<1>3. /\ PacketAck(R)[c].newest = w
      /\ PacketAck(R)[c].bits = {WrappingSub(w, i) : i \in Keys(ring)}
  BY DEF PacketAck
<1> HIDE DEF ring, w
<1>4. ASSUME NEW i \in Index PROVE WrappingSub(w, WrappingSub(w, i)) = i
  BY <1>2, Numbers DEF WrappingSub
<1>5. ASSUME NEW i \in Names(PacketAck(R), c) PROVE i \in Keys(ring)
  <2>1. PICK b \in {WrappingSub(w, j) : j \in Keys(ring)} : i = WrappingSub(w, b)
    BY <1>3, <1>5 DEF Names
  <2>2. PICK j \in Keys(ring) : b = WrappingSub(w, j)  BY <2>1
  <2>3. i = j  BY <1>2, <1>4, <2>1, <2>2
  <2>4. QED BY <2>2, <2>3
<1>6. QED BY <1>2, <1>5 DEF ring

\* send.rs: an acknowledgement that goes out is what the communicator holds, or was
\* kept with a packet that is sent again.
OldAck(R, ack) ==
    \E d \in Channel : \E i \in Keys(R.sendPackets[d]) : ack = Get(R.sendPackets[d], i).ack

LEMMA OutgoingAcks ==
    ASSUME NEW R \in Inners, NEW due
    PROVE  \A p \in Outgoing(R, due) : p.ack = PacketAck(R) \/ OldAck(R, p.ack)
<1> DEFINE ring(c) == FlushedRings(R)[c]
           sent(c) == SentNow(R, due)[c]
           packet(c, i) == [channel |-> c, sequenceId |-> i,
                            content |-> <<Get(FlushedRings(R)[c], i).message>>,
                            ack |-> Get(FlushedRings(R)[c], i).ack]
           heartbeat == [channel |-> "unreliable", content |-> << >>, ack |-> PacketAck(R)]
           data == UNION {{packet(c, i) : i \in sent(c)} : c \in Channel}
<1>1. Outgoing(R, due) = data \cup (IF HeartbeatDue(R) THEN {heartbeat} ELSE {})
  BY DEF Outgoing
<1>2. heartbeat.ack = PacketAck(R)  OBVIOUS
<1>3. \A c, i : packet(c, i).ack = Get(ring(c), i).ack  OBVIOUS
<1>4. ASSUME NEW c \in Channel, NEW i \in sent(c)
      PROVE  Get(ring(c), i).ack = PacketAck(R) \/ OldAck(R, Get(ring(c), i).ack)
  <2>1. FlushesOn(R, due, c)  BY FlushesRings
  <2>2. i \in Keys(ring(c))  BY <2>1 DEF FlushesOn
  <2>3. \/ Get(ring(c), i).ack = PacketAck(R)
        \/ i \in Keys(R.sendPackets[c]) /\ Get(ring(c), i) = Get(R.sendPackets[c], i)
    BY <2>1, <2>2 DEF FlushesOn
  <2>4. QED BY <2>3 DEF OldAck
<1> HIDE DEF sent, heartbeat, packet, ring
<1>5. \A p \in data : \E c \in Channel : \E i \in sent(c) : p = packet(c, i)
  OBVIOUS
<1> HIDE DEF data
<1>6. ASSUME NEW p \in data PROVE p.ack = PacketAck(R) \/ OldAck(R, p.ack)
  <2>1. PICK c \in Channel : \E i \in sent(c) : p = packet(c, i)  BY <1>5
  <2>2. PICK i \in sent(c) : p = packet(c, i)  BY <2>1
  <2>3. QED BY <1>3, <1>4, <2>2
<1>7. QED BY <1>1, <1>2, <1>6

LEMMA KeptAcks ==
    ASSUME NEW R \in Inners, NEW due, NEW d \in Channel
    PROVE  \A i \in Keys(AfterSend(R, due).sendPackets[d]) :
              LET ack == Get(AfterSend(R, due).sendPackets[d], i).ack
              IN  ack = PacketAck(R) \/ OldAck(R, ack)
<1> DEFINE f == FlushedRings(R)[d]
           sent == SentNow(R, due)[d]
           rest == AfterSend(R, due).sendPackets[d]
<1>1. f \in Rings(Pending) /\ rest = Resent(f, sent)
  BY FlushesRings DEF FlushesOn
<1>2. AfterSend(R, due) \in Inners  BY SendTypes
<1>3. Keys(rest) = {i \in Index : Get(rest, i) # None}  BY <1>2, Parts
<1>4. \A i \in Keys(f) :
         \/ Get(f, i).ack = PacketAck(R)
         \/ i \in Keys(R.sendPackets[d]) /\ Get(f, i) = Get(R.sendPackets[d], i)
  BY FlushesRings DEF FlushesOn
<1> HIDE DEF f, sent, rest
<1>5. Keys(f) = {i \in Index : Get(f, i) # None}  BY <1>1, KeysAreFound
<1>6. ASSUME NEW i \in Keys(rest)
      PROVE  Get(rest, i).ack = PacketAck(R) \/ OldAck(R, Get(rest, i).ack)
  <2>1. f \in Rings(PendingPackets(Messages, Acks))  BY <1>1 DEF Pending
  <2>2. i \in Index /\ Get(rest, i) # None  BY <1>3
  <2>3. Get(f, i) # None /\ Get(rest, i).ack = Get(f, i).ack
    BY <1>1, <2>1, <2>2, GetAfterResend
  <2>4. i \in Keys(f)  BY <1>5, <2>2, <2>3
  <2>5. QED BY <1>4, <2>3, <2>4 DEF OldAck
<1>7. QED BY <1>6 DEF rest

\* A sender that sends.
LEMMA SettledPacks ==
    ASSUME ~ GivesUp, NEW S \in Inners, NEW due, NEW line \in Lines, NEW c \in Channel,
           InLine(S, line, c), Len(line[c]) < U16 - NumItems,
           NEW R, NEW Q, NEW had, Settled(S, R, Q, had, line, c)
    PROVE  Settled(AfterSend(S, due), R, Q, had, line, c)
<1> DEFINE new == AfterSend(S, due)
<1>1. \A i \in 0 .. NextId(new, c) - 1 :
         \/ i \in Keys(new.sendPackets[c])
         \/ i \in 0 .. NextId(S, c) - 1 /\ i \notin Keys(S.sendPackets[c])
  BY SendKeeps
<1> HIDE DEF new
<1>2. Settled(new, R, Q, had, line, c)  BY <1>1, StaysSettled
<1>3. QED BY <1>2 DEF new

\* A receiver that sends.
LEMMA SettledAnswers ==
    ASSUME NEW R \in Inners, NEW due, NEW S, NEW Q, NEW had, NEW line,
           NEW c \in Channel, Settled(S, R, Q, had, line, c)
    PROVE  Settled(S, AfterSend(R, due), Q \cup Outgoing(R, due), had, line, c)
<1> DEFINE new == AfterSend(R, due)
           more == Q \cup Outgoing(R, due)
           there == Arrived(R, had, line, c)
<1>1. new.received = R.received /\ new.head = R.head
  BY SendReadsNothing DEF SameAsRead
<1>2. Arrived(new, had, line, c) = there  BY <1>1 DEF Arrived
<1>3. Names(PacketAck(R), c) \subseteq there
  <2>1. \A i \in Index : Get(R.received[c], i) # None => i \in there  BY DEF Settled
  <2>2. QED BY <2>1, AckNames
<1>4. \A ack : OldAck(R, ack) => Names(ack, c) \subseteq there
  BY DEF OldAck, Settled
<1>5. \A p \in more : p \in Q \/ Names(p.ack, c) \subseteq there
  BY <1>3, <1>4, OutgoingAcks
<1>6. \A d \in Channel : \A i \in Keys(new.sendPackets[d]) :
         Names(Get(new.sendPackets[d], i).ack, c) \subseteq there
  BY <1>3, <1>4, KeptAcks
<1>7. \A i \in 0 .. NextId(S, c) - 1 :
         \/ i \in Keys(S.sendPackets[c])
         \/ i \in 0 .. NextId(S, c) - 1 /\ i \notin Keys(S.sendPackets[c])
  OBVIOUS
<1>8. \A i \in Index : Get(new.received[c], i) # None => Get(R.received[c], i) # None
  BY <1>1
<1> HIDE DEF new, more, there
<1>9. Settled(S, new, more, had, line, c)
  BY <1>2, <1>5, <1>6, <1>7, <1>8, StaysSettled DEF there
<1>10. QED BY <1>9 DEF new, more

\* What Settled does not look at may change.
LEMMA SettledSame ==
    ASSUME NEW S, NEW R, NEW Q, NEW had, NEW line, NEW c \in Channel,
           Settled(S, R, Q, had, line, c),
           NEW new, new.received = R.received, new.head = R.head,
           new.sendPackets = R.sendPackets,
           NEW other, other.sendPackets = S.sendPackets,
           NEW more, had \subseteq more
    PROVE  Settled(other, new, Q, more, line, c)
<1>1. NextId(other, c) = NextId(S, c)  BY DEF NextId
<1>2. Arrived(R, had, line, c) \subseteq Arrived(new, more, line, c)  BY DEF Arrived
<1>3. QED BY <1>1, <1>2, StaysSettled

-----------------------------------------------------------------------------
(* A communicator that starts, or is forgotten.                            *)

\* inner.rs:34-54
LEMMA NewHoldsNothing ==
    ASSUME NEW c \in Channel
    PROVE  /\ NewInner.received[c].newest = LastIndex
           /\ \A i \in Index : Get(NewInner.received[c], i) = None
           /\ Keys(NewInner.sendPackets[c]) = {}
           /\ NewInner.sendQueue[c] = << >>
           /\ NewInner.head = 0
           /\ NewInner.unordered = << >> /\ NewInner.ordered = << >>
           /\ NextId(NewInner, c) = 0
<1>1. /\ NewInner.received[c] = NewRing /\ NewInner.sendPackets[c] = NewRing
      /\ NewInner.sendQueue[c] = << >> /\ NewInner.head = 0
      /\ NewInner.unordered = << >> /\ NewInner.ordered = << >>
  BY DEF NewInner
<1>2. \A i \in Index : Get(NewRing, i) = None
  BY SlotType DEF Get, NewRing
<1>3. NewInner \in Inners  BY NewInnerType
<1>4. Keys(NewInner.sendPackets[c]) = {}
  <2>1. Keys(NewInner.sendPackets[c]) = {i \in Index : Get(NewInner.sendPackets[c], i) # None}
    BY ONLY <1>3, Parts, c \in Channel
  <2>2. QED BY <1>1, <1>2, <2>1
<1>5. NewRing.newest = LastIndex /\ LastIndex = U16 - 1  BY Numbers DEF NewRing
<1>6. NextId(NewInner, c) = 0
  <2>1. NewInner.sendPackets[c].newest = U16 - 1  BY <1>1, <1>5
  <2>2. QED BY <1>3, <2>1, NextIdIs
<1>7. QED BY <1>1, <1>2, <1>4, <1>5, <1>6

\* A receiver of the reliable channel that starts again has all that it had.
LEMMA DirectionForgets ==
    ASSUME NEW S, NEW R, NEW P, NEW had, NEW line, Direction(S, R, P, had, line, "reliable"),
           NEW more
    PROVE  Direction(S, NewInner, P, more, line, "reliable")
<1>1. "reliable" \in Channel  BY DEF Channel
<1>2. HoldsLine(S, NewInner, line, "reliable")  BY <1>1, NewHoldsNothing DEF HoldsLine
<1>3. QED BY <1>2 DEF Direction

LEMMA SettledForgets ==
    ASSUME NEW S, NEW R, NEW Q, NEW had, NEW line, Settled(S, R, Q, had, line, "reliable"),
           NEW more, had \subseteq more
    PROVE  Settled(S, NewInner, Q, more, line, "reliable")
<1> DEFINE c == "reliable"
<1>1. c \in Channel  BY DEF Channel
<1>2. Arrived(R, had, line, c) \subseteq Arrived(NewInner, more, line, c)  BY DEF Arrived
<1>3. \A i \in Index : ~ (Get(NewInner.received[c], i) # None)  BY <1>1, NewHoldsNothing
<1>4. \A d \in Channel : \A i \in Keys(NewInner.sendPackets[d]) : FALSE
  BY NewHoldsNothing
<1>5. \A i \in 0 .. NextId(S, c) - 1 :
         \/ i \in Keys(S.sendPackets[c])
         \/ i \in 0 .. NextId(S, c) - 1 /\ i \notin Keys(S.sendPackets[c])
  OBVIOUS
<1>6. QED BY <1>1, <1>2, <1>3, <1>4, <1>5, StaysSettled

\* Two communicators that know nothing of each other.
LEMMA NewDirection ==
    ASSUME NEW P, NEW Q, P = {}, Q = {}, NEW had, NEW line, NEW c \in Channel, line[c] = << >>,
           line["ordered"] = << >>
    PROVE  /\ Direction(NewInner, NewInner, P, had, line, c)
           /\ Settled(NewInner, NewInner, Q, had, line, c)
<1>1. InLine(NewInner, line, c)
  BY NewHoldsNothing DEF InLine
<1>2. PacketsInLine(NewInner, P, line, c)  BY DEF PacketsInLine
<1>3. HoldsLine(NewInner, NewInner, line, c)  BY NewHoldsNothing DEF HoldsLine
<1>4. HandedOn(NewInner, had, line)
  <2>1. "ordered" \in Channel /\ 0 \in Index  BY Numbers DEF Channel
  <2>2. NewInner.head = 0 /\ Get(NewInner.received["ordered"], 0) = None
    BY <2>1, NewHoldsNothing
  <2>3. Len(<< >>) = 0 /\ 1 .. 0 = {}  OBVIOUS
  <2>4. QED BY <2>2, <2>3 DEF HandedOn
<1>5. Settled(NewInner, NewInner, Q, had, line, c)
  <2>1. 0 .. NextId(NewInner, c) - 1 = {}  BY NewHoldsNothing
  <2>2. \A i \in Index : Get(NewInner.received[c], i) = None  BY NewHoldsNothing
  <2>3. \A d \in Channel : Keys(NewInner.sendPackets[d]) = {}  BY NewHoldsNothing
  <2>4. QED BY <2>1, <2>2, <2>3 DEF Settled
<1>6. QED BY <1>1, <1>2, <1>3, <1>4, <1>5 DEF Direction

-----------------------------------------------------------------------------
(* What the steps of Multi are to one client and its connection.           *)

Empty(inner) == inner.unordered = << >> /\ inner.ordered = << >>

\* What is as it was, for a: all that its directions speak of but the two
\* communicators, their lines, the packets, and what was had.
Lasts(a) ==
    /\ scenario' = scenario
    /\ removals'[a] = removals[a]
    /\ restarts'[a] = restarts[a]

\* Line by line.
Adds(line, more, ext) == \A c \in Channel : more[c] = line[c] \o ext[c]

SameClientSide(a) ==
    /\ client'[a] = client[a]
    /\ SentBy(a)' = SentBy(a)
    /\ Written(a)' = Written(a)
    /\ heard'[a] = heard[a]
    /\ heardOrdered'[a] = heardOrdered[a]

SameServerSide(a) ==
    /\ Entry(a)' = Entry(a)
    /\ SentTo(a)' = SentTo(a)
    /\ owed'[a] = owed[a]
    /\ ServerHad(a) \subseteq ServerHad(a)'

\* The connection reads or is written to, or nothing happens.
ConnectionWorks(a) ==
    /\ Lasts(a) /\ SameClientSide(a) /\ SentTo(a)' = SentTo(a)
    /\ \E inner, ext :
          /\ Works(Entry(a), Entry(a)', inner, SentBy(a), ext)
          /\ Hears(ServerHad(a), inner, ServerHad(a)')
          /\ Adds(owed[a], owed'[a], ext)
    /\ scenario.callback # "none" => (Empty(Entry(a)) => Empty(Entry(a)'))

ConnectionSends(a) ==
    /\ Lasts(a) /\ SameClientSide(a) /\ owed'[a] = owed[a]
    /\ ServerHad(a) \subseteq ServerHad(a)'
    /\ \E due :
          /\ Entry(a)' = AfterSend(Entry(a), due)
          /\ SentTo(a)' = SentTo(a) \cup Outgoing(Entry(a), due)

\* A bag and what is put into it.
Copies(bag, m) == IF BagIn(m, bag) THEN bag[m] ELSE 0

Where(s, m) == {k \in DOMAIN s : s[k] = m}

PutsIn(bag, s, more) ==
    /\ BagToSet(more) = BagToSet(bag) \cup Range(s)
    /\ \A m \in BagToSet(more) : more[m] = Copies(bag, m) + Cardinality(Where(s, m))

ClientWorks(a) ==
    /\ Lasts(a) /\ SameServerSide(a) /\ SentBy(a)' = SentBy(a)
    /\ \E inner, ext :
          /\ Works(client[a], client'[a], inner, SentTo(a), ext)
          /\ Hears(ClientHad(a), inner, ClientHad(a)')
          /\ Adds(Written(a), Written(a)', ext)
          /\ PutsIn(heard[a], inner.unordered, heard'[a])
          /\ ClientHad(a)' = ClientHad(a) \cup Range(inner.unordered) \cup Range(inner.ordered)
          /\ heardOrdered'[a] = heardOrdered[a] \o inner.ordered
    /\ Empty(client'[a])

ClientSends(a) ==
    /\ Lasts(a) /\ SameServerSide(a)
    /\ Written(a)' = Written(a) /\ heard'[a] = heard[a] /\ heardOrdered'[a] = heardOrdered[a]
    /\ \E due :
          /\ client'[a] = AfterSend(client[a], due)
          /\ SentBy(a)' = SentBy(a) \cup Outgoing(client[a], due)

ClientForgets(a) ==
    /\ SameServerSide(a) /\ SentBy(a)' = SentBy(a)
    /\ scenario' = scenario
    /\ heard'[a] = heard[a] /\ heardOrdered'[a] = heardOrdered[a]
    /\ client'[a] = NewInner
    /\ removals'[a] = removals[a] /\ restarts'[a] = restarts[a] + 1

ConnectionForgets(a) ==
    /\ SameClientSide(a) /\ SentTo(a)' = SentTo(a)
    /\ scenario' = scenario
    /\ Entry(a)' = NewInner
    /\ log' = log
    /\ removals'[a] = removals[a] + 1 /\ restarts'[a] = restarts[a]

StepFor(a) ==
    \/ ConnectionWorks(a)
    \/ ConnectionSends(a)
    \/ ClientWorks(a)
    \/ ClientSends(a)
    \/ ClientForgets(a)
    \/ ConnectionForgets(a)

\* What a client wrote, as lines.
LEMMA WrittenLines ==
    ASSUME NEW a \in Client, NEW w \in [Channel -> Nat], NEW lines,
           lines = [c \in Channel |->
                       [k \in 1 .. w[c] |-> [from |-> a, channel |-> c, number |-> k - 1]]]
    PROVE  lines \in Lines /\ \A c \in Channel : Len(lines[c]) = w[c]
<1>1. ASSUME NEW c \in Channel PROVE lines[c] \in Seq(Messages) /\ Len(lines[c]) = w[c]
  <2> DEFINE n == w[c]
             m == [k \in 1 .. n |-> [from |-> a, channel |-> c, number |-> k - 1]]
  <2>1. n \in Nat /\ lines[c] = m  OBVIOUS
  <2> HIDE DEF n
  <2>2. \A k \in 1 .. n : [from |-> a, channel |-> c, number |-> k - 1] \in Messages
    BY <2>1 DEF Messages
  <2>3. m \in Seq(Messages) /\ Len(m) = n  BY <2>1, <2>2
  <2>4. QED BY <2>1, <2>3 DEF n
<1>2. lines \in Lines
  <2>1. lines = [c \in Channel |-> lines[c]]  OBVIOUS
  <2>2. QED BY <1>1, <2>1 DEF Lines
<1>3. QED BY <1>1, <1>2

\* What TypeOK says of one client.
LEMMA SidesTyped ==
    ASSUME TypeOK, NEW a \in Client
    PROVE  /\ Entry(a) \in Inners /\ client[a] \in Inners
           /\ SentBy(a) \subseteq Packets /\ SentTo(a) \subseteq Packets
           /\ owed[a] \in Lines
           /\ Written(a) \in Lines
           /\ \A c \in Channel : /\ written[a][c] \in Nat
                                 /\ Len(Written(a)[c]) = written[a][c]
           /\ removals[a] \in Nat /\ restarts[a] \in Nat
<1>1. Entry(a) \in Inners  BY EntryType
<1>2. client[a] \in Inners /\ owed[a] \in Lines /\ removals[a] \in Nat /\ restarts[a] \in Nat
  BY DEF TypeOK
<1>3. SentBy(a) \subseteq Packets /\ SentTo(a) \subseteq Packets
  <2>1. \A d \in net : d.packet \in Packets  BY DEF TypeOK
  <2>2. QED BY <2>1 DEF SentBy, SentTo
<1>4. Written(a) \in Lines /\ \A c \in Channel : Len(Written(a)[c]) = written[a][c]
  <2>1. written[a] \in [Channel -> Nat]  BY DEF TypeOK
  <2>2. QED BY <2>1, WrittenLines DEF Written
<1>5. \A c \in Channel : written[a][c] \in Nat  BY DEF TypeOK
<1>6. QED BY <1>1, <1>2, <1>3, <1>4, <1>5

LEMMA SidesTypedNext ==
    ASSUME TypeOK', NEW a \in Client
    PROVE  /\ Entry(a)' \in Inners /\ client'[a] \in Inners
           /\ owed'[a] \in Lines /\ Written(a)' \in Lines
<1>1. client'[a] \in Inners /\ owed'[a] \in Lines  BY DEF TypeOK
<1>2. coms' \in [DOMAIN coms' -> Inners]  BY DEF TypeOK
<1>3. Entry(a)' = IF a \in DOMAIN coms' THEN coms'[a] ELSE NewInner  BY DEF Entry
<1>4. Written(a)' \in Lines
  <2>1. written'[a] \in [Channel -> Nat]  BY DEF TypeOK
  <2>2. QED BY <2>1, WrittenLines DEF Written
<1>5. QED BY <1>1, <1>2, <1>3, <1>4, NewInnerType

\* Connections that were removed and clients that restarted stay so.
LEMMA ForgottenForEver ==
    ASSUME TypeOK, NEW a \in Client, StepFor(a)
    PROVE  /\ scenario' = scenario
           /\ removals'[a] = 0 => removals[a] = 0 /\ ~ ConnectionForgets(a)
           /\ restarts'[a] = 0 => restarts[a] = 0 /\ ~ ClientForgets(a)
<1>1. removals[a] \in Nat /\ restarts[a] \in Nat  BY SidesTyped
<1>2. CASE Lasts(a)
  <2>1. ~ ConnectionForgets(a) /\ ~ ClientForgets(a)
    BY <1>1, <1>2 DEF Lasts, ConnectionForgets, ClientForgets
  <2>2. QED BY <1>2, <2>1 DEF Lasts
<1>3. CASE ClientForgets(a)  BY <1>1, <1>3 DEF ClientForgets, ConnectionForgets
<1>4. CASE ConnectionForgets(a)  BY <1>1, <1>4 DEF ClientForgets, ConnectionForgets
<1>5. Lasts(a) \/ ClientForgets(a) \/ ConnectionForgets(a)
  BY DEF StepFor, ConnectionWorks, ConnectionSends, ClientWorks, ClientSends
<1>6. QED BY <1>2, <1>3, <1>4, <1>5

\* The server's lines.
OwedBounded(a) == \A c \in Channel : Len(owed[a][c]) < U16 - NumItems

\* What a sender needs to be one end of a direction.
LEMMA ReachableDirection ==
    ASSUME NEW S \in Inners, NEW R \in Inners, NEW P, P \subseteq Packets, NEW had,
           NEW line \in Lines, NEW c \in Channel, Len(line[c]) < U16 - NumItems,
           Direction(S, R, P, had, line, c)
    PROVE  Reachable(S, R, P, line, c)
BY DEF Reachable, Direction

LEMMA DownOrderStep ==
    ASSUME TypeOK, TypeOK', NEW a \in Client, OwedBounded(a), StepFor(a),
           NEW c \in Channel, DownInOrder(a, c)
    PROVE  DownInOrder(a, c)'
<1> SUFFICES ASSUME DownLasts(a, c)'
             PROVE  Direction(Entry(a), client[a], SentTo(a), ClientHad(a), owed[a], c)'
  BY DEF DownInOrder
<1> DEFINE S == Entry(a)
           R == client[a]
           P == SentTo(a)
           Q == SentBy(a)
           had == ClientHad(a)
           line == owed[a]
           S2 == Entry(a)'
           R2 == client'[a]
           P2 == SentTo(a)'
           had2 == ClientHad(a)'
           line2 == owed'[a]
<1>1. /\ S \in Inners /\ R \in Inners /\ P \subseteq Packets /\ line \in Lines
      /\ removals[a] \in Nat /\ restarts[a] \in Nat
  BY SidesTyped
<1>2. S2 \in Inners /\ R2 \in Inners /\ line2 \in Lines
  BY SidesTypedNext
<1>3. Len(line[c]) < U16 - NumItems  BY DEF OwedBounded
<1>4. /\ removals'[a] = 0 => removals[a] = 0 /\ ~ ConnectionForgets(a)
      /\ restarts'[a] = 0 => restarts[a] = 0 /\ ~ ClientForgets(a)
  BY ForgottenForEver
<1>5. DownLasts(a, c) /\ ~ ConnectionForgets(a)
  <2>1. removals'[a] = 0 /\ (restarts'[a] = 0 \/ c = "reliable")  BY DEF DownLasts
  <2>2. QED BY <1>4, <2>1 DEF DownLasts
<1>6. Direction(S, R, P, had, line, c)  BY <1>5 DEF DownInOrder
<1>7. SUFFICES Direction(S2, R2, P2, had2, line2, c)  OBVIOUS
<1>8. Reachable(S, R, P, line, c)  BY <1>1, <1>3, <1>6, ReachableDirection
<1>9. SameClientSide(a) => R2 = R /\ had2 = had
  BY DEF SameClientSide, ClientHad
<1>10. SameServerSide(a) => S2 = S /\ P2 = P /\ line2 = line
  BY DEF SameServerSide
<1>11. CASE ConnectionWorks(a)
  <2>1. R2 = R /\ had2 = had /\ P2 = P  BY <1>9, <1>11 DEF ConnectionWorks
  <2>2. PICK inner, ext : Works(S, S2, inner, Q, ext) /\ Adds(line, line2, ext)
    BY <1>11 DEF ConnectionWorks
  <2>3. line2[c] = line[c] \o ext[c]  BY <2>2 DEF Adds
  <2> HIDE DEF S, R, P, Q, had, line, S2, R2, P2, had2, line2
  <2>4. Direction(S2, R, P, had, line2, c)
    BY <1>1, <1>2, <1>6, <2>2, <2>3, DirectionWrites
  <2>5. QED BY <2>1, <2>4
<1>12. CASE ConnectionSends(a)
  <2>1. R2 = R /\ had2 = had /\ line2 = line  BY <1>9, <1>12 DEF ConnectionSends
  <2>2. PICK due : S2 = AfterSend(S, due) /\ P2 = P \cup Outgoing(S, due)
    BY <1>12 DEF ConnectionSends
  <2> HIDE DEF S, R, P, Q, had, line, S2, R2, P2, had2, line2
  <2>3. Direction(AfterSend(S, due), R, P \cup Outgoing(S, due), had, line, c)
    BY <1>1, <1>3, <1>6, DirectionPacks
  <2>4. QED BY <2>1, <2>2, <2>3
<1>13. CASE ClientWorks(a)
  <2>1. S2 = S /\ P2 = P /\ line2 = line  BY <1>10, <1>13 DEF ClientWorks
  <2>2. PICK inner, ext : Works(R, R2, inner, P, ext) /\ Hears(had, inner, had2)
    BY <1>13 DEF ClientWorks
  <2> HIDE DEF S, R, P, Q, had, line, S2, R2, P2, had2, line2
  <2>3. Direction(S, R2, P, had2, line, c)
    BY <1>6, <1>8, <2>2, DirectionReceives
  <2>4. QED BY <2>1, <2>3
<1>14. CASE ClientSends(a)
  <2>1. S2 = S /\ P2 = P /\ line2 = line  BY <1>10, <1>14 DEF ClientSends
  <2>2. had2 = had  BY <1>14 DEF ClientSends, ClientHad
  <2>3. PICK due : R2 = AfterSend(R, due)  BY <1>14 DEF ClientSends
  <2> HIDE DEF S, R, P, Q, had, line, S2, R2, P2, had2, line2
  <2>4. R2.received = R.received /\ R2.head = R.head
    BY <1>1, <2>3, SendReadsNothing DEF SameAsRead
  <2>5. Direction(S, R2, P, had, line, c)  BY <1>6, <2>4, DirectionSame
  <2>6. QED BY <2>1, <2>2, <2>5
<1>15. CASE ClientForgets(a)
  <2>1. S2 = S /\ P2 = P /\ line2 = line  BY <1>10, <1>15 DEF ClientForgets
  <2>2. restarts'[a] # 0  BY <1>4, <1>15
  <2>3. c = "reliable"  BY <2>2 DEF DownLasts
  <2>4. R2 = NewInner  BY <1>15 DEF ClientForgets
  <2> HIDE DEF S, R, P, Q, had, line, S2, R2, P2, had2, line2
  <2>5. Direction(S, R, P, had, line, "reliable")  BY <1>6, <2>3
  <2>6. Direction(S, NewInner, P, had2, line, "reliable")  BY <2>5, DirectionForgets
  <2>7. QED BY <2>1, <2>3, <2>4, <2>6
<1>16. QED BY <1>5, <1>11, <1>12, <1>13, <1>14, <1>15 DEF StepFor

LEMMA DownSettledStep ==
    ASSUME ~ GivesUp, TypeOK, TypeOK', NEW a \in Client, OwedBounded(a), StepFor(a),
           NEW c \in Channel, DownInOrder(a, c), DownSettled(a, c)
    PROVE  DownSettled(a, c)'
<1> SUFFICES ASSUME DownLasts(a, c)'
             PROVE  Settled(Entry(a), client[a], SentBy(a), ClientHad(a), owed[a], c)'
  BY DEF DownSettled
<1> DEFINE S == Entry(a)
           R == client[a]
           P == SentTo(a)
           Q == SentBy(a)
           had == ClientHad(a)
           line == owed[a]
           S2 == Entry(a)'
           R2 == client'[a]
           P2 == SentTo(a)'
           Q2 == SentBy(a)'
           had2 == ClientHad(a)'
           line2 == owed'[a]
<1>1. /\ S \in Inners /\ R \in Inners /\ P \subseteq Packets /\ line \in Lines
  BY SidesTyped
<1>2. S2 \in Inners /\ R2 \in Inners /\ line2 \in Lines
  BY SidesTypedNext
<1>3. Len(line[c]) < U16 - NumItems  BY DEF OwedBounded
<1>4. /\ removals'[a] = 0 => removals[a] = 0 /\ ~ ConnectionForgets(a)
      /\ restarts'[a] = 0 => restarts[a] = 0 /\ ~ ClientForgets(a)
  BY ForgottenForEver
<1>5. DownLasts(a, c) /\ ~ ConnectionForgets(a)
  <2>1. removals'[a] = 0 /\ (restarts'[a] = 0 \/ c = "reliable")  BY DEF DownLasts
  <2>2. QED BY <1>4, <2>1 DEF DownLasts
<1>6. Direction(S, R, P, had, line, c)  BY <1>5 DEF DownInOrder
<1>7. Settled(S, R, Q, had, line, c)  BY <1>5 DEF DownSettled
<1>8. SUFFICES Settled(S2, R2, Q2, had2, line2, c)  OBVIOUS
<1>9. Reachable(S, R, P, line, c) /\ InLine(S, line, c)
  BY <1>1, <1>3, <1>6, ReachableDirection DEF Direction
<1>10. SameClientSide(a) => R2 = R /\ had2 = had /\ Q2 = Q
  BY DEF SameClientSide, ClientHad
<1>11. SameServerSide(a) => S2 = S /\ line2 = line
  BY DEF SameServerSide
<1>12. CASE ConnectionWorks(a)
  <2>1. R2 = R /\ had2 = had /\ Q2 = Q  BY <1>10, <1>12 DEF ConnectionWorks
  <2>2. PICK inner, ext : Works(S, S2, inner, Q, ext) /\ Adds(line, line2, ext)
    BY <1>12 DEF ConnectionWorks
  <2>3. line2[c] = line[c] \o ext[c]  BY <2>2 DEF Adds
  <2> HIDE DEF S, R, P, Q, had, line, S2, R2, P2, Q2, had2, line2
  <2>4. Settled(S2, R, Q, had, line2, c)
    BY <1>1, <1>2, <1>7, <1>9, <2>2, <2>3, SettledWrites
  <2>5. QED BY <2>1, <2>4
<1>13. CASE ConnectionSends(a)
  <2>1. R2 = R /\ had2 = had /\ line2 = line /\ Q2 = Q
    BY <1>10, <1>13 DEF ConnectionSends
  <2>2. PICK due : S2 = AfterSend(S, due)  BY <1>13 DEF ConnectionSends
  <2> HIDE DEF S, R, P, Q, had, line, S2, R2, P2, Q2, had2, line2
  <2>3. Settled(AfterSend(S, due), R, Q, had, line, c)
    BY <1>1, <1>3, <1>7, <1>9, SettledPacks
  <2>4. QED BY <2>1, <2>2, <2>3
<1>14. CASE ClientWorks(a)
  <2>1. S2 = S /\ line2 = line /\ Q2 = Q  BY <1>11, <1>14 DEF ClientWorks
  <2>2. PICK inner, ext : Works(R, R2, inner, P, ext) /\ Hears(had, inner, had2)
    BY <1>14 DEF ClientWorks
  <2> HIDE DEF S, R, P, Q, had, line, S2, R2, P2, Q2, had2, line2
  <2>3. Settled(S, R2, Q, had2, line, c)
    BY <1>6, <1>7, <1>9, <2>2, SettledReceives
  <2>4. QED BY <2>1, <2>3
<1>15. CASE ClientSends(a)
  <2>1. S2 = S /\ line2 = line  BY <1>11, <1>15 DEF ClientSends
  <2>2. had2 = had  BY <1>15 DEF ClientSends, ClientHad
  <2>3. PICK due : R2 = AfterSend(R, due) /\ Q2 = Q \cup Outgoing(R, due)
    BY <1>15 DEF ClientSends
  <2> HIDE DEF S, R, P, Q, had, line, S2, R2, P2, Q2, had2, line2
  <2>4. Settled(S, AfterSend(R, due), Q \cup Outgoing(R, due), had, line, c)
    BY <1>1, <1>7, SettledAnswers
  <2>5. QED BY <2>1, <2>2, <2>3, <2>4
<1>16. CASE ClientForgets(a)
  <2>1. S2 = S /\ line2 = line /\ Q2 = Q  BY <1>11, <1>16 DEF ClientForgets
  <2>2. had2 = had  BY <1>16 DEF ClientForgets, ClientHad
  <2>3. restarts'[a] # 0  BY <1>4, <1>16
  <2>4. c = "reliable"  BY <2>3 DEF DownLasts
  <2>5. R2 = NewInner  BY <1>16 DEF ClientForgets
  <2> HIDE DEF S, R, P, Q, had, line, S2, R2, P2, Q2, had2, line2
  <2>6. Settled(S, R, Q, had, line, "reliable")  BY <1>7, <2>4
  <2>7. Settled(S, NewInner, Q, had, line, "reliable")  BY <2>6, SettledForgets
  <2>8. QED BY <2>1, <2>2, <2>4, <2>5, <2>7
<1>17. QED BY <1>5, <1>12, <1>13, <1>14, <1>15, <1>16 DEF StepFor

\* The clients' lines.
WrittenBounded(a) == \A c \in Channel : Len(Written(a)[c]) < U16 - NumItems

LEMMA UpOrderStep ==
    ASSUME TypeOK, TypeOK', NEW a \in Client, WrittenBounded(a), NothingLeft(a), StepFor(a),
           NEW c \in Channel, UpInOrder(a, c)
    PROVE  UpInOrder(a, c)'
<1> SUFFICES ASSUME UpLasts(a, c)'
             PROVE  Direction(client[a], Entry(a), SentBy(a), ServerHad(a), Written(a), c)'
  BY DEF UpInOrder
<1> DEFINE S == client[a]
           R == Entry(a)
           P == SentBy(a)
           Q == SentTo(a)
           had == ServerHad(a)
           line == Written(a)
           S2 == client'[a]
           R2 == Entry(a)'
           P2 == SentBy(a)'
           Q2 == SentTo(a)'
           had2 == ServerHad(a)'
           line2 == Written(a)'
<1>1. /\ S \in Inners /\ R \in Inners /\ P \subseteq Packets /\ line \in Lines
  BY SidesTyped
<1>2. S2 \in Inners /\ R2 \in Inners /\ line2 \in Lines
  BY SidesTypedNext
<1>3. Len(line[c]) < U16 - NumItems  BY DEF WrittenBounded
<1>4. /\ scenario' = scenario
      /\ removals'[a] = 0 => removals[a] = 0 /\ ~ ConnectionForgets(a)
      /\ restarts'[a] = 0 => restarts[a] = 0 /\ ~ ClientForgets(a)
  BY ForgottenForEver
<1>5. UpLasts(a, c) /\ ~ ClientForgets(a)
  <2>1. /\ restarts'[a] = 0
        /\ removals'[a] = 0 \/ (c = "reliable" /\ scenario'.callback # "none")
    BY DEF UpLasts
  <2>2. QED BY <1>4, <2>1 DEF UpLasts
<1>6. Direction(S, R, P, had, line, c)  BY <1>5 DEF UpInOrder
<1>7. SUFFICES Direction(S2, R2, P2, had2, line2, c)  OBVIOUS
<1>8. Reachable(S, R, P, line, c) /\ InLine(S, line, c)
  BY <1>1, <1>3, <1>6, ReachableDirection DEF Direction
<1>9. SameClientSide(a) => S2 = S /\ line2 = line /\ P2 = P
  BY DEF SameClientSide
<1>10. SameServerSide(a) => R2 = R /\ Q2 = Q /\ had \subseteq had2
  BY DEF SameServerSide
<1>11. CASE ClientWorks(a)
  <2>1. R2 = R /\ had \subseteq had2 /\ P2 = P /\ Q2 = Q  BY <1>10, <1>11 DEF ClientWorks
  <2>2. PICK inner, ext : Works(S, S2, inner, Q, ext) /\ Adds(line, line2, ext)
    BY <1>11 DEF ClientWorks
  <2>3. line2[c] = line[c] \o ext[c]  BY <2>2 DEF Adds
  <2> HIDE DEF S, R, P, Q, had, line, S2, R2, P2, Q2, had2, line2
  <2>4. Direction(S2, R, P, had, line2, c)
    BY <1>1, <1>2, <1>6, <1>8, <2>2, <2>3, DirectionWrites
  <2>5. Direction(S2, R, P, had2, line2, c)  BY <2>4, <2>1, DirectionSame
  <2>6. QED BY <2>1, <2>5
<1>12. CASE ClientSends(a)
  <2>1. R2 = R /\ had \subseteq had2 /\ line2 = line /\ Q2 = Q
    BY <1>10, <1>12 DEF ClientSends
  <2>2. PICK due : S2 = AfterSend(S, due) /\ P2 = P \cup Outgoing(S, due)
    BY <1>12 DEF ClientSends
  <2> HIDE DEF S, R, P, Q, had, line, S2, R2, P2, Q2, had2, line2
  <2>3. Direction(AfterSend(S, due), R, P \cup Outgoing(S, due), had, line, c)
    BY <1>1, <1>3, <1>6, <1>8, DirectionPacks
  <2>4. Direction(AfterSend(S, due), R, P \cup Outgoing(S, due), had2, line, c)  BY <2>1, <2>3, DirectionSame
  <2>5. QED BY <2>1, <2>2, <2>4
<1>13. CASE ConnectionWorks(a)
  <2>1. S2 = S /\ line2 = line /\ P2 = P /\ Q2 = Q  BY <1>9, <1>13 DEF ConnectionWorks
  <2>2. PICK inner, ext : Works(R, R2, inner, P, ext) /\ Hears(had, inner, had2)
    BY <1>13 DEF ConnectionWorks
  <2> HIDE DEF S, R, P, Q, had, line, S2, R2, P2, Q2, had2, line2
  <2>3. Direction(S, R2, P, had2, line, c)
    BY <1>6, <1>8, <2>2, DirectionReceives
  <2>4. QED BY <2>1, <2>3
<1>14. CASE ConnectionSends(a)
  <2>1. S2 = S /\ line2 = line /\ P2 = P /\ had \subseteq had2
    BY <1>9, <1>14 DEF ConnectionSends
  <2>2. PICK due : R2 = AfterSend(R, due) /\ Q2 = Q \cup Outgoing(R, due)
    BY <1>14 DEF ConnectionSends
  <2> HIDE DEF S, R, P, Q, had, line, S2, R2, P2, Q2, had2, line2
  <2>3. R2.received = R.received /\ R2.head = R.head
    BY <1>1, <2>2, SendReadsNothing DEF SameAsRead
  <2>4. Direction(S, R2, P, had2, line, c)  BY <1>6, <2>1, <2>3, DirectionSame
  <2>5. QED BY <2>1, <2>4
<1>15. CASE ConnectionForgets(a)
  <2>1. S2 = S /\ line2 = line /\ P2 = P /\ Q2 = Q  BY <1>9, <1>15 DEF ConnectionForgets
  <2>2. removals'[a] # 0  BY <1>4, <1>15
  <2>3. c = "reliable" /\ scenario.callback # "none"  BY <1>4, <2>2 DEF UpLasts
  <2>4. R2 = NewInner /\ log' = log  BY <1>15 DEF ConnectionForgets
  <2>5. had \subseteq had2
    <3>1. Range(Entry(a).unordered) = {} /\ Range(Entry(a).ordered) = {}
      BY <2>3 DEF NothingLeft, Range
    <3>2. QED BY <2>4, <3>1 DEF ServerHad
  <2> HIDE DEF S, R, P, Q, had, line, S2, R2, P2, Q2, had2, line2
  <2>6. Direction(S, R, P, had, line, "reliable")  BY <1>6, <2>3
  <2>7. Direction(S, NewInner, P, had2, line, "reliable")  BY <2>6, DirectionForgets
  <2>8. QED BY <2>1, <2>3, <2>4, <2>7
<1>16. QED BY <1>5, <1>11, <1>12, <1>13, <1>14, <1>15 DEF StepFor

LEMMA UpSettledStep ==
    ASSUME ~ GivesUp, TypeOK, TypeOK', NEW a \in Client, WrittenBounded(a), NothingLeft(a), StepFor(a),
           NEW c \in Channel, UpInOrder(a, c), UpSettled(a, c)
    PROVE  UpSettled(a, c)'
<1> SUFFICES ASSUME UpLasts(a, c)'
             PROVE  Settled(client[a], Entry(a), SentTo(a), ServerHad(a), Written(a), c)'
  BY DEF UpSettled
<1> DEFINE S == client[a]
           R == Entry(a)
           P == SentBy(a)
           Q == SentTo(a)
           had == ServerHad(a)
           line == Written(a)
           S2 == client'[a]
           R2 == Entry(a)'
           P2 == SentBy(a)'
           Q2 == SentTo(a)'
           had2 == ServerHad(a)'
           line2 == Written(a)'
<1>1. /\ S \in Inners /\ R \in Inners /\ P \subseteq Packets /\ line \in Lines
  BY SidesTyped
<1>2. S2 \in Inners /\ R2 \in Inners /\ line2 \in Lines
  BY SidesTypedNext
<1>3. Len(line[c]) < U16 - NumItems  BY DEF WrittenBounded
<1>4. /\ scenario' = scenario
      /\ removals'[a] = 0 => removals[a] = 0 /\ ~ ConnectionForgets(a)
      /\ restarts'[a] = 0 => restarts[a] = 0 /\ ~ ClientForgets(a)
  BY ForgottenForEver
<1>5. UpLasts(a, c) /\ ~ ClientForgets(a)
  <2>1. /\ restarts'[a] = 0
        /\ removals'[a] = 0 \/ (c = "reliable" /\ scenario'.callback # "none")
    BY DEF UpLasts
  <2>2. QED BY <1>4, <2>1 DEF UpLasts
<1>6. Direction(S, R, P, had, line, c)  BY <1>5 DEF UpInOrder
<1>7. Settled(S, R, Q, had, line, c)  BY <1>5 DEF UpSettled
<1>8. SUFFICES Settled(S2, R2, Q2, had2, line2, c)  OBVIOUS
<1>9. Reachable(S, R, P, line, c) /\ InLine(S, line, c)
  BY <1>1, <1>3, <1>6, ReachableDirection DEF Direction
<1>10. SameClientSide(a) => S2 = S /\ line2 = line /\ P2 = P
  BY DEF SameClientSide
<1>11. SameServerSide(a) => R2 = R /\ Q2 = Q /\ had \subseteq had2
  BY DEF SameServerSide
<1>12. CASE ClientWorks(a)
  <2>1. R2 = R /\ had \subseteq had2 /\ P2 = P /\ Q2 = Q  BY <1>11, <1>12 DEF ClientWorks
  <2>2. PICK inner, ext : Works(S, S2, inner, Q, ext) /\ Adds(line, line2, ext)
    BY <1>12 DEF ClientWorks
  <2>3. line2[c] = line[c] \o ext[c]  BY <2>2 DEF Adds
  <2> HIDE DEF S, R, P, Q, had, line, S2, R2, P2, Q2, had2, line2
  <2>4. Settled(S2, R, Q, had, line2, c)
    BY <1>1, <1>2, <1>6, <1>7, <1>9, <2>2, <2>3, SettledWrites
  <2>5. Settled(S2, R, Q, had2, line2, c)  BY <2>4, <2>1, SettledSame
  <2>6. QED BY <2>1, <2>5
<1>13. CASE ClientSends(a)
  <2>1. R2 = R /\ had \subseteq had2 /\ line2 = line /\ Q2 = Q
    BY <1>11, <1>13 DEF ClientSends
  <2>2. PICK due : S2 = AfterSend(S, due) /\ P2 = P \cup Outgoing(S, due)
    BY <1>13 DEF ClientSends
  <2> HIDE DEF S, R, P, Q, had, line, S2, R2, P2, Q2, had2, line2
  <2>3. Settled(AfterSend(S, due), R, Q, had, line, c)
    BY <1>1, <1>3, <1>6, <1>7, <1>9, SettledPacks
  <2>4. Settled(AfterSend(S, due), R, Q, had2, line, c)  BY <2>1, <2>3, SettledSame
  <2>5. QED BY <2>1, <2>2, <2>4
<1>14. CASE ConnectionWorks(a)
  <2>1. S2 = S /\ line2 = line /\ P2 = P /\ Q2 = Q  BY <1>10, <1>14 DEF ConnectionWorks
  <2>2. PICK inner, ext : Works(R, R2, inner, P, ext) /\ Hears(had, inner, had2)
    BY <1>14 DEF ConnectionWorks
  <2> HIDE DEF S, R, P, Q, had, line, S2, R2, P2, Q2, had2, line2
  <2>3. Settled(S, R2, Q, had2, line, c)
    BY <1>6, <1>7, <1>9, <2>2, SettledReceives
  <2>4. QED BY <2>1, <2>3
<1>15. CASE ConnectionSends(a)
  <2>1. S2 = S /\ line2 = line /\ P2 = P /\ had \subseteq had2
    BY <1>10, <1>15 DEF ConnectionSends
  <2>2. PICK due : R2 = AfterSend(R, due) /\ Q2 = Q \cup Outgoing(R, due)
    BY <1>15 DEF ConnectionSends
  <2> HIDE DEF S, R, P, Q, had, line, S2, R2, P2, Q2, had2, line2
  <2>3. Settled(S, AfterSend(R, due), Q \cup Outgoing(R, due), had, line, c)
    BY <1>1, <1>7, SettledAnswers
  <2>4. Settled(S, AfterSend(R, due), Q \cup Outgoing(R, due), had2, line, c)
    BY <2>1, <2>3, SettledSame
  <2>5. QED BY <2>1, <2>2, <2>4
<1>16. CASE ConnectionForgets(a)
  <2>1. S2 = S /\ line2 = line /\ P2 = P /\ Q2 = Q  BY <1>10, <1>16 DEF ConnectionForgets
  <2>2. removals'[a] # 0  BY <1>4, <1>16
  <2>3. c = "reliable" /\ scenario.callback # "none"  BY <1>4, <2>2 DEF UpLasts
  <2>4. R2 = NewInner /\ log' = log  BY <1>16 DEF ConnectionForgets
  <2>5. had \subseteq had2
    <3>1. Range(Entry(a).unordered) = {} /\ Range(Entry(a).ordered) = {}
      BY <2>3 DEF NothingLeft, Range
    <3>2. QED BY <2>4, <3>1 DEF ServerHad
  <2> HIDE DEF S, R, P, Q, had, line, S2, R2, P2, Q2, had2, line2
  <2>6. Settled(S, R, Q, had, line, "reliable")  BY <1>7, <2>3
  <2>7. Settled(S, NewInner, Q, had2, line, "reliable")  BY <2>5, <2>6, SettledForgets
  <2>8. QED BY <2>1, <2>3, <2>4, <2>7
<1>17. QED BY <1>5, <1>12, <1>13, <1>14, <1>15, <1>16 DEF StepFor

\* Nothing is left for a reader.
LEMMA NothingLeftStep ==
    ASSUME TypeOK, NEW a \in Client, StepFor(a), NothingLeft(a)
    PROVE  NothingLeft(a)'
<1>1. Entry(a) \in Inners /\ client[a] \in Inners  BY SidesTyped
<1>2. \A inner \in Inners : \A due : Empty(inner) => Empty(AfterSend(inner, due))
  BY SendReadsNothing DEF SameAsRead, Empty
<1>3. Empty(NewInner)  BY NewHoldsNothing DEF Empty, Channel
<1>4. scenario' = scenario  BY ForgottenForEver
<1>5. Empty(client[a]) /\ (scenario.callback # "none" => Empty(Entry(a)))
  BY DEF NothingLeft, Empty
<1>6. Empty(client'[a])
  <2>1. CASE SameClientSide(a)  BY <1>5, <2>1 DEF SameClientSide
  <2>2. CASE ClientWorks(a)  BY <2>2 DEF ClientWorks
  <2>3. CASE ClientSends(a)  BY <1>1, <1>2, <1>5, <2>3 DEF ClientSends
  <2>4. CASE ClientForgets(a)  BY <1>3, <2>4 DEF ClientForgets
  <2>5. QED BY <2>1, <2>2, <2>3, <2>4
            DEF StepFor, ConnectionWorks, ConnectionSends, ConnectionForgets
<1>7. scenario.callback # "none" => Empty(Entry(a)')
  <2>1. CASE SameServerSide(a)  BY <1>5, <2>1 DEF SameServerSide
  <2>2. CASE ConnectionWorks(a)  BY <1>5, <2>2 DEF ConnectionWorks
  <2>3. CASE ConnectionSends(a)  BY <1>1, <1>2, <1>5, <2>3 DEF ConnectionSends
  <2>4. CASE ConnectionForgets(a)  BY <1>3, <2>4 DEF ConnectionForgets
  <2>5. QED BY <2>1, <2>2, <2>3, <2>4 DEF StepFor, ClientWorks, ClientSends, ClientForgets
<1>8. QED BY <1>4, <1>6, <1>7 DEF NothingLeft, Empty

\* What was heard of a line.
HeardOf(out, head, full) ==
    /\ Len(out) = head
    /\ \A k \in DOMAIN out : out[k] = full[k]

LEMMA HeardMore ==
    ASSUME NEW R \in Inners, NEW inner \in Inners, NEW line \in Lines, Empty(R),
           HandsOn(R, inner, line),
           NEW out \in Seq(Messages), HeardOf(out, R.head, line["ordered"])
    PROVE  HeardOf(out \o inner.ordered, inner.head, line["ordered"])
<1> DEFINE h == R.head
           g == inner.head
           ext == inner.ordered
           full == line["ordered"]
           more == out \o ext
<1>1. h \in Nat /\ g \in Nat /\ h <= g /\ ext \in Seq(Messages)
  <2>1. "ordered" \in Channel  BY DEF Channel
  <2>2. h \in Nat /\ ext \in Seq(Messages)  BY <2>1, Parts, Numbers
  <2>3. QED BY <2>2 DEF HandsOn
<1>2. R.ordered = << >> /\ Len(<< >>) = 0  BY DEF Empty
<1>3. Len(ext) = g - h /\ \A k \in 1 .. g - h : ext[k] = full[h + k]
  <2>1. /\ Len(ext) = 0 + (g - h)
        /\ \A k \in 1 .. g - h : ext[0 + k] = full[h + k]
    BY <1>2 DEF HandsOn
  <2> HIDE DEF h, g, ext, full
  <2>2. 0 + (g - h) = g - h /\ \A k \in 1 .. g - h : 0 + k = k  BY <1>1
  <2>3. QED BY <2>1, <2>2
<1>4. Len(out) = h /\ \A k \in DOMAIN out : out[k] = full[k]  BY DEF HeardOf
<1> HIDE DEF h, g, ext, full
<1>5. Joined(more, out, ext)  BY <1>1, JoinedSequences
<1>6. more \in Seq(Messages)  BY <1>1
<1> HIDE DEF more
<1>7. /\ Len(more) = h + (g - h) /\ DOMAIN out = 1 .. h /\ DOMAIN more = 1 .. Len(more)
      /\ \A k \in 1 .. h : more[k] = out[k]
      /\ \A k \in 1 .. g - h : more[h + k] = ext[k]
  BY <1>3, <1>4, <1>5, <1>6 DEF Joined
<1>8. Len(more) = g  BY <1>1, <1>7
<1>9. ASSUME NEW k \in DOMAIN more PROVE more[k] = full[k]
  <2>1. k \in 1 .. g  BY <1>7, <1>8
  <2>2. CASE k \in 1 .. h  BY <1>4, <1>7, <2>2
  <2>3. CASE k \notin 1 .. h
    <3>1. k - h \in 1 .. g - h /\ h + (k - h) = k  BY <1>1, <2>1, <2>3
    <3>2. QED BY <1>3, <1>7, <3>1
  <2>4. QED BY <2>2, <2>3
<1>10. QED BY <1>8, <1>9 DEF HeardOf, more, ext, g, full

LEMMA HeardTheLineStep ==
    ASSUME TypeOK, TypeOK', NEW a \in Client, OwedBounded(a), StepFor(a),
           NothingLeft(a), DownInOrder(a, "ordered"), HeardTheLine(a)
    PROVE  HeardTheLine(a)'
<1> SUFFICES ASSUME removals'[a] = 0, restarts'[a] = 0
             PROVE  HeardOf(heardOrdered'[a], client'[a].head, owed'[a]["ordered"])
  BY DEF HeardTheLine, HeardOf
<1> DEFINE S == Entry(a)
           R == client[a]
           P == SentTo(a)
           line == owed[a]
           line2 == owed'[a]
           out == heardOrdered[a]
<1>1. /\ S \in Inners /\ R \in Inners /\ P \subseteq Packets /\ line \in Lines
      /\ "ordered" \in Channel
  BY SidesTyped DEF Channel
<1>2. line2 \in Lines /\ out \in Seq(Messages)  BY DEF TypeOK
<1>3. /\ removals[a] = 0 /\ ~ ConnectionForgets(a)
      /\ restarts[a] = 0 /\ ~ ClientForgets(a)
  BY ForgottenForEver
<1>4. HeardOf(out, R.head, line["ordered"])  BY <1>3 DEF HeardTheLine, HeardOf
<1>5. Direction(S, R, P, ClientHad(a), line, "ordered")
  BY <1>3 DEF DownInOrder, DownLasts
<1>6. CASE ConnectionWorks(a)
  <2>1. client'[a] = R /\ heardOrdered'[a] = out  BY <1>6 DEF ConnectionWorks, SameClientSide
  <2>2. PICK inner, ext : Works(S, Entry(a)', inner, SentBy(a), ext) /\ Adds(line, line2, ext)
    BY <1>6 DEF ConnectionWorks
  <2>3. ext["ordered"] \in Seq(Messages) /\ line2["ordered"] = line["ordered"] \o ext["ordered"]
    BY <1>1, <2>2 DEF Adds, Works, Lines
  <2>4. R.head \in Nat /\ R.head <= Len(line["ordered"])
    BY <1>1, <1>5, Parts, Numbers DEF Direction, HandedOn
  <2>5. line["ordered"] \in Seq(Messages)  BY <1>1 DEF Lines
  <2> DEFINE full == line["ordered"]
             longer == line2["ordered"]
             h == R.head
  <2>6. Joined(longer, full, ext["ordered"])  BY <2>3, <2>5, JoinedSequences
  <2>7. Len(out) = h /\ DOMAIN out = 1 .. Len(out) /\ \A k \in DOMAIN out : out[k] = full[k]
    BY <1>2, <1>4 DEF HeardOf
  <2>8. /\ h \in Nat /\ h <= Len(full) /\ Len(full) \in Nat
        /\ \A k \in 1 .. Len(full) : longer[k] = full[k]
    BY <2>4, <2>6 DEF Joined
  <2> HIDE DEF full, longer, h, out
  <2>9. \A k \in DOMAIN out : out[k] = longer[k]  BY <2>7, <2>8
  <2>10. HeardOf(out, h, longer)  BY <2>7, <2>9 DEF HeardOf
  <2>11. QED BY <2>1, <2>10 DEF h, longer
<1>7. CASE ConnectionSends(a)
  <2>1. client'[a] = R /\ heardOrdered'[a] = out /\ line2 = line
    BY <1>7 DEF ConnectionSends, SameClientSide
  <2>2. QED BY <1>4, <2>1
<1>8. CASE ClientWorks(a)
  <2>1. line2 = line  BY <1>8 DEF ClientWorks, SameServerSide
  <2>2. PICK inner, ext : /\ Works(R, client'[a], inner, P, ext)
                          /\ heardOrdered'[a] = out \o inner.ordered
    BY <1>8 DEF ClientWorks
  <2>3. inner \in Inners /\ client'[a].head = inner.head  BY <2>2 DEF Works
  <2>4. AtHead(R, line)  BY <1>5 DEF Direction, HandedOn, AtHead
  <2>5. Reachable(S, R, P, line, "ordered")
    <3>1. Len(line["ordered"]) < U16 - NumItems  BY <1>1 DEF OwedBounded
    <3> HIDE DEF S, R, P, line
    <3>2. QED BY <1>1, <1>5, <3>1, ReachableDirection
  <2>6. Empty(R)  BY DEF NothingLeft, Empty
  <2> DEFINE R2 == client'[a]
  <2>7. Works(R, R2, inner, P, ext)  BY <2>2
  <2> HIDE DEF S, R, P, line, out, R2
  <2>8. ReadsOn(S, R, inner, line, "ordered")  BY <1>1, <2>4, <2>5, <2>7, WorksReadsOn
  <2>9. HandsOn(R, inner, line)  BY <2>8 DEF ReadsOn
  <2>10. HeardOf(out \o inner.ordered, inner.head, line["ordered"])
    BY <1>1, <1>2, <1>4, <2>3, <2>6, <2>9, HeardMore
  <2>11. QED BY <2>1, <2>2, <2>3, <2>10 DEF line2
<1>9. CASE ClientSends(a)
  <2>1. line2 = line /\ heardOrdered'[a] = out  BY <1>9 DEF ClientSends, SameServerSide
  <2>2. client'[a].head = R.head
    BY <1>1, <1>9, SendReadsNothing DEF ClientSends, SameAsRead
  <2>3. QED BY <1>4, <2>1, <2>2
<1>10. QED BY <1>3, <1>6, <1>7, <1>8, <1>9 DEF StepFor

-----------------------------------------------------------------------------
(* Every step of Multi is one of these for every client.                   *)

LEMMA WorksNothing ==
    ASSUME NEW inner \in Inners, NEW new \in Inners, NEW P, P \subseteq Packets,
           new.sendQueue = inner.sendQueue, new.sendPackets = inner.sendPackets,
           new.received = inner.received, new.head = inner.head
    PROVE  Works(inner, new, inner, P, NoLines)
<1>1. NoLines \in Lines /\ \A c \in Channel : NoLines[c] = << >>  BY DEF NoLines, Lines
<1>2. ASSUME NEW c \in Channel PROVE new.sendQueue[c] = inner.sendQueue[c] \o NoLines[c]
  <2> DEFINE s == inner.sendQueue[c]
  <2>1. s \in Seq(Messages)  BY Parts
  <2> HIDE DEF s
  <2>2. s \o << >> = s  BY <2>1
  <2>3. QED BY <1>1, <2>2 DEF s
<1>3. QED BY <1>1, <1>2 DEF Works

LEMMA AddsNothing ==
    ASSUME NEW line \in Lines PROVE Adds(line, line, NoLines)
<1>1. ASSUME NEW c \in Channel PROVE line[c] \o NoLines[c] = line[c]
  <2>1. line[c] \in Seq(Messages) /\ NoLines[c] = << >>  BY DEF Lines, NoLines
  <2>2. QED BY <2>1
<1>2. QED BY <1>1 DEF Adds

\* inner.rs:239-268: what waits for a reader stays.
LEMMA ReadKeepsWaiting ==
    ASSUME NEW R \in Inners, NEW p \in Packets
    PROVE  /\ Range(R.unordered) \subseteq Range(ReadPacket(R, p).unordered)
           /\ Range(R.ordered) \subseteq Range(ReadPacket(R, p).ordered)
<1> DEFINE new == ReadPacket(R, p)
<1>1. new \in Inners  BY ReadPacketType
<1>2. R.unordered \in Seq(Messages) /\ R.ordered \in Seq(Messages)  BY DEF Inners
<1>3. ASSUME NEW s \in Seq(Messages), NEW t \in Seq(Messages)
      PROVE  Range(s) \subseteq Range(s \o t)
  <2>1. \A k \in DOMAIN s : k \in DOMAIN (s \o t) /\ (s \o t)[k] = s[k]  BY OfConcat
  <2> DEFINE r == s \o t
  <2> HIDE DEF r
  <2>2. Range(s) \subseteq Range(r)  BY <2>1 DEF Range, r
  <2>3. QED BY <2>2 DEF r
<1>4. p.channel \in Channel \/ p.channel = "unreliable"  BY DEF Packets
<1> DEFINE acked == Acknowledge(R, p.ack)
<1>5. /\ acked \in Inners
      /\ acked.unordered = R.unordered /\ acked.ordered = R.ordered
  BY AcknowledgeType
<1>6. CASE p.channel = "unreliable"
  <2>1. new = acked  BY <1>6 DEF ReadPacket, ReadHeartbeat, Channel
  <2>2. QED BY <1>5, <2>1
<1>7. CASE p.channel \in Channel /\ Refused(R, p)
  <2>1. new = [R EXCEPT !.duplicate = TRUE]  BY <1>7 DEF ReadPacket, Channel
  <2>2. new.unordered = R.unordered /\ new.ordered = R.ordered
    BY <2>1 DEF Inners
  <2>3. QED BY <2>2
<1>8. CASE p.channel = "reliable" /\ ~ Refused(R, p)
  <2>1. new = ReadReliable(R, p)  BY <1>8 DEF ReadPacket, Channel
  <2>2. p.content \in Seq(Messages)  BY <1>8 DEF Packets, Contents
  <2>3. \E received : new = [acked EXCEPT !.received = received,
                                          !.unordered = R.unordered \o p.content]
    BY <1>5, <2>1 DEF ReadReliable, Inners
  <2> HIDE DEF new, acked
  <2>4. new.unordered = R.unordered \o p.content /\ new.ordered = R.ordered
    BY <1>5, <2>3 DEF Inners
  <2>5. QED BY <1>2, <1>3, <2>2, <2>4 DEF new
<1>9. CASE p.channel = "ordered" /\ ~ Refused(R, p)
  <2> DEFINE ring == Insert(R.received["ordered"], p.sequenceId, p.content)
             ready == [j \in 1 .. ReadyCount(ring, R.head) |->
                          Get(ring, WrappingAdd(R.head, j - 1))[1]]
  <2>1. new = ReadOrdered(R, p)  BY <1>9 DEF ReadPacket, Channel
  <2> DEFINE received == [R.received EXCEPT !["ordered"] = ring]
             head == WrappingAdd(R.head, ReadyCount(ring, R.head))
             ordered == R.ordered \o ready
  <2>2. new = [acked EXCEPT !.received = received, !.head = head, !.ordered = ordered]
    <3>1. /\ acked.received = R.received /\ acked.head = R.head
          /\ acked.ordered = R.ordered
      BY AcknowledgeType
    <3>2. QED BY <1>5, <2>1, <3>1 DEF ReadOrdered, Inners
  <2>3. ready \in Seq(Messages)
    <3>1. /\ ring \in Rings(Contents) /\ R.head \in Index
      <4>1. /\ "ordered" \in Channel /\ p.sequenceId \in Index /\ p.content \in Contents
        BY <1>9 DEF Packets, Channel
      <4>2. QED BY <4>1, Parts, InsertType
    <3> HIDE DEF ring
    <3> DEFINE count == ReadyCount(ring, R.head)
    <3>2. /\ count \in 0 .. NumItems
          /\ \A j \in 0 .. count - 1 : Get(ring, WrappingAdd(R.head, j)) # None
      BY <3>1, ReadyCountType
    <3> HIDE DEF count
    <3>3. count \in Nat  BY <3>2, Numbers
    <3>4. ASSUME NEW j \in 1 .. count
          PROVE  Get(ring, WrappingAdd(R.head, j - 1))[1] \in Messages
      <4> DEFINE i == WrappingAdd(R.head, j - 1)
      <4>1. j - 1 \in 0 .. count - 1 /\ j - 1 \in Index /\ R.head \in Index
        BY <3>1, <3>2, <3>3, Numbers
      <4>2. i \in Index  BY <4>1, WrappingType
      <4>3. Get(ring, i) # None  BY <3>2, <4>1
      <4> HIDE DEF i
      <4>4. Get(ring, i) \in Contents  BY <3>1, <4>2, <4>3, GetType
      <4>5. \A s \in Contents : s[1] \in Messages  BY DEF Contents
      <4>6. QED BY <4>4, <4>5 DEF i
    <3>5. ready = [j \in 1 .. count |-> Get(ring, WrappingAdd(R.head, j - 1))[1]]
      BY DEF count
    <3> HIDE DEF ready
    <3>6. QED BY <3>3, <3>4, <3>5
  <2> HIDE DEF new, acked, ready, received, head, ordered
  <2>4. new.ordered = ordered /\ new.unordered = R.unordered
    BY <1>5, <2>2 DEF Inners
  <2>5. QED BY <1>2, <1>3, <2>3, <2>4 DEF new, ordered
<1>10. QED BY <1>4, <1>6, <1>7, <1>8, <1>9 DEF Channel

\* A client that a step does not concern.
LEMMA IdleStep ==
    ASSUME TypeOK, NEW a \in Client, Lasts(a), SameClientSide(a), SameServerSide(a)
    PROVE  StepFor(a)
<1>1. /\ Entry(a) \in Inners /\ owed[a] \in Lines /\ SentBy(a) \subseteq Packets
      /\ Entry(a)' = Entry(a) /\ SentTo(a)' = SentTo(a) /\ owed'[a] = owed[a]
      /\ ServerHad(a) \subseteq ServerHad(a)'
  BY SidesTyped DEF SameServerSide
<1> DEFINE inner == Entry(a)
<1>2. Works(inner, inner, inner, SentBy(a), NoLines)  BY <1>1, WorksNothing
<1>3. Adds(owed[a], owed[a], NoLines)  BY <1>1, AddsNothing
<1>4. Hears(ServerHad(a), inner, ServerHad(a)')
  BY <1>1 DEF Hears, ServerHad
<1>5. ConnectionWorks(a)
  BY <1>1, <1>2, <1>3, <1>4 DEF ConnectionWorks
<1>6. QED BY <1>5 DEF StepFor

\* The same, for a client whose packets are as they were.
LEMMA SamePackets ==
    ASSUME net' = net, NEW a
    PROVE  SentBy(a)' = SentBy(a) /\ SentTo(a)' = SentTo(a)
BY DEF SentBy, SentTo

LEMMA RangeOfBoth ==
    ASSUME NEW T, NEW s \in Seq(T), NEW t \in Seq(T)
    PROVE  Range(s) \cup Range(t) = Range(s \o t)
<1> DEFINE r == s \o t
<1>1. r \in Seq(T) /\ Len(r) = Len(s) + Len(t)  OBVIOUS
<1>2. /\ Len(s) \in Nat /\ DOMAIN s = 1 .. Len(s)
      /\ Len(t) \in Nat /\ DOMAIN t = 1 .. Len(t)
      /\ DOMAIN r = 1 .. Len(r)
  OBVIOUS
<1>3. /\ \A k \in 1 .. Len(s) : r[k] = s[k]
      /\ \A k \in 1 .. Len(t) : r[Len(s) + k] = t[k]
  OBVIOUS
<1> HIDE DEF r
<1>4. ASSUME NEW k \in DOMAIN s PROVE s[k] \in Range(r)
  <2>1. k \in DOMAIN r  BY <1>1, <1>2
  <2>2. QED BY <1>2, <1>3, <2>1 DEF Range
<1>5. ASSUME NEW k \in DOMAIN t PROVE t[k] \in Range(r)
  <2>1. Len(s) + k \in DOMAIN r  BY <1>1, <1>2
  <2>2. QED BY <1>2, <1>3, <2>1 DEF Range
<1>6. ASSUME NEW k \in DOMAIN r PROVE r[k] \in Range(s) \cup Range(t)
  <2>1. CASE k \in 1 .. Len(s)  BY <1>2, <1>3, <2>1 DEF Range
  <2>2. CASE k \notin 1 .. Len(s)
    <3>1. k - Len(s) \in 1 .. Len(t) /\ Len(s) + (k - Len(s)) = k  BY <1>1, <1>2, <2>2
    <3>2. r[k] = t[k - Len(s)]  BY <1>3, <3>1
    <3>3. QED BY <1>2, <3>1, <3>2 DEF Range
  <2>3. QED BY <2>1, <2>2
<1>7. Range(s) \subseteq Range(r) /\ Range(t) \subseteq Range(r)  BY <1>4, <1>5 DEF Range
<1>8. Range(r) \subseteq Range(s) \cup Range(t)  BY <1>6 DEF Range
<1>9. QED BY <1>7, <1>8 DEF r

\* What the log has of client a, and what reading adds to it.
Logged(a) == {e.message : e \in {f \in Range(log) : f.from = a}}

LEMMA LogTakes ==
    ASSUME TypeOK, NEW a \in Client, NEW read \in Seq(Messages),
           log' = log \o Entries(a, read)
    PROVE  /\ \A b : Logged(b) \subseteq Logged(b)'
           /\ Range(read) \subseteq Logged(a)'
<1> DEFINE more == Entries(a, read)
<1>1. more \in Seq(LogEntries) /\ log \in Seq(LogEntries)  BY EntriesType DEF TypeOK
<1>2. DOMAIN more = DOMAIN read
      /\ \A k \in DOMAIN read : more[k].from = a /\ more[k].message = read[k]
  BY DEF Entries
<1> HIDE DEF more
<1>3. Range(log) \cup Range(more) = Range(log \o more)  BY <1>1, RangeOfBoth
<1>4. Range(log') = Range(log) \cup Range(more)  BY <1>3 DEF more
<1>5. \A b : Logged(b) \subseteq Logged(b)'  BY <1>4 DEF Logged
<1>6. ASSUME NEW k \in DOMAIN read PROVE read[k] \in Logged(a)'
  <2>1. more[k] \in Range(log') /\ more[k].from = a /\ more[k].message = read[k]
    BY <1>2, <1>4 DEF Range
  <2>2. QED BY <2>1 DEF Logged
<1>7. QED BY <1>5, <1>6 DEF Range

\* What a connection holds for its readers is logged when they take it.
LEMMA TakesAll ==
    ASSUME TypeOK, NEW a \in Client, NEW inner \in Inners,
           Range(Entry(a).unordered) \subseteq Range(inner.unordered),
           Range(Entry(a).ordered) \subseteq Range(inner.ordered),
           log' = log \o Entries(a, inner.unordered \o inner.ordered)
    PROVE  Hears(ServerHad(a), inner, ServerHad(a)')
<1> DEFINE read == inner.unordered \o inner.ordered
<1>1. inner.unordered \in Seq(Messages) /\ inner.ordered \in Seq(Messages)  BY DEF Inners
<1>2. read \in Seq(Messages)  BY <1>1
<1>3. Range(inner.unordered) \cup Range(inner.ordered) = Range(read)
  BY <1>1, RangeOfBoth
<1>4. Logged(a) \subseteq Logged(a)' /\ Range(read) \subseteq Logged(a)'
  <2> HIDE DEF read
  <2>1. log' = log \o Entries(a, read)  BY DEF read
  <2>2. QED BY <1>2, <2>1, LogTakes
<1> HIDE DEF read
<1>5. Logged(a)' \subseteq ServerHad(a)'  BY DEF Logged, ServerHad
<1>6. ServerHad(a) = Logged(a) \cup Range(Entry(a).unordered) \cup Range(Entry(a).ordered)
  BY DEF Logged, ServerHad
<1>7. QED BY <1>3, <1>4, <1>5, <1>6 DEF Hears

LEMMA LeavesAll ==
    ASSUME NEW a, NEW inner, log' = log,
           Range(Entry(a).unordered) \subseteq Range(inner.unordered),
           Range(Entry(a).ordered) \subseteq Range(inner.ordered),
           Entry(a)'.unordered = inner.unordered, Entry(a)'.ordered = inner.ordered
    PROVE  Hears(ServerHad(a), inner, ServerHad(a)')
BY DEF Hears, ServerHad

\* A connection that reads, or not, and leaves all but its readers' queues.
LEMMA WorksReading ==
    ASSUME NEW old \in Inners, NEW P, P \subseteq Packets, NEW inner \in Inners,
           inner = old \/ \E p \in P : inner = ReadPacket(old, p),
           NEW new \in Inners,
           new.sendQueue = inner.sendQueue, new.sendPackets = inner.sendPackets,
           new.received = inner.received, new.head = inner.head
    PROVE  Works(old, new, inner, P, NoLines)
<1>1. Works(inner, new, inner, P, NoLines)  BY WorksNothing
<1>2. QED BY <1>1 DEF Works

\* inner.rs:224-246: reading a packet, or dropping it.
LEMMA ReadsOrNot ==
    ASSUME NEW old \in Inners, NEW P, P \subseteq Packets, NEW inner,
           inner = old \/ \E p \in P : inner = ReadPacket(old, p)
    PROVE  /\ inner \in Inners
           /\ Range(old.unordered) \subseteq Range(inner.unordered)
           /\ Range(old.ordered) \subseteq Range(inner.ordered)
<1>1. CASE inner = old  BY <1>1
<1>2. CASE \E p \in P : inner = ReadPacket(old, p)
  <2>1. PICK p \in P : inner = ReadPacket(old, p)  BY <1>2
  <2>2. p \in Packets  BY <2>1
  <2>3. QED BY <2>1, <2>2, ReadPacketType, ReadKeepsWaiting
<1>3. QED BY <1>1, <1>2

\* The sides that a step of the server leaves alone.
LEMMA ServerLeavesClients ==
    ASSUME UNCHANGED <<client, net, scenario, heard, heardOrdered, restarts>>,
           NEW a \in Client, written'[a] = written[a]
    PROVE  SameClientSide(a) /\ SentTo(a)' = SentTo(a)
<1>1. SentBy(a)' = SentBy(a) /\ SentTo(a)' = SentTo(a)  BY SamePackets
<1>2. Written(a)' = Written(a)  BY DEF Written
<1>3. QED BY <1>1, <1>2 DEF SameClientSide

\* ConnectionWorks, from its parts.
LEMMA WorksSo ==
    ASSUME NEW a, Lasts(a), SameClientSide(a), SentTo(a)' = SentTo(a),
           NEW inner, NEW ext, NEW new, Entry(a)' = new,
           Works(Entry(a), new, inner, SentBy(a), ext),
           Hears(ServerHad(a), inner, ServerHad(a)'),
           Adds(owed[a], owed'[a], ext),
           scenario.callback = "none" \/ (Empty(Entry(a)) => Empty(new))
    PROVE  ConnectionWorks(a)
BY DEF ConnectionWorks

\* multi.rs:209-245: the connection that a datagram comes in on.
LEMMA HandleWorks ==
    ASSUME TypeOK, TypeOK', NEW datagram \in net, datagram.to = Server,
           NEW intact \in BOOLEAN, Handle(datagram, intact),
           UNCHANGED <<client, net, scenario, written, heard, heardOrdered, removals, restarts>>
    PROVE  ConnectionWorks(datagram.from)
<1> DEFINE a     == datagram.from
           old   == Entry(a)
           inner == IF intact THEN ReadPacket(Entry(a), datagram.packet) ELSE Entry(a)
           read  == inner.unordered \o inner.ordered
           empty == [inner EXCEPT !.unordered = << >>, !.ordered = << >>]
           answered == [empty EXCEPT !.sendQueue["reliable"] = @ \o read]
           P == SentBy(a)
<1>1. a \in Client /\ datagram.packet \in P
  BY MultiAssumption DEF TypeOK, SentBy
<1>2. /\ old \in Inners /\ P \subseteq Packets /\ Entry(a)' \in Inners
      /\ owed[a] \in Lines
  BY <1>1, SidesTyped, SidesTypedNext
<1>3. inner = old \/ \E p \in P : inner = ReadPacket(old, p)  BY <1>1
<1>4. \/ /\ scenario.callback = "none"
         /\ coms' = WithEntry(a, inner) /\ UNCHANGED <<requests, log, owed>>
      \/ /\ coms' = WithEntry(a, answered)
         /\ log' = log \o Entries(a, read)
         /\ owed' = [owed EXCEPT ![a]["reliable"] = @ \o read]
      \/ /\ coms' = WithEntry(a, empty)
         /\ log' = log \o Entries(a, read)
         /\ UNCHANGED owed
  BY Zenon DEF Handle
<1>5. SameClientSide(a) /\ SentTo(a)' = SentTo(a) /\ Lasts(a)
  BY <1>1, ServerLeavesClients DEF Lasts
<1> SUFFICES ConnectionWorks(a)  OBVIOUS
<1> HIDE DEF a, inner
<1>6. /\ inner \in Inners
      /\ Range(old.unordered) \subseteq Range(inner.unordered)
      /\ Range(old.ordered) \subseteq Range(inner.ordered)
  <2> HIDE DEF old, P
  <2>1. QED BY <1>2, <1>3, ReadsOrNot
<1>7. read \in Seq(Messages)
  <2>1. inner.unordered \in Seq(Messages) /\ inner.ordered \in Seq(Messages)  BY <1>6 DEF Inners
  <2>2. QED BY <2>1
<1>8. log' = log \o Entries(a, read) => Hears(ServerHad(a), inner, ServerHad(a)')
  BY <1>1, <1>6, TakesAll
<1>9. CASE /\ scenario.callback = "none"
           /\ coms' = WithEntry(a, inner) /\ UNCHANGED <<requests, log, owed>>
  <2>1. Entry(a)' = inner  BY <1>9, EntryAfter
  <2>2. Hears(ServerHad(a), inner, ServerHad(a)')  BY <1>6, <1>9, <2>1, LeavesAll
  <2>3. Works(old, inner, inner, P, NoLines)  BY <1>2, <1>3, <1>6, WorksReading
  <2>4. Adds(owed[a], owed'[a], NoLines)  BY <1>2, <1>9, AddsNothing
  <2>5. QED BY <1>5, <1>9, <2>1, <2>2, <2>3, <2>4, WorksSo
<1>10. CASE /\ coms' = WithEntry(a, empty)
            /\ log' = log \o Entries(a, read)
            /\ UNCHANGED owed
  <2>1. Entry(a)' = empty  BY <1>10, EntryAfter
  <2>2. /\ Empty(empty)
        /\ empty.sendQueue = inner.sendQueue /\ empty.sendPackets = inner.sendPackets
        /\ empty.received = inner.received /\ empty.head = inner.head
    BY <1>6 DEF Empty, Inners
  <2>3. empty \in Inners  BY <1>2, <2>1
  <2> HIDE DEF empty
  <2>4. Works(old, empty, inner, P, NoLines)  BY <1>2, <1>3, <1>6, <2>2, <2>3, WorksReading
  <2>5. Adds(owed[a], owed'[a], NoLines)  BY <1>2, <1>10, AddsNothing
  <2>6. QED BY <1>5, <1>8, <1>10, <2>1, <2>2, <2>4, <2>5, WorksSo
<1>11. CASE /\ coms' = WithEntry(a, answered)
            /\ log' = log \o Entries(a, read)
            /\ owed' = [owed EXCEPT ![a]["reliable"] = @ \o read]
  <2> DEFINE ext == [NoLines EXCEPT !["reliable"] = read]
             queue == [inner.sendQueue EXCEPT !["reliable"] = @ \o read]
  <2>1. Entry(a)' = answered  BY <1>11, EntryAfter
  <2>2. answered \in Inners  BY <1>2, <2>1
  <2>3. /\ Empty(answered) /\ answered.sendQueue = queue
        /\ answered.sendPackets = inner.sendPackets
        /\ answered.received = inner.received /\ answered.head = inner.head
    BY <1>6 DEF Empty, Inners
  <2>4. /\ ext \in Lines /\ ext["reliable"] = read
        /\ \A c \in Channel : c # "reliable" => ext[c] = << >>
    <3>1. NoLines \in Lines /\ \A c \in Channel : NoLines[c] = << >>
      BY DEF NoLines, Lines
    <3> HIDE DEF read
    <3>2. QED BY <1>7, <3>1 DEF Lines, Channel
  <2>5. /\ queue["reliable"] = inner.sendQueue["reliable"] \o read
        /\ \A c \in Channel : c # "reliable" => queue[c] = inner.sendQueue[c]
    BY <1>6 DEF Inners, Channel
  <2>6. /\ owed'[a]["reliable"] = owed[a]["reliable"] \o read
        /\ \A c \in Channel : c # "reliable" => owed'[a][c] = owed[a][c]
    <3>1. owed \in [Client -> Lines] /\ owed[a] \in [Channel -> Seq(Messages)]
      BY <1>1 DEF TypeOK, Lines
    <3>2. QED BY <1>1, <1>11, <3>1 DEF Channel
  <2>7. \A s \in Seq(Messages) : s \o << >> = s  OBVIOUS
  <2>8. ASSUME NEW c \in Channel
        PROVE  inner.sendQueue[c] \in Seq(Messages) /\ owed[a][c] \in Seq(Messages)
    BY <1>2, <1>6 DEF Inners, Lines
  <2> HIDE DEF answered, ext, queue, read
  <2>9. \A c \in Channel : queue[c] = inner.sendQueue[c] \o ext[c]
    <3> SUFFICES ASSUME NEW c \in Channel PROVE queue[c] = inner.sendQueue[c] \o ext[c]
      OBVIOUS
    <3>1. CASE c = "reliable"  BY <2>4, <2>5, <3>1
    <3>2. CASE c # "reliable"  BY <2>4, <2>5, <2>7, <2>8, <3>2
    <3>3. QED BY <3>1, <3>2
  <2>10. Adds(owed[a], owed'[a], ext)
    <3> SUFFICES ASSUME NEW c \in Channel PROVE owed'[a][c] = owed[a][c] \o ext[c]
      BY DEF Adds
    <3>1. CASE c = "reliable"  BY <2>4, <2>6, <3>1
    <3>2. CASE c # "reliable"  BY <2>4, <2>6, <2>7, <2>8, <3>2
    <3>3. QED BY <3>1, <3>2
  <2>11. Works(old, answered, inner, P, ext)
    <3> HIDE DEF old, P
    <3>1. \A c \in Channel : answered.sendQueue[c] = inner.sendQueue[c] \o ext[c]
      BY <2>3, <2>9
    <3>2. QED BY <1>2, <1>3, <1>6, <2>2, <2>3, <2>4, <3>1 DEF Works
  <2>12. QED BY <1>5, <1>8, <1>11, <2>1, <2>3, <2>10, <2>11, WorksSo
<1>12. QED BY <1>4, <1>9, <1>10, <1>11

\* The other connections.
LEMMA HandleIdles ==
    ASSUME TypeOK, NEW datagram \in net, datagram.to = Server,
           NEW intact \in BOOLEAN, Handle(datagram, intact),
           UNCHANGED <<client, net, scenario, written, heard, heardOrdered, removals, restarts>>,
           NEW b \in Client, b # datagram.from
    PROVE  StepFor(b)
<1> DEFINE a     == datagram.from
           inner == IF intact THEN ReadPacket(Entry(a), datagram.packet) ELSE Entry(a)
           read  == inner.unordered \o inner.ordered
           empty == [inner EXCEPT !.unordered = << >>, !.ordered = << >>]
           answered == [empty EXCEPT !.sendQueue["reliable"] = @ \o read]
<1>1. a \in Client /\ datagram.packet \in Packets
  BY MultiAssumption DEF TypeOK
<1>2. inner \in Inners  BY <1>1, EntryType, ReadPacketType
<1>3. /\ \E new : coms' = WithEntry(a, new)
      /\ log' = log \/ log' = log \o Entries(a, read)
      /\ owed' = owed \/ \E line : owed' = [owed EXCEPT ![a] = line]
  <2>1. \/ coms' = WithEntry(a, inner) /\ UNCHANGED <<requests, log, owed>>
        \/ /\ coms' = WithEntry(a, answered)
           /\ log' = log \o Entries(a, read)
           /\ owed' = [owed EXCEPT ![a]["reliable"] = @ \o read]
        \/ /\ coms' = WithEntry(a, empty)
           /\ log' = log \o Entries(a, read)
           /\ UNCHANGED owed
    BY Zenon DEF Handle
  <2> HIDE DEF a, inner, read, empty, answered
  <2>2. QED BY <2>1
<1>4. SameClientSide(b) /\ SentTo(b)' = SentTo(b) /\ Lasts(b)
  BY ServerLeavesClients DEF Lasts
<1> HIDE DEF a, inner
<1>5. b # a  BY DEF a
<1>6. Entry(b)' = Entry(b)  BY <1>3, <1>5, EntryAfter
<1>7. owed'[b] = owed[b]  BY <1>3, <1>5 DEF TypeOK
<1>8. read \in Seq(Messages)
  <2>1. inner.unordered \in Seq(Messages) /\ inner.ordered \in Seq(Messages)  BY <1>2 DEF Inners
  <2>2. QED BY <2>1
<1> HIDE DEF read
<1>9. Logged(b) \subseteq Logged(b)'
  <2>1. CASE log' = log  BY <2>1 DEF Logged
  <2>2. CASE log' = log \o Entries(a, read)  BY <1>1, <1>8, <2>2, LogTakes
  <2>3. QED BY <1>3, <2>1, <2>2
<1>10. ServerHad(b) \subseteq ServerHad(b)'  BY <1>6, <1>9 DEF ServerHad, Logged
<1>11. QED BY <1>4, <1>6, <1>7, <1>10, IdleStep DEF SameServerSide

\* A client and a connection that a step of the server does not concern.
LEMMA ServerIdles ==
    ASSUME TypeOK, UNCHANGED <<client, net, scenario, heard, heardOrdered, restarts>>,
           NEW a \in Client, written'[a] = written[a], removals'[a] = removals[a],
           Entry(a)' = Entry(a), owed'[a] = owed[a], Logged(a) \subseteq Logged(a)'
    PROVE  StepFor(a)
<1>1. SameClientSide(a) /\ SentTo(a)' = SentTo(a) /\ Lasts(a)
  BY ServerLeavesClients DEF Lasts
<1>2. ServerHad(a) \subseteq ServerHad(a)'  BY DEF ServerHad, Logged
<1>3. QED BY <1>1, <1>2, IdleStep DEF SameServerSide

\* multi.rs:263-293: what write and broadcast make of a connection and of what is
\* owed on it: both got longer by the same.
Alike(a, new, line) ==
    /\ SameButQueue(Entry(a), new)
    /\ line \in Lines
    /\ \E ext \in Lines :
          /\ \A c \in Channel : new.sendQueue[c] = Entry(a).sendQueue[c] \o ext[c]
          /\ Adds(owed[a], line, ext)

LEMMA AlikeAtFirst ==
    ASSUME TypeOK, NEW a \in Client PROVE Alike(a, Entry(a), owed[a])
<1> DEFINE inner == Entry(a)
           line == owed[a]
<1>1. inner \in Inners /\ line \in Lines  BY SidesTyped
<1>2. Works(inner, inner, inner, {}, NoLines)  BY <1>1, WorksNothing
<1>3. Adds(line, line, NoLines)  BY <1>1, AddsNothing
<1>4. QED BY <1>1, <1>2, <1>3 DEF Alike, SameButQueue, Works

LEMMA AlikeThen ==
    ASSUME TypeOK, NEW a \in Client, NEW new, NEW line, Alike(a, new, line),
           NEW d \in Channel, NEW m \in Messages
    PROVE  Alike(a, Enqueue(new, d, m), [line EXCEPT ![d] = Append(@, m)])
<1> DEFINE inner == Entry(a)
           old == owed[a]
           more == [line EXCEPT ![d] = Append(@, m)]
           next == Enqueue(new, d, m)
<1>1. inner \in Inners /\ old \in Lines  BY SidesTyped
<1>2. new \in Inners /\ SameButQueue(inner, new) /\ line \in Lines
  BY DEF Alike, SameButQueue
<1>3. PICK ext \in Lines :
         /\ \A c \in Channel : new.sendQueue[c] = inner.sendQueue[c] \o ext[c]
         /\ Adds(old, line, ext)
  BY Zenon DEF Alike
<1> DEFINE longer == [ext EXCEPT ![d] = Append(@, m)]
<1>4. SameButQueue(new, next)  BY <1>2, EnqueueType
<1>5. /\ next.sendQueue[d] = Append(new.sendQueue[d], m)
      /\ \A c \in Channel : c # d => next.sendQueue[c] = new.sendQueue[c]
  BY <1>2 DEF Enqueue, Inners
<1>6. /\ longer \in Lines /\ longer[d] = Append(ext[d], m)
      /\ \A c \in Channel : c # d => longer[c] = ext[c]
  <2>1. ext \in [Channel -> Seq(Messages)]  BY DEF Lines
  <2>2. Append(ext[d], m) \in Seq(Messages)  BY <2>1
  <2>3. QED BY <2>1, <2>2 DEF Lines
<1>7. /\ more \in Lines /\ more[d] = Append(line[d], m)
      /\ \A c \in Channel : c # d => more[c] = line[c]
  <2>1. line \in [Channel -> Seq(Messages)]  BY <1>2 DEF Lines
  <2>2. Append(line[d], m) \in Seq(Messages)  BY <2>1
  <2>3. QED BY <2>1, <2>2 DEF Lines
<1>8. \A s \in Seq(Messages), t \in Seq(Messages) : Append(s \o t, m) = s \o Append(t, m)
  OBVIOUS
<1>9. ASSUME NEW c \in Channel
      PROVE  ext[c] \in Seq(Messages) /\ inner.sendQueue[c] \in Seq(Messages)
             /\ old[c] \in Seq(Messages)
  BY <1>1 DEF Lines, Inners
<1>10. \A c \in Channel : line[c] = old[c] \o ext[c]  BY <1>3 DEF Adds
<1> HIDE DEF inner, old, more, next, longer
<1>11. ASSUME NEW c \in Channel
       PROVE  next.sendQueue[c] = inner.sendQueue[c] \o longer[c] /\ more[c] = old[c] \o longer[c]
  <2>1. CASE c = d  BY <1>3, <1>5, <1>6, <1>7, <1>8, <1>9, <1>10, <2>1
  <2>2. CASE c # d  BY <1>3, <1>5, <1>6, <1>7, <1>10, <2>2
  <2>3. QED BY <2>1, <2>2
<1>12. SameButQueue(inner, next)  BY <1>2, <1>4 DEF SameButQueue
<1>13. Alike(a, next, more)
  <2>1. Adds(old, more, longer)  BY <1>11 DEF Adds
  <2>2. QED BY <1>6, <1>7, <1>11, <1>12, <2>1 DEF Alike, inner, old
<1>14. QED BY <1>13 DEF next, more

\* A step of the server that writes, on the connection to a among others.
LEMMA AlikeWorks ==
    ASSUME TypeOK, UNCHANGED <<client, net, scenario, log, heard, heardOrdered, removals, restarts>>,
           NEW a \in Client, written'[a] = written[a], Alike(a, Entry(a)', owed'[a])
    PROVE  StepFor(a)
<1> DEFINE inner == Entry(a)
           new == Entry(a)'
           P == SentBy(a)
<1>1. SameClientSide(a) /\ SentTo(a)' = SentTo(a) /\ Lasts(a)
  BY ServerLeavesClients DEF Lasts
<1>2. inner \in Inners /\ P \subseteq Packets  BY SidesTyped
<1>3. SameButQueue(inner, new)  BY DEF Alike
<1>4. PICK ext \in Lines :
         /\ \A c \in Channel : new.sendQueue[c] = inner.sendQueue[c] \o ext[c]
         /\ Adds(owed[a], owed'[a], ext)
  BY Zenon DEF Alike
<1>5. Hears(ServerHad(a), inner, ServerHad(a)')
  <2>1. new.unordered = inner.unordered /\ new.ordered = inner.ordered
    BY <1>3 DEF SameButQueue
  <2>2. QED BY <2>1, LeavesAll
<1>6. ConnectionWorks(a)
  <2>1. Empty(inner) => Empty(new)  BY <1>3 DEF SameButQueue, Empty
  <2>2. Works(inner, new, inner, P, ext)  BY <1>2, <1>3, <1>4 DEF Works, SameButQueue
  <2>3. QED BY <1>1, <1>4, <1>5, <2>1, <2>2, WorksSo
<1>7. QED BY <1>6 DEF StepFor

\* multi.rs:366-417: finish.
LEMMA FinishSteps ==
    ASSUME TypeOK, Finish, NEW b \in Client
    PROVE  StepFor(b)
<1> DEFINE n == Len(requests)
           D == DOMAIN coms
           Both == {<<f, o>> : f \in [D -> Inners], o \in [Client -> Lines]}
           T == {x \in Both : /\ \A a \in D : Alike(a, x[1][a], x[2][a])
                              /\ \A a \in Client \ D : x[2][a] = owed[a]}
<1>1. /\ requests \in Seq(Requests) /\ D \subseteq Client
      /\ coms \in [D -> Inners] /\ owed \in [Client -> Lines]
  BY DEF TypeOK
<1>2. n \in Nat /\ \A j \in 1 .. n : requests[j] \in Requests  BY <1>1
<1>3. PICK f : /\ f[0] = coms /\ f[n] = Finished(coms)
               /\ \A k \in 1 .. n : f[k] = Passed(f[k - 1], requests[k])
  BY <1>1, FinishedRuns
<1>4. PICK o : /\ o[0] = owed /\ o[n] = OwedFinally
               /\ \A k \in 1 .. n : o[k] = Owing(o[k - 1], requests[k])
  BY <1>1, OwedRuns
<1> DEFINE h == [k \in 0 .. n |-> <<f[k], o[k]>>]
<1> HIDE DEF n
<1>5. \A k \in 0 .. n : h[k] = <<f[k], o[k]>>  OBVIOUS
<1> HIDE DEF h
<1>6. h[0] \in T
  <2>1. h[0] = <<coms, owed>>  BY <1>2, <1>3, <1>4, <1>5
  <2>2. \A a \in D : Alike(a, coms[a], owed[a])
    BY <1>1, AlikeAtFirst DEF Entry
  <2>3. QED BY <1>1, <2>1, <2>2
<1>7. ASSUME NEW k \in 1 .. n, h[k - 1] \in T PROVE h[k] \in T
  <2>1. k - 1 \in 0 .. n /\ k \in 0 .. n  BY <1>2
  <2> DEFINE p == requests[k]
             g == f[k - 1]
             w == o[k - 1]
  <2>2. h[k - 1] = <<g, w>>  BY <1>5, <2>1
  <2>3. /\ g \in [D -> Inners] /\ w \in [Client -> Lines]
        /\ \A a \in D : Alike(a, g[a], w[a])
        /\ \A a \in Client \ D : w[a] = owed[a]
    BY <1>7, <2>2
  <2>4. p \in Requests /\ p.channel \in Channel /\ p.message \in Messages
    BY <1>2 DEF Requests
  <2>5. h[k] = <<Passed(g, p), Owing(w, p)>>  BY <1>3, <1>4, <1>5, <2>1
  <2> HIDE DEF p, g, w
  <2>6. Passed(g, p) \in [D -> Inners]  BY <2>3, <2>4, PassedType
  <2>7. Owing(w, p) \in [Client -> Lines]  BY <2>3, <2>4, OwingType
  <2>8. ASSUME NEW a \in D PROVE Alike(a, Passed(g, p)[a], Owing(w, p)[a])
    <3>1. a \in Client /\ Alike(a, g[a], w[a])  BY <1>1, <2>3
    <3>2. CASE a = p.exception
      <4>1. Passed(g, p)[a] = g[a] /\ Owing(w, p)[a] = w[a]
        BY <2>3, <3>1, <3>2 DEF Passed, Owing
      <4>2. QED BY <3>1, <4>1
    <3>3. CASE a # p.exception
      <4>1. Passed(g, p)[a] = Enqueue(g[a], p.channel, p.message)
        BY <2>3, <3>3 DEF Passed
      <4>2. Owing(w, p)[a] = [w[a] EXCEPT ![p.channel] = Append(@, p.message)]
        BY <3>1, <3>3 DEF Owing
      <4>3. QED BY <2>4, <3>1, <4>1, <4>2, AlikeThen
    <3>4. QED BY <3>2, <3>3
  <2>9. ASSUME NEW a \in Client \ D PROVE Owing(w, p)[a] = owed[a]
    BY <2>3 DEF Owing
  <2> DEFINE next == Passed(g, p)
             owes == Owing(w, p)
  <2> HIDE DEF next, owes
  <2>10. <<next, owes>> \in T  BY <2>6, <2>7, <2>8, <2>9 DEF next, owes
  <2>11. QED BY <2>5, <2>10 DEF next, owes
<1> HIDE DEF T
<1>8. \A k \in 0 .. n : h[k] \in T  BY <1>2, <1>6, <1>7, IteratesInside
<1>9. h[n] \in T /\ h[n] = <<Finished(coms), OwedFinally>>
  BY <1>2, <1>3, <1>4, <1>5, <1>8
<1> DEFINE last == Finished(coms)
           finally == OwedFinally
<1> HIDE DEF last, finally
<1>10. /\ last \in [D -> Inners]
       /\ \A a \in D : Alike(a, last[a], finally[a])
       /\ \A a \in Client \ D : finally[a] = owed[a]
  <2>1. <<last, finally>> \in T  BY <1>9 DEF last, finally
  <2>2. QED BY <2>1 DEF T
<1>11. /\ coms' = last /\ owed' = finally
       /\ UNCHANGED <<client, net, scenario, written, log, heard, heardOrdered, removals, restarts>>
  BY DEF Finish, last, finally
<1>12. CASE b \in D
  <2>1. Entry(b)' = last[b]  BY <1>10, <1>11, <1>12 DEF Entry
  <2>2. Alike(b, Entry(b)', owed'[b])  BY <1>10, <1>11, <1>12, <2>1
  <2>3. QED BY <1>11, <2>2, AlikeWorks
<1>13. CASE b \notin D
  <2>1. Entry(b)' = Entry(b)  BY <1>10, <1>11, <1>13 DEF Entry
  <2>2. owed'[b] = owed[b]  BY <1>10, <1>11, <1>13
  <2>3. Logged(b) \subseteq Logged(b)'  BY <1>11 DEF Logged
  <2>4. QED BY <1>11, <2>1, <2>2, <2>3, ServerIdles
<1>14. QED BY <1>12, <1>13

\* multi.rs:253-325: the server's own message.
LEMMA ServerWriteSteps ==
    ASSUME TypeOK, NEW to \in SUBSET Client, ServerWrite(to), NEW b \in Client
    PROVE  StepFor(b)
<1> DEFINE m == Message(Server, "reliable")
<1>1. m \in Messages /\ "reliable" \in Channel  BY MessageType DEF Channel
<1>2. /\ to \subseteq DOMAIN coms
      /\ coms' = [a \in DOMAIN coms |->
                     IF a \in to THEN Enqueue(coms[a], "reliable", m) ELSE coms[a]]
      /\ owed' = [a \in Client |->
                     IF a \in to THEN [owed[a] EXCEPT !["reliable"] = Append(@, m)] ELSE owed[a]]
      /\ UNCHANGED <<client, net, scenario, log, heard, heardOrdered, removals, restarts>>
  BY DEF ServerWrite
<1>3. written'[b] = written[b]
  <2>1. b # Server /\ written' = [written EXCEPT ![Server]["reliable"] = @ + 1]
    BY MultiAssumption DEF ServerWrite
  <2>2. QED BY <2>1 DEF TypeOK
<1> HIDE DEF m
<1>4. CASE b \in to
  <2>1. /\ Entry(b)' = Enqueue(Entry(b), "reliable", m)
        /\ owed'[b] = [owed[b] EXCEPT !["reliable"] = Append(@, m)]
    BY <1>2, <1>4 DEF Entry
  <2>2. Alike(b, Entry(b), owed[b])  BY AlikeAtFirst
  <2>3. Alike(b, Entry(b)', owed'[b])  BY <1>1, <2>1, <2>2, AlikeThen
  <2>4. QED BY <1>2, <1>3, <2>3, AlikeWorks
<1>5. CASE b \notin to
  <2>1. Entry(b)' = Entry(b) /\ owed'[b] = owed[b] /\ Logged(b) \subseteq Logged(b)'
    BY <1>2, <1>5 DEF Entry, Logged
  <2>2. QED BY <1>2, <1>3, <2>1, ServerIdles
<1>6. QED BY <1>4, <1>5

\* multi.rs:253-261, 317-325: for_each or iter_mut with read.
LEMMA ReadAllSteps ==
    ASSUME TypeOK, TypeOK', ReadAll, NEW b \in Client
    PROVE  StepFor(b)
<1>1. PICK a \in DOMAIN coms :
         /\ coms' = [coms EXCEPT ![a].unordered = << >>, ![a].ordered = << >>]
         /\ log' = log \o Entries(a, coms[a].unordered \o coms[a].ordered)
  BY DEF ReadAll
<1>2. UNCHANGED <<client, net, scenario, written, heard, heardOrdered, owed, removals, restarts>>
  BY DEF ReadAll
<1>3. a \in Client  BY DEF TypeOK
<1> DEFINE inner == Entry(a)
           new == [inner EXCEPT !.unordered = << >>, !.ordered = << >>]
           P == SentBy(a)
<1>4. inner = coms[a] /\ inner \in Inners /\ coms \in [DOMAIN coms -> Inners]
  BY DEF Entry, TypeOK
<1>5. coms' = [coms EXCEPT ![a] = new]  BY <1>1, <1>4
<1>6. /\ Empty(new)
      /\ new.sendQueue = inner.sendQueue /\ new.sendPackets = inner.sendPackets
      /\ new.received = inner.received /\ new.head = inner.head
  BY <1>4 DEF Empty, Inners
<1>7. log' = log \o Entries(a, inner.unordered \o inner.ordered)  BY <1>1, <1>4
<1> HIDE DEF new
<1>8. Entry(a)' = new /\ (b # a => Entry(b)' = Entry(b))  BY <1>4, <1>5 DEF Entry
<1>9. CASE b = a
  <2>1. new \in Inners /\ P \subseteq Packets  BY <1>3, <1>8, SidesTyped, SidesTypedNext
  <2>2. Works(inner, new, inner, P, NoLines)  BY <1>4, <1>6, <2>1, WorksNothing
  <2>3. Hears(ServerHad(a), inner, ServerHad(a)')  BY <1>3, <1>4, <1>7, TakesAll
  <2>4. Adds(owed[a], owed'[a], NoLines)
    <3>1. owed[a] \in Lines  BY <1>3, SidesTyped
    <3>2. QED BY <1>2, <3>1, AddsNothing
  <2>5. SameClientSide(a) /\ SentTo(a)' = SentTo(a) /\ Lasts(a)
    BY <1>2, <1>3, ServerLeavesClients DEF Lasts
  <2>6. ConnectionWorks(a)  BY <1>6, <1>8, <2>2, <2>3, <2>4, <2>5, WorksSo
  <2>7. QED BY <1>9, <2>6 DEF StepFor
<1>10. CASE b # a
  <2>1. inner.unordered \o inner.ordered \in Seq(Messages)
    <3>1. inner.unordered \in Seq(Messages) /\ inner.ordered \in Seq(Messages)
      BY <1>4 DEF Inners
    <3>2. QED BY <3>1
  <2>2. Logged(b) \subseteq Logged(b)'  BY <1>3, <1>7, <2>1, LogTakes
  <2>3. QED BY <1>2, <1>8, <1>10, <2>2, ServerIdles
<1>11. QED BY <1>9, <1>10

\* multi.rs:209-245: a datagram, for every client.
LEMMA HandleSteps ==
    ASSUME TypeOK, TypeOK', NEW datagram \in net, datagram.to = Server,
           NEW intact \in BOOLEAN, Handle(datagram, intact),
           UNCHANGED <<client, net, scenario, written, heard, heardOrdered, removals, restarts>>,
           NEW b \in Client
    PROVE  StepFor(b)
<1>1. CASE b = datagram.from
  <2>1. ConnectionWorks(datagram.from)  BY HandleWorks
  <2>2. QED BY <1>1, <2>1 DEF StepFor
<1>2. CASE b # datagram.from  BY <1>2, HandleIdles
<1>3. QED BY <1>1, <1>2

\* multi.rs:327-348: retain and remove.
LEMMA RemoveSteps ==
    ASSUME TypeOK, NEW a \in Client, RemoveConnection(a), NEW b \in Client
    PROVE  StepFor(b)
<1>1. /\ coms' = [d \in DOMAIN coms \ {a} |-> coms[d]]
      /\ removals' = [removals EXCEPT ![a] = @ + 1]
      /\ owed' = [owed EXCEPT ![a] = NoLines]
      /\ UNCHANGED <<client, net, scenario, written, log, heard, heardOrdered, restarts>>
  BY DEF RemoveConnection
<1>2. removals \in [Client -> Nat] /\ owed \in [Client -> Lines]  BY DEF TypeOK
<1>3. CASE b = a
  <2>1. SameClientSide(a) /\ SentTo(a)' = SentTo(a)  BY <1>1, ServerLeavesClients
  <2>2. Entry(a)' = NewInner  BY <1>1 DEF Entry
  <2>3. removals'[a] = removals[a] + 1  BY <1>1, <1>2
  <2>4. ConnectionForgets(a)  BY <1>1, <2>1, <2>2, <2>3 DEF ConnectionForgets
  <2>5. QED BY <1>3, <2>4 DEF StepFor
<1>4. CASE b # a
  <2>1. Entry(b)' = Entry(b)  BY <1>1, <1>4 DEF Entry
  <2>2. removals'[b] = removals[b] /\ owed'[b] = owed[b]  BY <1>1, <1>2, <1>4
  <2>3. Logged(b) \subseteq Logged(b)'  BY <1>1 DEF Logged
  <2>4. QED BY <1>1, <2>1, <2>2, <2>3, ServerIdles
<1>5. QED BY <1>3, <1>4

\* What is in the datagrams that send hands to the socket.
LEMMA PacketsOf ==
    ASSUME NEW from, NEW to, NEW contents
    PROVE  {d.packet : d \in Datagrams(from, to, contents)} = contents
<1> DEFINE all == Datagrams(from, to, contents)
<1>1. \A d \in all : d.packet \in contents  BY DEF Datagrams
<1>2. ASSUME NEW p \in contents PROVE p \in {d.packet : d \in all}
  <2> DEFINE e == [from |-> from, to |-> to, packet |-> p]
  <2>1. e \in all /\ e.packet = p  BY DEF Datagrams
  <2> HIDE DEF all, e
  <2>2. QED BY <2>1
<1> HIDE DEF all
<1>3. QED BY <1>1, <1>2 DEF all

\* multi.rs:282-315: send, on every connection.
LEMMA ServerSendSteps ==
    ASSUME TypeOK, NEW due, ServerSend(due), NEW b \in Client
    PROVE  StepFor(b)
<1> DEFINE dueOn(a) == {<<d[2], d[3]>> : d \in {e \in due : e[1] = a}}
           of(a) == Datagrams(Server, a, Outgoing(coms[a], dueOn(a)))
<1>1. /\ coms' = [a \in DOMAIN coms |-> AfterSend(coms[a], dueOn(a))]
      /\ net' = net \cup UNION {of(a) : a \in DOMAIN coms}
      /\ UNCHANGED <<client, scenario, history>>
  BY DEF ServerSend
<1> HIDE DEF dueOn
<1>2. \A a : \A d \in of(a) : d.from = Server /\ d.to = a  BY DEF Datagrams
<1>3. {d.packet : d \in of(b)} = Outgoing(coms[b], dueOn(b))  BY PacketsOf
<1> HIDE DEF of
<1>4. b # Server  BY MultiAssumption
<1>5. SentBy(b)' = SentBy(b)
  <2>1. {e \in net' : e.from = b} = {e \in net : e.from = b}  BY <1>1, <1>2, <1>4
  <2>2. QED BY <2>1 DEF SentBy
<1>6. /\ SameClientSide(b) /\ Lasts(b) /\ owed'[b] = owed[b]
      /\ Logged(b)' = Logged(b)
  BY <1>1, <1>5 DEF SameClientSide, Lasts, Written, Logged, history
<1>7. CASE b \in DOMAIN coms
  <2>1. Entry(b)' = AfterSend(Entry(b), dueOn(b))  BY <1>1, <1>7 DEF Entry
  <2>2. {e \in net' : e.to = b} = {e \in net : e.to = b} \cup of(b)
    BY <1>1, <1>2, <1>7
  <2>3. SentTo(b)' = SentTo(b) \cup Outgoing(Entry(b), dueOn(b))
    BY <1>3, <1>7, <2>2 DEF SentTo, Entry
  <2>4. ServerHad(b) \subseteq ServerHad(b)'
    <3>1. Entry(b) \in Inners  BY SidesTyped
    <3>2. Entry(b)'.unordered = Entry(b).unordered /\ Entry(b)'.ordered = Entry(b).ordered
      BY <2>1, <3>1, SendReadsNothing DEF SameAsRead
    <3>3. QED BY <1>6, <3>2 DEF ServerHad, Logged
  <2>5. ConnectionSends(b)  BY <1>6, <2>1, <2>3, <2>4 DEF ConnectionSends
  <2>6. QED BY <2>5 DEF StepFor
<1>8. CASE b \notin DOMAIN coms
  <2>1. Entry(b)' = Entry(b)  BY <1>1, <1>8 DEF Entry
  <2>2. {e \in net' : e.to = b} = {e \in net : e.to = b}  BY <1>1, <1>2, <1>8
  <2>3. SentTo(b)' = SentTo(b)  BY <2>2 DEF SentTo
  <2>4. ServerHad(b) \subseteq ServerHad(b)'  BY <1>6, <2>1 DEF ServerHad, Logged
  <2>5. QED BY <1>6, <2>1, <2>3, <2>4, IdleStep DEF SameServerSide
<1>9. QED BY <1>7, <1>8

\* Every step of the server.
LEMMA ServerStepsFor ==
    ASSUME TypeOK, TypeOK', ServerSteps, NEW b \in Client
    PROVE  StepFor(b)
<1>1. ASSUME NEW datagram \in net, NEW intact \in BOOLEAN, ReceiveDatagram(datagram, intact)
      PROVE  StepFor(b)
  <2>1. /\ datagram.to = Server /\ Handle(datagram, intact)
        /\ UNCHANGED <<client, net, scenario, written, heard, heardOrdered, removals, restarts>>
    BY <1>1 DEF ReceiveDatagram
  <2>2. QED BY <2>1, HandleSteps
<1>2. ASSUME NEW datagram \in net, DelayPacket(datagram) PROVE StepFor(b)
  <2>1. UNCHANGED <<coms, client, net, scenario, history>>  BY <1>2 DEF DelayPacket
  <2>2. Entry(b)' = Entry(b) /\ Logged(b) \subseteq Logged(b)'
    BY <2>1 DEF Entry, Logged, history
  <2>3. QED BY <2>1, <2>2, ServerIdles DEF history
<1>3. ASSUME NEW i \in DOMAIN delayed, NEW intact \in BOOLEAN, ReceiveDelayed(i, intact)
      PROVE  StepFor(b)
  <2>1. delayed[i] \in net /\ delayed[i].to = Server
    <3>1. delayed \in Seq({d \in net : d.to = Server})  BY DEF TypeOK
    <3>2. delayed[i] \in {d \in net : d.to = Server}  BY <3>1
    <3>3. QED BY <3>2
  <2>2. /\ Handle(delayed[i], intact)
        /\ UNCHANGED <<client, net, scenario, written, heard, heardOrdered, removals, restarts>>
    BY <1>3 DEF ReceiveDelayed
  <2>3. QED BY <2>1, <2>2, HandleSteps
<1>4. ASSUME NEW a \in Client, Connect(a) PROVE StepFor(b)
  <2>1. coms' = WithEntry(a, Entry(a)) /\ UNCHANGED <<client, net, scenario, history>>
    BY <1>4 DEF Connect
  <2>2. Entry(b)' = Entry(b) /\ Logged(b) \subseteq Logged(b)'
    BY <2>1, EntryAfter DEF Logged, history
  <2>3. QED BY <2>1, <2>2, ServerIdles DEF history
<1>5. QED
  BY <1>1, <1>2, <1>3, <1>4, FinishSteps, RemoveSteps, ServerWriteSteps, ReadAllSteps,
     ServerSendSteps DEF ServerSteps, ServerSends

\* The sides that a step of a client leaves alone.
LEMMA ClientLeavesServer ==
    ASSUME UNCHANGED <<coms, log, owed, scenario, removals>>, NEW a \in Client,
           SentTo(a)' = SentTo(a)
    PROVE  SameServerSide(a)
<1>1. Entry(a)' = Entry(a)  BY DEF Entry
<1>2. ServerHad(a) \subseteq ServerHad(a)'  BY <1>1 DEF ServerHad
<1>3. QED BY <1>1, <1>2 DEF SameServerSide

LEMMA OtherClientIdles ==
    ASSUME TypeOK, UNCHANGED <<coms, log, owed, scenario, removals>>, NEW b \in Client,
           client'[b] = client[b], written'[b] = written[b], heard'[b] = heard[b],
           heardOrdered'[b] = heardOrdered[b], restarts'[b] = restarts[b],
           SentBy(b)' = SentBy(b), SentTo(b)' = SentTo(b)
    PROVE  StepFor(b)
<1>1. SameServerSide(b)  BY ClientLeavesServer
<1>2. Written(b)' = Written(b)  BY DEF Written
<1>3. SameClientSide(b) /\ Lasts(b)  BY <1>2 DEF SameClientSide, Lasts
<1>4. QED BY <1>1, <1>3, IdleStep

\* Bags.tla and SequencesExt.tla: what (+) and ToBag do, and that a bag stays as it is.
LEMMA InBag ==
    ASSUME NEW bag, IsABag(bag), NEW S, NEW s \in Seq(S)
    PROVE  PutsIn(bag, s, bag (+) ToBag(s))
<1> DEFINE more == ToBag(s)
           sum == bag (+) more
<1>1. more = [x \in Range(s) |-> Cardinality({i \in DOMAIN s : s[i] = x})]  BY DEF ToBag
<1>2. BagToSet(more) = Range(s) /\ \A x \in Range(s) : more[x] = Cardinality(Where(s, x))
  BY <1>1 DEF BagToSet, Where
<1> HIDE DEF more
<1>3. BagToSet(sum) = BagToSet(bag) \cup BagToSet(more)  BY DEF (+), BagToSet
<1>4. ASSUME NEW m \in BagToSet(sum)
      PROVE  sum[m] = Copies(bag, m) + Copies(more, m)
  BY <1>4 DEF (+), BagToSet, Copies, BagIn
<1>5. ASSUME NEW m PROVE Copies(more, m) = Cardinality(Where(s, m))
  <2>1. CASE m \in Range(s)  BY <1>2, <2>1 DEF Copies, BagIn
  <2>2. CASE m \notin Range(s)
    <3>1. Where(s, m) = {}  BY <2>2 DEF Where, Range
    <3>2. QED BY <1>2, <2>2, <3>1, FS_EmptySet DEF Copies, BagIn
  <2>3. QED BY <2>1, <2>2
<1> HIDE DEF sum
<1>6. \A m \in BagToSet(sum) : sum[m] = Copies(bag, m) + Cardinality(Where(s, m))
  BY <1>4, <1>5
<1>7. PutsIn(bag, s, sum)  BY <1>2, <1>3, <1>6 DEF PutsIn
<1>8. QED BY <1>7 DEF sum, more

LEMMA PutsNothing ==
    ASSUME NEW bag, IsABag(bag) PROVE PutsIn(bag, << >>, bag)
<1>1. Range(<< >>) = {} /\ \A m : Where(<< >>, m) = {}  BY DEF Range, Where
<1>2. Cardinality({}) = 0  BY FS_EmptySet
<1>3. ASSUME NEW m \in BagToSet(bag) PROVE bag[m] = Copies(bag, m) + 0
  <2>1. bag[m] \in Nat  BY <1>3 DEF IsABag, BagToSet
  <2>2. Copies(bag, m) = bag[m]  BY <1>3 DEF Copies, BagIn
  <2>3. QED BY <2>1, <2>2
<1>4. QED BY <1>1, <1>2, <1>3 DEF PutsIn

LEMMA AppendConcat ==
    ASSUME NEW T, NEW m \in T
    PROVE  \A s \in Seq(T) : s \o << >> = s /\ Append(s, m) = s \o <<m>>
<1> SUFFICES ASSUME NEW s \in Seq(T) PROVE s \o << >> = s /\ Append(s, m) = s \o <<m>>
  OBVIOUS
<1>1. s \o << >> = s  OBVIOUS
<1>2. << >> \in Seq(T) /\ Append(<< >>, m) = <<m>>  OBVIOUS
<1>3. \A t \in Seq(T) : Append(s \o t, m) = s \o Append(t, m)  OBVIOUS
<1>4. QED BY <1>1, <1>2, <1>3

\* A line of n messages.
WrittenOn(a, c, n) == [k \in 1 .. n |-> [from |-> a, channel |-> c, number |-> k - 1]]

LEMMA OneMore ==
    ASSUME NEW a \in Client, NEW c \in Channel, NEW n \in Nat
    PROVE  WrittenOn(a, c, n + 1)
              = Append(WrittenOn(a, c, n), [from |-> a, channel |-> c, number |-> n])
<1> DEFINE of(k) == [from |-> a, channel |-> c, number |-> k - 1]
           old == [k \in 1 .. n |-> of(k)]
           next == [k \in 1 .. n + 1 |-> of(k)]
<1>1. \A k \in 1 .. n + 1 : of(k) \in Messages  BY DEF Messages
<1>2. of(n + 1) = [from |-> a, channel |-> c, number |-> n]
  <2>1. n + 1 - 1 = n  OBVIOUS
  <2>2. QED BY <2>1
<1>3. WrittenOn(a, c, n) = old /\ WrittenOn(a, c, n + 1) = next  BY DEF WrittenOn
<1> HIDE DEF of
<1>4. old \in Seq(Messages) /\ Len(old) = n /\ next \in Seq(Messages) /\ Len(next) = n + 1
  BY <1>1
<1>5. next[n + 1] = of(n + 1) /\ \A k \in 1 .. n : next[k] = old[k]  OBVIOUS
<1>6. of(n + 1) \in Messages  BY <1>1
<1> DEFINE m == of(n + 1)
<1> HIDE DEF old, next, m
<1>7. next = Append(old, m)  BY <1>4, <1>5, <1>6 DEF m
<1>8. QED BY <1>2, <1>3, <1>7 DEF m

\* mod.rs:23-27: a write.
LEMMA ClientWriteSteps ==
    ASSUME TypeOK, TypeOK', NEW a \in Client, NEW c \in Channel, ClientWrite(a, c),
           NothingLeft(a), NEW b \in Client
    PROVE  StepFor(b)
<1> DEFINE m == Message(a, c)
           inner == client[a]
           new == Enqueue(inner, c, m)
           n == written[a][c]
           line == Written(a)
           more == Written(a)'
           ext == [NoLines EXCEPT ![c] = <<m>>]
           P == SentTo(a)
<1>1. /\ client' = [client EXCEPT ![a] = new]
      /\ written' = [written EXCEPT ![a][c] = @ + 1]
      /\ UNCHANGED <<serverVars, net, scenario, log, heard, heardOrdered, owed,
                     owedBefore, removals, restarts>>
  BY DEF ClientWrite
<1>2. UNCHANGED <<coms, net, scenario, log, heard, heardOrdered, owed, removals, restarts>>
  BY <1>1 DEF serverVars
<1>3. /\ client \in [Client -> Inners]
      /\ written \in [Client \cup {Server} -> [Channel -> Nat]]
      /\ m \in Messages
  BY MessageType DEF TypeOK
<1>4. SentBy(b)' = SentBy(b) /\ SentTo(b)' = SentTo(b)  BY <1>2, SamePackets
<1>5. CASE b = a
  <2>1. inner \in Inners /\ P \subseteq Packets /\ line \in Lines /\ more \in Lines
    BY SidesTyped, SidesTypedNext
  <2>2. SameButQueue(inner, new)  BY <1>3, <2>1, EnqueueType
  <2>3. client'[a] = new  BY <1>1, <1>3
  <2>4. /\ new.sendQueue[c] = Append(inner.sendQueue[c], m)
        /\ \A d \in Channel : d # c => new.sendQueue[d] = inner.sendQueue[d]
    BY <2>1 DEF Enqueue, Inners
  <2>5. /\ ext \in Lines /\ ext[c] = <<m>>
        /\ \A d \in Channel : d # c => ext[d] = << >>
    <3>1. NoLines \in Lines /\ \A d \in Channel : NoLines[d] = << >>
      BY DEF NoLines, Lines
    <3>2. <<m>> \in Seq(Messages)  BY <1>3
    <3> HIDE DEF m
    <3>3. QED BY <3>1, <3>2 DEF Lines
  <2>6. n \in Nat /\ written'[a][c] = n + 1
        /\ \A d \in Channel : d # c => written'[a][d] = written[a][d]
    BY <1>1, <1>3
  <2>7. more[c] = Append(line[c], m)
    <3>1. line[c] = WrittenOn(a, c, n) /\ more[c] = WrittenOn(a, c, n + 1)
      BY <2>6 DEF Written, WrittenOn
    <3>2. m = [from |-> a, channel |-> c, number |-> n]  BY DEF Message
    <3> HIDE DEF m, n, line, more
    <3>3. QED BY <2>6, <3>1, <3>2, OneMore
  <2>8. ASSUME NEW d \in Channel, d # c PROVE more[d] = line[d]
    BY <2>6, <2>8 DEF Written
  <2>9. \A s \in Seq(Messages) : s \o << >> = s /\ Append(s, m) = s \o <<m>>
    <3> HIDE DEF m
    <3>1. QED BY <1>3, AppendConcat
  <2>10. ASSUME NEW d \in Channel
         PROVE  inner.sendQueue[d] \in Seq(Messages) /\ line[d] \in Seq(Messages)
    BY <2>1 DEF Inners, Lines
  <2> HIDE DEF m, inner, new, n, line, more, ext, P
  <2>11. ASSUME NEW d \in Channel
         PROVE  new.sendQueue[d] = inner.sendQueue[d] \o ext[d] /\ more[d] = line[d] \o ext[d]
    <3>1. CASE d = c  BY <2>4, <2>5, <2>7, <2>9, <2>10, <3>1
    <3>2. CASE d # c  BY <2>4, <2>5, <2>8, <2>9, <2>10, <3>2
    <3>3. QED BY <3>1, <3>2
  <2>12. Works(inner, new, inner, P, ext)
    BY <2>1, <2>2, <2>5, <2>11 DEF Works, SameButQueue
  <2>13. Adds(line, more, ext)  BY <2>11 DEF Adds
  <2>14. Empty(inner)  BY DEF NothingLeft, Empty, inner
  <2>15. Empty(new)  BY <2>2, <2>14 DEF Empty, SameButQueue
  <2>16. /\ Hears(ClientHad(a), inner, ClientHad(a)')
         /\ heardOrdered'[a] = heardOrdered[a] \o inner.ordered
         /\ PutsIn(heard[a], inner.unordered, heard'[a])
         /\ ClientHad(a)' = ClientHad(a) \cup Range(inner.unordered) \cup Range(inner.ordered)
    <3>1. Range(inner.unordered) = {} /\ Range(inner.ordered) = {} /\ inner.ordered = << >>
      BY <2>14 DEF Empty, Range
    <3>2. ClientHad(a)' = ClientHad(a)  BY <1>2 DEF ClientHad
    <3>3. heardOrdered[a] \in Seq(Messages)  BY DEF TypeOK
    <3>4. heard'[a] = heard[a] /\ IsABag(heard[a])  BY <1>2 DEF TypeOK
    <3>5. PutsIn(heard[a], << >>, heard'[a])  BY <3>4, PutsNothing
    <3>6. inner.unordered = << >>  BY <2>14 DEF Empty
    <3>7. QED BY <1>2, <2>9, <3>1, <3>2, <3>3, <3>5, <3>6 DEF Hears
  <2>17. SameServerSide(a) /\ SentBy(a)' = SentBy(a) /\ Lasts(a)
    BY <1>2, <1>4, <1>5, ClientLeavesServer DEF Lasts
  <2>18. ClientWorks(a)
    BY <2>3, <2>12, <2>13, <2>15, <2>16, <2>17 DEF ClientWorks, inner, line, more, P
  <2>19. QED BY <1>5, <2>18 DEF StepFor
<1>6. CASE b # a
  <2>1. client'[b] = client[b] /\ written'[b] = written[b]  BY <1>1, <1>3, <1>6
  <2>2. QED BY <1>2, <1>4, <2>1, OtherClientIdles
<1>7. QED BY <1>5, <1>6

\* mod.rs:135-157: recv, read and read_ordered.
LEMMA ClientReceiveSteps ==
    ASSUME TypeOK, TypeOK', NEW a \in Client, NEW datagram \in net,
           ClientReceive(a, datagram), NothingLeft(a), NEW b \in Client
    PROVE  StepFor(b)
<1> DEFINE old == client[a]
           p == datagram.packet
           inner == ReadPacket(old, p)
           new == [inner EXCEPT !.unordered = << >>, !.ordered = << >>]
           P == SentTo(a)
           line == Written(a)
<1>1. /\ client' = [client EXCEPT ![a] = new]
      /\ heard' = [heard EXCEPT ![a] = @ (+) ToBag(inner.unordered)]
      /\ heardOrdered' = [heardOrdered EXCEPT ![a] = @ \o inner.ordered]
      /\ UNCHANGED <<serverVars, net, scenario, written, log, owed, owedBefore, removals, restarts>>
      /\ datagram.to = a
  BY DEF ClientReceive
<1>2. UNCHANGED <<coms, net, scenario, written, log, owed, removals, restarts>>
  BY <1>1 DEF serverVars
<1>3. SentBy(b)' = SentBy(b) /\ SentTo(b)' = SentTo(b)  BY <1>2, SamePackets
<1>4. /\ client \in [Client -> Inners] /\ DOMAIN heard = Client
      /\ heardOrdered \in [Client -> Seq(Messages)]
  BY DEF TypeOK
<1>5. old \in Inners /\ P \subseteq Packets /\ line \in Lines /\ p \in P
  BY <1>1, SidesTyped DEF SentTo
<1> HIDE DEF old, p, P, line
<1>6. inner \in Inners  BY <1>5, ReadPacketType
<1> HIDE DEF inner
<1>7. /\ Empty(new)
      /\ new.sendQueue = inner.sendQueue /\ new.sendPackets = inner.sendPackets
      /\ new.received = inner.received /\ new.head = inner.head
  BY <1>6 DEF Empty, Inners
<1>8. new \in Inners  BY <1>6, EmptiedType
<1> HIDE DEF new
<1>9. CASE b = a
  <2>1. Works(old, new, inner, P, NoLines)
    <3>1. \E q \in P : inner = ReadPacket(old, q)  BY <1>5 DEF inner
    <3>2. QED BY <1>5, <1>6, <1>7, <1>8, <3>1, WorksReading
  <2>2. Written(a)' = line  BY <1>2 DEF Written, line
  <2>3. Adds(line, line, NoLines)  BY <1>5, AddsNothing
  <2>4. /\ client'[a] = new
        /\ heard'[a] = heard[a] (+) ToBag(inner.unordered)
        /\ heardOrdered'[a] = heardOrdered[a] \o inner.ordered
    BY <1>1, <1>4
  <2>5. /\ PutsIn(heard[a], inner.unordered, heard'[a])
        /\ Hears(ClientHad(a), inner, ClientHad(a)')
        /\ ClientHad(a)' = ClientHad(a) \cup Range(inner.unordered) \cup Range(inner.ordered)
    <3>1. /\ BagToSet(heard'[a]) = BagToSet(heard[a]) \cup Range(inner.unordered)
          /\ PutsIn(heard[a], inner.unordered, heard'[a])
      <4>1. IsABag(heard[a]) /\ inner.unordered \in Seq(Messages)
        BY <1>6 DEF Inners, TypeOK
      <4>2. PutsIn(heard[a], inner.unordered, heard'[a])  BY <2>4, <4>1, InBag
      <4>3. QED BY <4>2 DEF PutsIn
    <3>2. Range(heardOrdered'[a]) = Range(heardOrdered[a]) \cup Range(inner.ordered)
      <4>1. heardOrdered[a] \in Seq(Messages) /\ inner.ordered \in Seq(Messages)
        BY <1>4, <1>6 DEF Inners
      <4>2. QED BY <2>4, <4>1, RangeOfBoth
    <3>3. QED BY <3>1, <3>2 DEF Hears, ClientHad
  <2>6. SameServerSide(a) /\ SentBy(a)' = SentBy(a) /\ Lasts(a)
    BY <1>2, <1>3, <1>9, ClientLeavesServer DEF Lasts
  <2>7. ClientWorks(a)
    BY <1>7, <2>1, <2>2, <2>3, <2>4, <2>5, <2>6 DEF ClientWorks, old, line, P
  <2>8. QED BY <1>9, <2>7 DEF StepFor
<1>10. CASE b # a
  <2>1. /\ client'[b] = client[b] /\ heard'[b] = heard[b]
        /\ heardOrdered'[b] = heardOrdered[b]
    BY <1>1, <1>4, <1>10
  <2>2. QED BY <1>2, <1>3, <2>1, OtherClientIdles
<1>11. QED BY <1>9, <1>10

\* mod.rs:52-133: send.
LEMMA ClientSendSteps ==
    ASSUME TypeOK, NEW a \in Client, NEW due, ClientSend(a, due), NEW b \in Client
    PROVE  StepFor(b)
<1> DEFINE out == Outgoing(client[a], due)
           new == AfterSend(client[a], due)
           more == Datagrams(a, Server, out)
<1>1. /\ client' = [client EXCEPT ![a] = new]
      /\ net' = net \cup more
      /\ UNCHANGED <<serverVars, scenario, history>>
  BY DEF ClientSend
<1>2. UNCHANGED <<coms, scenario, written, log, heard, heardOrdered, owed, removals, restarts>>
  BY <1>1 DEF serverVars, history
<1>3. client \in [Client -> Inners]  BY DEF TypeOK
<1>4. \A d \in more : d.from = a /\ d.to = Server  BY DEF Datagrams
<1>5. {d.packet : d \in more} = out  BY PacketsOf
<1> HIDE DEF more, new, out
<1>6. SentTo(b)' = SentTo(b)
  <2>1. b # Server  BY MultiAssumption
  <2>2. {e \in net' : e.to = b} = {e \in net : e.to = b}  BY <1>1, <1>4, <2>1
  <2>3. QED BY <2>2 DEF SentTo
<1>7. CASE b = a
  <2>1. client'[a] = new  BY <1>1, <1>3
  <2>2. {e \in net' : e.from = a} = {e \in net : e.from = a} \cup more  BY <1>1, <1>4
  <2>3. SentBy(a)' = SentBy(a) \cup out  BY <1>5, <2>2 DEF SentBy
  <2>4. Written(a)' = Written(a)  BY <1>2 DEF Written
  <2>5. SameServerSide(a) /\ Lasts(a)
    BY <1>2, <1>6, <1>7, ClientLeavesServer DEF Lasts
  <2>6. ClientSends(a)
    BY <1>2, <2>1, <2>3, <2>4, <2>5 DEF ClientSends, new, out
  <2>7. QED BY <1>7, <2>6 DEF StepFor
<1>8. CASE b # a
  <2>1. client'[b] = client[b]  BY <1>1, <1>3, <1>8
  <2>2. {e \in net' : e.from = b} = {e \in net : e.from = b}  BY <1>1, <1>4, <1>8
  <2>3. SentBy(b)' = SentBy(b)  BY <2>2 DEF SentBy
  <2>4. QED BY <1>2, <1>6, <2>1, <2>3, OtherClientIdles
<1>9. QED BY <1>7, <1>8

\* The program ends and starts again.
LEMMA ClientRestartSteps ==
    ASSUME TypeOK, NEW a \in Client, ClientRestart(a), NEW b \in Client
    PROVE  StepFor(b)
<1>1. /\ client' = [client EXCEPT ![a] = NewInner]
      /\ restarts' = [restarts EXCEPT ![a] = @ + 1]
      /\ UNCHANGED <<coms, net, scenario, written, log, heard, heardOrdered, owed, removals>>
  BY DEF ClientRestart, serverVars
<1>2. client \in [Client -> Inners] /\ restarts \in [Client -> Nat]  BY DEF TypeOK
<1>3. SentBy(b)' = SentBy(b) /\ SentTo(b)' = SentTo(b)  BY <1>1, SamePackets
<1>4. CASE b = a
  <2>1. client'[a] = NewInner /\ restarts'[a] = restarts[a] + 1  BY <1>1, <1>2
  <2>2. SameServerSide(a)  BY <1>1, <1>3, <1>4, ClientLeavesServer
  <2>3. ClientForgets(a)  BY <1>1, <1>3, <1>4, <2>1, <2>2 DEF ClientForgets
  <2>4. QED BY <1>4, <2>3 DEF StepFor
<1>5. CASE b # a
  <2>1. client'[b] = client[b] /\ restarts'[b] = restarts[b]  BY <1>1, <1>2, <1>5
  <2>2. QED BY <1>1, <1>3, <2>1, OtherClientIdles
<1>6. QED BY <1>4, <1>5

\* Every step, for every client.
LEMMA StepsFor ==
    ASSUME TypeOK, TypeOK', \A a \in Client : NothingLeft(a), [Next]_vars, NEW b \in Client
    PROVE  StepFor(b)
<1>1. ASSUME NEW a \in Client, ClientSteps(a) PROVE StepFor(b)
  <2>1. NothingLeft(a)  OBVIOUS
  <2>2. QED BY <1>1, <2>1, ClientWriteSteps, ClientReceiveSteps, ClientSendSteps,
               ClientRestartSteps DEF ClientSteps
<1>2. CASE UNCHANGED vars
  <2>1. /\ UNCHANGED <<coms, client, net, scenario, written, log, heard, heardOrdered, owed>>
        /\ UNCHANGED <<removals, restarts>>
    BY <1>2 DEF vars, history
  <2>2. SentBy(b)' = SentBy(b) /\ SentTo(b)' = SentTo(b)  BY <2>1, SamePackets
  <2>3. QED BY <2>1, <2>2, OtherClientIdles
<1>3. CASE ServerSteps  BY <1>3, ServerStepsFor
<1>4. QED BY <1>1, <1>2, <1>3 DEF Next

-----------------------------------------------------------------------------
(* The invariants, and the theorems.                                       *)

LEMMA InitDelivery ==
    ASSUME Init PROVE DeliveryInvariant
<1>1. /\ coms = << >> /\ net = {} /\ log = << >>
      /\ client = [a \in Client |-> NewInner]
      /\ written = [x \in Client \cup {Server} |-> [c \in Channel |-> 0]]
      /\ heardOrdered = [a \in Client |-> << >>]
      /\ owed = [a \in Client |-> NoLines]
  BY DEF Init
<1>2. \A c \in Channel : NoLines[c] = << >>  BY DEF NoLines
<1>3. "ordered" \in Channel  BY DEF Channel
<1>4. ASSUME NEW a \in Client
      PROVE  /\ Entry(a) = NewInner /\ client[a] = NewInner
             /\ SentBy(a) = {} /\ SentTo(a) = {}
             /\ \A c \in Channel : Written(a)[c] = << >> /\ owed[a][c] = << >>
  <2>1. Entry(a) = NewInner /\ client[a] = NewInner  BY <1>1 DEF Entry
  <2>2. SentBy(a) = {} /\ SentTo(a) = {}  BY <1>1 DEF SentBy, SentTo
  <2>3. ASSUME NEW c \in Channel PROVE Written(a)[c] = << >>
    <3>1. written[a][c] = 0  BY <1>1
    <3>2. Written(a)[c] = [k \in 1 .. 0 |-> [from |-> a, channel |-> c, number |-> k - 1]]
      BY <3>1 DEF Written
    <3>3. QED BY <3>2
  <2>4. QED BY <1>1, <1>2, <2>1, <2>2, <2>3
<1>5. ASSUME NEW a \in Client, NEW c \in Channel
      PROVE  UpInOrder(a, c) /\ UpSettled(a, c) /\ DownInOrder(a, c) /\ DownSettled(a, c)
  <2>1. /\ Entry(a) = NewInner /\ client[a] = NewInner
        /\ SentBy(a) = {} /\ SentTo(a) = {}
        /\ Written(a)[c] = << >> /\ Written(a)["ordered"] = << >>
        /\ owed[a][c] = << >> /\ owed[a]["ordered"] = << >>
    BY <1>3, <1>4
  <2>2. \A had, line : line[c] = << >> /\ line["ordered"] = << >> =>
           /\ Direction(NewInner, NewInner, {}, had, line, c)
           /\ Settled(NewInner, NewInner, {}, had, line, c)
    BY NewDirection
  <2>3. QED BY <2>1, <2>2 DEF UpInOrder, UpSettled, DownInOrder, DownSettled
<1>6. ASSUME NEW a \in Client PROVE NothingLeft(a) /\ HeardTheLine(a)
  <2>1. Empty(NewInner) /\ NewInner.head = 0  BY <1>3, NewHoldsNothing DEF Empty
  <2>2. NothingLeft(a)  BY <1>4, <2>1 DEF NothingLeft, Empty
  <2>3. heardOrdered[a] = << >> /\ Len(<< >>) = 0 /\ DOMAIN << >> = {}  BY <1>1
  <2>4. client[a].head = 0  BY <1>4, <2>1
  <2>5. HeardTheLine(a)  BY <2>3, <2>4 DEF HeardTheLine
  <2>6. QED BY <2>2, <2>5
<1>7. QED BY <1>5, <1>6 DEF DeliveryInvariant, OrderInvariant

LEMMA OrderNext ==
    ASSUME TypeOK, TypeOK', FewOwed, OrderInvariant, [Next]_vars
    PROVE  OrderInvariant'
<1> SUFFICES ASSUME NEW a \in Client
             PROVE  /\ NothingLeft(a)' /\ HeardTheLine(a)'
                    /\ \A c \in Channel : DownInOrder(a, c)'
  BY DEF OrderInvariant
<1>1. /\ \A b \in Client : NothingLeft(b)
      /\ HeardTheLine(a) /\ \A c \in Channel : DownInOrder(a, c)
  BY DEF OrderInvariant
<1>2. StepFor(a)  BY <1>1, StepsFor
<1>3. OwedBounded(a) /\ "ordered" \in Channel  BY DEF FewOwed, OwedBounded, Channel
<1>4. NothingLeft(a)'  BY <1>1, <1>2, NothingLeftStep
<1>5. HeardTheLine(a)'  BY <1>1, <1>2, <1>3, HeardTheLineStep
<1>6. \A c \in Channel : DownInOrder(a, c)'  BY <1>1, <1>2, <1>3, DownOrderStep
<1>7. QED BY <1>4, <1>5, <1>6

\* scenario.load bounds what a client writes.
LEMMA LinesBounded ==
    ASSUME FewMessages, ReadInvariant, NEW a \in Client
    PROVE  WrittenBounded(a)
<1> SUFFICES ASSUME NEW c \in Channel PROVE Len(Written(a)[c]) < U16 - NumItems
  BY DEF WrittenBounded
<1>1. TypeOK /\ ClientInOrder(a)  BY DEF ReadInvariant
<1>2. written[a][c] <= scenario.load[a][c]  BY <1>1 DEF ClientInOrder
<1>3. Len(Written(a)[c]) = written[a][c] /\ written[a][c] \in Nat  BY <1>1, SidesTyped
<1>4. scenario \in Scenarios  BY <1>1 DEF TypeOK
<1>5. scenario.load[a][c] < U16 - NumItems  BY <1>4 DEF FewMessages
<1>6. scenario.load[a][c] \in Nat
  <2>1. scenario.load \in [Client -> [Channel -> Nat]]  BY <1>4, MultiAssumption
  <2>2. QED BY <2>1
<1> DEFINE n == written[a][c]
           most == scenario.load[a][c]
<1> HIDE DEF n, most
<1>7. n \in Nat /\ most \in Nat /\ n <= most /\ most < U16 - NumItems
  BY <1>2, <1>3, <1>5, <1>6 DEF n, most
<1>8. n < U16 - NumItems  BY <1>7, Numbers
<1>9. QED BY <1>3, <1>8 DEF n

LEMMA DeliveryNext ==
    ASSUME ~ GivesUp, FewMessages, ReadInvariant, TypeOK', FewOwed, DeliveryInvariant, [Next]_vars
    PROVE  DeliveryInvariant'
<1>1. TypeOK /\ OrderInvariant  BY DEF ReadInvariant, DeliveryInvariant
<1>2. OrderInvariant'  BY <1>1, OrderNext
<1>3. ASSUME NEW a \in Client, NEW c \in Channel
      PROVE  UpInOrder(a, c)' /\ UpSettled(a, c)' /\ DownSettled(a, c)'
  <2>1. /\ UpInOrder(a, c) /\ UpSettled(a, c) /\ DownSettled(a, c)
        /\ DownInOrder(a, c)
        /\ \A b \in Client : NothingLeft(b)
    BY DEF DeliveryInvariant, OrderInvariant
  <2>2. StepFor(a)  BY <1>1, <2>1, StepsFor
  <2>3. OwedBounded(a)  BY DEF FewOwed, OwedBounded
  <2>4. WrittenBounded(a)  BY LinesBounded
  <2>5. UpInOrder(a, c)'  BY <1>1, <2>1, <2>2, <2>4, UpOrderStep
  <2>6. UpSettled(a, c)'  BY <1>1, <2>1, <2>2, <2>4, UpSettledStep
  <2>7. DownSettled(a, c)'  BY <1>1, <2>1, <2>2, <2>3, DownSettledStep
  <2>8. QED BY <2>5, <2>6, <2>7
<1>4. QED BY <1>2, <1>3 DEF DeliveryInvariant

LEMMA OrderSuffices ==
    ASSUME TypeOK, OrderInvariant PROVE HeardInOrder
<1> SUFFICES ASSUME NEW a \in Client, removals[a] = 0, restarts[a] = 0
             PROVE  IsPrefix(heardOrdered[a], owed[a]["ordered"])
  BY DEF HeardInOrder
<1> DEFINE out == heardOrdered[a]
           line == owed[a]["ordered"]
           h == client[a].head
<1>1. "ordered" \in Channel  BY DEF Channel
<1>2. out \in Seq(Messages) /\ line \in Seq(Messages) /\ h \in Nat
  <2>1. out \in Seq(Messages) /\ owed[a] \in Lines /\ client[a] \in Inners  BY DEF TypeOK
  <2>2. QED BY <1>1, <2>1, Parts, Numbers DEF Lines
<1>3. Len(out) = h /\ \A k \in DOMAIN out : out[k] = line[k]
  BY DEF OrderInvariant, HeardTheLine
<1>4. h <= Len(line)
  <2>1. DownInOrder(a, "ordered")  BY <1>1 DEF OrderInvariant
  <2>2. Direction(Entry(a), client[a], SentTo(a), ClientHad(a), owed[a], "ordered")
    BY <2>1 DEF DownInOrder, DownLasts
  <2>3. QED BY <2>2 DEF Direction, HandedOn
<1> HIDE DEF out, line, h
<1>5. Len(out) <= Len(line) /\ DOMAIN out = 1 .. Len(out)  BY <1>2, <1>3, <1>4
<1>6. IsPrefix(out, line)
  <2>1. \A k \in 1 .. Len(out) : out[k] = line[k]  BY <1>3, <1>5
  <2>2. Len(out) \in Nat /\ Len(line) \in Nat  BY <1>2
  <2>3. SubSeq(line, 1, Len(out)) = out  BY <1>2, <1>5, <2>1, <2>2
  <2>4. QED BY <1>5, <2>1, <2>2, <2>3 DEF IsPrefix
<1>7. QED BY <1>6 DEF out, line

\* multi.rs:366-417: what the callbacks of one or of several recv asked for comes
\* out of the ordered channel of every client in the order in which they asked for
\* it, whatever the network loses, repeats and reorders, and also if the library
\* is let to give up, as long as ids do not wrap around on the connection.
THEOREM MultiHeardInOrder == Spec /\ []FewOwed => []HeardInOrder
<1>1. Init => OrderInvariant  BY InitDelivery DEF DeliveryInvariant
<1>2. TypeOK /\ TypeOK' /\ FewOwed /\ OrderInvariant /\ [Next]_vars => OrderInvariant'
  BY OrderNext
<1>3. TypeOK /\ OrderInvariant => HeardInOrder  BY OrderSuffices
<1>4. Spec => []TypeOK  BY MultiTypeCorrect
<1>5. QED BY <1>1, <1>2, <1>3, <1>4, PTL DEF Spec

\* What a line says of its messages: they wait for the sender, or the receiver had
\* them, or they wait for their turn.
LEMMA NothingMissing ==
    ASSUME NEW S \in Inners, NEW R \in Inners, NEW P, NEW Q, NEW had, NEW line \in Lines,
           NEW c \in Channel, Direction(S, R, P, had, line, c), Settled(S, R, Q, had, line, c),
           NEW k \in 1 .. Len(line[c])
    PROVE  line[c][k] \in Unsettled(S) \cup had \cup Waiting(R)
<1> DEFINE next == NextId(S, c)
           i == k - 1
           m == line[c][k]
<1>1. /\ InLine(S, line, c) /\ HoldsLine(S, R, line, c)
      /\ c = "ordered" => HandedOn(R, had, line)
  BY DEF Direction
<1>2. next \in Nat /\ next \in Index /\ Len(line[c]) \in Nat
  BY <1>1, NextIdIs, IdsInLine
<1>3. Len(line[c]) = next + Len(S.sendQueue[c])  BY <1>1 DEF InLine
<1>4. /\ Len(S.sendQueue[c]) \in Nat
      /\ DOMAIN S.sendQueue[c] = 1 .. Len(S.sendQueue[c])
  BY Parts
<1> HIDE DEF next
<1>5. i \in Nat /\ i + 1 = k  BY <1>2
<1>6. CASE i >= next
  <2> DEFINE j == k - next
  <2>1. j \in DOMAIN S.sendQueue[c] /\ next + j = k
    <3> DEFINE all == Len(line[c])
               queued == Len(S.sendQueue[c])
    <3>1. /\ all \in Nat /\ queued \in Nat /\ next \in Nat /\ all = next + queued
          /\ k \in 1 .. all /\ k - 1 >= next
      BY <1>2, <1>3, <1>4, <1>6
    <3> HIDE DEF all, queued
    <3>2. j \in 1 .. queued /\ next + j = k  BY <3>1
    <3>3. QED BY <1>4, <3>2 DEF queued
  <2> HIDE DEF j
  <2>2. S.sendQueue[c][j] = m  BY <1>1, <2>1 DEF InLine, next
  <2>3. m \in Range(S.sendQueue[c])  BY <2>1, <2>2 DEF Range
  <2> HIDE DEF m
  <2>4. m \in Unsettled(S)  BY <2>3 DEF Unsettled
  <2>5. QED BY <2>4 DEF m
<1>7. CASE i < next
  <2>1. i \in 0 .. next - 1 /\ i \in Index  BY <1>2, <1>5, <1>7, Numbers
  <2>2. i \in Arrived(R, had, line, c) \/ i \in Keys(S.sendPackets[c])
    BY <2>1 DEF Settled, next
  <2>3. CASE i \in Keys(S.sendPackets[c])
    <3>1. Get(S.sendPackets[c], i).message = m  BY <1>1, <1>5, <2>3 DEF InLine
    <3> HIDE DEF m, i
    <3>2. m \in {Get(S.sendPackets[c], j).message : j \in Keys(S.sendPackets[c])}
      BY <2>3, <3>1
    <3>3. m \in Unsettled(S)  BY <3>2 DEF Unsettled
    <3>4. QED BY <3>3 DEF m
  <2>4. CASE i \in Arrived(R, had, line, c)
    <3>1. CASE c = "reliable"
      <4>1. line[c][i + 1] \in had  BY <2>4, <3>1 DEF Arrived
      <4>2. QED BY <1>5, <4>1
    <3>2. CASE c = "ordered"
      <4>1. i < R.head \/ Get(R.received[c], i) # None  BY <2>4, <3>2 DEF Arrived
      <4>2. CASE i < R.head
        <5>1. R.head \in Nat  BY <3>2, Parts, Numbers
        <5>2. k \in 1 .. R.head  BY <1>5, <4>2, <5>1
        <5>3. QED BY <1>1, <3>2, <5>2 DEF HandedOn
      <4>3. CASE i >= R.head /\ Get(R.received[c], i) # None
        <5>1. Get(R.received[c], i) = <<m>>  BY <1>1, <1>5, <2>1, <4>3 DEF HoldsLine
        <5>2. i \in {j \in Keys(R.received[c]) : j >= R.head}
          <6>1. R.received[c] \in Rings(Contents)  BY Parts
          <6>2. i \in Keys(R.received[c])  BY <2>1, <4>3, <6>1, KeysAreFound
          <6>3. QED BY <4>3, <6>2
        <5> HIDE DEF m, i
        <5>3. m \in Range(Get(R.received[c], i))
          <6>1. <<m>>[1] = m /\ 1 \in DOMAIN <<m>>  OBVIOUS
          <6>2. QED BY <5>1, <6>1 DEF Range
        <5>4. m \in Waiting(R)  BY <3>2, <5>2, <5>3 DEF Waiting
        <5>5. QED BY <5>4 DEF m
      <4>4. i < R.head \/ i >= R.head
        <5>1. R.head \in Nat  BY <3>2, Parts, Numbers
        <5> HIDE DEF i
        <5>2. QED BY <1>5, <5>1
      <4>5. QED BY <4>1, <4>2, <4>3, <4>4
    <3>3. QED BY <3>1, <3>2 DEF Channel
  <2>5. QED BY <2>2, <2>3, <2>4
<1>8. QED BY <1>2, <1>5, <1>6, <1>7

LEMMA DeliverySuffices ==
    ASSUME TypeOK, DeliveryInvariant PROVE NothingLost
<1>1. ASSUME NEW a \in Client, NEW c \in Channel, UpLasts(a, c), NEW m \in Sent(a, c)
      PROVE  ReachesServer(a, m)
  <2>1. PICK n \in 0 .. written[a][c] - 1 : m = [from |-> a, channel |-> c, number |-> n]
    BY DEF Sent
  <2>2. /\ client[a] \in Inners /\ Entry(a) \in Inners /\ Written(a) \in Lines
        /\ Len(Written(a)[c]) = written[a][c] /\ written[a][c] \in Nat
    BY SidesTyped
  <2>3. n + 1 \in 1 .. written[a][c] /\ n + 1 - 1 = n  BY <2>2
  <2>4. Written(a)[c][n + 1] = m  BY <2>1, <2>3 DEF Written
  <2> DEFINE S == client[a]
             R == Entry(a)
             P == SentBy(a)
             Q == SentTo(a)
             had == ServerHad(a)
             line == Written(a)
             k == n + 1
  <2>5. Direction(S, R, P, had, line, c) /\ Settled(S, R, Q, had, line, c)
    BY <1>1 DEF DeliveryInvariant, UpInOrder, UpSettled
  <2>6. k \in 1 .. Len(line[c])  BY <2>2, <2>3
  <2>7. S \in Inners /\ R \in Inners /\ line \in Lines  BY <2>2
  <2> HIDE DEF S, R, P, Q, had, line, k
  <2>8. line[c][k] \in Unsettled(S) \cup had \cup Waiting(R)
    BY <2>5, <2>6, <2>7, NothingMissing
  <2>9. m \in Unsettled(client[a]) \cup ServerHad(a) \cup Waiting(Entry(a))
    BY <2>4, <2>8 DEF S, R, had, line, k
  <2>10. ServerHad(a) \subseteq Logged(a) \cup Waiting(Entry(a))
    BY DEF ServerHad, Logged, Waiting
  <2>11. QED BY <2>9, <2>10 DEF ReachesServer, Logged
<1>2. ASSUME NEW a \in Client, NEW c \in Channel, DownLasts(a, c), NEW m \in Range(owed[a][c])
      PROVE  ReachesClient(a, m)
  <2>1. /\ client[a] \in Inners /\ Entry(a) \in Inners /\ owed[a] \in Lines
    BY SidesTyped
  <2>2. PICK k \in DOMAIN owed[a][c] : m = owed[a][c][k]  BY DEF Range
  <2>3. k \in 1 .. Len(owed[a][c])
    <3>1. owed[a][c] \in Seq(Messages)  BY <2>1 DEF Lines
    <3>2. QED BY <3>1
  <2> DEFINE S == Entry(a)
             R == client[a]
             P == SentTo(a)
             Q == SentBy(a)
             had == ClientHad(a)
             line == owed[a]
  <2>4. Direction(S, R, P, had, line, c) /\ Settled(S, R, Q, had, line, c)
    BY <1>2 DEF DeliveryInvariant, OrderInvariant, DownInOrder, DownSettled
  <2>5. S \in Inners /\ R \in Inners /\ line \in Lines /\ k \in 1 .. Len(line[c])
    BY <2>1, <2>3
  <2> HIDE DEF S, R, P, Q, had, line
  <2>6. line[c][k] \in Unsettled(S) \cup had \cup Waiting(R)
    BY <2>4, <2>5, NothingMissing
  <2>7. m \in Unsettled(Entry(a)) \cup ClientHad(a) \cup Waiting(client[a])
    BY <2>2, <2>6 DEF S, R, had, line
  <2>8. \A x \in BagToSet(heard[a]) : BagIn(x, heard[a])  BY DEF BagToSet, BagIn
  <2>9. QED BY <2>7, <2>8 DEF ReachesClient, ClientHad
<1>3. "reliable" \in Channel /\ "ordered" \in Channel  BY DEF Channel
<1>4. ASSUME NEW a \in Client
      PROVE  /\ restarts[a] = 0 /\ (removals[a] = 0 \/ scenario.callback # "none") =>
                    UpLasts(a, "reliable")
             /\ removals[a] = 0 => DownLasts(a, "reliable")
             /\ removals[a] = 0 /\ restarts[a] = 0 =>
                    UpLasts(a, "ordered") /\ DownLasts(a, "ordered")
  BY DEF UpLasts, DownLasts
<1>5. QED BY <1>1, <1>2, <1>3, <1>4 DEF NothingLost

\* multi.rs:55-67, mod.rs:23-27: a message is not lost.  On the reliable channel it
\* takes its sender to forget the connection, on the ordered channel either side:
\* until then a message that was written waits in its queue, is in flight, was
\* read, or is held for its turn, whatever the network loses, repeats and reorders.
THEOREM MultiNothingLost ==
    ASSUME FewMessages, ~ GivesUp PROVE Spec /\ []FewOwed => []NothingLost
<1>1. Init => DeliveryInvariant  BY InitDelivery
<1>2. ReadInvariant /\ TypeOK' /\ FewOwed /\ DeliveryInvariant /\ [Next]_vars
         => DeliveryInvariant'
  BY DeliveryNext
<1>3. TypeOK /\ DeliveryInvariant => NothingLost  BY DeliverySuffices
<1>4. Spec => []TypeOK  BY MultiTypeCorrect
<1>5. Spec => []ReadInvariant  BY MultiReadInvariant
<1>6. QED BY <1>1, <1>2, <1>3, <1>4, <1>5, PTL DEF Spec

-----------------------------------------------------------------------------
(* What a client reads was addressed to it.                                *)

\* Places have short ids.
ShortPlaces(places) ==
    \A t \in places : t \in Channel \X Index \X Messages /\ t[2] < IdBound

LEMMA CarriesOne ==
    ASSUME NEW places, ShortPlaces(places), NEW content, NEW c, NEW i,
           Carries(content, c, i, places)
    PROVE  \E m \in Messages : content = <<m>> /\ <<c, i, m>> \in places
<1>1. PICK t \in places : t[1] = c /\ t[2] = i /\ content = <<t[3]>>  BY DEF Carries
<1>2. t \in Channel \X Index \X Messages  BY DEF ShortPlaces
<1>3. t = <<c, i, t[3]>> /\ t[3] \in Messages  BY <1>1, <1>2
<1>4. QED BY <1>1, <1>3

LEMMA CarriesThis ==
    ASSUME NEW places, NEW c, NEW i, NEW m, <<c, i, m>> \in places
    PROVE  Carries(<<m>>, c, i, places)
<1> DEFINE t == <<c, i, m>>
<1>1. t[1] = c /\ t[2] = i /\ t[3] = m  OBVIOUS
<1>2. t \in places  OBVIOUS
<1> HIDE DEF t
<1>3. QED BY <1>1, <1>2 DEF Carries

LEMMA IdBoundIs == IdBound \in Nat /\ IdBound < U16 - NumItems
BY Numbers DEF IdBound

\* inner.rs:181-252: a packet that is not refused is stored, and its id was not known.
StoresFrom(ring, next, i, content, c, places) ==
    /\ next \in Rings(Contents)
    /\ RingFrom(next, c, places)
    /\ ~ Known(ring, i) /\ Known(next, i)
    /\ \A j \in Index : Known(ring, j) => Known(next, j)
    /\ i \in Index
    /\ \E m \in Messages : content = <<m>> /\ <<c, i, m>> \in places

LEMMA StoresPlaces ==
    ASSUME NEW R \in Inners, NEW P, P \subseteq Packets, NEW places, ShortPlaces(places),
           PacketsFrom(P, places), HoldsPlaces(R, places),
           NEW p \in P, NEW c \in Channel, p.channel = c, ~ Refused(R, p)
    PROVE  StoresFrom(R.received[c], Insert(R.received[c], p.sequenceId, p.content),
                      p.sequenceId, p.content, c, places)
<1> DEFINE ring == R.received[c]
           i == p.sequenceId
           item == p.content
           next == Insert(ring, i, item)
<1>1. i \in Index /\ item \in Contents
  <2>1. p \in Packets /\ c # "unreliable"  BY DEF Channel
  <2>2. QED BY <2>1 DEF Packets
<1>2. PICK m \in Messages : item = <<m>> /\ <<c, i, m>> \in places
  BY CarriesOne DEF PacketsFrom
<1>3. i < IdBound  BY <1>2 DEF ShortPlaces
<1>4. ring \in Rings(Contents)  BY Parts
<1>5. /\ ring.newest = LastIndex \/ ring.newest < IdBound
      /\ \A j \in Index : Get(ring, j) # None => Carries(Get(ring, j), c, j, places)
  BY DEF HoldsPlaces, RingFrom
<1>6. Get(ring, i) = None /\ ~ TooOld(ring, i)  BY DEF Refused, TooOld
<1>7. None \notin Contents  BY NoneAssumption
<1> HIDE DEF ring, i, item
<1>8. ~ Known(ring, i)
  BY <1>1, <1>3, <1>4, <1>5, <1>6, IdBoundIs, KnownIsRefused
<1>9. /\ next.newest < IdBound /\ Known(next, i)
      /\ \A j \in Index : Known(ring, j) => Known(next, j)
      /\ \A j \in Index : Get(next, j) # None =>
            \/ j = i /\ Get(next, j) = item
            \/ Get(next, j) = Get(ring, j)
  BY <1>1, <1>3, <1>4, <1>5, <1>6, <1>7, IdBoundIs, KnownAfterInsert
<1>10. next \in Rings(Contents)  BY <1>1, <1>4, InsertType
<1> HIDE DEF next
<1>11. ASSUME NEW j \in Index, Get(next, j) # None
       PROVE  Carries(Get(next, j), c, j, places)
  <2>1. CASE j = i /\ Get(next, j) = item  BY <1>2, <2>1, CarriesThis
  <2>2. CASE Get(next, j) = Get(ring, j)  BY <1>5, <1>11, <2>2
  <2>3. QED BY <1>9, <1>11, <2>1, <2>2
<1>12. RingFrom(next, c, places)  BY <1>9, <1>11 DEF RingFrom
<1>13. QED
  BY <1>1, <1>2, <1>8, <1>9, <1>10, <1>12 DEF StoresFrom, ring, i, item, next

\* What reading makes of a client that leaves nothing unread: it goes on to know what
\* it knew; it hands on one message under an id that it did not know, and a row from
\* the ordered head on.
ReadsPlaces(R, new, places) ==
    /\ HoldsPlaces(new, places)
    /\ \A i \in Index : Known(R.received["reliable"], i) => Known(new.received["reliable"], i)
    /\ \/ new.unordered = << >>
       \/ \E i \in Index, m \in Messages :
             /\ new.unordered = <<m>> /\ <<"reliable", i, m>> \in places
             /\ ~ Known(R.received["reliable"], i) /\ Known(new.received["reliable"], i)
    /\ R.head <= new.head /\ Len(new.ordered) = new.head - R.head
    /\ \A k \in DOMAIN new.ordered : <<"ordered", R.head + k - 1, new.ordered[k]>> \in places

LEMMA ReadsNoPlaces ==
    ASSUME NEW R \in Inners, NEW new, NEW places, HoldsPlaces(R, places),
           new.received = R.received, new.head = R.head,
           new.unordered = << >>, new.ordered = << >>
    PROVE  ReadsPlaces(R, new, places)
<1>1. HoldsPlaces(new, places)  BY DEF HoldsPlaces
<1>2. R.head \in Nat  BY Numbers DEF Inners
<1>3. Len(<< >>) = 0 /\ DOMAIN << >> = {} /\ R.head <= R.head /\ R.head - R.head = 0
  BY <1>2
<1>4. QED BY <1>1, <1>3 DEF ReadsPlaces

\* inner.rs:239-252: on the reliable channel.
LEMMA ReadsReliablePlaces ==
    ASSUME NEW R \in Inners, NEW P, P \subseteq Packets, NEW places, ShortPlaces(places),
           PacketsFrom(P, places), HoldsPlaces(R, places), Empty(R),
           NEW p \in P, p.channel = "reliable", ~ Refused(R, p)
    PROVE  ReadsPlaces(R, ReadReliable(R, p), places)
<1> DEFINE acked == Acknowledge(R, p.ack)
           ring == R.received["reliable"]
           stored == Insert(ring, p.sequenceId, p.content)
           received == [R.received EXCEPT !["reliable"] = stored]
           unordered == R.unordered \o p.content
           new == ReadReliable(R, p)
           i == p.sequenceId
           item == p.content
<1>1. "reliable" \in Channel /\ p \in Packets  BY DEF Channel
<1>2. /\ acked \in Inners /\ acked.received = R.received
      /\ acked.unordered = R.unordered /\ acked.ordered = R.ordered /\ acked.head = R.head
  BY <1>1, AcknowledgeType
<1>3. new = [acked EXCEPT !.received = received, !.unordered = unordered]
  BY <1>2 DEF ReadReliable, Inners
<1> HIDE DEF acked, received, unordered
<1>4. /\ new.received = received /\ new.unordered = unordered
      /\ new.ordered = R.ordered /\ new.head = R.head
  BY <1>2, <1>3 DEF Inners
<1>5. /\ received["reliable"] = stored
      /\ \A c \in Channel : c # "reliable" => received[c] = R.received[c]
  BY <1>1 DEF received, Inners
<1>6. StoresFrom(ring, stored, i, item, "reliable", places)  BY <1>1, StoresPlaces
<1> HIDE DEF new, stored, ring, i, item
<1>7. PICK m \in Messages : item = <<m>> /\ <<"reliable", i, m>> \in places
  BY <1>6 DEF StoresFrom
<1>8. unordered = <<m>>
  <2>1. unordered = << >> \o <<m>>  BY <1>7 DEF unordered, Empty, item
  <2>2. QED BY <2>1
<1>9. HoldsPlaces(new, places)
  BY <1>4, <1>5, <1>6 DEF HoldsPlaces, StoresFrom, RingFrom
<1>10. /\ i \in Index /\ ~ Known(ring, i) /\ Known(stored, i)
       /\ \A j \in Index : Known(ring, j) => Known(stored, j)
  BY <1>6 DEF StoresFrom
<1>11. R.ordered = << >> /\ R.head \in Nat  BY Numbers DEF Empty, Inners
<1>12. Len(<< >>) = 0 /\ DOMAIN << >> = {} /\ R.head <= R.head /\ R.head - R.head = 0
  BY <1>11
<1>13. /\ new.received["reliable"] = stored /\ new.unordered = <<m>>
       /\ new.ordered = << >> /\ new.head = R.head
  BY <1>4, <1>5, <1>8, <1>11
<1>14. QED
  BY <1>7, <1>9, <1>10, <1>12, <1>13 DEF ReadsPlaces, ring, new

\* inner.rs:253-268: on the ordered channel.
LEMMA ReadsOrderedPlaces ==
    ASSUME NEW R \in Inners, NEW P, P \subseteq Packets, NEW places, ShortPlaces(places),
           PacketsFrom(P, places), HoldsPlaces(R, places), Empty(R),
           NEW p \in P, p.channel = "ordered", ~ Refused(R, p)
    PROVE  ReadsPlaces(R, ReadOrdered(R, p), places)
<1> DEFINE acked == Acknowledge(R, p.ack)
           stored == Insert(R.received["ordered"], p.sequenceId, p.content)
           count == ReadyCount(stored, R.head)
           ready == [j \in 1 .. count |-> Get(stored, WrappingAdd(R.head, j - 1))[1]]
           received == [R.received EXCEPT !["ordered"] = stored]
           ordered == R.ordered \o ready
           new == ReadOrdered(R, p)
           h == R.head
<1>1. "ordered" \in Channel /\ p \in Packets  BY DEF Channel
<1>2. /\ acked \in Inners /\ acked.received = R.received
      /\ acked.unordered = R.unordered /\ acked.ordered = R.ordered /\ acked.head = h
  BY <1>1, AcknowledgeType
<1>3. new = [acked EXCEPT !.received = received, !.head = WrappingAdd(h, count),
                          !.ordered = ordered]
  BY <1>2 DEF ReadOrdered, Inners
<1> HIDE DEF acked, received, ordered
<1>4. /\ new.received = received /\ new.unordered = R.unordered
      /\ new.ordered = ordered /\ new.head = WrappingAdd(h, count)
  BY <1>2, <1>3 DEF Inners
<1>5. /\ received["ordered"] = stored
      /\ \A c \in Channel : c # "ordered" => received[c] = R.received[c]
  BY <1>1 DEF received, Inners
<1>6. stored \in Rings(Contents) /\ RingFrom(stored, "ordered", places)
  BY <1>1, StoresPlaces DEF StoresFrom
<1>7. h \in Index /\ h \in Nat /\ h <= IdBound
  BY Numbers DEF HoldsPlaces, Inners
<1> HIDE DEF new, stored, h
<1>8. /\ count \in 0 .. NumItems
      /\ \A j \in 0 .. count - 1 : Get(stored, WrappingAdd(h, j)) # None
  BY <1>6, <1>7, ReadyCountType DEF h
<1> HIDE DEF count
<1>9. count \in Nat /\ count <= NumItems /\ NumItems \in Nat  BY <1>8, Numbers
<1>10. ASSUME NEW j \in 0 .. count PROVE WrappingAdd(h, j) = h + j /\ h + j \in Index
  BY <1>7, <1>9, IdBoundIs, Numbers DEF WrappingAdd, IdBound
<1>11. ASSUME NEW k \in 1 .. count
       PROVE  /\ <<"ordered", h + k - 1, ready[k]>> \in places /\ ready[k] \in Messages
              /\ h + k - 1 < IdBound
  <2>1. k - 1 \in 0 .. count - 1 /\ k - 1 \in 0 .. count  BY <1>9
  <2>2. WrappingAdd(h, k - 1) = h + (k - 1) /\ h + (k - 1) \in Index /\ h + (k - 1) = h + k - 1
    BY <1>7, <1>10, <2>1
  <2>3. Get(stored, h + k - 1) # None /\ h + k - 1 \in Index  BY <1>8, <2>1, <2>2
  <2>4. PICK m \in Messages : Get(stored, h + k - 1) = <<m>> /\ <<"ordered", h + k - 1, m>> \in places
    <3> DEFINE i == h + k - 1
    <3>1. Carries(Get(stored, i), "ordered", i, places)  BY <1>6, <2>3 DEF RingFrom
    <3> HIDE DEF i
    <3>2. \E m \in Messages : Get(stored, i) = <<m>> /\ <<"ordered", i, m>> \in places
      BY <3>1, CarriesOne
    <3>3. QED BY <3>2 DEF i
  <2>5. ready[k] = Get(stored, WrappingAdd(h, k - 1))[1]  BY DEF h
  <2>6. ready[k] = m  BY <2>2, <2>4, <2>5
  <2>7. QED BY <2>4, <2>6 DEF ShortPlaces
<1>12. ready \in Seq(Messages) /\ Len(ready) = count /\ DOMAIN ready = 1 .. count
  <2> DEFINE of(j) == Get(stored, WrappingAdd(h, j - 1))[1]
  <2>1. ready = [j \in 1 .. count |-> of(j)]  BY DEF h
  <2>2. \A j \in 1 .. count : of(j) \in Messages
    <3>1. \A j \in 1 .. count : ready[j] = of(j)  BY <2>1
    <3> HIDE DEF ready, of
    <3>2. QED BY <1>11, <3>1
  <2> HIDE DEF of, ready
  <2>3. QED BY <1>9, <2>1, <2>2
<1>13. ordered = << >> \o ready  BY DEF Empty, ordered
<1> HIDE DEF ready
<1>14. ordered = ready  BY <1>12, <1>13
<1>15. new.head = h + count
  <2>1. count \in 0 .. count  BY <1>9
  <2>2. QED BY <1>4, <1>10, <2>1
<1>16. h + count <= IdBound
  <2>1. CASE count = 0  BY <1>7, <2>1
  <2>2. CASE count # 0
    <3>1. count \in 1 .. count  BY <1>9, <2>2
    <3>2. h + count - 1 < IdBound  BY <1>11, <3>1
    <3>3. QED BY <1>7, <1>9, <3>2, IdBoundIs
  <2>3. QED BY <2>1, <2>2
<1>17. HoldsPlaces(new, places)
  BY <1>4, <1>5, <1>6, <1>15, <1>16 DEF HoldsPlaces
<1>18. new.received["reliable"] = R.received["reliable"] /\ new.unordered = << >>
  BY <1>4, <1>5 DEF Channel, Empty
<1>19. h <= new.head /\ Len(new.ordered) = new.head - h
  BY <1>4, <1>7, <1>9, <1>12, <1>14, <1>15
<1>20. QED
  BY <1>4, <1>11, <1>12, <1>14, <1>17, <1>18, <1>19 DEF ReadsPlaces, h, new

LEMMA PacketReadsPlaces ==
    ASSUME NEW R \in Inners, NEW P, P \subseteq Packets, NEW places, ShortPlaces(places),
           PacketsFrom(P, places), HoldsPlaces(R, places), Empty(R), NEW p \in P
    PROVE  ReadsPlaces(R, ReadPacket(R, p), places)
<1> DEFINE new == ReadPacket(R, p)
<1>1. p \in Packets /\ (p.channel \in Channel \/ p.channel = "unreliable")  BY DEF Packets
<1>2. CASE p.channel = "unreliable"
  <2>1. new = Acknowledge(R, p.ack)
    BY <1>2 DEF ReadPacket, ReadHeartbeat, Channel
  <2>2. /\ new.received = R.received /\ new.head = R.head
        /\ new.unordered = R.unordered /\ new.ordered = R.ordered
    BY <1>1, <2>1, AcknowledgeType
  <2> HIDE DEF new
  <2>3. ReadsPlaces(R, new, places)  BY <2>2, ReadsNoPlaces DEF Empty
  <2>4. QED BY <2>3 DEF new
<1>3. CASE p.channel \in Channel /\ Refused(R, p)
  <2>1. new = [R EXCEPT !.duplicate = TRUE]  BY <1>3 DEF ReadPacket, Channel
  <2>2. /\ new.received = R.received /\ new.head = R.head
        /\ new.unordered = R.unordered /\ new.ordered = R.ordered
    BY <2>1 DEF Inners
  <2> HIDE DEF new
  <2>3. ReadsPlaces(R, new, places)  BY <2>2, ReadsNoPlaces DEF Empty
  <2>4. QED BY <2>3 DEF new
<1>4. CASE p.channel = "reliable" /\ ~ Refused(R, p)
  <2>1. new = ReadReliable(R, p)  BY <1>4 DEF ReadPacket, Channel
  <2>2. QED BY <1>4, <2>1, ReadsReliablePlaces
<1>5. CASE p.channel = "ordered" /\ ~ Refused(R, p)
  <2>1. new = ReadOrdered(R, p)  BY <1>5 DEF ReadPacket, Channel
  <2>2. QED BY <1>5, <2>1, ReadsOrderedPlaces
<1>6. QED BY <1>1, <1>2, <1>3, <1>4, <1>5 DEF Channel

\* What a line has queued, and that it stays as the line grows.
LEMMA QueuedIs ==
    ASSUME NEW line \in Lines, NEW c, NEW i, NEW m
    PROVE  <<c, i, m>> \in Queued(line)
              <=> c \in Channel /\ i \in Nat /\ i < Len(line[c]) /\ line[c][i + 1] = m
<1>1. ASSUME <<c, i, m>> \in Queued(line)
      PROVE  c \in Channel /\ i \in Nat /\ i < Len(line[c]) /\ line[c][i + 1] = m
  <2>1. PICK d \in Channel : \E k \in DOMAIN line[d] : <<c, i, m>> = <<d, k - 1, line[d][k]>>
    BY <1>1 DEF Queued
  <2>2. PICK k \in DOMAIN line[d] : <<c, i, m>> = <<d, k - 1, line[d][k]>>  BY <2>1
  <2>3. d = c /\ i = k - 1 /\ m = line[c][k]  BY <2>2
  <2>4. line[c] \in Seq(Messages)  BY <2>1, <2>3 DEF Lines
  <2>5. k \in 1 .. Len(line[c]) /\ Len(line[c]) \in Nat  BY <2>2, <2>3, <2>4
  <2> DEFINE n == Len(line[c])
  <2> HIDE DEF n
  <2>6. k \in 1 .. n /\ n \in Nat  BY <2>5 DEF n
  <2>7. i \in Nat /\ i < n /\ i + 1 = k  BY <2>3, <2>6
  <2>8. QED BY <2>1, <2>3, <2>7 DEF n
<1>2. ASSUME c \in Channel, i \in Nat, i < Len(line[c]), line[c][i + 1] = m
      PROVE  <<c, i, m>> \in Queued(line)
  <2>1. line[c] \in Seq(Messages)  BY <1>2 DEF Lines
  <2>2. Len(line[c]) \in Nat /\ DOMAIN line[c] = 1 .. Len(line[c])  BY <2>1
  <2>3. i + 1 \in DOMAIN line[c] /\ i + 1 - 1 = i  BY <1>2, <2>2
  <2>4. <<c, i, m>> = <<c, i + 1 - 1, line[c][i + 1]>>  BY <1>2, <2>3
  <2>5. QED BY <1>2, <2>3, <2>4 DEF Queued
<1>3. QED BY <1>1, <1>2

LEMMA QueuedTriples ==
    ASSUME NEW line, NEW t \in Queued(line)
    PROVE  \E c, i, m : t = <<c, i, m>>
BY DEF Queued

LEMMA QueuedGrows ==
    ASSUME NEW line \in Lines, NEW more \in Lines, \A c \in Channel : Longer(line, more, c)
    PROVE  Queued(line) \subseteq Queued(more)
<1> SUFFICES ASSUME NEW t \in Queued(line) PROVE t \in Queued(more)
  OBVIOUS
<1>1. PICK c, i, m : t = <<c, i, m>>  BY QueuedTriples
<1>2. c \in Channel /\ i \in Nat /\ i < Len(line[c]) /\ line[c][i + 1] = m
  BY <1>1, QueuedIs
<1>3. Longer(line, more, c)  BY <1>2
<1>4. line[c] \in Seq(Messages) /\ more[c] \in Seq(Messages)  BY <1>2 DEF Lines
<1>5. Len(line[c]) \in Nat /\ Len(more[c]) \in Nat  BY <1>4
<1> DEFINE n == Len(line[c])
           k == Len(more[c])
<1>6. n \in Nat /\ k \in Nat /\ n <= k /\ i < n  BY <1>2, <1>3, <1>5 DEF Longer
<1>7. \A j \in 1 .. n : more[c][j] = line[c][j]  BY <1>3 DEF Longer
<1> HIDE DEF n, k
<1>8. i < k /\ i + 1 \in 1 .. n  BY <1>2, <1>6
<1>9. more[c][i + 1] = m  BY <1>2, <1>7, <1>8
<1>10. QED BY <1>1, <1>2, <1>8, <1>9, QueuedIs DEF k

LEMMA QueuedShort ==
    ASSUME NEW line \in Lines, \A c \in Channel : Len(line[c]) < U16 - NumItems
    PROVE  ShortPlaces(Queued(line))
<1> SUFFICES ASSUME NEW t \in Queued(line)
             PROVE  t \in Channel \X Index \X Messages /\ t[2] < IdBound
  BY DEF ShortPlaces
<1>1. PICK c, i, m : t = <<c, i, m>>  BY QueuedTriples
<1>2. c \in Channel /\ i \in Nat /\ i < Len(line[c]) /\ line[c][i + 1] = m
  BY <1>1, QueuedIs
<1>3. line[c] \in Seq(Messages) /\ Len(line[c]) < U16 - NumItems  BY <1>2 DEF Lines
<1>4. Len(line[c]) \in Nat  BY <1>3
<1> DEFINE n == Len(line[c])
<1>5. m \in Messages
  <2>1. i + 1 \in 1 .. Len(line[c])  BY <1>2, <1>4
  <2>2. QED BY <1>2, <1>3, <2>1
<1>6. n \in Nat /\ i < n /\ n < U16 - NumItems  BY <1>2, <1>3, <1>4
<1> HIDE DEF n
<1>7. i < IdBound /\ i \in Index  BY <1>2, <1>6, Numbers DEF IdBound
<1>8. QED BY <1>1, <1>2, <1>5, <1>7

\* multi.rs:61-67: what becomes of the lines of a connection.
LinesKept(a) ==
    \/ owedBefore'[a] = owedBefore[a] /\ removals'[a] = removals[a]
    \/ /\ owedBefore'[a] = Append(owedBefore[a], owed[a])
       /\ owed'[a] = NoLines
       /\ removals'[a] = removals[a] + 1

LEMMA StepsKeepLines ==
    ASSUME TypeOK, [Next]_vars, NEW a \in Client PROVE LinesKept(a)
<1>1. /\ owed \in [Client -> Lines] /\ owedBefore \in [Client -> Seq(Lines)]
      /\ removals \in [Client -> Nat]
  BY DEF TypeOK
<1>2. CASE UNCHANGED <<owedBefore, removals>>  BY <1>2 DEF LinesKept
<1>3. ASSUME NEW b \in Client, RemoveConnection(b) PROVE LinesKept(a)
  <2>1. /\ removals' = [removals EXCEPT ![b] = @ + 1]
        /\ owed' = [owed EXCEPT ![b] = NoLines]
        /\ owedBefore' = [owedBefore EXCEPT ![b] = Append(@, owed[b])]
    BY <1>3 DEF RemoveConnection
  <2>2. CASE b = a
    <3>1. /\ removals'[a] = removals[a] + 1 /\ owed'[a] = NoLines
          /\ owedBefore'[a] = Append(owedBefore[a], owed[a])
      BY <1>1, <2>1, <2>2
    <3>2. QED BY <3>1 DEF LinesKept
  <2>3. CASE b # a
    <3>1. removals'[a] = removals[a] /\ owedBefore'[a] = owedBefore[a]
      BY <1>1, <2>1, <2>3
    <3>2. QED BY <3>1 DEF LinesKept
  <2>4. QED BY <2>2, <2>3
<1>4. ASSUME NEW b \in Client, ClientSteps(b) PROVE UNCHANGED <<owedBefore, removals>>
  BY <1>4 DEF ClientSteps, ClientWrite, ClientSend, ClientReceive, ClientRestart, history
<1>5. ASSUME ServerSteps
      PROVE  UNCHANGED <<owedBefore, removals>> \/ \E b \in Client : RemoveConnection(b)
  BY <1>5 DEF ServerSteps, ReceiveDatagram, DelayPacket, ReceiveDelayed, Finish, Connect,
              ServerWrite, ReadAll, ServerSends, ServerSend, history
<1>6. CASE UNCHANGED vars  BY <1>2, <1>6 DEF vars, history
<1>7. QED BY <1>2, <1>3, <1>4, <1>5, <1>6 DEF Next

\* What is owed to a grows, but when its connection is forgotten.
LEMMA OwedGrows ==
    ASSUME TypeOK, TypeOK', NEW a \in Client, StepFor(a), ~ ConnectionForgets(a), NEW c \in Channel
    PROVE  Longer(owed[a], owed'[a], c)
<1> DEFINE line == owed[a]
           more == owed'[a]
<1>1. line \in Lines /\ more \in Lines  BY SidesTyped, SidesTypedNext
<1> HIDE DEF line, more
<1>2. CASE more = line
  <2>1. line[c] \in Seq(Messages)  BY <1>1 DEF Lines
  <2>2. Len(line[c]) \in Nat  BY <2>1
  <2>3. QED BY <1>2, <2>2 DEF Longer, line, more
<1>3. CASE ConnectionWorks(a)
  <2>1. PICK inner, ext : Works(Entry(a), Entry(a)', inner, SentBy(a), ext) /\ Adds(line, more, ext)
    BY <1>3 DEF ConnectionWorks, line, more
  <2>2. ext[c] \in Seq(Messages) /\ more[c] = line[c] \o ext[c]
    BY <2>1 DEF Works, Adds, Lines
  <2>3. QED BY <1>1, <2>2, Extended DEF line, more
<1>4. more = line \/ ConnectionWorks(a)
  BY DEF StepFor, ConnectionSends, ClientWorks, ClientSends, ClientForgets, SameServerSide,
         line, more
<1>5. QED BY <1>2, <1>3, <1>4

\* Places stay, under whatever connection.
LEMMA PlacesGrow ==
    ASSUME TypeOK, TypeOK', NEW a \in Client, StepFor(a), LinesKept(a)
    PROVE  Places(a) \subseteq Places(a)'
<1> DEFINE before == owedBefore[a]
           after == owedBefore'[a]
<1>1. /\ owed[a] \in Lines /\ owed'[a] \in Lines /\ before \in Seq(Lines)
  BY SidesTyped, SidesTypedNext DEF TypeOK
<1>2. /\ Places(a) = Queued(owed[a]) \cup UNION {Queued(before[life]) : life \in DOMAIN before}
      /\ Places(a)' = Queued(owed'[a]) \cup UNION {Queued(after[life]) : life \in DOMAIN after}
  BY DEF Places, Queued
<1> HIDE DEF before, after
<1>3. CASE after = before /\ removals'[a] = removals[a]
  <2>1. ~ ConnectionForgets(a)
    <3>1. removals[a] \in Nat  BY SidesTyped
    <3>2. QED BY <1>3, <3>1 DEF ConnectionForgets
  <2>2. \A c \in Channel : Longer(owed[a], owed'[a], c)  BY <2>1, OwedGrows
  <2>3. Queued(owed[a]) \subseteq Queued(owed'[a])  BY <1>1, <2>2, QueuedGrows
  <2>4. QED BY <1>2, <1>3, <2>3
<1>4. CASE after = Append(before, owed[a])
  <2>1. Len(before) \in Nat /\ DOMAIN before = 1 .. Len(before)  BY <1>1
  <2> DEFINE n == Len(before)
             line == owed[a]
  <2>2. /\ DOMAIN after = 1 .. n + 1 /\ after[n + 1] = line
        /\ \A life \in 1 .. n : after[life] = before[life]
    <3> HIDE DEF line
    <3>1. line \in Lines /\ after = Append(before, line)  BY <1>1, <1>4 DEF line
    <3>2. QED BY <1>1, <3>1
  <2> HIDE DEF n, line
  <2>3. n \in Nat /\ DOMAIN before = 1 .. n  BY <2>1 DEF n
  <2>4. n + 1 \in DOMAIN after /\ \A life \in DOMAIN before : life \in DOMAIN after
    BY <2>2, <2>3
  <2>5. Queued(line) \subseteq UNION {Queued(after[life]) : life \in DOMAIN after}
    BY <2>2, <2>4
  <2>6. ASSUME NEW life \in DOMAIN before
        PROVE  Queued(before[life]) \subseteq UNION {Queued(after[j]) : j \in DOMAIN after}
    <3>1. after[life] = before[life] /\ life \in DOMAIN after  BY <2>2, <2>3, <2>4
    <3>2. QED BY <3>1
  <2>7. QED BY <1>2, <2>5, <2>6 DEF line
<1>5. QED BY <1>3, <1>4 DEF LinesKept, before, after

\* The lines of all the connections to a are short.
LinesShort(a) ==
    /\ \A c \in Channel : Len(owed[a][c]) < U16 - NumItems
    /\ \A life \in DOMAIN owedBefore[a], c \in Channel :
          Len(owedBefore[a][life][c]) < U16 - NumItems

LEMMA PlacesShort ==
    ASSUME TypeOK, NEW a \in Client, LinesShort(a) PROVE ShortPlaces(Places(a))
<1>1. owed[a] \in Lines /\ owedBefore[a] \in Seq(Lines)  BY DEF TypeOK
<1>2. ShortPlaces(Queued(owed[a]))  BY <1>1, QueuedShort DEF LinesShort
<1>3. ASSUME NEW life \in DOMAIN owedBefore[a] PROVE ShortPlaces(Queued(owedBefore[a][life]))
  <2>1. owedBefore[a][life] \in Lines  BY <1>1
  <2>2. QED BY <2>1, QueuedShort DEF LinesShort
<1>4. QED BY <1>2, <1>3 DEF ShortPlaces, Places

LEMMA LinesStayShort ==
    ASSUME TypeOK, NEW a \in Client, LinesShort(a), LinesKept(a)
    PROVE  \A life \in DOMAIN owedBefore'[a], c \in Channel :
               Len(owedBefore'[a][life][c]) < U16 - NumItems
<1> DEFINE before == owedBefore[a]
           after == owedBefore'[a]
           line == owed[a]
           n == Len(before)
<1>1. line \in Lines /\ before \in Seq(Lines)  BY DEF TypeOK
<1>2. CASE after = before  BY <1>2 DEF LinesShort
<1>3. CASE after = Append(before, line)
  <2> HIDE DEF before, after, line
  <2>1. /\ n \in Nat /\ DOMAIN before = 1 .. n
        /\ DOMAIN after = 1 .. n + 1 /\ after[n + 1] = line
        /\ \A life \in 1 .. n : after[life] = before[life]
    BY <1>1, <1>3
  <2> HIDE DEF n
  <2>2. ASSUME NEW life \in DOMAIN after
        PROVE  after[life] = line \/ (life \in DOMAIN before /\ after[life] = before[life])
    BY <2>1
  <2>3. QED BY <2>2 DEF LinesShort, before, after, line
<1>4. QED BY <1>2, <1>3 DEF LinesKept

LEMMA NewInLine ==
    ASSUME NEW c \in Channel PROVE InLine(NewInner, NoLines, c)
<1>1. NoLines[c] = << >>  BY DEF NoLines
<1>2. Len(<< >>) = 0 /\ DOMAIN << >> = {} /\ 0 + 0 = 0  OBVIOUS
<1>3. QED BY <1>1, <1>2, NewHoldsNothing DEF InLine

\* What a connection packed and queued is its line, whatever became of the client.
LEMMA ConnectionInLine ==
    ASSUME TypeOK, TypeOK', NEW a \in Client, StepFor(a), LinesKept(a), LinesShort(a),
           NEW c \in Channel, InLine(Entry(a), owed[a], c)
    PROVE  InLine(Entry(a)', owed'[a], c)
<1> DEFINE S == Entry(a)
           S2 == Entry(a)'
           line == owed[a]
           more == owed'[a]
<1>1. S \in Inners /\ line \in Lines /\ more \in Lines /\ removals[a] \in Nat
  BY SidesTyped, SidesTypedNext
<1>2. CASE ConnectionWorks(a)
  <2>1. PICK inner, ext : Works(S, S2, inner, SentBy(a), ext) /\ Adds(line, more, ext)
    BY <1>2 DEF ConnectionWorks
  <2>2. more[c] = line[c] \o ext[c]  BY <2>1 DEF Adds
  <2> HIDE DEF S, S2, line, more
  <2>3. InLine(S, line, c)  BY DEF S, line
  <2>4. SendsOnward(S, S2, SentBy(a), line, more, c)
    BY <1>1, <2>1, <2>2, <2>3, WorksInLine
  <2>5. QED BY <2>4 DEF SendsOnward, S2, more
<1>3. CASE ConnectionSends(a)
  <2>1. more = line /\ \E due : S2 = AfterSend(S, due)  BY <1>3 DEF ConnectionSends
  <2>2. PICK due : S2 = AfterSend(S, due)  BY <2>1
  <2>3. Len(line[c]) < U16 - NumItems  BY DEF LinesShort
  <2> HIDE DEF S, S2, line, more
  <2>4. InLine(S, line, c)  BY DEF S, line
  <2>5. InLine(AfterSend(S, due), line, c)  BY <1>1, <2>3, <2>4, SendsInLine
  <2>6. QED BY <2>1, <2>2, <2>5 DEF S2, more
<1>4. CASE ConnectionForgets(a)
  <2>1. S2 = NewInner /\ removals'[a] # removals[a]
    BY <1>1, <1>4 DEF ConnectionForgets
  <2>2. more = NoLines  BY <2>1 DEF LinesKept
  <2> HIDE DEF S2, more
  <2>3. InLine(S2, more, c)  BY <2>1, <2>2, NewInLine
  <2>4. QED BY <2>3 DEF S2, more
<1>5. CASE ClientWorks(a) \/ ClientSends(a) \/ ClientForgets(a)
  <2>1. S2 = S /\ more = line
    BY <1>5 DEF ClientWorks, ClientSends, ClientForgets, SameServerSide
  <2> HIDE DEF S2, more
  <2>2. InLine(S2, more, c)  BY <2>1
  <2>3. QED BY <2>2 DEF S2, more
<1>6. QED BY <1>2, <1>3, <1>4, <1>5 DEF StepFor

\* So its packets carry what was addressed to the client.
LEMMA PacketsFromMore ==
    ASSUME NEW P, NEW places, PacketsFrom(P, places), NEW more, places \subseteq more
    PROVE  PacketsFrom(P, more)
BY DEF PacketsFrom, Carries

LEMMA PacketsAddressed ==
    ASSUME TypeOK, TypeOK', NEW a \in Client, StepFor(a), LinesKept(a), LinesShort(a),
           \A c \in Channel : InLine(Entry(a), owed[a], c), PacketsFrom(SentTo(a), Places(a))
    PROVE  PacketsFrom(SentTo(a)', Places(a)')
<1> DEFINE places == Places(a)
           more == Places(a)'
           P == SentTo(a)
           P2 == SentTo(a)'
<1>1. places \subseteq more  BY PlacesGrow
<1>2. PacketsFrom(P, more)  BY <1>1, PacketsFromMore
<1> HIDE DEF more, P2
<1>3. CASE ConnectionSends(a)
  <2> DEFINE S == Entry(a)
             line == owed[a]
  <2>1. PICK due : P2 = P \cup Outgoing(S, due)  BY <1>3 DEF ConnectionSends, P2
  <2>2. P2 \subseteq Packets
    <3>1. \A d \in net' : d.packet \in Packets  BY DEF TypeOK
    <3>2. P2 = {d.packet : d \in {e \in net' : e.to = a}}  BY DEF P2, SentTo
    <3> HIDE DEF P2
    <3>3. QED BY <3>1, <3>2
  <2>3. S \in Inners /\ line \in Lines  BY SidesTyped
  <2>4. Queued(line) \subseteq more  BY <1>1 DEF Places
  <2>5. \A c \in Channel : InLine(S, line, c) /\ Len(line[c]) < U16 - NumItems
    BY DEF LinesShort
  <2> HIDE DEF S, line
  <2>6. ASSUME NEW p \in Outgoing(S, due), p.channel \in Channel
        PROVE  Carries(p.content, p.channel, p.sequenceId, more)
    <3> DEFINE c == p.channel
               i == p.sequenceId
               next == NextId(AfterSend(S, due), c)
               m == line[c][i + 1]
    <3>1. /\ InLine(AfterSend(S, due), line, c)
          /\ i < next /\ p.content = <<m>>
      BY <2>3, <2>5, <2>6, SendsInLine
    <3>2. AfterSend(S, due) \in Inners  BY <2>3, SendTypes
    <3>3. /\ next \in Nat /\ Len(line[c]) \in Nat /\ next <= Len(line[c])
      BY <2>3, <2>6, <3>1, <3>2, IdsInLine
    <3>4. i \in Nat
      <4>1. p \in Packets /\ c # "unreliable"  BY <2>1, <2>2, <2>6 DEF Channel
      <4>2. QED BY <4>1, Numbers DEF Packets
    <3> DEFINE n == Len(line[c])
    <3>5. i < n
      <4> HIDE DEF i, next, n
      <4>1. i < next /\ next <= n /\ next \in Nat /\ n \in Nat /\ i \in Nat
        BY <3>1, <3>3, <3>4 DEF i, next, n
      <4>2. QED BY <4>1
    <3>6. <<c, i, m>> \in Queued(line)  BY <2>3, <2>6, <3>4, <3>5, QueuedIs
    <3>7. <<c, i, m>> \in more  BY <2>4, <3>6
    <3> HIDE DEF m
    <3>8. QED BY <3>1, <3>7, CarriesThis
  <2>7. PacketsFrom(P2, more)  BY <1>2, <2>1, <2>6 DEF PacketsFrom
  <2>8. QED BY <2>7 DEF P2, more
<1>4. CASE ~ ConnectionSends(a)
  <2>1. P2 = P
    BY <1>4 DEF StepFor, ConnectionWorks, ClientWorks, ClientSends, ClientForgets,
                ConnectionForgets, SameServerSide, P2
  <2>2. PacketsFrom(P2, more)  BY <1>2, <2>1
  <2>3. QED BY <2>2 DEF P2, more
<1>5. QED BY <1>3, <1>4

\* The client, too, goes on to hold only what was addressed to it.
LEMMA HoldsPlacesMore ==
    ASSUME NEW R, NEW places, HoldsPlaces(R, places), NEW more, places \subseteq more
    PROVE  HoldsPlaces(R, more)
BY DEF HoldsPlaces, RingFrom, Carries

LEMMA NewHoldsPlaces ==
    ASSUME NEW places PROVE HoldsPlaces(NewInner, places)
<1>1. "ordered" \in Channel /\ 0 <= IdBound  BY IdBoundIs DEF Channel
<1>2. NewInner.head <= IdBound  BY <1>1, NewHoldsNothing
<1>3. \A c \in Channel : RingFrom(NewInner.received[c], c, places)
  BY NewHoldsNothing DEF RingFrom
<1>4. QED BY <1>2, <1>3 DEF HoldsPlaces

LEMMA WorksPlaces ==
    ASSUME NEW R, NEW new, NEW inner, NEW P, NEW ext, Works(R, new, inner, P, ext),
           NEW places, ShortPlaces(places), PacketsFrom(P, places), HoldsPlaces(R, places),
           Empty(R)
    PROVE  ReadsPlaces(R, inner, places) /\ HoldsPlaces(new, places)
<1>1. /\ R \in Inners /\ P \subseteq Packets
      /\ inner = R \/ \E p \in P : inner = ReadPacket(R, p)
      /\ new.received = inner.received /\ new.head = inner.head
  BY DEF Works
<1>2. ASSUME inner = R PROVE ReadsPlaces(R, inner, places)
  <2>1. ReadsPlaces(R, R, places)  BY <1>1, ReadsNoPlaces DEF Empty
  <2>2. QED BY <1>2, <2>1
<1>3. ASSUME \E p \in P : inner = ReadPacket(R, p) PROVE ReadsPlaces(R, inner, places)
  <2>1. PICK p \in P : inner = ReadPacket(R, p)  BY <1>3
  <2>2. ReadsPlaces(R, ReadPacket(R, p), places)  BY <1>1, PacketReadsPlaces
  <2>3. QED BY <2>1, <2>2
<1>4. ReadsPlaces(R, inner, places)  BY <1>1, <1>2, <1>3
<1>5. HoldsPlaces(new, places)  BY <1>1, <1>4 DEF ReadsPlaces, HoldsPlaces
<1>6. QED BY <1>4, <1>5

LEMMA HoldsAddressed ==
    ASSUME TypeOK, TypeOK', NEW a \in Client, StepFor(a), LinesKept(a), LinesShort(a),
           NothingLeft(a), PacketsFrom(SentTo(a), Places(a)), HoldsPlaces(client[a], Places(a))
    PROVE  HoldsPlaces(client'[a], Places(a)')
<1> DEFINE R == client[a]
           R2 == client'[a]
           places == Places(a)
<1>1. places \subseteq Places(a)' /\ ShortPlaces(places) /\ R \in Inners
  BY PlacesGrow, PlacesShort, SidesTyped
<1>2. CASE ClientWorks(a)
  <2>1. PICK inner, ext : Works(R, R2, inner, SentTo(a), ext)  BY <1>2 DEF ClientWorks
  <2>2. Empty(R)  BY DEF NothingLeft, Empty
  <2> HIDE DEF R, R2, places
  <2>3. PacketsFrom(SentTo(a), places) /\ HoldsPlaces(R, places)  BY DEF R, places
  <2>4. HoldsPlaces(R2, places)  BY <1>1, <2>1, <2>2, <2>3, WorksPlaces
  <2>5. QED BY <1>1, <2>4, HoldsPlacesMore DEF R2
<1>3. CASE ClientForgets(a)
  <2>1. R2 = NewInner  BY <1>3 DEF ClientForgets
  <2>2. QED BY <2>1, NewHoldsPlaces
<1>4. CASE ConnectionWorks(a) \/ ConnectionSends(a) \/ ConnectionForgets(a) \/ ClientSends(a)
  <2>1. R2 = R \/ \E due : R2 = AfterSend(R, due)
    BY <1>4 DEF ConnectionWorks, ConnectionSends, ConnectionForgets, ClientSends, SameClientSide
  <2>2. R2.received = R.received /\ R2.head = R.head
    BY <1>1, <2>1, SendReadsNothing DEF SameAsRead
  <2> HIDE DEF R, R2
  <2>3. HoldsPlaces(R, Places(a)')  BY <1>1, HoldsPlacesMore DEF R
  <2>4. HoldsPlaces(R2, Places(a)')  BY <2>2, <2>3 DEF HoldsPlaces
  <2>5. QED BY <2>4 DEF R2
<1>5. QED BY <1>2, <1>3, <1>4 DEF StepFor

\* What a client had was addressed to it.
LEMMA ReadsPlaced ==
    ASSUME NEW R, NEW inner, NEW places, ShortPlaces(places), ReadsPlaces(R, inner, places)
    PROVE  Placed(Range(inner.unordered), places) /\ Placed(Range(inner.ordered), places)
<1>1. Placed(Range(inner.unordered), places)
  <2>1. CASE inner.unordered = << >>
    <3>1. Range(<< >>) = {}  BY DEF Range
    <3>2. QED BY <2>1, <3>1 DEF Placed
  <2>2. ASSUME NEW i \in Index, NEW m \in Messages,
               inner.unordered = <<m>>, <<"reliable", i, m>> \in places
        PROVE  Placed(Range(inner.unordered), places)
    <3>1. Range(<<m>>) = {m}  BY DEF Range
    <3>2. "reliable" \in Channel  BY DEF Channel
    <3>3. QED BY <2>2, <3>1, <3>2 DEF Placed
  <2>3. QED BY <2>1, <2>2 DEF ReadsPlaces
<1>2. ASSUME NEW k \in DOMAIN inner.ordered
      PROVE  \E c \in Channel, i \in Index : <<c, i, inner.ordered[k]>> \in places
  <2> DEFINE i == R.head + k - 1
             m == inner.ordered[k]
  <2>1. <<"ordered", i, m>> \in places  BY DEF ReadsPlaces
  <2> HIDE DEF i, m
  <2>2. <<"ordered", i, m>> \in Channel \X Index \X Messages  BY <2>1 DEF ShortPlaces
  <2>3. "ordered" \in Channel /\ i \in Index  BY <2>2
  <2>4. QED BY <2>1, <2>3 DEF m
<1>3. QED BY <1>1, <1>2 DEF Placed, Range

LEMMA HeardAddressed ==
    ASSUME TypeOK, TypeOK', NEW a \in Client, StepFor(a), LinesKept(a), LinesShort(a),
           NothingLeft(a), PacketsFrom(SentTo(a), Places(a)), HoldsPlaces(client[a], Places(a)),
           Placed(ClientHad(a), Places(a))
    PROVE  Placed(ClientHad(a)', Places(a)')
<1> DEFINE R == client[a]
           places == Places(a)
           more == Places(a)'
           had == ClientHad(a)
           had2 == ClientHad(a)'
<1>1. places \subseteq more /\ ShortPlaces(places)  BY PlacesGrow, PlacesShort
<1> HIDE DEF more, had2
<1>2. CASE ClientWorks(a)
  <2>1. PICK inner, ext : /\ Works(R, client'[a], inner, SentTo(a), ext)
                          /\ had2 = had \cup Range(inner.unordered) \cup Range(inner.ordered)
    BY <1>2 DEF ClientWorks, had2
  <2>2. Empty(R)  BY DEF NothingLeft, Empty
  <2> HIDE DEF R, places, had
  <2>3. PacketsFrom(SentTo(a), places) /\ HoldsPlaces(R, places)  BY DEF R, places
  <2>4. ReadsPlaces(R, inner, places)  BY <1>1, <2>1, <2>2, <2>3, WorksPlaces
  <2>5. Placed(Range(inner.unordered), places) /\ Placed(Range(inner.ordered), places)
    BY <1>1, <2>4, ReadsPlaced
  <2>6. Placed(had, places)  BY DEF had, places
  <2>7. Placed(had2, more)  BY <1>1, <2>1, <2>5, <2>6 DEF Placed
  <2>8. QED BY <2>7 DEF had2, more
<1>3. CASE ~ ClientWorks(a)
  <2>1. had2 = had
    BY <1>3 DEF StepFor, ConnectionWorks, ConnectionSends, ClientSends, ClientForgets,
                ConnectionForgets, SameClientSide, ClientHad, had2
  <2>2. Placed(had2, more)  BY <1>1, <2>1 DEF Placed
  <2>3. QED BY <2>2 DEF had2, more
<1>4. QED BY <1>2, <1>3

\* Under each id a client reads one message.
LEMMA KnownForFinite ==
    ASSUME NEW R, NEW m, NEW places
    PROVE  /\ IsFiniteSet(KnownFor(R, m, places))
           /\ Cardinality(KnownFor(R, m, places)) \in Nat
<1>1. IsFiniteSet(Index)
  <2>1. 0 \in Int /\ U16 - 1 \in Int /\ Index = 0 .. U16 - 1  BY Numbers
  <2>2. QED BY <2>1, FS_Interval
<1>2. KnownFor(R, m, places) \in SUBSET Index  BY DEF KnownFor
<1>3. IsFiniteSet(KnownFor(R, m, places))  BY <1>1, <1>2, FS_Subset
<1>4. QED BY <1>3, FS_CardinalityType

LEMMA KnownForMore ==
    ASSUME NEW R, NEW R2, NEW m, NEW places, NEW more, places \subseteq more,
           \A i \in Index : Known(R.received["reliable"], i) => Known(R2.received["reliable"], i)
    PROVE  /\ KnownFor(R, m, places) \subseteq KnownFor(R2, m, more)
           /\ Cardinality(KnownFor(R, m, places)) <= Cardinality(KnownFor(R2, m, more))
<1>1. KnownFor(R, m, places) \subseteq KnownFor(R2, m, more)  BY DEF KnownFor
<1>2. IsFiniteSet(KnownFor(R2, m, more))  BY KnownForFinite
<1>3. QED BY <1>1, <1>2, FS_Subset

LEMMA HeardOnceMore ==
    ASSUME NEW R, NEW R2, R2.received = R.received, R2.head = R.head,
           NEW bag, IsABag(bag), NEW out, NEW places, HeardOnce(R, bag, out, places),
           NEW more, places \subseteq more
    PROVE  HeardOnce(R2, bag, out, more)
<1>1. ASSUME NEW m \in BagToSet(bag)
      PROVE  bag[m] <= Cardinality(KnownFor(R2, m, more))
  <2>1. bag[m] <= Cardinality(KnownFor(R, m, places))  BY DEF HeardOnce
  <2>2. Cardinality(KnownFor(R, m, places)) <= Cardinality(KnownFor(R2, m, more))
    BY KnownForMore
  <2>3. /\ Cardinality(KnownFor(R, m, places)) \in Nat
        /\ Cardinality(KnownFor(R2, m, more)) \in Nat
    BY KnownForFinite
  <2>4. bag[m] \in Nat  BY DEF IsABag, BagToSet
  <2> DEFINE x == Cardinality(KnownFor(R, m, places))
             y == Cardinality(KnownFor(R2, m, more))
             z == bag[m]
  <2> HIDE DEF x, y, z
  <2>5. x \in Nat /\ y \in Nat /\ z \in Nat /\ z <= x /\ x <= y
    BY <2>1, <2>2, <2>3, <2>4 DEF x, y, z
  <2>6. z <= y  BY <2>5
  <2>7. QED BY <2>6 DEF y, z
<1>2. QED BY <1>1 DEF HeardOnce

LEMMA PutsAllOnce ==
    ASSUME NEW R \in Inners, NEW inner, NEW places, ReadsPlaces(R, inner, places),
           NEW bag, IsABag(bag), NEW out, HeardOnce(R, bag, out, places),
           NEW more, PutsIn(bag, inner.unordered, more), NEW m \in BagToSet(more)
    PROVE  more[m] <= Cardinality(KnownFor(inner, m, places))
<1> DEFINE old == KnownFor(R, m, places)
           new == KnownFor(inner, m, places)
           s == inner.unordered
<1>1. more[m] = Copies(bag, m) + Cardinality(Where(s, m))  BY DEF PutsIn
<1>2. Copies(bag, m) \in Nat /\ Copies(bag, m) <= Cardinality(old)
  <2>1. CASE m \in BagToSet(bag)
    <3>1. bag[m] <= Cardinality(old)  BY <2>1 DEF HeardOnce
    <3>2. bag[m] \in Nat  BY <2>1 DEF IsABag, BagToSet
    <3>3. Copies(bag, m) = bag[m]  BY <2>1 DEF Copies, BagIn
    <3>4. QED BY <3>1, <3>2, <3>3
  <2>2. CASE m \notin BagToSet(bag)
    <3>1. Copies(bag, m) = 0  BY <2>2 DEF Copies, BagIn
    <3>2. Cardinality(old) \in Nat  BY KnownForFinite
    <3>3. 0 \in Nat /\ \A n \in Nat : 0 <= n  OBVIOUS
    <3>4. QED BY <3>1, <3>2, <3>3
  <2>3. QED BY <2>1, <2>2
<1>3. old \subseteq new /\ Cardinality(old) <= Cardinality(new)
  BY KnownForMore DEF ReadsPlaces
<1>4. /\ IsFiniteSet(old) /\ Cardinality(old) \in Nat
      /\ IsFiniteSet(new) /\ Cardinality(new) \in Nat
  BY KnownForFinite
<1>5. Cardinality({}) = 0 /\ Cardinality({1}) = 1  BY FS_EmptySet, FS_Singleton
<1>6. \/ Cardinality(Where(s, m)) = 0
      \/ Cardinality(Where(s, m)) = 1 /\ Cardinality(old) + 1 <= Cardinality(new)
  <2>1. CASE s = << >>
    <3>1. Where(<< >>, m) = {}  BY DEF Where
    <3>2. QED BY <1>5, <2>1, <3>1
  <2>2. ASSUME NEW i \in Index, NEW n \in Messages, s = <<n>>,
               <<"reliable", i, n>> \in places,
               ~ Known(R.received["reliable"], i), Known(inner.received["reliable"], i)
        PROVE  \/ Cardinality(Where(s, m)) = 0
               \/ Cardinality(Where(s, m)) = 1 /\ Cardinality(old) + 1 <= Cardinality(new)
    <3>1. Where(<<n>>, m) = IF n = m THEN {1} ELSE {}  BY DEF Where
    <3>2. CASE n # m  BY <1>5, <2>2, <3>1, <3>2
    <3>3. CASE n = m
      <4>1. i \in new /\ i \notin old  BY <2>2, <3>3 DEF KnownFor
      <4> HIDE DEF old, new, s
      <4>2. Cardinality(old \cup {i}) = Cardinality(old) + 1 /\ IsFiniteSet(old \cup {i})
        BY <1>4, <4>1, FS_AddElement
      <4>3. old \cup {i} \in SUBSET new  BY <1>3, <4>1
      <4>4. Cardinality(old \cup {i}) <= Cardinality(new)  BY <1>4, <4>3, FS_Subset
      <4>5. QED BY <1>5, <2>2, <3>1, <3>3, <4>2, <4>4
    <3>4. QED BY <3>2, <3>3
  <2>3. QED BY <2>1, <2>2 DEF ReadsPlaces
<1> DEFINE x == Copies(bag, m)
           y == Cardinality(Where(s, m))
           v == Cardinality(old)
           w == Cardinality(new)
<1> HIDE DEF x, y, v, w
<1>7. /\ x \in Nat /\ v \in Nat /\ w \in Nat /\ x <= v /\ v <= w
      /\ y = 0 \/ (y = 1 /\ v + 1 <= w)
  BY <1>2, <1>3, <1>4, <1>6 DEF x, y, v, w
<1>8. x + y <= w  BY <1>7
<1>9. QED BY <1>1, <1>8 DEF x, y, w

LEMMA ReadsOnceMore ==
    ASSUME NEW R \in Inners, NEW inner \in Inners, NEW places, ReadsPlaces(R, inner, places),
           NEW bag, IsABag(bag), NEW out \in Seq(Messages), HeardOnce(R, bag, out, places),
           NEW more, PutsIn(bag, inner.unordered, more)
    PROVE  HeardOnce(inner, more, out \o inner.ordered, places)
<1> DEFINE h == R.head
           g == inner.head
           ext == inner.ordered
           longer == out \o ext
<1>1. h \in Nat /\ g \in Nat /\ ext \in Seq(Messages)
  <2>1. "ordered" \in Channel  BY DEF Channel
  <2>2. QED BY <2>1, Parts, Numbers
<1>2. /\ h <= g /\ Len(ext) = g - h
      /\ \A k \in DOMAIN ext : <<"ordered", h + k - 1, ext[k]>> \in places
  BY DEF ReadsPlaces
<1>3. Len(out) = h /\ \A k \in DOMAIN out : <<"ordered", k - 1, out[k]>> \in places
  BY DEF HeardOnce
<1> HIDE DEF h, g, ext
<1>4. Joined(longer, out, ext)  BY <1>1, JoinedSequences
<1>5. longer \in Seq(Messages) /\ DOMAIN out = 1 .. Len(out) /\ DOMAIN ext = 1 .. Len(ext)
  BY <1>1
<1>6. DOMAIN longer = 1 .. Len(longer)  BY <1>5
<1> HIDE DEF longer
<1>7. /\ Len(longer) = h + (g - h) /\ DOMAIN out = 1 .. h /\ DOMAIN ext = 1 .. g - h
      /\ \A k \in 1 .. h : longer[k] = out[k]
      /\ \A k \in 1 .. g - h : longer[h + k] = ext[k]
  BY <1>2, <1>3, <1>4, <1>5 DEF Joined
<1>8. Len(longer) = g /\ DOMAIN longer = 1 .. g  BY <1>1, <1>6, <1>7
<1>9. ASSUME NEW k \in 1 .. g PROVE <<"ordered", k - 1, longer[k]>> \in places
  <2>1. CASE k \in 1 .. h  BY <1>3, <1>7, <2>1
  <2>2. CASE k \notin 1 .. h
    <3>1. k - h \in 1 .. g - h /\ h + (k - h) = k  BY <1>1, <2>2
    <3>2. h + (k - h) - 1 = k - 1  BY <1>1, <2>2
    <3>3. longer[k] = ext[k - h] /\ <<"ordered", h + (k - h) - 1, ext[k - h]>> \in places
      BY <1>2, <1>7, <3>1
    <3>4. QED BY <3>2, <3>3
  <2>3. QED BY <2>1, <2>2
<1>10. \A m \in BagToSet(more) : more[m] <= Cardinality(KnownFor(inner, m, places))
  BY PutsAllOnce
<1>11. HeardOnce(inner, more, longer, places)  BY <1>8, <1>9, <1>10 DEF HeardOnce, g
<1>12. QED BY <1>11 DEF longer, ext

LEMMA HeardOnceStep ==
    ASSUME TypeOK, TypeOK', NEW a \in Client, StepFor(a), LinesKept(a), LinesShort(a),
           NothingLeft(a), PacketsFrom(SentTo(a), Places(a)), HoldsPlaces(client[a], Places(a)),
           restarts[a] = 0 => HeardOnce(client[a], heard[a], heardOrdered[a], Places(a)),
           restarts'[a] = 0
    PROVE  HeardOnce(client'[a], heard'[a], heardOrdered'[a], Places(a)')
<1> DEFINE R == client[a]
           R2 == client'[a]
           places == Places(a)
           bag == heard[a]
           out == heardOrdered[a]
<1>1. /\ places \subseteq Places(a)' /\ ShortPlaces(places) /\ R \in Inners
      /\ restarts[a] = 0 /\ ~ ClientForgets(a)
  BY PlacesGrow, PlacesShort, SidesTyped, ForgottenForEver
<1>2. IsABag(bag) /\ out \in Seq(Messages) /\ IsABag(heard'[a])  BY DEF TypeOK
<1>3. HeardOnce(R, bag, out, places)  BY <1>1
<1>4. CASE ClientWorks(a)
  <2>1. PICK inner, ext : /\ Works(R, R2, inner, SentTo(a), ext)
                          /\ PutsIn(bag, inner.unordered, heard'[a])
                          /\ heardOrdered'[a] = out \o inner.ordered
    BY <1>4 DEF ClientWorks
  <2>2. Empty(R)  BY DEF NothingLeft, Empty
  <2> HIDE DEF R, R2, places, bag, out
  <2>3. PacketsFrom(SentTo(a), places) /\ HoldsPlaces(R, places)  BY DEF R, places
  <2>4. ReadsPlaces(R, inner, places)  BY <1>1, <2>1, <2>2, <2>3, WorksPlaces
  <2>5. inner \in Inners /\ R2.received = inner.received /\ R2.head = inner.head
    BY <2>1 DEF Works
  <2>6. HeardOnce(inner, heard'[a], out \o inner.ordered, places)
    BY <1>1, <1>2, <1>3, <2>1, <2>4, <2>5, ReadsOnceMore
  <2>7. HeardOnce(R2, heard'[a], out \o inner.ordered, Places(a)')
    BY <1>1, <1>2, <2>5, <2>6, HeardOnceMore
  <2>8. QED BY <2>1, <2>7 DEF R2
<1>5. CASE ConnectionWorks(a) \/ ConnectionSends(a) \/ ConnectionForgets(a) \/ ClientSends(a)
  <2>1. /\ R2 = R \/ \E due : R2 = AfterSend(R, due)
        /\ heard'[a] = bag /\ heardOrdered'[a] = out
    BY <1>5 DEF ConnectionWorks, ConnectionSends, ConnectionForgets, ClientSends, SameClientSide
  <2>2. R2.received = R.received /\ R2.head = R.head
    BY <1>1, <2>1, SendReadsNothing DEF SameAsRead
  <2> HIDE DEF R, R2, places, bag, out
  <2>3. HeardOnce(R2, bag, out, Places(a)')  BY <1>1, <1>2, <1>3, <2>2, HeardOnceMore
  <2>4. QED BY <2>1, <2>3 DEF R2
<1>6. QED BY <1>1, <1>4, <1>5 DEF StepFor

\* Where a message was addressed to a, see HeardAsAddressed.
LinesTo(a) == Append(owedBefore[a], owed[a])

LEMMA LinesToIs ==
    ASSUME TypeOK, NEW a \in Client
    PROVE  /\ LinesTo(a) \in Seq(Lines)
           /\ Len(owedBefore[a]) \in Nat
           /\ DOMAIN owedBefore[a] = 1 .. Len(owedBefore[a])
           /\ DOMAIN LinesTo(a) = 1 .. Len(owedBefore[a]) + 1
           /\ LinesTo(a)[Len(owedBefore[a]) + 1] = owed[a]
           /\ \A life \in DOMAIN owedBefore[a] : LinesTo(a)[life] = owedBefore[a][life]
<1> DEFINE before == owedBefore[a]
           line == owed[a]
           lines == LinesTo(a)
<1>1. line \in Lines /\ before \in Seq(Lines)  BY DEF TypeOK
<1>2. lines = Append(before, line)  BY DEF LinesTo
<1> HIDE DEF before, line, lines
<1>3. /\ lines \in Seq(Lines) /\ Len(before) \in Nat
      /\ DOMAIN before = 1 .. Len(before) /\ DOMAIN lines = 1 .. Len(before) + 1
      /\ lines[Len(before) + 1] = line
      /\ \A life \in 1 .. Len(before) : lines[life] = before[life]
  BY <1>1, <1>2
<1>4. QED BY <1>3 DEF before, line, lines

LEMMA AddressedIs ==
    ASSUME NEW a \in Client, NEW m
    PROVE  /\ \A t \in Addressed(a, m) : \E life, c, k : t = <<life, c, k>>
           /\ \A life, c, k :
                 <<life, c, k>> \in Addressed(a, m)
                    <=> /\ life \in DOMAIN LinesTo(a) /\ c \in Channel
                        /\ k \in DOMAIN LinesTo(a)[life][c]
                        /\ LinesTo(a)[life][c][k] = m
<1> DEFINE lines == LinesTo(a)
           places(life, c) == {k \in DOMAIN lines[life][c] : lines[life][c][k] = m}
<1>1. Addressed(a, m) = UNION {{<<life, c, k>> : k \in places(life, c)} :
                                  life \in DOMAIN lines, c \in Channel}
  BY DEF Addressed, LinesTo
<1> HIDE DEF lines
<1>2. \A t \in Addressed(a, m) :
         \E life \in DOMAIN lines, c \in Channel : \E k \in places(life, c) : t = <<life, c, k>>
  BY <1>1
<1>3. ASSUME NEW life \in DOMAIN lines, NEW c \in Channel, NEW k \in places(life, c)
      PROVE  <<life, c, k>> \in Addressed(a, m)
  <2> DEFINE of(l, d) == {<<l, d, j>> : j \in places(l, d)}
             all == {of(l, d) : l \in DOMAIN lines, d \in Channel}
             one == of(life, c)
  <2>1. Addressed(a, m) = UNION all  BY <1>1
  <2>2. <<life, c, k>> \in one  OBVIOUS
  <2>3. one \in all
    <3> HIDE DEF of
    <3>1. QED OBVIOUS
  <2> HIDE DEF all, one
  <2>4. QED BY <2>1, <2>2, <2>3
<1>4. ASSUME NEW life, NEW c, NEW k, <<life, c, k>> \in Addressed(a, m)
      PROVE  life \in DOMAIN lines /\ c \in Channel /\ k \in places(life, c)
  BY <1>2, <1>4
<1>5. QED BY <1>2, <1>3, <1>4 DEF lines

LEMMA PlaceAddressed ==
    ASSUME TypeOK, NEW a \in Client, NEW c, NEW i, NEW m, <<c, i, m>> \in Places(a)
    PROVE  \E life : <<life, c, i + 1>> \in Addressed(a, m)
<1> DEFINE before == owedBefore[a]
           lines == LinesTo(a)
           n == Len(before)
<1>1. /\ lines \in Seq(Lines) /\ n \in Nat
      /\ DOMAIN before = 1 .. n /\ DOMAIN lines = 1 .. n + 1
      /\ lines[n + 1] = owed[a]
      /\ \A life \in DOMAIN before : lines[life] = before[life]
  BY LinesToIs
<1>2. Places(a) = Queued(owed[a]) \cup UNION {Queued(before[life]) : life \in DOMAIN before}
  BY DEF Places
<1> HIDE DEF before, lines, n
<1>3. \E life \in DOMAIN lines : <<c, i, m>> \in Queued(lines[life])
  <2>1. CASE <<c, i, m>> \in Queued(owed[a])
    <3>1. n + 1 \in DOMAIN lines  BY <1>1
    <3>2. QED BY <1>1, <2>1, <3>1
  <2>2. CASE \E life \in DOMAIN before : <<c, i, m>> \in Queued(before[life])
    <3>1. PICK life \in DOMAIN before : <<c, i, m>> \in Queued(before[life])  BY <2>2
    <3>2. life \in DOMAIN lines  BY <1>1
    <3>3. QED BY <1>1, <3>1, <3>2
  <2>3. QED BY <1>2, <2>1, <2>2
<1>4. PICK life \in DOMAIN lines : <<c, i, m>> \in Queued(lines[life])  BY <1>3
<1> DEFINE line == lines[life]
<1>5. line \in Lines  BY <1>1
<1> HIDE DEF line
<1>6. c \in Channel /\ i \in Nat /\ i < Len(line[c]) /\ line[c][i + 1] = m
  BY <1>4, <1>5, QueuedIs DEF line
<1>7. line[c] \in Seq(Messages)  BY <1>5, <1>6 DEF Lines
<1>8. i + 1 \in DOMAIN line[c]
  <2>1. DOMAIN line[c] = 1 .. Len(line[c]) /\ Len(line[c]) \in Nat  BY <1>7
  <2>2. QED BY <1>6, <2>1
<1>9. QED BY <1>6, <1>8, AddressedIs DEF line, lines

LEMMA AddressedFinite ==
    ASSUME TypeOK, NEW a \in Client, LinesShort(a), NEW m
    PROVE  IsFiniteSet(Addressed(a, m))
<1> DEFINE n == Len(owedBefore[a])
           lines == LinesTo(a)
           S == Addressed(a, m)
           T == ((1 .. n + 1) \X Channel) \X (1 .. U16)
           f == [t \in S |-> <<<<t[1], t[2]>>, t[3]>>]
<1>1. /\ lines \in Seq(Lines) /\ n \in Nat
      /\ DOMAIN owedBefore[a] = 1 .. n /\ DOMAIN lines = 1 .. n + 1
      /\ lines[n + 1] = owed[a]
      /\ \A life \in DOMAIN owedBefore[a] : lines[life] = owedBefore[a][life]
  BY LinesToIs
<1>2. IsFiniteSet(T)
  <2>1. IsFiniteSet(1 .. n + 1) /\ IsFiniteSet(1 .. U16)
    <3>1. 1 \in Int /\ n + 1 \in Int /\ U16 \in Int  BY <1>1, Numbers
    <3> HIDE DEF n
    <3>2. QED BY <3>1, FS_Interval
  <2>2. IsFiniteSet(Channel)
    <3>1. IsFiniteSet({"reliable"}) /\ Channel = {"reliable"} \cup {"ordered"}
          /\ IsFiniteSet({"ordered"})
      BY FS_Singleton DEF Channel
    <3>2. QED BY <3>1, FS_Union
  <2>3. IsFiniteSet((1 .. n + 1) \X Channel)  BY <2>1, <2>2, FS_Product
  <2>4. QED BY <2>1, <2>3, FS_Product
<1> HIDE DEF n, lines
<1>3. ASSUME NEW t \in S
      PROVE  \E life \in 1 .. n + 1, c \in Channel, k \in 1 .. U16 : t = <<life, c, k>>
  <2>1. PICK life, c, k : t = <<life, c, k>>  BY AddressedIs
  <2>2. life \in DOMAIN lines /\ c \in Channel /\ k \in DOMAIN lines[life][c]
    BY <2>1, AddressedIs DEF lines
  <2> DEFINE row == lines[life][c]
  <2>3. row \in Seq(Messages)
    <3>1. lines[life] \in Lines  BY <1>1, <2>2
    <3>2. QED BY <2>2, <3>1 DEF Lines
  <2>4. Len(row) < U16 - NumItems
    <3>1. life \in DOMAIN owedBefore[a] \/ life = n + 1  BY <1>1, <2>2
    <3>2. QED BY <1>1, <2>2, <3>1 DEF LinesShort
  <2> HIDE DEF row
  <2>5. k \in 1 .. Len(row) /\ Len(row) \in Nat  BY <2>2, <2>3 DEF row
  <2> DEFINE l == Len(row)
  <2> HIDE DEF l
  <2>6. k \in 1 .. l /\ l \in Nat /\ l < U16 - NumItems  BY <2>4, <2>5 DEF l
  <2>7. k \in 1 .. U16  BY <2>6, Numbers
  <2>8. QED BY <1>1, <2>1, <2>2, <2>7
<1> HIDE DEF S
<1>4. f \in Injection(S, T)
  <2>1. f \in [S -> T]  BY <1>3
  <2>2. ASSUME NEW t \in S, NEW u \in S, f[t] = f[u] PROVE t = u
    <3>1. f[t] = <<<<t[1], t[2]>>, t[3]>> /\ f[u] = <<<<u[1], u[2]>>, u[3]>>  OBVIOUS
    <3>2. t[1] = u[1] /\ t[2] = u[2] /\ t[3] = u[3]  BY <2>2, <3>1
    <3>3. QED BY <1>3, <3>2
  <2> HIDE DEF f, T
  <2>3. DOMAIN f = S  BY <2>1
  <2>4. IsInjective(f)  BY <2>2, <2>3 DEF IsInjective
  <2>5. QED BY <2>1, <2>4 DEF Injection
<1>5. IsFiniteSet(S)
  <2> HIDE DEF f, T
  <2>1. QED BY <1>2, <1>4, FS_Injection
<1>6. QED BY <1>5 DEF S

\* On each channel, what was read is no more than what was addressed.
AddressedOn(a, m, c) == {t \in Addressed(a, m) : t[2] = c}

LEMMA ReadsNoMore ==
    ASSUME TypeOK, NEW a \in Client, LinesShort(a), NEW m, NEW c, NEW ids,
           \A i \in ids : i \in Int /\ <<c, i, m>> \in Places(a)
    PROVE  Cardinality(ids) <= Cardinality(AddressedOn(a, m, c)) /\ IsFiniteSet(ids)
<1> DEFINE T == AddressedOn(a, m, c)
           f == [i \in ids |-> CHOOSE t \in T : t[3] = i + 1]
<1>1. IsFiniteSet(T)
  <2>1. IsFiniteSet(Addressed(a, m))  BY AddressedFinite
  <2>2. T \in SUBSET Addressed(a, m)  BY DEF AddressedOn
  <2>3. QED BY <2>1, <2>2, FS_Subset
<1>2. ASSUME NEW i \in ids PROVE \E t \in T : t[3] = i + 1
  <2>1. PICK life : <<life, c, i + 1>> \in Addressed(a, m)  BY PlaceAddressed
  <2> DEFINE t == <<life, c, i + 1>>
  <2>2. t[2] = c /\ t[3] = i + 1  OBVIOUS
  <2>3. t \in T  BY <2>1, <2>2 DEF AddressedOn
  <2>4. QED BY <2>2, <2>3
<1> HIDE DEF T
<1>3. ASSUME NEW i \in ids PROVE f[i] \in T /\ f[i][3] = i + 1
  <2>1. f[i] = CHOOSE t \in T : t[3] = i + 1  OBVIOUS
  <2>2. QED BY <1>2, <2>1
<1>4. f \in [ids -> T]  BY <1>3
<1>5. DOMAIN f = ids  OBVIOUS
<1> HIDE DEF f
<1>6. ASSUME NEW i \in ids, NEW j \in ids, f[i] = f[j] PROVE i = j
  <2>1. i + 1 = j + 1 /\ i \in Int /\ j \in Int  BY <1>3, <1>6
  <2>2. QED BY <2>1
<1>7. f \in Injection(ids, T)  BY <1>4, <1>5, <1>6 DEF Injection, IsInjective
<1>8. QED BY <1>1, <1>7, FS_Injection DEF T

LEMMA HeardNoMore ==
    ASSUME TypeOK, NEW a \in Client, LinesShort(a), NEW m,
           HeardOnce(client[a], heard[a], heardOrdered[a], Places(a))
    PROVE  Hearings(a, m) <= Cardinality(Addressed(a, m))
<1> DEFINE bag == heard[a]
           out == heardOrdered[a]
           known == KnownFor(client[a], m, Places(a))
           where == Where(out, m)
           before == {k - 1 : k \in where}
           R == AddressedOn(a, m, "reliable")
           O == AddressedOn(a, m, "ordered")
           S == Addressed(a, m)
<1>1. IsABag(bag) /\ out \in Seq(Messages)  BY DEF TypeOK
<1>2. Hearings(a, m) = Copies(bag, m) + Cardinality(where)
  BY DEF Hearings, Copies, Where
<1>3. Copies(bag, m) \in Nat /\ Copies(bag, m) <= Cardinality(known)
  <2>1. CASE m \in BagToSet(bag)
    <3>1. bag[m] <= Cardinality(known)  BY <2>1 DEF HeardOnce
    <3>2. bag[m] \in Nat  BY <1>1, <2>1 DEF IsABag, BagToSet
    <3>3. Copies(bag, m) = bag[m]  BY <2>1 DEF Copies, BagIn
    <3>4. QED BY <3>1, <3>2, <3>3
  <2>2. CASE m \notin BagToSet(bag)
    <3>1. Copies(bag, m) = 0  BY <2>2 DEF Copies, BagIn
    <3>2. Cardinality(known) \in Nat  BY KnownForFinite
    <3>3. 0 \in Nat /\ \A n \in Nat : 0 <= n  OBVIOUS
    <3>4. QED BY <3>1, <3>2, <3>3
  <2>3. QED BY <2>1, <2>2
<1>4. Cardinality(known) <= Cardinality(R) /\ Cardinality(known) \in Nat
  <2>1. \A i \in known : i \in Int /\ <<"reliable", i, m>> \in Places(a)
    BY Numbers DEF KnownFor
  <2>2. QED BY <2>1, ReadsNoMore, KnownForFinite
<1>5. Cardinality(where) <= Cardinality(O) /\ Cardinality(where) \in Nat
  <2>1. where \subseteq DOMAIN out /\ DOMAIN out \subseteq Nat  BY <1>1 DEF Where
  <2>2. \A k \in where : <<"ordered", k - 1, m>> \in Places(a)
    BY DEF HeardOnce, Where
  <2> HIDE DEF where
  <2>3. \A i \in before : i \in Int /\ <<"ordered", i, m>> \in Places(a)
    BY <2>1, <2>2
  <2>4. Cardinality(before) <= Cardinality(O) /\ IsFiniteSet(before)
    <3> HIDE DEF before
    <3>1. QED BY <2>3, ReadsNoMore
  <2> DEFINE f == [k \in where |-> k - 1]
  <2>5. f \in Injection(where, before)
    <3>1. f \in [where -> before]  OBVIOUS
    <3>2. \A j, k \in where : j - 1 = k - 1 => j = k  BY <2>1
    <3>3. \A j, k \in where : f[j] = f[k] => j = k  BY <3>2
    <3>4. QED BY <3>1, <3>3 DEF Injection, IsInjective
  <2> HIDE DEF f, before
  <2>6. IsFiniteSet(where) /\ Cardinality(where) <= Cardinality(before)
    BY <2>4, <2>5, FS_Injection
  <2>7. Cardinality(where) \in Nat /\ Cardinality(before) \in Nat
    BY <2>4, <2>6, FS_CardinalityType
  <2>8. IsFiniteSet(O)
    <3>1. IsFiniteSet(S) /\ O \in SUBSET S  BY AddressedFinite DEF AddressedOn
    <3> HIDE DEF S, O
    <3>2. QED BY <3>1, FS_Subset
  <2>9. Cardinality(O) \in Nat  BY <2>8, FS_CardinalityType
  <2> DEFINE x == Cardinality(where)
             y == Cardinality(before)
             z == Cardinality(O)
  <2> HIDE DEF x, y, z
  <2>10. x <= y /\ y <= z /\ x \in Nat /\ y \in Nat /\ z \in Nat
    BY <2>4, <2>6, <2>7, <2>9 DEF x, y, z
  <2>11. x <= z  BY <2>10
  <2>12. QED BY <2>7, <2>11 DEF x, z
<1>6. /\ Cardinality(R) + Cardinality(O) <= Cardinality(S)
      /\ Cardinality(R) \in Nat /\ Cardinality(O) \in Nat /\ Cardinality(S) \in Nat
  <2>1. IsFiniteSet(S) /\ R \in SUBSET S /\ O \in SUBSET S
    BY AddressedFinite DEF AddressedOn
  <2>2. R \cap O = {}  BY DEF AddressedOn
  <2>3. R \cup O \in SUBSET S  BY <2>1
  <2> HIDE DEF S, R, O
  <2>4. IsFiniteSet(R) /\ IsFiniteSet(O)  BY <2>1, FS_Subset
  <2>5. Cardinality(R \cup O) = Cardinality(R) + Cardinality(O) - Cardinality({})
    BY <2>2, <2>4, FS_Union
  <2>6. Cardinality({}) = 0  BY FS_EmptySet
  <2>7. Cardinality(R \cup O) <= Cardinality(S)  BY <2>1, <2>3, FS_Subset
  <2>8. Cardinality(R) \in Nat /\ Cardinality(O) \in Nat /\ Cardinality(S) \in Nat
    BY <2>1, <2>4, FS_CardinalityType
  <2>9. QED BY <2>5, <2>6, <2>7, <2>8
<1> DEFINE x == Copies(bag, m)
           y == Cardinality(where)
           v == Cardinality(known)
           r == Cardinality(R)
           o == Cardinality(O)
           s == Cardinality(S)
<1> HIDE DEF x, y, v, r, o, s
<1>7. /\ x \in Nat /\ y \in Nat /\ v \in Nat /\ r \in Nat /\ o \in Nat /\ s \in Nat
      /\ x <= v /\ v <= r /\ y <= o /\ r + o <= s
  BY <1>3, <1>4, <1>5, <1>6 DEF x, y, v, r, o, s
<1>8. x + y <= s  BY <1>7
<1>9. QED BY <1>2, <1>8 DEF x, y, s

LEMMA AddressSuffices ==
    ASSUME TypeOK, FewOwed, AddressInvariant PROVE HeardAsAddressed
<1> SUFFICES ASSUME NEW a \in Client, NEW m \in BagToSet(heard[a]) \cup Range(heardOrdered[a])
             PROVE  /\ Addressed(a, m) # {}
                    /\ restarts[a] = 0 => Hearings(a, m) <= Cardinality(Addressed(a, m))
  BY DEF HeardAsAddressed
<1>1. Addresses(a)  BY DEF AddressInvariant
<1>2. LinesShort(a)  BY <1>1 DEF Addresses, FewOwed, LinesShort
<1>3. Addressed(a, m) # {}
  <2>1. m \in ClientHad(a)  BY DEF ClientHad
  <2>2. PICK c \in Channel, i \in Index : <<c, i, m>> \in Places(a)
    BY <1>1, <2>1 DEF Addresses, Placed
  <2>3. \E life : <<life, c, i + 1>> \in Addressed(a, m)  BY <2>2, PlaceAddressed
  <2>4. QED BY <2>3
<1>4. ASSUME restarts[a] = 0
      PROVE  Hearings(a, m) <= Cardinality(Addressed(a, m))
  <2>1. HeardOnce(client[a], heard[a], heardOrdered[a], Places(a))
    BY <1>1, <1>4 DEF Addresses
  <2>2. QED BY <1>2, <2>1, HeardNoMore
<1>5. QED BY <1>3, <1>4

LEMMA InitAddress ==
    ASSUME Init PROVE AddressInvariant
<1> SUFFICES ASSUME NEW a \in Client PROVE NothingLeft(a) /\ Addresses(a)
  BY DEF AddressInvariant
<1>1. /\ coms = << >> /\ net = {}
      /\ client[a] = NewInner /\ heard[a] = EmptyBag /\ heardOrdered[a] = << >>
      /\ owed[a] = NoLines /\ owedBefore[a] = << >>
  BY DEF Init
<1>2. Entry(a) = NewInner  BY <1>1 DEF Entry
<1>3. SentTo(a) = {}  BY <1>1 DEF SentTo
<1>4. NothingLeft(a)  BY InitDelivery DEF DeliveryInvariant, OrderInvariant
<1>5. \A c \in Channel : InLine(Entry(a), owed[a], c)  BY <1>1, <1>2, NewInLine
<1>6. \A life \in DOMAIN owedBefore[a], c \in Channel :
         Len(owedBefore[a][life][c]) < U16 - NumItems
  <2>1. DOMAIN << >> = {}  OBVIOUS
  <2>2. QED BY <1>1, <2>1
<1>7. PacketsFrom(SentTo(a), Places(a))  BY <1>3 DEF PacketsFrom
<1>8. HoldsPlaces(client[a], Places(a))  BY <1>1, NewHoldsPlaces
<1>9. BagToSet(EmptyBag) = {} /\ Range(<< >>) = {} /\ DOMAIN << >> = {} /\ Len(<< >>) = 0
  BY DEF BagToSet, EmptyBag, SetToBag, Range
<1>10. Placed(ClientHad(a), Places(a))  BY <1>1, <1>9 DEF Placed, ClientHad
<1>11. HeardOnce(client[a], heard[a], heardOrdered[a], Places(a))
  <2>1. client[a].head = 0  BY <1>1, NewHoldsNothing DEF Channel
  <2>2. QED BY <1>1, <1>9, <2>1 DEF HeardOnce
<1>12. QED BY <1>4, <1>5, <1>6, <1>7, <1>8, <1>10, <1>11 DEF Addresses

LEMMA AddressNext ==
    ASSUME TypeOK, TypeOK', FewOwed, AddressInvariant, [Next]_vars
    PROVE  AddressInvariant'
<1> SUFFICES ASSUME NEW a \in Client PROVE NothingLeft(a)' /\ Addresses(a)'
  BY DEF AddressInvariant
<1>1. (\A b \in Client : NothingLeft(b)) /\ Addresses(a)  BY DEF AddressInvariant
<1>2. StepFor(a) /\ LinesKept(a)  BY <1>1, StepsFor, StepsKeepLines
<1>3. NothingLeft(a)'  BY <1>1, <1>2, NothingLeftStep
<1>4. /\ \A c \in Channel : InLine(Entry(a), owed[a], c)
      /\ LinesShort(a)
      /\ PacketsFrom(SentTo(a), Places(a))
      /\ HoldsPlaces(client[a], Places(a))
      /\ Placed(ClientHad(a), Places(a))
      /\ restarts[a] = 0 => HeardOnce(client[a], heard[a], heardOrdered[a], Places(a))
  BY <1>1 DEF Addresses, FewOwed, LinesShort
<1>5. \A c \in Channel : InLine(Entry(a)', owed'[a], c)  BY <1>2, <1>4, ConnectionInLine
<1>6. \A life \in DOMAIN owedBefore'[a], c \in Channel :
         Len(owedBefore'[a][life][c]) < U16 - NumItems
  BY <1>2, <1>4, LinesStayShort
<1>7. PacketsFrom(SentTo(a)', Places(a)')  BY <1>2, <1>4, PacketsAddressed
<1>8. HoldsPlaces(client'[a], Places(a)')  BY <1>1, <1>2, <1>4, HoldsAddressed
<1>9. Placed(ClientHad(a)', Places(a)')  BY <1>1, <1>2, <1>4, HeardAddressed
<1>10. restarts'[a] = 0 =>
          HeardOnce(client'[a], heard'[a], heardOrdered'[a], Places(a)')
  BY <1>1, <1>2, <1>4, HeardOnceStep
<1>11. QED BY <1>3, <1>5, <1>6, <1>7, <1>8, <1>9, <1>10 DEF Addresses

\* multi.rs:61-67, 263-279, 366-396: a client reads only what a broadcast, an answer
\* or a request addressed to it, on this or on an earlier connection, and, as long as
\* it does not restart, no more often than that, whatever the network loses, repeats
\* and reorders, whatever connections the server forgets, and also if the library is
\* let to give up, as long as ids do not wrap around on a connection.
THEOREM MultiHeardAsAddressed == Spec /\ []FewOwed => []HeardAsAddressed
<1>1. Init => AddressInvariant  BY InitAddress
<1>2. TypeOK /\ TypeOK' /\ FewOwed /\ AddressInvariant /\ [Next]_vars => AddressInvariant'
  BY AddressNext
<1>3. TypeOK /\ FewOwed /\ AddressInvariant => HeardAsAddressed  BY AddressSuffices
<1>4. Spec => []TypeOK  BY MultiTypeCorrect
<1>5. QED BY <1>1, <1>2, <1>3, <1>4, PTL DEF Spec

=============================================================================
