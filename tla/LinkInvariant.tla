--------------------------- MODULE LinkInvariant ---------------------------
(***************************************************************************)
(* Why Link is safe: an inductive invariant.                               *)
(*                                                                         *)
(* The rings of both sides are windows on one line of messages 0, 1, 2,    *)
(* ... whose sequence ids repeat every U16 messages.  While nothing is     *)
(* given up, the sender's window cannot leave a message behind that the    *)
(* receiver does not have, so the two windows stay within NumItems of each *)
(* other; when retries run out, how far they part depends on how long the  *)
(* receiver hears nothing (ShortOutage).  A datagram is at most MaxLag     *)
(* older than the newest.  Within these distances an id stands for one     *)
(* message only.                                                           *)
(***************************************************************************)
EXTENDS Link

\* The sequence id of message k, -1 being before the first one.
Id(k) == k % U16

\* The message that an index of a ring stands for, `last` being the newest one.
MessageAt(ring, last, i) == last - WrappingSub(ring.newest, i)

\* The newest message a ring of received packets holds, or -1.
Newest(ring) == AckOf(ring).upto

\* inner.rs:395: the messages in a queue are those after the last one packed.
QueueInOrder(queue, constructed) ==
    /\ constructed \in Nat
    /\ \A j \in 1 .. Len(queue) : queue[j] = constructed + j - 1

\* What a send ring holds under an index is the message of that index.
SendWindow(ring, last) ==
    /\ ring.newest = Id(last)
    /\ \A i \in Keys(ring) :
          /\ MessageAt(ring, last, i) >= 0
          /\ Get(ring, i).message = MessageAt(ring, last, i)

\* A ring of received packets knows which messages of its window were accepted.
ReceiveWindow(ring, last, accepted) ==
    /\ ring.newest = Id(last)
    /\ accepted \subseteq 0 .. last
    /\ \A i \in Index :
          InWindow(ring, i) =>
              Get(ring, i) = IF MessageAt(ring, last, i) \in accepted
                             THEN MessageAt(ring, last, i) ELSE None

\* Ordered message k to n is behind a hole that the window of n has passed: it
\* was or will be purged without being handed on.
Stranded(n, k) ==
    /\ Len(orderedReceived[n]) < k
    /\ Len(orderedReceived[n]) + NumItems <= Newest(receivedPackets[n]["ordered"])

\* Message k to n needs no packet any more: n accepted it, or its sender gave it
\* up, or it is stranded.
DoneWith(n, c, k) ==
    \/ k \in Accepted(n, c)
    \/ k \in givenUp[Peer(n)][c]
    \/ c = "ordered" /\ Stranded(n, k)

\* Every message that was packed is in flight, or its receiver is done with it.
NothingLost(n, c) ==
    \A k \in 0 .. Constructed(n, c) - 1 :
        k \in InFlight(n, c) \/ DoneWith(Peer(n), c, k)

\* The sender's side of a channel, the receiver's side, and the two together.
Windows(n, c) ==
    /\ QueueInOrder(sendQueue[n][c], Constructed(n, c))
    /\ SendWindow(sendPackets[n][c], Constructed(n, c) - 1)
    /\ ReceiveWindow(receivedPackets[n][c], Newest(receivedPackets[n][c]), Accepted(n, c))
    /\ Newest(receivedPackets[n][c]) < Constructed(Peer(n), c)
    /\ NothingLost(n, c)

\* A received reliable message was handed on, once.
HandedOnOnce(n) ==
    /\ InRing(receivedPackets[n]["reliable"]) \subseteq BagToSet(unorderedReceived[n])
    /\ \A m \in BagToSet(unorderedReceived[n]) : unorderedReceived[n][m] = 1

\* The head is the first ordered message that was not accepted.
HeadIsFirstMissing(n) ==
    /\ orderedHead[n] = Id(Len(orderedReceived[n]))
    /\ \A k \in 1 .. Len(orderedReceived[n]) : orderedReceived[n][k] = k - 1
    /\ Len(orderedReceived[n]) \notin Accepted(n, "ordered")

\* An ack that n built names only messages that n is done with.
GoodAck(n, ack) ==
    \A c \in Channel :
        /\ ack[c].newest = Id(ack[c].upto)
        /\ ack[c].upto <= Newest(receivedPackets[n][c])
        /\ \A b \in ack[c].bits : DoneWith(n, c, ack[c].upto - b)

\* All the acks that wait for being sent, with their packets or without one.
GoodAcks(n) ==
    /\ \A c \in Channel : \A i \in Keys(sendPackets[n][c]) :
          GoodAck(n, Get(sendPackets[n][c], i).ack)
    /\ \A ack \in unreliablePackets[n] : GoodAck(n, ack)

\* A packet stands for a message that its sender packed, not long ago.
GoodPacket(p) ==
    /\ GoodAck(Peer(p.to), p.ack)
    /\ Recent(p, [n \in Node |-> [c \in Channel |-> Constructed(n, c)]])
    /\ p.channel \in Channel =>
          /\ p.message < Constructed(Peer(p.to), p.channel)
          /\ p.sequenceId = Id(p.message)

\* inner.rs:80-246: both windows of each channel stay close to each other, and
\* nothing under way is so old that its id stands for another message.
WindowsAgree ==
    /\ \A n \in Node, c \in Channel : Windows(n, c)
    /\ \A n \in Node : HandedOnOnce(n) /\ HeadIsFirstMissing(n) /\ GoodAcks(n)
    /\ \A p \in net : GoodPacket(p)

-----------------------------------------------------------------------------
(* Retries that run out.  Nothing keeps the receiver close to the sender   *)
(* then, so what it still knows depends on how long it hears nothing.      *)

\* No packet ran out of retries.
NothingGivenUp == \A n \in Node, c \in Channel : givenUp[n][c] = {}

\* The newest packet received is at most a turn of the ids less a window older
\* than the newest one built, and the ordered channel does not wait for a message
\* that is a turn older.
ShortOutage ==
    \A n \in Node :
        /\ \A c \in Channel :
              Constructed(Peer(n), c) - 1 - Newest(receivedPackets[n][c]) <= U16 - NumItems
        /\ Constructed(Peer(n), "ordered") - Len(orderedReceived[n]) <= U16

\* The behaviours of Spec without longer outages.
OutageSpec == Init /\ [][Next /\ ShortOutage']_vars

=============================================================================
