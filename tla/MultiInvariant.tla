--------------------------- MODULE MultiInvariant ---------------------------
(***************************************************************************)
(* Why the server of Multi reads no message twice: an inductive invariant. *)
(*                                                                         *)
(* A message is packed once and keeps the sequence id it is packed under,  *)
(* so the packets that a client ever sent tell which id stands for which   *)
(* message; after a restart an id may stand for several.  A connection     *)
(* that has read a message knows its id: the ring of the reliable channel  *)
(* holds it or has left it behind, the head of the ordered channel has     *)
(* passed it.  Ids do not wrap around, see FewMessages.                    *)
(***************************************************************************)
EXTENDS Multi

\* The network keeps every datagram for ever.  Once ids come close to wrapping
\* around, a datagram may be older than wrapping_gt can tell from a new one.
FewMessages ==
    \A s \in Scenarios : \A a \in Client, c \in Channel : s.load[a][c] < U16 - NumItems

\* The packets with a message that client a ever sent.
FromClient(a) ==
    {d.packet : d \in {e \in net : e.from = a /\ e.packet.channel \in Channel}}

\* How many messages client a has packed, or forgotten when it restarted.
Packed(a, c) == written[a][c] - Len(client[a].sendQueue[c])

-----------------------------------------------------------------------------
(* The client's side.                                                      *)

\* What is queued is what was written last, in order.
QueueInOrder(a, c) ==
    \A k \in DOMAIN client[a].sendQueue[c] :
        client[a].sendQueue[c][k] =
            [from |-> a, channel |-> c, number |-> Packed(a, c) + k - 1]

\* Ids count the messages since the client started, and what is in flight was
\* sent under its id before.
SendsInOrder(a, c) ==
    LET ring == client[a].sendPackets[c]
    IN  /\ WrappingAdd(ring.newest, 1) <= Packed(a, c)
        /\ \A i \in Keys(ring) : \E p \in FromClient(a) :
              /\ p.channel = c
              /\ p.sequenceId = i
              /\ p.content = <<Get(ring, i).message>>

\* A packet holds a message of its client and channel, and no message is in two
\* packets with different ids.
Numbered(P, a, bound) ==
    /\ \A p \in P :
          /\ p.sequenceId < bound[p.channel]
          /\ \E n \in 0 .. bound[p.channel] - 1 :
                p.content = <<[from |-> a, channel |-> p.channel, number |-> n]>>
    /\ \A p, q \in P : p.content = q.content => p.sequenceId = q.sequenceId

ClientInOrder(a) ==
    /\ \A c \in Channel :
          /\ Packed(a, c) >= 0
          /\ written[a][c] <= scenario.load[a][c]
          /\ QueueInOrder(a, c)
          /\ SendsInOrder(a, c)
    /\ Numbered(FromClient(a), a, [c \in Channel |-> Packed(a, c)])

-----------------------------------------------------------------------------
(* The server's side: one connection, and the packets sent to it.          *)

\* The ring refuses i: it holds i, or the window has passed it.
Known(ring, i) ==
    /\ ring.newest # LastIndex
    /\ i <= ring.newest
    /\ ring.newest < i + NumItems => Get(ring, i) # None

Delivered(inner, P, m) ==
    \E p \in P :
        /\ p.content = <<m>>
        /\ IF p.channel = "reliable"
           THEN Known(inner.received["reliable"], p.sequenceId)
           ELSE p.sequenceId < inner.head

Distinct(s) == \A j, k \in DOMAIN s : s[j] = s[k] => j = k

\* A ring of received packets holds packets that were sent.
ReceivesWhatWasSent(ring, P, c, bound) ==
    /\ ring.newest = LastIndex \/ ring.newest < bound
    /\ \A i \in Index : Get(ring, i) # None =>
          \E p \in P : p.channel = c /\ p.sequenceId = i /\ p.content = Get(ring, i)

\* The messages that wait for a reader are of the channel, and delivered once.
Waits(queue, c, inner, P) ==
    /\ Distinct(queue)
    /\ \A k \in DOMAIN queue : queue[k].channel = c /\ Delivered(inner, P, queue[k])

Reads(inner, P, bound) ==
    /\ \A c \in Channel : ReceivesWhatWasSent(inner.received[c], P, c, bound[c])
    /\ inner.head <= bound["ordered"]
    /\ Waits(inner.unordered, "reliable", inner, P)
    /\ Waits(inner.ordered, "ordered", inner, P)

\* What was read in this life of a connection, and no longer waits for it.
ReadBefore(inner, P, a) ==
    \A j \in DOMAIN log : log[j].from = a =>
        /\ log[j].life <= removals[a]
        /\ log[j].life = removals[a] =>
              /\ Delivered(inner, P, log[j].message)
              /\ \A k \in DOMAIN inner.unordered : inner.unordered[k] # log[j].message
              /\ \A k \in DOMAIN inner.ordered : inner.ordered[k] # log[j].message

ConnectionOnce(a) ==
    /\ Reads(Entry(a), FromClient(a), scenario.load[a])
    /\ ReadBefore(Entry(a), FromClient(a), a)

ReadInvariant ==
    /\ TypeOK
    /\ ReadOnce
    /\ \A a \in Client : ClientInOrder(a) /\ ConnectionOnce(a)

=============================================================================
