--------------------------- MODULE MultiDelivery ---------------------------
(***************************************************************************)
(* Why Multi loses nothing and keeps the order of the ordered channel: an  *)
(* inductive invariant.  MultiInvariant says why nothing is read twice.    *)
(*                                                                         *)
(* All that was ever queued on a connection, channel by channel, is a      *)
(* line.  The id of a packet is the place of its message in the line, from *)
(* 0 on: what was packed stands in front of what is still queued.  Each    *)
(* pair of a client and the server's connection to it has two directions,  *)
(* each with a sender S, a receiver R, the lines of the sender, the        *)
(* packets P that the sender and Q that the receiver sent, and what the    *)
(* receiver had: all the messages that were handed on.                     *)
(***************************************************************************)
EXTENDS MultiInvariant

\* No connection has been owed so many messages that ids come close to wrapping
\* around; FewMessages bounds what the clients write.
FewOwed ==
    \A a \in Client, c \in Channel : Len(owed[a][c]) < U16 - NumItems

-----------------------------------------------------------------------------
(* One channel of a direction: what stands where.                          *)

\* The id of the next packet: how many messages were packed.
NextId(inner, c) == WrappingAdd(inner.sendPackets[c].newest, 1)

\* A line is the messages packed, then those queued, and a packet in flight has
\* the message at its place.
InLine(S, line, c) ==
    /\ Len(line[c]) = NextId(S, c) + Len(S.sendQueue[c])
    /\ \A k \in DOMAIN S.sendQueue[c] : S.sendQueue[c][k] = line[c][NextId(S, c) + k]
    /\ \A i \in Keys(S.sendPackets[c]) :
          i < NextId(S, c) /\ Get(S.sendPackets[c], i).message = line[c][i + 1]

\* So have the packets sent.
PacketsInLine(S, P, line, c) ==
    \A p \in P : p.channel = c =>
        p.sequenceId < NextId(S, c) /\ p.content = <<line[c][p.sequenceId + 1]>>

\* And those that the receiver holds.
HoldsLine(S, R, line, c) ==
    /\ R.received[c].newest = LastIndex \/ R.received[c].newest < NextId(S, c)
    /\ \A i \in Index : Get(R.received[c], i) # None =>
          i < NextId(S, c) /\ Get(R.received[c], i) = <<line[c][i + 1]>>

\* The ordered line was handed on up to the head, and the head is missing.
HandedOn(R, had, line) ==
    /\ R.head <= Len(line["ordered"])
    /\ \A k \in 1 .. R.head : line["ordered"][k] \in had
    /\ Get(R.received["ordered"], R.head) = None

Direction(S, R, P, had, line, c) ==
    /\ InLine(S, line, c)
    /\ PacketsInLine(S, P, line, c)
    /\ HoldsLine(S, R, line, c)
    /\ c = "ordered" => HandedOn(R, had, line)

-----------------------------------------------------------------------------
(* One channel of a direction: what is acknowledged.                       *)

\* The ids of the messages that the receiver has or holds.
Arrived(R, had, line, c) ==
    IF c = "reliable"
    THEN {i \in Index : i < Len(line[c]) /\ line[c][i + 1] \in had}
    ELSE {i \in Index : i < R.head \/ Get(R.received[c], i) # None}

Names(ack, c) == {WrappingSub(ack[c].newest, b) : b \in ack[c].bits}

\* What was packed has arrived or is still in flight; acknowledgements that are
\* sent, or may be sent again, name only what arrived.
Settled(S, R, Q, had, line, c) ==
    /\ \A i \in 0 .. NextId(S, c) - 1 :
          i \in Arrived(R, had, line, c) \/ i \in Keys(S.sendPackets[c])
    /\ \A i \in Index : Get(R.received[c], i) # None => i \in Arrived(R, had, line, c)
    /\ \A q \in Q : Names(q.ack, c) \subseteq Arrived(R, had, line, c)
    /\ \A d \in Channel : \A i \in Keys(R.sendPackets[d]) :
          Names(Get(R.sendPackets[d], i).ack, c) \subseteq Arrived(R, had, line, c)

-----------------------------------------------------------------------------
(* The two directions.                                                     *)

\* The packets that client a sent, and those sent to it.
SentBy(a) == {d.packet : d \in {e \in net : e.from = a}}
SentTo(a) == {d.packet : d \in {e \in net : e.to = a}}

\* All that client a wrote; these are its lines as long as it does not restart.
Written(a) ==
    [c \in Channel |->
        [k \in 1 .. written[a][c] |-> [from |-> a, channel |-> c, number |-> k - 1]]]

\* What the server read from a, or holds for its reader; what client a read.
ServerHad(a) ==
    {e.message : e \in {f \in Range(log) : f.from = a}}
        \cup Range(Entry(a).unordered) \cup Range(Entry(a).ordered)

ClientHad(a) == BagToSet(heard[a]) \cup Range(heardOrdered[a])

\* The sender has not forgotten the channel, and the receiver has not, but for the
\* reliable channel where all that arrived is read at once.
UpLasts(a, c) ==
    /\ restarts[a] = 0
    /\ removals[a] = 0 \/ (c = "reliable" /\ scenario.callback # "none")

DownLasts(a, c) ==
    /\ removals[a] = 0
    /\ restarts[a] = 0 \/ c = "reliable"

UpInOrder(a, c) ==
    UpLasts(a, c) => Direction(client[a], Entry(a), SentBy(a), ServerHad(a), Written(a), c)

UpSettled(a, c) ==
    UpLasts(a, c) => Settled(client[a], Entry(a), SentTo(a), ServerHad(a), Written(a), c)

DownInOrder(a, c) ==
    DownLasts(a, c) => Direction(Entry(a), client[a], SentTo(a), ClientHad(a), owed[a], c)

DownSettled(a, c) ==
    DownLasts(a, c) => Settled(Entry(a), client[a], SentBy(a), ClientHad(a), owed[a], c)

\* A callback that reads everything leaves nothing on its connection, and no
\* client leaves anything.
NothingLeft(a) ==
    /\ client[a].unordered = << >> /\ client[a].ordered = << >>
    /\ scenario.callback # "none" => Entry(a).unordered = << >> /\ Entry(a).ordered = << >>

\* What client a read on the ordered channel is its line up to the head.
HeardTheLine(a) ==
    removals[a] = 0 /\ restarts[a] = 0 =>
        /\ Len(heardOrdered[a]) = client[a].head
        /\ \A k \in DOMAIN heardOrdered[a] : heardOrdered[a][k] = owed[a]["ordered"][k]

OrderInvariant ==
    \A a \in Client :
        /\ NothingLeft(a)
        /\ HeardTheLine(a)
        /\ \A c \in Channel : DownInOrder(a, c)

DeliveryInvariant ==
    /\ OrderInvariant
    /\ \A a \in Client, c \in Channel :
          /\ UpInOrder(a, c)
          /\ UpSettled(a, c)
          /\ DownSettled(a, c)

-----------------------------------------------------------------------------
(* What a client hears was addressed to it, by whatever connection.        *)

\* Channel, id and message of what stands in a line, and in all the lines of the
\* connections to client a that there were.
Queued(line) ==
    UNION {{<<c, k - 1, line[c][k]>> : k \in DOMAIN line[c]} : c \in Channel}

Places(a) ==
    Queued(owed[a]) \cup UNION {Queued(owedBefore[a][life]) : life \in DOMAIN owedBefore[a]}

\* Ids are less than that.
IdBound == U16 - NumItems - 1

\* A packet holds the message at the place that its channel and id say.
Carries(content, c, i, places) ==
    \E t \in places : t[1] = c /\ t[2] = i /\ content = <<t[3]>>

PacketsFrom(P, places) ==
    \A p \in P :
        p.channel \in Channel => Carries(p.content, p.channel, p.sequenceId, places)

\* A client may hold packets of several connections, under ids that it did not know.
RingFrom(ring, c, places) ==
    /\ ring.newest = LastIndex \/ ring.newest < IdBound
    /\ \A i \in Index : Get(ring, i) # None => Carries(Get(ring, i), c, i, places)

HoldsPlaces(R, places) ==
    /\ \A c \in Channel : RingFrom(R.received[c], c, places)
    /\ R.head <= IdBound

Placed(had, places) ==
    \A m \in had : \E c \in Channel, i \in Index : <<c, i, m>> \in places

\* The ids on the reliable channel under which a receiver may have read m.
KnownFor(R, m, places) ==
    {i \in Index : Known(R.received["reliable"], i) /\ <<"reliable", i, m>> \in places}

\* Under each id a client that lasts has read one message at most.
HeardOnce(R, bag, out, places) ==
    /\ \A m \in BagToSet(bag) : bag[m] <= Cardinality(KnownFor(R, m, places))
    /\ Len(out) = R.head
    /\ \A k \in DOMAIN out : <<"ordered", k - 1, out[k]>> \in places

Addresses(a) ==
    /\ \A c \in Channel : InLine(Entry(a), owed[a], c)
    /\ \A life \in DOMAIN owedBefore[a], c \in Channel :
          Len(owedBefore[a][life][c]) < U16 - NumItems
    /\ PacketsFrom(SentTo(a), Places(a))
    /\ HoldsPlaces(client[a], Places(a))
    /\ Placed(ClientHad(a), Places(a))
    /\ restarts[a] = 0 => HeardOnce(client[a], heard[a], heardOrdered[a], Places(a))

AddressInvariant == \A a \in Client : NothingLeft(a) /\ Addresses(a)

=============================================================================
