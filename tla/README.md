# mini_udp in TLA+

mini_udp is a synchronous reliability protocol on top of UDP: an application
writes messages into queues, `send` packs them into packets with acknowledgements,
and `recv` unpacks what the socket holds. This directory models the protocol, the
data structures it stands on and the server that keeps many connections, checks small
instances with TLC and proves with TLAPS, for every size, what the ring buffer
promises, that the protocol is safe and implements an abstract channel, and that a
server with many clients loses no message, reads none twice, keeps their order, and that
clients read only what was addressed to them.

Paths below are relative to `src/mini_udp/src/` unless they start with `derive/`.

## The system

| Part | State | Operations | Interacts with |
|---|---|---|---|
| wrapping arithmetic (`ring_buffer.rs:357-369`) | none | `wrapping_add`, `wrapping_sub`, `wrapping_gt`, `wrapping_range` on `u16` | everything that compares sequence ids |
| `RingBuffer<T, NUM_ITEMS>` (`ring_buffer.rs`) | `newest`, `items` | `get`, `push`, `insert`, `take`, `retain`, iterators, `push_will_override` | four rings per connection: packets sent and received, reliable and ordered |
| `InnerUdpCommunicator` (`communicator/inner.rs`) | the rings, `ordered_read_packet_head`, send and receive queues, `received_packet_duplicate`, time stamps | `send` (heartbeat, `flush_messages`, `send_packets`), `receive` / `read_packet`, `write_heartbeat`, `has_work` | one peer, through datagrams |
| `PacketAck` (`packet_ack.rs`) | newest received id and 32 bits per channel | `new` from the receive rings, `acknowledge` on the send rings | carried by every packet |
| `UdpCommunicator` (`communicator/mod.rs`) | a socket and one inner communicator | `write`, `write_reliable`, `write_ordered`, `read`, `read_ordered`, `send`, `recv`, `tick` | the application |
| `MultiUdpCommunicator` (`communicator/multi.rs`) | a socket and a map from addresses to inner communicators | `connect`, `recv` with callbacks and delayed broadcasts, `send`, `broadcast`, `retain`, `remove` | many peers over one socket |
| socket settings (`communicator/socket.rs`) | buffers, resend intervals, retry limits | `bind`, setters | `send_packets` |
| fake network (`communicator/debug.rs`) | probabilities, delayed datagrams | `delay_packet`, `read_delayed` | `receive` |
| `ByteRepr` (`byte_repr.rs`, `derive/src/`) | none | `byte_len`, `write_to_bytes`, `from_bytes`, generated by a derive macro | packets and messages |

What is hard about it:

* Sequence ids are `u16` and wrap around; slots of a ring are reused every 32 ids.
  `wrapping_gt` compares two ids only up to a given distance and falls back to
  plain numbers beyond it.
* The network loses, duplicates, delays and reorders datagrams. Acks ride on
  packets that are themselves resent, unchanged, so acks are stale.
* A sender learns of a lost ack only through its own resends: the receiver takes
  them for duplicates and answers with a heartbeat.
* A full send ring blocks the queue; a packet that runs out of retries leaves a
  hole that the receiver of an ordered channel waits for.
* Nothing runs concurrently inside one communicator (the API is synchronous), all
  interleaving is between nodes and the network.
* A server creates a connection for whatever arrives, also after it removed it or the
  client started again: then one side goes on with sequence ids and acks of which the
  other knows nothing. What callbacks ask for is carried out when `recv` ends, on the
  connections that exist then.

What makes each part correct: the ring behaves like a map of the last 32 ids and
says truthfully what a push would override; an acknowledged packet was received;
a reliable message is received once; ordered messages come out in order and
without gaps, and none that is ready stays behind; no new packet is taken for a
duplicate; what was written arrives in spite of losses, and `has_work` becomes false;
a broadcast reaches those it is addressed to, once, while their connections last; a
value that is written is read back, and the lengths a type states are those of its
values.

## The modules

| Module | Models | Extends |
|---|---|---|
| `Wrapping` | `u16` of any width `U16`, `wrapping_gt`, `wrapping_range` | |
| `RingBuffer` | every method of `RingBuffer` as an operator on a record | `Wrapping` |
| `WindowMap` | abstract: a partial map on ids, defined on the `NumItems` newest ones at most | |
| `RingMachine` | one ring under any sequence of calls; refines `WindowMap` | `RingBuffer` |
| `RingIterators` | the five iterators of a ring, borrowed between calls | `RingMachine` |
| `RingFacts` | lemmas about the operators of `RingBuffer` and `Wrapping` | `RingBuffer` |
| `RingProofs` | theorems about `RingMachine` and `RingIterators` | `RingIterators`, `RingFacts` |
| `Protocol` | what the loops of the inner communicator do to one ring | `RingBuffer` |
| `Link` | two connected communicators and the network between them; refines `Delivery` | `Protocol` |
| `Delivery` | abstract: what two communicators promise, without packets, rings, ids and acks | |
| `ProtocolFacts` | lemmas about the operators of `Protocol` | `Protocol`, `RingFacts` |
| `LinkInvariant` | why `Link` is safe: the invariant `WindowsAgree`, and how long an outage it bears | `Link` |
| `LinkProofs` | the types of `Link`; lemmas about the rings of both sides as windows on a line of messages | `LinkInvariant`, `ProtocolFacts` |
| `LinkSafety` | theorems about `Link`, also when packets are given up | `LinkProofs` |
| `LinkRefinement` | `Link` implements `Delivery` | `LinkSafety` |
| `MCLink` | small workloads for `Link` | `LinkInvariant` |
| `MCLinkNews` | `Link` with a history variable: did a node receive something new since its last `send` | `MCLink` |
| `InnerUdpCommunicator` | one inner communicator as a value: its fields, and what `send` and `read_packet` make of it | `Protocol` |
| `Multi` | a `MultiUdpCommunicator`, its clients and the network | `InnerUdpCommunicator` |
| `MultiInvariant` | why the server of `Multi` reads no message twice: the invariant `ReadInvariant` | `Multi` |
| `MultiDelivery` | why nothing is lost in `Multi`, the order is kept, and clients read what was addressed to them: the invariants `DeliveryInvariant`, `OrderInvariant`, `AddressInvariant` | `MultiInvariant` |
| `MultiProofs` | theorems about `Multi`: types, nothing is read twice | `MultiInvariant`, `ProtocolFacts` |
| `MultiDeliveryProofs` | theorems about `Multi`: nothing is lost, the order is kept, clients read what was addressed to them | `MultiDelivery`, `MultiProofs` |
| `MCMulti` | small scenarios for `Multi` | `MultiDelivery` |
| `Layout` | the bytes that derived `ByteRepr` implementations write and read | |
| `MCLayout` | a set of types and values for `Layout` | `Layout` |

## How the models correspond to the code

### Wrapping and RingBuffer

`U16` stands for 65536. `WrappingGt` keeps the shape of `wrapping_gt`: the two
cases where the smaller number is taken for the later id, and plain comparison in
all others, also where that is not what one would expect. A ring is a record of
`newest` and `items`; each method is an operator that returns the new record or the
answer. `Insert` has the three branches of `insert`, with the index computations of
its purge loop. `Retain` takes what the predicate makes of each item, because
`resend_if_needed` both changes and removes items.

`RingMachine` calls these operators in any order. `WindowMap` has no slots and no
branches: a function on all ids, from which an id disappears exactly when it falls
`Size` behind the newest one. The refinement mapping is `get` itself: id `i` maps to
`Get(ring, i)`.

`RingIterators` adds the field `i` of an iterator that borrows the ring (`cursor`) and
what it has returned so far. `Iter`, `IterMut`, `IterValues`, `IterValuesMut` and
`IterKeys` are created with the same index and have the same loop in `next`, so one
cursor stands for all of them; `IterNext` lets the caller replace the item, which only
the mutable ones allow. While the ring is borrowed none of its methods can be called.
An iterator can be asked again after it ended (`IterEnd`), and dropped at any point.

### Protocol

The loops of `inner.rs` as operators on one ring: `FlushCount` is how many packets
`flush_messages` builds before the ring or the queue stops it, `Flushed` the ring it
leaves behind, `AfterResend` what a send makes of a packet's retries, `Resent` what
`retain` leaves of the ring, `Acknowledged` the ring after `acknowledge`, `ReadyCount` how many ordered packets the loop over
`iter_mut` hands on. `Link` and `InnerUdpCommunicator` share them.

### Link

Each of the two nodes is an `InnerUdpCommunicator` behind a `UdpCommunicator`.

| State of `Link` | Field of the code |
|---|---|
| `sendQueue` | `reliable_send_queue`, `reliable_ordered_send_queue` |
| `sendPackets` | `reliable_send_packets`, `reliable_ordered_send_packets`, with acks and `remaining_retries` |
| `receivedPackets` | `reliable_received_packets`, `reliable_ordered_received_packets` |
| `orderedHead` | `ordered_read_packet_head` |
| `unorderedReceived`, `orderedReceived` | all that was ever put into the receive queues |
| `unreliableQueued`, `unreliablePackets` | `unreliable_send_queue`, `unreliable_send_packets` |
| `receivedDuplicate` | `received_packet_duplicate` |
| `written`, `givenUp` | history only: no guard reads `givenUp`, and `written` gives messages their names |
| `net` | the network: datagrams that may still be delivered, any number of times |

| Action | Code |
|---|---|
| `Write`, `WriteUnreliable`, `WriteHeartbeat` | `write_reliable` / `write_ordered`, `write`, `write_heartbeat` |
| `Send(n, due)` | all of `send`: heartbeat if due, `flush_messages` for both reliable channels, then every new packet and every packet whose interval elapsed (`due`) is sent and its retries counted down; the duplicate flag is cleared |
| `ReceiveUnreliable`, `Refuse`, `AcceptReliable`, `AcceptOrdered` | the outcomes of `read_packet` for one datagram |

The guards of `Refuse` are the two conditions of `read_packet`: the id is in the
ring, or `wrapping_gt(newest - 31, id, 64)`. A refused datagram's ack is not
looked at, as in the code.

The network brings a datagram at most `MaxLag` packets late, and only while its ack
names a packet at most `MaxAckLag` packets old (`Recent`). These are two numbers
because an ack may be old although the datagram is new: after an outage its sender
knows no later packet.

What is abstracted: a message is the content of one packet (how messages are packed
is in `Layout`); messages are numbers in the order of writing, which no step
compares; time is a free choice of what is due; a datagram that the operating
system refuses to send is a lost one (the code logs the error and counts the retry); a corrupted datagram is a lost
one, because `read_packet` returns on a bad checksum before it changes anything
that `Link` has (`last_seen` is not in it).

`MCLinkNews` adds `news`: whether a node took in a packet since its last `send`.

### Delivery

The promise of `mod.rs:23-30` without the machinery: `arrived`, the messages that the
other side took in, `unordered` and `ordered`, what it handed to its application, and
`settled`, what the sender needs not send any more. A message arrives once; a reliable
one is handed on as it arrives; after each step the ordered ones handed on are all
those in front of the first gap (`UpToTheGap`), so nothing that is ready waits for a
later packet to fetch it; and only what arrived is settled, for good.

In the refinement mapping of `Link`, `arrived` is `Accepted` of the receiver and
`settled` what was packed and has left the send ring. Packets, ids, acks, resends,
heartbeats, losses and duplicates are steps that change none of the five variables,
or settle something.

### InnerUdpCommunicator and Multi

| State of `Multi` | In the code |
|---|---|
| `coms` | `MultiUdpCommunicator::coms`, a function whose domain changes |
| `client` | the `InnerUdpCommunicator` of each client's `UdpCommunicator` |
| `calling`, `requests` | where `recv` is in its two loops, and the `State` of its callback |
| `delayed` | `fake_delayed_buffer`, shared by all connections |
| `scenario` | what the applications do: the messages they write, the callback, whether delays are on, how many failures |
| `written`, `log`, `heard`, `heardOrdered`, `removals`, `restarts` | history: what was written and read, and how often a side forgot |
| `owed`, `owedBefore` | history: what callbacks and the server's application asked to send on a client's connection, channel by channel and in order, and on the connections to it that were removed |

| Action | Code |
|---|---|
| `ReceiveDatagram(d, intact)` | one turn of the loop of `recv` over the socket: `entry(addr).or_default()`, `read_packet`, the callback |
| `DelayPacket`, `ReceiveDelayed` | the same with `fake_delay`: `delay_packet` keeps the datagram, the second loop takes any that is due, by `swap_remove` |
| `Finish` | `finish`: the requests in their order, on the connections that exist then; `recv` returns |
| `Connect`, `RemoveConnection` | `connect`; `remove` or `retain` |
| `ServerWrite`, `ReadAll`, `ServerSend(due)` | `broadcast`, `broadcast_except`, `get_mut` or `for_each` with a write; `for_each` or `iter_mut` with `read`; `send` |
| `ClientWrite`, `ClientSend`, `ClientReceive` | a `UdpCommunicator` in its application's loop, reading until `None` |
| `ClientRestart` | the client's program ends, and starts again on the same port |

`recv` is not one step: between two datagrams other programs run and the network may
bring more. The other methods need `&mut self` and wait for its end. A datagram that
is corrupted or dropped by the fake network has no effect on the connection, but it
creates one, and the callback is called (`intact = FALSE`).

The five kinds of callback are those of `multi.rs:336-417`. The application is a relay:
whatever the server reads it answers, or asks to broadcast, to broadcast to all but the
author, or to write on every connection's ordered channel. The iteration order over
the hash map does not matter, because connections do not share anything.

A connection that is created again is a fresh `InnerUdpCommunicator` that meets the
datagrams and the sequence ids of the earlier one. The properties say who has to forget
for what to go wrong:

* a reliable message is lost only if its *sender* forgets (`NothingLost`): a receiver
  that forgets, in the middle of a connection or with a broadcast, can make a message
  wait or come twice, not disappear, because no ack names what was not received;
* a message is read twice only if its *receiver* forgets (`ReadOnce`,
  `HeardAsAddressed`): a client that starts again reuses ids, and copies of its earlier
  packets are still under way, but the ring of the other side refuses what it knows;
* the ordered channel needs both sides unbroken (`NothingLost`, `HeardInOrder`): a new
  head waits for id 0, which the other side does not send any more.

What the properties leave open is the other half of that: a connection that goes on
with a peer that forgot it may take ids that it knows for duplicates, acks of the
earlier connection settle new packets, and ids between 33 and 65503 are refused by a
fresh ring. `mini_udp` has no handshake that would tell.

### Layout

A type is a tree of records (`Struct`, `Enum`, `Option`, `Cow`, `Vec`, ...). The
operators follow the macro: `FixedBytes`, `IsStatic` and `LenBound` are its
`ByteLen`, `StaticOffset` its `ByteOffset`; `WriteFixed`, `WriteVariable` and
`ReadField` are the code it emits for one field, `WriteValue` and `ReadValue` the
implementation it emits for one type. `Delegated` marks a field that calls the
implementation of its type, and separates it from one whose code is inlined (a
`Cow<str>` in an `Option` is inlined, a user type is not). The state machine is
`write_many` into a used buffer, then `read_many` of what was written. A scalar is
its sequence of bytes, so byte order within a number is not in the model.

## Runs

All of them finish in less than three minutes on two workers.

| Run | Asks | Result |
|---|---|---|
| `ring` | types, `ImplementsWindowMap`, `PushOverridesOnlyWhenTold`, and of the iterators `YieldsEachOnceInOrder`, `HintBracketsWhatRemains` | hold |
| `link_wrap` | `WindowsAgree`, `AckSound`, `DeliveredOnce`, `DeliveredInOrder`, `DuplicateWasReceived`, `ImplementsDelivery` for ids that wrap around, one channel at a time | hold |
| `link_two_ways` | `WindowsAgree`, `AckSound`, `DeliveredOnce`, `ImplementsDelivery` with both directions and channels, heartbeats and unreliable traffic | hold |
| `link_gives_up` | types, `WindowsAgree`, `AckSound`, `DeliveredOnce`, `DeliveredInOrder` when retries run out, in outages of the length that the theorems allow | hold |
| `link_lossy` | `EveryMessageArrives`, `WorkEnds` on a lossy network, one direction | hold |
| `multi` | types, `NothingLost`, `ReadOnce`, `HeardAsAddressed`, `HeardInOrder` with two clients, callbacks, removals and restarts | hold |
| `layout` | `ReadsBack`, `WritesItsLength`, `LengthsBounded`, `PacketsFit` | hold |
| `link_black_hole` | `DuplicateWasReceived` when retries run out | violated |
| `link_stale_duplicate` | `DeliveredOnce` with one packet more of lag | violated |
| `link_heartbeat` | `NewsAreAcknowledged`, the documentation of `send` | violated |
| `link_stall` | `EveryMessageArrives` with both windows full | violated |
| `layout_option_cow` | `WritesItsLength` for `Option<Cow<u16>>` | violated |

### Bounds

* `ring`: 4 slots, 32 indices. `insert` distinguishes distances up to 2 * 4 on both
  sides of the newest index and the wrap; with 32 indices each side of the ring
  has positions beyond them, where `wrapping_gt` compares plain numbers. The proof
  covers all other sizes. Iterators start from every one of these rings, so their
  range lies before, across and behind the wrap.
* `link_wrap`: 2 slots and 16 ids, 18 messages, so the ids of both channels wrap
  around and two messages have the same id. The relation of capacity and ids
  matters more than the numbers: the ids need at least 8 windows, because the
  acceptance test looks up to 3 windows back and the same again forward. 32
  slots and 65536 ids have that many times over.
* `MaxLag = 3 * NumItems - 1` is the exact limit. With 5 the four properties hold;
  with 6 a late duplicate passes the test for its age around the wrap and is
  received again (`link_stale_duplicate`). In the code this is a datagram that
  arrives 96 or more packets late.
* `MaxAckLag = U16 - NumItems` is exact as well: if an ack may name a packet one older,
  its bits stand for packets that are in flight now, and TLC finds `AckSound` violated.
  In the code this is an ack of 65505 packets ago.
* `link_two_ways`: rings of 1 slot and at most 4 messages, spread over channels and
  directions in four ways; `MaxAckLag` is 7, the limit for 8 ids. A ring of 1 keeps the
  two-way state small while all actions meet: acks and data, heartbeats, unreliable
  packets, both channels.
* `link_gives_up`: one slot, 5 ids and 7 messages of one channel or the other, two
  sends per packet. The smallest sizes that `4 * NumItems < U16` allows let the
  sender run ahead of the receiver past the wrap of the ids, so that `OutageSpec`
  excludes something: outages of more than `U16 - NumItems = 4` packets, and an ordered
  channel that waits for more than 5. Both limits are exact: with one packet more TLC
  finds `DeliveredInOrder` violated for the second, and, with two slots and 10 ids,
  `WindowsAgree` for the first. In the code they are 65504 and 65536 packets.
* `link_lossy`: 3 messages through a ring of 2, so the last one has to wait for an
  ack of the first.
* `multi`: nine scenarios, because all of it at once is out of reach. Each kind of
  callback has one or more: two messages or one through `broadcast_except` with one or
  two failures, with delays and without; `broadcast` with a failure, or together with
  a message of the server's own; `for_each` with two ordered messages of one author, or
  with two authors; `answer` and no callback with both channels and a failure. A
  failure is a removal or a restart, at any point. Rings have one slot and ids are
  modulo 8, so that a second message waits for the ack of the first; wrap-around and
  windows are the business of `link_wrap`. Two delayed datagrams are the least that can
  overtake each other.
* `layout`: nine types in which every kind of field stands before, behind and
  inside every other kind that the macro treats differently, and packets of up to
  three messages out of an enum; scalars of all zeros or all ones, strings of up to
  2 bytes, vectors of up to 2 items, and a `MAX_PACKET_DATA_LEN` of 8 that three
  messages can exceed.

### Fairness

`link_lossy` and `link_stall` assume that an application goes on calling `send` and
`recv` and that the resend interval elapses between calls (weak fairness of a
`send` that finds everything due), and that a network which is handed a datagram
again and again delivers one in the end (strong fairness of receiving a packet that
is accepted, and of one that is refused). The loops of the examples and of `tick`
do the former; the latter is the least one may ask of a network. Nothing is assumed
about writing.

## Findings

* **Black hole.** A receiver that has received nothing has `newest = 65535`. If the
  first 33 packets run out of retries, the next one has an id between 33 and 65503
  and is taken for too old, and so is each later one. `link_black_hole` finds the
  refusal of a packet that was never received.
* **A gap of 65536 messages.** An ordered message that runs out of retries stops the
  ordered channel, which `DeliveredInOrder` permits. But the head still waits for an
  id, not for a message: 65536 packets later a packet with that id comes, and the
  channel goes on behind the gap, contrary to `mod.rs:25-26`. `OutageSpec` leaves these
  behaviours out; without its second conjunct `link_gives_up` finds one.
* **Stale duplicate.** See `MaxLag` above: a reliable message is read twice, the
  ring is emptied and its newest index moves back.
* **Heartbeats.** The documentation of `send` promises a heartbeat after new packets;
  the code sends one only after a duplicate. Every packet to a peer that has nothing
  to say is therefore sent twice at least.
* **Stall.** When both sides fill their windows before they receive anything, the
  acks in all packets are old, duplicates ask for heartbeats, and heartbeats need
  empty queues. Nobody acknowledges anything until retries run out.
* **Option<Cow<T>>** with a `T` of fixed length is written twice, over the fields
  behind it.

## Proofs

`RingProofs` proves, for every `U16`, `NumItems`, `None` and `Item`:

* `TypeCorrect`: `Spec => []TypeOK`. The type invariant is inductive by itself.
* `PushTellsWhatItOverrides`: `Spec => PushOverridesOnlyWhenTold`. `push` makes the
  ring forget an item exactly if `push_will_override` answered true before.
* `RingImplementsWindowMap`: `Spec => Abstract!Spec`, the refinement that the run
  `ring` checks for 4 slots and 32 indices.

The assumptions are those of the modules: `RingAssumption` (`NumItems` divides `U16`,
as `default` asserts, and `4 * NumItems <= U16`, without which `NUM_ITEMS as u16 * 2`
overflows), `U16Assumption` and that `None` is no item. The argument needs no
invariant beyond the type: a slot may hold an item whose index is outside the window
only if no reachable `get` can see it, and the mapping looks through `get`. For each
method there is a lemma in `RingFacts` about what `Get` finds afterwards:
`GetAfterPush`, `GetAfterInsert` (one case per branch), `GetAfterTake`,
`GetAfterRetain`. They rest on lemmas about slots (two indices of one window have
different slots) and about `wrapping_gt`: in each of the three branches of `insert`,
its comparisons amount to a statement about distances from `newest`. `StepRefines`
combines them.

About the iterators `RingProofs` proves, under the same assumptions and that `None` is no
index:

* `IteratorsYieldEachOnceInOrder`, `HintsBracketWhatRemains`: `IterSpec => []P` for
  `YieldsEachOnceInOrder` and `HintBracketsWhatRemains`.
* `IteratorsImplementWindowMap`: `IterSpec => ImplementsWindowMap`, because a change
  through a mutable iterator amounts to an `insert` at an index that is in the ring
  (`NextIsInsert`).

`YieldsEachOnceInOrder` with the types is inductive by itself (`IterInvariant`). The
argument measures each index by its age, the distance from the oldest index of the
window: what an iterator has not visited is the young part of the window
(`RemainingIsYoung`), and `next` returns the oldest item of it (`FirstIsOldest`). For
`size_hint` the items are counted: as many as full slots (`LenCountsKeys`), each either
returned or still to come (`VisitedAndRemaining`, `SeenIsVisited`). `HintArithmetic`
shows on the way that the comparison by `wrapping_gt` in `size_hint` is never true.

`LinkProofs` proves, for every `U16`, `NumItems`, set of workloads, `MaxQueued`,
`Chatty`, `GivesUp`, `MaxRetries`, `MaxLag` and `MaxAckLag`:

* `LinkTypeCorrect`: `Spec => []TypeOK`: the rings, queues and datagrams of both nodes
  stay well-formed under any interleaving.

The loops of the code are in `Link` the first number at which they stop, so that such
a number exists has to be proved (`FlushCountType`, `ReadyCountType`, by the
well-foundedness of `<`). `FlushKeeps` shows on the way that `flush_messages`, which
pushes several packets at once, keeps all packets that are in flight.

`LinkSafety` proves, for every workload and every size, under the hypothesis `ShortLag`
(`4 * NumItems < U16`, `MaxLag <= 3 * NumItems - 1`, `MaxAckLag <= U16 - NumItems`):

* `LinkWindowsAgree`, `LinkAckSound`, `LinkDeliveredOnce`, `LinkDeliveredInOrder`:
  `OutageSpec => []P` for the property of that name, whether or not retries run out.
* `LinkOutagesAreShort`: `Spec => OutageSpec` if retries do not run out. The four
  properties then hold of every behaviour of `Link`.
* `LinkFewMessages`: the same if retries do run out, but no workload has more than
  `U16 - NumItems` messages on a channel (65504 in the code). The black hole and packets
  lost for good are among these behaviours: they cost progress, not safety.
* `LinkDuplicateWasReceived`: `Spec => DuplicateWasReceived` if retries do not run out;
  if they do, it is false (`link_black_hole`).

`OutageSpec` is `Spec` without long outages: after each step, the newest packet that a
node received is at most `U16 - NumItems` older than the newest one its peer built, and
the ordered channel does not wait for a message that is more than `U16` older
(`ShortOutage`). This is a hypothesis about the network and not about the code, like
`MaxLag`; with `LinkOutagesAreShort` and `LinkFewMessages` it is a consequence of what
the code does in the two cases where it can be.

None of the hypotheses can be dropped or made weaker by one packet, as TLC shows on
small instances: with `U16 = 8` and `NumItems = 2` it finds `WindowsAgree` violated for
`MaxLag = 5`; with a lag of one packet more, `DeliveredOnce` (`link_stale_duplicate`);
for the others see Bounds. In the code `4 * 32` is far below 65536.

None of the properties is inductive: whether a packet is new is decided by comparing
ids modulo `U16`, so each needs to know how far apart everything is. `WindowsAgree`
says it. In `Link` a message is its position on the unbounded line 0, 1, 2, ..., the
id is that position modulo `U16`, and:

* a send ring is a window that ends at the last message packed, a ring of received
  packets one that ends at the newest message received, and each slot holds the
  message of its position (`SendWindow`, `ReceiveWindow`);
* nothing is lost between them: a message that was packed is in flight, or its
  receiver is done with it (`NothingLost`), because it accepted it, because its sender
  gave it up, or because it is an ordered message behind a hole that the window of the
  receiver has passed (`DoneWith`, `Stranded`);
* the ordered head is the first message that was not accepted (`HeadIsFirstMissing`),
  and a reliable message that was received was handed on once (`HandedOnOnce`);
* acks that wait in a send ring, a heartbeat or a datagram name only messages that
  their sender is done with (`GoodAck`), and a datagram carries the id of its message
  (`GoodPacket`).

`Stranded` is there because of what `insert` does: an ordered packet that waits behind
a hole is acknowledged, and purged without being handed on when newer packets push it
out of the window. So "acknowledged" means "accepted" only as long as nothing is given
up, and the invariant cannot say more than the code keeps.

The key step is `Arriving`: what is not refused is new, and in or ahead of the
receiver's window; and what is refused was accepted before, unless something was given
up. The message that arrives is at most
`U16 - NumItems` ahead of the receiver's newest one (`ShortOutage`) and, with the lag,
at most `3 * NumItems - 1` behind the sender's. Between these limits `wrapping_gt` with
its bound of `2 * NumItems` takes no id behind the window for one that is new
(`TooOld`). That *only* accepted messages are refused needs the windows to be close:
while nothing is given up the sender cannot push past an unacknowledged packet, so all
messages more than `NumItems` behind its last one were accepted and the receiver's
newest message is at most `NumItems` behind the sender's (`NothingGivenUpIsShort`).

The other lemmas say what
each operation makes of a window: `SentWindow` (flush and resend), `AcceptedWindow`
(insert), `AcknowledgedWindow` (acknowledge), `ReadyRow` (the loop of ordered
delivery). `SendAgrees`, `AcceptReliableAgrees`, `AcceptOrderedAgrees`,
`ReceiveUnreliableAgrees` and `WritesAgree` use them, one for each action.

That nothing is given up is itself an invariant if retries do not run out: `Send` adds
to `givenUp` what `Resent` removes, and without retries `Resent` removes nothing
(`StepGivesNothingUp`). `DoneWith` then amounts to "accepted" (`DoneIsAccepted`), because
no message is stranded: the message of the hole it is behind would have been given up
(`HoleWasGivenUp`). `LinkWithoutLosses` puts this together as one invariant of
`Spec`, on which the theorems without retries rest.

`LinkRefinement` proves, under `ShortLag` and if retries do not run out,
`LinkImplementsDelivery`: `Spec => ImplementsDelivery`. The initial states agree (`InitMaps`); a write is a
write; every other step is a transfer or changes nothing that the mapping sees. What
the proof needs beyond the invariant is what a step does to what was accepted and what
is in flight, which the lemmas of `LinkSafety` say along with `WindowsAgree`. That a
settled message arrived is `NothingLost` of the invariant, that it stays settled that
the send window only moves forward, and that the ordered messages handed on reach up to
the gap is `HeadIsFirstMissing`: the head is the first message not accepted, and what
is in front of it was handed on in the step that moved it.

`MultiProofs` proves, for every set of clients and of scenarios, every `U16`,
`NumItems`, `GivesUp`, `MaxRetries` and `MaxDelayed`:

* `MultiTypeCorrect`: `Spec => []TypeOK`. Connections are to clients only, every
  communicator keeps its types, also one that is created by a datagram of a client that
  started again, and requests wait only while `recv` runs. The type invariant is
  inductive by itself.
* `MultiReadOnce`: `Spec => []ReadOnce`, under the hypothesis `FewMessages`: each client
  writes fewer than `U16 - NumItems` messages on a channel (65504 in the code). Restarts,
  removals, delays, repetitions and every kind of callback are covered, and so are
  retries that run out, which the run `multi` leaves out.

`FewMessages` takes the place that the bound on late datagrams has in `Link`: the
network of `Multi` keeps every datagram for ever, so the first packet may arrive after
the last one. It cannot be weaker by one message: with `U16 = 8` and `NumItems = 1` TLC
finds `ReadOnce` violated for one client that writes 7 messages, and no error for 6.

`ReadOnce` speaks of the log of what was read and is far from inductive. `ReadInvariant`
adds, for every client:

* *on its side* (`ClientInOrder`): its queue holds the messages it wrote last, in order
  (`QueueInOrder`); the next id is at most the number of messages packed, and what is in
  flight was sent under its id before (`SendsInOrder`); and among all packets it ever
  sent, those with the same message have the same id (`Numbered`). The converse does not
  hold: a client that starts again uses an id for another message.
* *on the server's side* (`ConnectionOnce`): a connection holds only what was sent to it,
  in its rings as in its queues (`ReceivesWhatWasSent`, `Waits`); what it holds for a
  reader, and what was read since the connection exists, it has `Delivered`: its ring
  holds that id or has left it behind, or the ordered head has passed it; and nothing
  that was read waits to be read again (`ReadBefore`).

So a message that comes again comes under an id that the connection knows, which is
refused (`KnownIsRefused`), whatever message the id stood for. Two facts carry the
rest: what a ring knows it knows after any `insert` (`KnownAfterInsert`), and what is
handed on had not been delivered before (`ReadReliableOnce`, `ReadOrderedOnce`). On the
other side `SendInOrder` shows that flushing, sending and giving up keep the numbers:
a packet that is sent holds what was in flight under its id, or the next message under
the next id (`SendsNext`). A connection that is removed takes its part of the log with
it: the next one belongs to another `life` of it (`RemoveOnce`).

TLC finds `ReadInvariant`, `FewMessages` and, for the theorems below, `DeliveryInvariant`,
`AddressInvariant` and `FewOwed` to hold in all states of the run `multi` (add `INVARIANT ReadInvariant` and
so on to `Multi.cfg`). `finish` runs through all requests;
`Finished` defines that by recursion on a number, and TLAPS has no induction principle
that could be used for it. `FinishedType` takes the least request whose communicators
would be ill-formed instead, by the well-foundedness of `<`.

The constants get two more assumptions than in the code's words: `NoneAssumption`, an
empty slot is told from a message and from a packet, as `Option` does; and
`RetryAssumption`, a packet is sent at least once, because `remaining_retries` is
counted down before it is compared with 0.

`MultiDeliveryProofs` proves, for every set of clients and of scenarios and every size:

* `MultiHeardInOrder`: `Spec /\ []FewOwed => []HeardInOrder`, whether or not retries run
  out.
* `MultiNothingLost`: `Spec /\ []FewOwed => []NothingLost`, under `FewMessages` and if
  retries do not run out. If they do, a packet that is given up is lost.
* `MultiHeardAsAddressed`: `Spec /\ []FewOwed => []HeardAsAddressed`, whether or not retries
  run out, and however often connections are dropped and created again.

`FewOwed` says of the connections to the clients what `FewMessages` says of what the
clients write: fewer than `U16 - NumItems` messages are queued on a channel of one
connection. It is a condition on a behaviour and not on the constants, because how much a
server passes on depends on what arrives, and it starts again with each connection. Like
`FewMessages` it keeps apart the datagrams that the network never forgets.

The first two relate the two sides of a connection. All that was ever queued on a channel
of a connection is a *line* (`Written` for a client, `owed` for the server), and while the
sender does not forget, a packet's id is the place of its message in the line. Each client
has two directions, up and down, with a sender `S`, a receiver `R`, the packets that went
each way and what the receiver `had`; the same invariant is stated of both:

* `Direction`: the queue of `S` is the end of the line, and what is in flight, what was
  sent and what `R` holds are the messages at the places that their ids say
  (`InLine`, `PacketsInLine`, `HoldsLine`); on the ordered channel, all in front of `R`'s
  head was handed on and the head is missing (`HandedOn`).
* `Settled`: a message that was packed is still in flight or has arrived, and no ack that
  `R` sends, sent, or keeps for a resend names one that did not arrive. An ack of a
  packet that waits for its resend is as old as the packet, so it has to be in the
  invariant with those under way.
* `UpLasts`, `DownLasts`: how long it holds. The sender must not forget, and on the
  ordered channel the receiver must not either. On the reliable channel a receiver that
  forgets keeps the invariant, if it leaves no message unread (`NothingLeft`): its fresh
  ring names nothing, and what was acknowledged before was handed on before. This is why
  `NothingLost` asks `removals[a] = 0` of a program without a callback only.
* `HeardTheLine`: what a client read on the ordered channel is its line up to the head.

`OrderInvariant` is what `HeardInOrder` needs: it speaks of no ack, and holds also if
retries run out. `DeliveryInvariant` adds the other direction and `Settled`, and needs
`ReadInvariant`, which says that what the server read of a client is the client's.

The steps of `Multi` are first sorted by what they do to one client (`StepFor`,
`StepsFor`): each is one of six kinds, among them a client that queues, sends or
receives, a connection that does, and one of the two that forgets, whatever else it does
to others. A `Finish` that carries out many requests, or a datagram whose callback answers,
is for one client a connection that queues some messages. Then the lemmas about an
`InnerUdpCommunicator` apply: what `Enqueue`, `AfterSend` and `ReadPacket` do to the line
of a sender and to a receiver that holds it (`WritesInLine`, `SendsInLine`,
`ReadsReliableOn`, `ReadsOrderedOn`). In the end `NothingMissing` follows a message
from its place in the line to where it is.

`HeardAsAddressed` also speaks of a client whose connection was dropped and created again.
There an id no longer stands for one message: the new connection numbers from 0 on, the
client goes on with what it knows, and packets of both connections are under way. No
direction of the above lasts, so `AddressInvariant` keeps less: the *places*, triples of a
channel, an id and a message, that stand in the line of any connection there was to the
client (`Places`, from `owed` and `owedBefore`).

* What the connection packed is always its own line (`InLine` in `Addresses`), whatever
  became of the client and whatever it acknowledges, because acks only take packets out.
  So every packet to the client, and every packet it holds, carries the message of one of
  the places (`PacketsFrom`, `HoldsPlaces`): places are never taken away (`PlacesGrow`).
* A client that lasts has read a message on the reliable channel at most once for each id
  that it knows and that is a place of the message, and on the ordered channel one place
  after the other up to its head (`HeardOnce`). A packet that is not refused comes under
  an id that was not known and is known afterwards (`StoresPlaces`), so what was read grows
  by one where the ids grow by one (`PutsAllOnce`), though the id may stand for
  other messages as well.

What was read is thus counted by distinct pairs of a channel and an id, and each of them
is a place in a line where the message was addressed to the client (`HeardNoMore`, with the
library's theorems on cardinalities). This says also what is not guaranteed: when two
connections used one id for two messages, the client reads only one of them.

Only model-checked: the liveness of `Link`, because fairness is out of reach for TLAPS;
and everything about `Layout`, which uses recursive operators over types.

## Not modelled

* Messages longer than a packet, which the project's README excludes.
* In `Multi`: retries that run out, packets of several messages, unreliable messages,
  and callbacks that read only a part of what is there.
* How long a connection that was created again refuses the packets of a peer that goes
  on: `Multi` reaches these states, no property bounds them.
* Checksums, time stamps, addresses and sockets.
* Panics on bytes that no sender of this library wrote: datagrams of fewer than four
  bytes, datagrams that do not parse in builds with the feature `debug`, and strings or
  vectors that end behind the buffer. A reader of `Layout` that runs past the end is
  `"failed"`; `ReadsBack` says that it does not happen to what was written.
* `Cow` of a one-byte type, for which the macro itself panics.
* Enums of more than 256 variants: nothing in the repository compiles one, and whether
  the code that the macro emits for them is accepted by the compiler a model cannot tell.
* Zero-sized types, lengths that are expressions, values beyond the assumed lengths of
  strings and vectors.
* How the derive macro parses Rust.

## Plan

1. How long a connection that was created again keeps refusing a peer that goes on.
