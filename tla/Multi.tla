------------------------------- MODULE Multi -------------------------------
(***************************************************************************)
(* A MultiUdpCommunicator and its clients.  The server keeps a map from    *)
(* addresses to inner communicators, which datagrams and `connect` extend  *)
(* and `remove` shrinks; what the callback of `recv` asks for is carried   *)
(* out when `recv` ends.  Each client is a UdpCommunicator connected to    *)
(* the server.  Clients may restart, the server may drop connections, and  *)
(* the network delivers a datagram any number of times, in any order, or   *)
(* never, intact or corrupted.                                             *)
(*                                                                         *)
(* The application on top is a relay, as the documentation of recv has it: *)
(* whatever the server reads it asks the library to pass on to others.     *)
(***************************************************************************)
EXTENDS InnerUdpCommunicator, Bags, SequencesExt, TLC

CONSTANTS
    Client,         \* the addresses of the clients
    Server,         \* the address of the MultiUdpCommunicator
    Scenarios,      \* what an application does, see below
    MaxDelayed      \* how many datagrams fake_delayed_buffer is let to hold

\* The callbacks that recv accepts: (), a closure that gets the connection, here
\* to answer on it, or one that also gets a DelayedBroadcast, a
\* DelayedBroadcastExcept or a DelayedForEach, here to pass on what it reads.
Relaying == {"broadcast", "broadcast_except", "for_each"}

Callback == {"none", "answer"} \cup Relaying

ASSUME MultiAssumption ==
    /\ Server \notin Client
    /\ Scenarios \subseteq
           [load      : [Client -> [Channel -> Nat]],  \* what each client writes
            broadcasts : Nat,       \* how many messages the server itself writes
            callback  : Callback,
            fakeDelay : BOOLEAN,    \* whether fake_delay is set
            failures  : Nat]        \* how many restarts and removals there are
    /\ MaxDelayed \in Nat

VARIABLES
    coms,           \* the server's connections, a map from addresses
    client,         \* the inner communicator of each client
    net,            \* the datagrams that may arrive
    calling,        \* how far recv is: "none", "socket" or "delayed"
    requests,       \* the State of the callback, filled by it, emptied by finish
    delayed,        \* fake_delayed_buffer
    scenario

\* History, read by no step but for the numbers of messages: what was written,
\* what the server read (with its connection's removals so far), what each
\* client read on the reliable and on the ordered channel, what finish or the
\* server's application had to send on the connection to each client, and on
\* those before it, how often connections were removed and clients restarted.
VARIABLES written, log, heard, heardOrdered, owed, owedBefore, removals, restarts

serverVars == <<coms, calling, requests, delayed>>
history == <<written, log, heard, heardOrdered, owed, owedBefore, removals, restarts>>
vars == <<coms, client, net, calling, requests, delayed, scenario, history>>

\* The messages of each channel of a new connection.
NoLines == [c \in Channel |-> << >>]

Init ==
    /\ coms = << >>
    /\ client = [a \in Client |-> NewInner]
    /\ net = {}
    /\ calling = "none"
    /\ requests = << >>
    /\ delayed = << >>
    /\ scenario \in Scenarios
    /\ written = [x \in Client \cup {Server} |-> [c \in Channel |-> 0]]
    /\ log = << >>
    /\ heard = [a \in Client |-> EmptyBag]
    /\ heardOrdered = [a \in Client |-> << >>]
    /\ owed = [a \in Client |-> NoLines]
    /\ owedBefore = [a \in Client |-> << >>]
    /\ removals = [a \in Client |-> 0]
    /\ restarts = [a \in Client |-> 0]

Message(from, c) == [from |-> from, channel |-> c, number |-> written[from][c]]

Datagrams(from, to, contents) ==
    {[from |-> from, to |-> to, packet |-> p] : p \in contents}

\* The packets in flight whose resend interval may have elapsed.
Resendable(inner) == UNION {{c} \X Keys(inner.sendPackets[c]) : c \in Channel}

\* How much may still go wrong.
CanFail ==
    SumFunction(removals) + SumFunction(restarts) < scenario.failures

-----------------------------------------------------------------------------
(* The clients.                                                            *)

ClientWrite(a, c) ==
    /\ written[a][c] < scenario.load[a][c]
    /\ client' = [client EXCEPT ![a] = Enqueue(@, c, Message(a, c))]
    /\ written' = [written EXCEPT ![a][c] = @ + 1]
    /\ UNCHANGED <<serverVars, net, scenario, log, heard, heardOrdered, owed,
                   owedBefore, removals, restarts>>

ClientSend(a, due) ==
    /\ client' = [client EXCEPT ![a] = AfterSend(@, due)]
    /\ net' = net \cup Datagrams(a, Server, Outgoing(client[a], due))
    /\ UNCHANGED <<serverVars, scenario, history>>

\* recv of one datagram, then read and read_ordered until they return None.
ClientReceive(a, datagram) ==
    /\ datagram.to = a
    /\ LET inner == ReadPacket(client[a], datagram.packet)
       IN  /\ client' = [client EXCEPT ![a] =
                  [inner EXCEPT !.unordered = << >>, !.ordered = << >>]]
           /\ heard' = [heard EXCEPT ![a] = @ (+) ToBag(inner.unordered)]
           /\ heardOrdered' = [heardOrdered EXCEPT ![a] = @ \o inner.ordered]
    /\ UNCHANGED <<serverVars, net, scenario, written, log, owed, owedBefore,
                   removals, restarts>>

\* The program ends and starts again on the same port.
ClientRestart(a) ==
    /\ CanFail
    /\ client[a] # NewInner
    /\ client' = [client EXCEPT ![a] = NewInner]
    /\ restarts' = [restarts EXCEPT ![a] = @ + 1]
    /\ UNCHANGED <<serverVars, net, scenario, written, log, heard, heardOrdered,
                   owed, owedBefore, removals>>

ClientSteps(a) ==
    \/ \E c \in Channel : ClientWrite(a, c)
    \/ \E due \in SUBSET Resendable(client[a]) : ClientSend(a, due)
    \/ \E datagram \in net : ClientReceive(a, datagram)
    \/ ClientRestart(a)

-----------------------------------------------------------------------------
(* The server: recv.                                                       *)

EntryFaulty(a) == NewInner                  \* insert for or_default

\* self.coms.entry(addr).or_default()
Entry(a) == IF a \in DOMAIN coms THEN coms[a] ELSE NewInner

\* The connections after that entry was changed into inner.
WithEntry(a, inner) ==
    [b \in DOMAIN coms \cup {a} |-> IF b = a THEN inner ELSE coms[b]]

\* What a callback that reads message m on the connection to a asks for.
Request(a, m) ==
    [message   |-> m,
     channel   |-> IF scenario.callback = "for_each" THEN "ordered" ELSE "reliable",
     exception |-> IF scenario.callback = "broadcast_except" THEN a ELSE None]

\* For the log: what was read of a.
Entries(a, messages) ==
    [k \in DOMAIN messages |-> [from |-> a, message |-> messages[k], life |-> removals[a]]]

\* A datagram is read on its connection, which is created if need be, and the
\* callback is called, which reads all messages.  A corrupted datagram is
\* dropped by read_packet, but creates a connection and has its callback, too.
Handle(datagram, intact) ==
    LET a     == datagram.from
        inner == IF intact THEN ReadPacket(Entry(a), datagram.packet) ELSE Entry(a)
        read  == inner.unordered \o inner.ordered
        empty == [inner EXCEPT !.unordered = << >>, !.ordered = << >>]
    IN  \/ /\ scenario.callback = "none"
           /\ coms' = WithEntry(a, inner)
           /\ UNCHANGED <<requests, log, owed>>
        \/ /\ scenario.callback = "answer"
           /\ coms' = WithEntry(a, [empty EXCEPT !.sendQueue["reliable"] = @ \o read])
           /\ log' = log \o Entries(a, read)
           /\ owed' = [owed EXCEPT ![a]["reliable"] = @ \o read]
           /\ UNCHANGED requests
        \/ /\ scenario.callback \in Relaying
           /\ coms' = WithEntry(a, empty)
           /\ requests' = requests \o [k \in DOMAIN read |-> Request(a, read[k])]
           /\ log' = log \o Entries(a, read)
           /\ UNCHANGED owed

\* The loop over the socket, without fake_delay.
ReceiveDatagram(datagram, intact) ==
    /\ calling \in {"none", "socket"}
    /\ datagram.to = Server
    /\ ~ scenario.fakeDelay
    /\ calling' = "socket"
    /\ Handle(datagram, intact)
    /\ UNCHANGED <<client, net, delayed, scenario, written, heard, heardOrdered,
                   owedBefore, removals, restarts>>

\* The same loop with fake_delay: delay_packet keeps the datagram for later.
DelayPacket(datagram) ==
    /\ calling \in {"none", "socket"}
    /\ datagram.to = Server
    /\ scenario.fakeDelay
    /\ Len(delayed) < MaxDelayed
    /\ calling' = "socket"
    /\ delayed' = Append(delayed, datagram)
    /\ UNCHANGED <<coms, client, net, requests, scenario, history>>

\* Vec::swap_remove
SwapRemove(s, i) == [k \in 1 .. Len(s) - 1 |-> IF k = i THEN s[Len(s)] ELSE s[k]]

\* The loop over read_delayed: the first datagram that is due, any of them.
ReceiveDelayed(i, intact) ==
    /\ i \in DOMAIN delayed
    /\ calling' = "delayed"
    /\ delayed' = SwapRemove(delayed, i)
    /\ Handle(delayed[i], intact)
    /\ UNCHANGED <<client, net, scenario, written, heard, heardOrdered, owedBefore,
                   removals, restarts>>

PassedFaulty(connections, request) ==     \* the exception is not looked at
    [a \in DOMAIN connections |->
        Enqueue(connections[a], request.channel, request.message)]

\* broadcast, broadcast_except or for_each with one message: the connections
\* that exist when it is called.
Passed(connections, request) ==
    [a \in DOMAIN connections |->
        IF a = request.exception THEN connections[a]
        ELSE Enqueue(connections[a], request.channel, request.message)]

FinishedFaulty(connections) ==            \* taken from the end
    FoldRight(LAMBDA request, c : Passed(c, request), requests, connections)

\* finish: all that the callbacks asked for, in the order they asked for it.
Finished(connections) ==
    LET after[k \in 0 .. Len(requests)] ==
            IF k = 0 THEN connections ELSE Passed(after[k - 1], requests[k])
    IN  after[Len(requests)]

\* For the history: what one request makes the server owe, and all of them.
Owing(owes, request) ==
    [a \in Client |->
        IF a \in DOMAIN coms \ {request.exception}
        THEN [owes[a] EXCEPT ![request.channel] = Append(@, request.message)]
        ELSE owes[a]]

OwedFinally ==
    LET after[k \in 0 .. Len(requests)] ==
            IF k = 0 THEN owed ELSE Owing(after[k - 1], requests[k])
    IN  after[Len(requests)]

Finish ==
    /\ calling # "none"
    /\ calling' = "none"
    /\ requests' = << >>
    /\ coms' = Finished(coms)
    /\ owed' = OwedFinally
    /\ UNCHANGED <<client, net, delayed, scenario, written, log, heard,
                   heardOrdered, owedBefore, removals, restarts>>

-----------------------------------------------------------------------------
(* The server: its other methods.                                          *)

Connect(a) ==
    /\ calling = "none"
    /\ coms' = WithEntry(a, Entry(a))
    /\ UNCHANGED <<client, net, calling, requests, delayed, scenario, history>>

\* The server's own message: to all connections (broadcast), to all but one
\* (broadcast_except), to one (get_mut) or to some (for_each, iter_mut).
ServerWrite(to) ==
    LET m == Message(Server, "reliable")
    IN  /\ calling = "none"
        /\ m.number < scenario.broadcasts
        /\ to # {} /\ to \subseteq DOMAIN coms
        /\ coms' = [a \in DOMAIN coms |->
                       IF a \in to THEN Enqueue(coms[a], "reliable", m) ELSE coms[a]]
        /\ owed' = [a \in Client |->
                       IF a \in to THEN [owed[a] EXCEPT !["reliable"] = Append(@, m)]
                       ELSE owed[a]]
        /\ written' = [written EXCEPT ![Server]["reliable"] = @ + 1]
        /\ UNCHANGED <<client, net, calling, requests, delayed, scenario, log, heard,
                       heardOrdered, owedBefore, removals, restarts>>

\* for_each or iter_mut with read, for a program without a callback.
ReadAll ==
    /\ calling = "none"
    /\ scenario.callback = "none"
    /\ \E a \in DOMAIN coms :
          LET read == coms[a].unordered \o coms[a].ordered
          IN  /\ read # << >>
              /\ coms' = [coms EXCEPT ![a].unordered = << >>, ![a].ordered = << >>]
              /\ log' = log \o Entries(a, read)
    /\ UNCHANGED <<client, net, calling, requests, delayed, scenario, written, heard,
                   heardOrdered, owed, owedBefore, removals, restarts>>

\* remove, or a retain whose filter refuses one connection.
RemoveConnection(a) ==
    /\ calling = "none"
    /\ CanFail
    /\ a \in DOMAIN coms
    /\ coms' = [b \in DOMAIN coms \ {a} |-> coms[b]]
    /\ removals' = [removals EXCEPT ![a] = @ + 1]
    /\ owed' = [owed EXCEPT ![a] = NoLines]
    /\ owedBefore' = [owedBefore EXCEPT ![a] = Append(@, owed[a])]
    /\ UNCHANGED <<client, net, calling, requests, delayed, scenario, written, log,
                   heard, heardOrdered, restarts>>

\* send, on every connection to its own address.
ServerSend(due) ==
    LET dueOn(a) == {<<d[2], d[3]>> : d \in {e \in due : e[1] = a}}
    IN  /\ calling = "none"
        /\ coms' = [a \in DOMAIN coms |-> AfterSend(coms[a], dueOn(a))]
        /\ net' = net \cup UNION {Datagrams(Server, a, Outgoing(coms[a], dueOn(a))) :
                                     a \in DOMAIN coms}
        /\ UNCHANGED <<client, calling, requests, delayed, scenario, history>>

ServerSends ==
    \E due \in SUBSET UNION {{<<a, d[1], d[2]>> : d \in Resendable(coms[a])} :
                              a \in DOMAIN coms} :
        ServerSend(due)

ServerSteps ==
    \/ \E datagram \in net, intact \in BOOLEAN : ReceiveDatagram(datagram, intact)
    \/ \E datagram \in net : DelayPacket(datagram)
    \/ \E i \in DOMAIN delayed, intact \in BOOLEAN : ReceiveDelayed(i, intact)
    \/ Finish
    \/ \E a \in Client : Connect(a) \/ RemoveConnection(a)
    \/ \E to \in SUBSET Client : ServerWrite(to)
    \/ ReadAll
    \/ ServerSends

Next == ServerSteps \/ \E a \in Client : ClientSteps(a)

Spec == Init /\ [][Next]_vars

-----------------------------------------------------------------------------
(* Properties.                                                             *)

Messages ==
    [from : Client \cup {Server}, channel : Channel, number : Nat]

Acks == [Channel -> [newest : Index, bits : SUBSET Slots]]

Pending == PendingPackets(Messages, Acks)

\* What a packet of one message holds.
Contents == {s \in Seq(Messages) : Len(s) = 1}

\* An empty slot is told from a packet (Option::None).
ASSUME NoneAssumption == None \notin Contents /\ None \notin Pending

Packets ==
    [channel : Channel, sequenceId : Index, content : Contents, ack : Acks]
    \cup [channel : {"unreliable"}, content : {<< >>}, ack : Acks]

Inners ==
    [sendQueue   : [Channel -> Seq(Messages)],
     sendPackets : [Channel -> Rings(Pending)],
     received    : [Channel -> Rings(Contents)],
     head        : Index,
     unordered   : Seq(Messages),
     ordered     : Seq(Messages),
     duplicate   : BOOLEAN]

Requests ==
    [message : Messages, channel : Channel, exception : Client \cup {None}]

LogEntries == [from : Client, message : Messages, life : Nat]

Lines == [Channel -> Seq(Messages)]

\* multi.rs:145-148, inner.rs:9-32: connections are to clients only, every
\* communicator keeps its type, and requests wait only while recv is running.
TypeOK ==
    /\ DOMAIN coms \subseteq Client
    /\ coms \in [DOMAIN coms -> Inners]
    /\ client \in [Client -> Inners]
    /\ \A d \in net :
          /\ d.packet \in Packets
          /\ d.from \in Client \cup {Server}
          /\ IF d.from = Server THEN d.to \in Client ELSE d.to = Server
    /\ delayed \in Seq({d \in net : d.to = Server})
    /\ Len(delayed) <= MaxDelayed
    /\ calling \in {"none", "socket", "delayed"}
    /\ requests \in Seq(Requests)
    /\ calling = "none" => requests = << >>
    /\ scenario \in Scenarios
    /\ written \in [Client \cup {Server} -> [Channel -> Nat]]
    /\ log \in Seq(LogEntries)
    /\ DOMAIN heard = Client /\ \A a \in Client : IsABag(heard[a])
    /\ heardOrdered \in [Client -> Seq(Messages)]
    /\ owed \in [Client -> Lines]
    /\ owedBefore \in [Client -> Seq(Lines)]
    /\ removals \in [Client -> Nat]
    /\ restarts \in [Client -> Nat]

\* Queued, or in flight and not acknowledged.
Unsettled(inner) ==
    UNION {Range(inner.sendQueue[c])
              \cup {Get(inner.sendPackets[c], i).message : i \in Keys(inner.sendPackets[c])} :
              c \in Channel}

\* Held for a reader, or until it is their turn.  What is behind the head was
\* drained when it was handed on (inner.rs:233), so the ring no longer holds it;
\* behind is smaller, because ids do not wrap around in this module's bounds.
Waiting(inner) ==
    Range(inner.unordered) \cup Range(inner.ordered)
        \cup UNION {Range(Get(inner.received["ordered"], i)) :
                       i \in {j \in Keys(inner.received["ordered"]) : j >= inner.head}}

Sent(a, c) == {[from |-> a, channel |-> c, number |-> k] : k \in 0 .. written[a][c] - 1}

ReachesServer(a, m) ==
    \/ m \in Unsettled(client[a])
    \/ \E e \in Range(log) : e.from = a /\ e.message = m
    \/ m \in Waiting(Entry(a))

ReachesClient(a, m) ==
    \/ m \in Unsettled(Entry(a))
    \/ BagIn(m, heard[a])
    \/ m \in Range(heardOrdered[a])
    \/ m \in Waiting(client[a])

\* multi.rs:55-67, mod.rs:23-27: a message is not lost.  On the reliable channel
\* it takes its sender to forget the connection: a receiver that restarts or
\* drops the connection, in the middle of it, makes it wait or come twice, but
\* not disappear.  On the ordered channel neither side may forget.
NothingLost ==
    \A a \in Client :
        /\ restarts[a] = 0 /\ (removals[a] = 0 \/ scenario.callback # "none") =>
               \A m \in Sent(a, "reliable") : ReachesServer(a, m)
        /\ removals[a] = 0 => \A m \in Range(owed[a]["reliable"]) : ReachesClient(a, m)
        /\ removals[a] = 0 /\ restarts[a] = 0 =>
               /\ \A m \in Sent(a, "ordered") : ReachesServer(a, m)
               /\ \A m \in Range(owed[a]["ordered"]) : ReachesClient(a, m)

\* multi.rs:209-245: as long as the server has a connection it reads a message
\* on it at most once, on the connection to its author, also if the client
\* starts again with the first sequence id.
ReadOnce ==
    \A j \in DOMAIN log :
        /\ log[j].message.from = log[j].from
        /\ \A k \in DOMAIN log : log[j] = log[k] => j = k

\* Where message m stands in the lines of messages owed to client a: the number
\* of the connection, the channel and the place in the line.
Addressed(a, m) ==
    LET lines == Append(owedBefore[a], owed[a])
    IN  UNION {{<<life, c, k>> : k \in {j \in DOMAIN lines[life][c] : lines[life][c][j] = m}} :
                   life \in DOMAIN lines, c \in Channel}

\* How often client a read m.
Hearings(a, m) ==
    (IF BagIn(m, heard[a]) THEN heard[a][m] ELSE 0)
        + Cardinality({k \in DOMAIN heardOrdered[a] : heardOrdered[a][k] = m})

\* multi.rs:263-279, 366-396: a client reads only what a broadcast or an answer
\* addressed to it, and, while it does not restart, no more often, also if its
\* connection is dropped and created again.
HeardAsAddressed ==
    \A a \in Client : \A m \in BagToSet(heard[a]) \cup Range(heardOrdered[a]) :
        /\ Addressed(a, m) # {}
        /\ restarts[a] = 0 => Hearings(a, m) <= Cardinality(Addressed(a, m))

\* multi.rs:366-417: what the callbacks of one or of several recv asked for comes
\* out of the ordered channel in the order in which they asked for it.
HeardInOrder ==
    \A a \in Client : removals[a] = 0 /\ restarts[a] = 0 =>
        IsPrefix(heardOrdered[a], owed[a]["ordered"])

=============================================================================
