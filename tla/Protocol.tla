------------------------------ MODULE Protocol ------------------------------
(***************************************************************************)
(* What the loops of InnerUdpCommunicator do to one ring: flushing a queue *)
(* into packets, resending, acknowledging, and handing on ordered packets. *)
(* Each operator returns what the loop leaves behind, or how far it goes.  *)
(***************************************************************************)
EXTENDS RingBuffer, Sequences

CONSTANTS
    GivesUp,        \* whether retries can run out (100 by default)
    MaxRetries      \* how often a packet is sent at most, if GivesUp

\* remaining_retries is counted down after a send: 0 would underflow.
ASSUME RetryAssumption ==
    /\ GivesUp \in BOOLEAN
    /\ MaxRetries \in Nat \ {0}

\* What a ring of packets sent holds: a PendingPacket keeps its ack, and the number
\* of times that it may still be sent.
PendingPackets(Message, Ack) ==
    [message : Message, ack : Ack, retries : 1 .. MaxRetries]

-----------------------------------------------------------------------------
(* send: flush_messages and resend_if_needed.                              *)

\* The slot of the k-th push from now is free.
FreeSlot(ring, k) == ring.items[Slot(WrappingAdd(ring.newest, k))] = None

FlushCountFaulty(ring, queue) ==          \* push_will_override is not asked
    IF Len(queue) < NumItems THEN Len(queue) ELSE NumItems

FlushCountLeavesOne(ring, queue) ==       \* the last message waits for another
    CHOOSE k \in 0 .. NumItems :
        /\ \A j \in 1 .. k : j < Len(queue) /\ FreeSlot(ring, j)
        /\ \/ k = NumItems
           \/ k + 1 >= Len(queue)
           \/ ~ FreeSlot(ring, k + 1)

\* The loop of flush_messages goes on while the next push overrides nothing and
\* a message is queued: the number of packets it builds.
FlushCount(ring, queue) ==
    CHOOSE k \in 0 .. NumItems :
        /\ \A j \in 1 .. k : j <= Len(queue) /\ FreeSlot(ring, j)
        /\ \/ k = NumItems
           \/ k = Len(queue)
           \/ ~ FreeSlot(ring, k + 1)

\* The ring after that loop has pushed the first k messages of the queue.
Flushed(ring, queue, k, ack) ==
    [newest |-> WrappingAdd(ring.newest, k),
     items  |-> [s \in Slots |->
        IF \E j \in 1 .. k : Slot(WrappingAdd(ring.newest, j)) = s
        THEN LET j == CHOOSE j \in 1 .. k : Slot(WrappingAdd(ring.newest, j)) = s
             IN  [message |-> queue[j], ack |-> ack, retries |-> MaxRetries]
        ELSE ring.items[s]]]

AfterResendFaulty(pending) ==             \* removed one send too late
    IF ~ GivesUp THEN pending
    ELSE IF pending.retries = 0 THEN None
    ELSE [pending EXCEPT !.retries = @ - 1]

\* resend_if_needed for a packet that is due: what remains of it after it was
\* sent once more.
AfterResend(pending) ==
    IF ~ GivesUp THEN pending
    ELSE IF pending.retries = 1 THEN None
    ELSE [pending EXCEPT !.retries = @ - 1]

\* What `retain` leaves of a ring after the packets of `sent` were sent.
Resent(ring, sent) ==
    Retain(ring, [i \in Keys(ring) |->
        IF i \in sent THEN AfterResend(Get(ring, i)) ELSE Get(ring, i)])

-----------------------------------------------------------------------------
(* read_packet: acknowledge, and the loop over the ordered ring.           *)

AcknowledgedFaulty(ring, ack) ==          \* the window is not checked
    [ring EXCEPT !.items =
        [s \in Slots |->
            IF \E b \in ack.bits : Slot(WrappingSub(ack.newest, b)) = s
            THEN None ELSE ring.items[s]]]

\* acknowledge: the packets whose bit is set are taken out of the send rings.
Acknowledged(ring, ack) ==
    [ring EXCEPT !.items =
        [s \in Slots |->
            IF \E b \in ack.bits : LET i == WrappingSub(ack.newest, b)
                                   IN  InWindow(ring, i) /\ Slot(i) = s
            THEN None ELSE ring.items[s]]]

ReadyCountFaulty(ring, head) ==           \* gaps are not noticed
    WrappingAdd(WrappingSub(ring.newest, head), 1)

ReadyCountOne(ring, head) ==              \* one packet is handed on at a time
    IF Get(ring, head) # None THEN 1 ELSE 0

\* The number of packets, from the head on, that the ordered ring holds in an
\* unbroken row: those the loop over iter_mut delivers.
ReadyCount(ring, head) ==
    CHOOSE k \in 0 .. NumItems :
        /\ Get(ring, WrappingAdd(head, k)) = None
        /\ \A j \in 0 .. k - 1 : Get(ring, WrappingAdd(head, j)) # None

=============================================================================
