------------------------------ MODULE Delivery ------------------------------
(***************************************************************************)
(* What two connected communicators promise their applications while no    *)
(* packet is given up, without packets, rings, sequence ids and acks: the  *)
(* reliable channel hands on every message as soon as it arrives, and      *)
(* once; the ordered one hands on, as soon as it arrives, all that is not  *)
(* behind a gap; and the sender forgets only what arrived.                 *)
(***************************************************************************)
EXTENDS Naturals, Sequences, Bags

CONSTANT Node, Channel

VARIABLES
    written,    \* written[n][c]: how many messages n wrote on c
    arrived,    \* arrived[n][c]: those of them that the other side took in
    unordered,  \* unordered[n]: the bag of n's reliable messages handed on
    ordered,    \* ordered[n]: the sequence of n's ordered messages handed on
    settled     \* settled[n][c]: those that n needs not send any more

vars == <<written, arrived, unordered, ordered, settled>>

\* The row is the longest one from message 0 on that is free of gaps.
UpToTheGap(row, messages) ==
    /\ \A k \in DOMAIN row : row[k] = k - 1 /\ row[k] \in messages
    /\ Len(row) \notin messages

Init ==
    /\ written = [n \in Node |-> [c \in Channel |-> 0]]
    /\ arrived = [n \in Node |-> [c \in Channel |-> {}]]
    /\ unordered = [n \in Node |-> EmptyBag]
    /\ ordered = [n \in Node |-> << >>]
    /\ settled = [n \in Node |-> [c \in Channel |-> {}]]

Write(n, c) ==
    /\ written' = [written EXCEPT ![n][c] = @ + 1]
    /\ UNCHANGED <<arrived, unordered, ordered, settled>>

New(n, c) == (0 .. written[n][c] - 1) \ arrived[n][c]

ArriveReliable(n, m) ==
    /\ m \in New(n, "reliable")
    /\ arrived' = [arrived EXCEPT ![n]["reliable"] = @ \cup {m}]
    /\ unordered' = [unordered EXCEPT ![n] = @ (+) SetToBag({m})]
    /\ UNCHANGED ordered

ArriveOrdered(n, m) ==
    /\ m \in New(n, "ordered")
    /\ arrived' = [arrived EXCEPT ![n]["ordered"] = @ \cup {m}]
    /\ \A k \in Node \ {n} : ordered'[k] = ordered[k]
    /\ UpToTheGap(ordered'[n], arrived'[n]["ordered"])
    /\ UNCHANGED unordered

NothingArrives == UNCHANGED <<arrived, unordered, ordered>>

\* News of what arrived, as it was before this step, may reach the senders.
Settle ==
    \A n \in Node, c \in Channel :
        settled[n][c] \subseteq settled'[n][c] /\ settled'[n][c] \subseteq arrived[n][c]

\* A datagram brings at most one message, and news.
Transfer ==
    /\ \/ NothingArrives
       \/ \E n \in Node : \E m \in New(n, "reliable") : ArriveReliable(n, m)
       \/ \E n \in Node : \E m \in New(n, "ordered") : ArriveOrdered(n, m)
    /\ Settle
    /\ UNCHANGED written

Next ==
    \/ \E n \in Node, c \in Channel : Write(n, c)
    \/ Transfer

Spec == Init /\ [][Next]_vars

=============================================================================
