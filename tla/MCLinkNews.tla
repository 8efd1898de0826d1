----------------------------- MODULE MCLinkNews -----------------------------
(* Link with a history variable: whether a node took in a reliable packet  *)
(* since it last called `send`.                                            *)
EXTENDS MCLink

VARIABLE news

NewsInit == Init /\ news = [n \in Node |-> FALSE]

NewsNext ==
    \E n \in Node :
        \/ Writes(n) /\ UNCHANGED news
        \/ Sends(n) /\ news' = [news EXCEPT ![n] = FALSE]
        \/ /\ Receives(n)
           /\ news' = [news EXCEPT ![n] = @ \/ receivedPackets'[n] # receivedPackets[n]]

NewsSpec == NewsInit /\ [][NewsNext]_<<vars, news>>

\* mod.rs:256-258: a `send` that follows the receipt of a new packet and finds
\* nothing pending and nothing to resend sends a heartbeat.
NewsAreAcknowledged ==
    [][\A n \in Node :
          news[n] /\ ~ news'[n] /\ ~ HasWork(n)
              => AckPacket(Peer(n), PacketAck(n)) \in net']_<<vars, news>>

=============================================================================
