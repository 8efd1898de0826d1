------------------------------ MODULE MCMulti ------------------------------
(* Small instances of Multi.                                               *)
EXTENDS MultiDelivery

CONSTANTS c1, c2

\* What a client writes: r reliable and o ordered messages.
Writes(r, o) == [c \in Channel |-> IF c = "reliable" THEN r ELSE o]

Idle == Writes(0, 0)

Scenario(w1, w2, broadcasts, callback, fakeDelay, failures) ==
    [load |-> (c1 :> w1 @@ c2 :> w2), broadcasts |-> broadcasts, callback |-> callback,
     fakeDelay |-> fakeDelay, failures |-> failures]

MCScenarios == {
    Scenario(Writes(2, 0), Idle, 0, "broadcast_except", FALSE, 1),
    Scenario(Writes(1, 0), Idle, 0, "broadcast_except", FALSE, 2),
    Scenario(Writes(2, 0), Idle, 0, "broadcast_except", TRUE, 1),
    Scenario(Writes(1, 0), Idle, 0, "broadcast", FALSE, 1),
    Scenario(Writes(1, 0), Idle, 1, "broadcast", FALSE, 0),
    Scenario(Writes(0, 2), Idle, 0, "for_each", FALSE, 0),
    Scenario(Writes(1, 0), Writes(0, 1), 0, "for_each", FALSE, 0),
    Scenario(Writes(1, 1), Idle, 0, "answer", FALSE, 1),
    Scenario(Writes(1, 1), Idle, 0, "none", FALSE, 1)
    }

=============================================================================
