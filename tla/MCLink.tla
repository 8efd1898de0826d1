------------------------------- MODULE MCLink -------------------------------
(* Small instances of Link.                                                *)
EXTENDS LinkInvariant

\* A writes r reliable and o ordered messages, B writes s reliable ones.
Load(r, o, s) ==
    [n \in Node |-> [c \in Channel |->
        IF n = B THEN IF c = "reliable" THEN s ELSE 0
        ELSE IF c = "reliable" THEN r ELSE o]]

EitherChannel18 == {Load(18, 0, 0), Load(0, 18, 0)}
EitherChannel5 == {Load(5, 0, 0), Load(0, 5, 0)}
TwoWays == {Load(2, 2, 0), Load(1, 1, 1), Load(2, 0, 2), Load(3, 0, 1)}
EitherChannel7 == {Load(7, 0, 0), Load(0, 7, 0)}
OneWay18 == {Load(18, 0, 0)}
OneWay3 == {Load(3, 0, 0)}
OneWay2 == {Load(2, 0, 0)}
BothWays2 == {Load(2, 0, 2)}

=============================================================================
