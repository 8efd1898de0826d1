------------------------------ MODULE MCLayout ------------------------------
(* Types that combine the field kinds of Layout, and their small values.   *)
EXTENDS Layout

Strings == {<< >>, <<5>>, <<6, 7>>}

RECURSIVE Values(_), Product(_)

\* Every value of t whose scalars are all zeros or all ones, and whose strings
\* and vectors are short.
Values(t) ==
    CASE t.kind = "scalar" -> {[k \in 1 .. t.len |-> b] : b \in {0, 1}}
      [] t.kind = "string" -> Strings
      [] t.kind = "option" -> {<< >>} \cup {<<v>> : v \in Values(t.of)}
      [] t.kind = "vec" -> BoundedSeq(Values(t.of), MaxVec)
      [] t.kind = "array" -> [1 .. t.len -> Values(t.of)]
      [] t.kind = "struct" -> Product(t.fields)
      [] t.kind = "enum" ->
            UNION {{[variant |-> i, fields |-> v] : v \in Product(t.variants[i])} :
                      i \in DOMAIN t.variants}
      [] OTHER -> Values(t.of)

Product(ts) ==
    IF ts = << >> THEN {<< >>}
    ELSE {<<v>> \o rest : v \in Values(Head(ts)), rest \in Product(Tail(ts))}

Message == Enum(<< << >>, <<Scalar(2)>>, <<Option(Text)>> >>)
One == Enum(<< <<Scalar(1), Text>> >>)

Types == {
    Struct(<<Text, Scalar(1), Option(Text), Scalar(2)>>),
    Struct(<<Option(Option(Scalar(1))), Scalar(2), Option(Vec(Scalar(1)))>>),
    Struct(<<Cow(Scalar(2)), Cow(Text), Scalar(1)>>),
    Struct(<<Option(Cow(Text)), Vec(Option(Scalar(2)))>>),
    Struct(<<Scalar(1), Array(Delegated(Message), 2), Text>>),
    Enum(<< <<Vec(Text), Scalar(1)>>, <<Delegated(One)>>, << >> >>),
    Option(Cow(Scalar(2))), Cow(Text), Vec(Option(Text)) }

Case(t, vs, room, packet) == [type |-> t, values |-> vs, room |-> room, packet |-> packet]

Longest(t, vs) == CHOOSE v \in vs : ByteLen(t, v) = Max({ByteLen(t, w) : w \in vs})

\* Each value of a type, followed by a long one, with room for both or not.
ValueCases ==
    UNION {LET all == Values(t)
               long == Longest(t, all)
           IN  {Case(t, <<v, long>>, room, FALSE) : v \in all, room \in {10, 64}} :
              t \in Types}

\* A packet with the messages that flush_messages puts into it.
PacketCases ==
    LET ack == <<<<0, 1>>, <<1, 1>>, <<1, 0, 1, 0>>, <<2, 0>>, <<0, 0, 0, 1>>>>
        packet(queue, ordered) ==
            <<ack, <<1>>, ordered, SubSeq(queue, 1, Included(Message, queue))>>
    IN  {Case(PacketType(Message), <<packet(queue, ordered)>>, PacketRoom, TRUE) :
            queue \in BoundedSeq(Values(Message), 3), ordered \in {<<0>>, <<1>>}}

MCCases == ValueCases \cup PacketCases

\* A field that the tests of the repository do not have.
OptionCowCases ==
    LET t == Struct(<<Option(Cow(Scalar(2))), Text>>)
    IN  {Case(t, <<v>>, 20, FALSE) : v \in Values(t)}

=============================================================================
