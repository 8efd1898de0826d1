------------------------------ MODULE Wrapping ------------------------------
(***************************************************************************)
(* The index arithmetic of ring_buffer.rs.  A sequence id and a ring index *)
(* are u16 values; U16 is the number of values of that type, 65536 in the  *)
(* code and a small number in the model-checking runs.                     *)
(***************************************************************************)
EXTENDS Integers

CONSTANT U16    \* how many values an index has

ASSUME U16Assumption == U16 \in Nat \ {0}

Index == 0 .. U16 - 1

LastIndex == U16 - 1        \* u16::MAX

\* x.wrapping_add(d) and x.wrapping_sub(d), for x and d of the type.
WrappingAdd(x, d) == IF x + d < U16 THEN x + d ELSE x + d - U16

WrappingSub(x, d) == IF d <= x THEN x - d ELSE x - d + U16

(***************************************************************************)
(* wrapping_gt.  y lies "just across the wrap" from x when x is close to   *)
(* u16::MAX, y is close to 0 and the two are at most maxDif apart: then y  *)
(* is the later index although it is the smaller number.  In every other   *)
(* case the two are compared as plain numbers, however far apart they are. *)
(***************************************************************************)
AcrossWrap(x, y, maxDif) ==
    /\ LastIndex - x < maxDif
    /\ y <= x
    /\ LastIndex - x + y < maxDif

WrappingGt(x, y, maxDif) ==
    /\ ~ AcrossWrap(x, y, maxDif)
    /\ AcrossWrap(y, x, maxDif) \/ x > y

\* wrapping_range: the indices from start up to, and not including, end.
WrappingRange(start, end) ==
    {WrappingAdd(start, k) : k \in 0 .. WrappingSub(end, start) - 1}

=============================================================================
