---------------------------- MODULE RingIterators ----------------------------
(***************************************************************************)
(* The iterators of a ring buffer: iter, keys and values borrow the ring,  *)
(* iter_mut and values_mut borrow it mutably and let the caller change the *)
(* item it is given.  The five keep one field, the next index to visit,    *)
(* and share their next and size_hint, so one cursor stands for all five.  *)
(***************************************************************************)
EXTENDS RingMachine, Sequences, FiniteSets

\* An iterator's index is told from no iterator.
ASSUME CursorAssumption == None \notin Index

VARIABLES
    cursor,     \* the field i of the iterator that borrows the ring, or None
    seen        \* the keys of the items it has returned, in order

iterVars == <<ring, cursor, seen>>

Borrowed == cursor # None

IterInit == Init /\ cursor = None /\ seen = <<>>

\* While an iterator exists no method of the ring can be called.
Call == ~ Borrowed /\ Next /\ UNCHANGED <<cursor, seen>>

Borrow ==
    /\ ~ Borrowed
    /\ cursor' = OldestIndex(ring)
    /\ seen' = <<>>
    /\ UNCHANGED ring

\* The items next would still find from index i on.
RemainingFaulty(i) ==       \* a plain range where the wrapping one is meant
    {j \in Keys(ring) : i <= j /\ j <= ring.newest}

Remaining(i) ==
    {j \in WrappingRange(i, GetNextIndex(ring)) : Get(ring, j) # None}

First(keys, i) ==
    CHOOSE j \in keys : \A k \in keys : WrappingSub(j, i) <= WrappingSub(k, i)

Yield(j) ==
    /\ cursor' = WrappingAdd(j, 1)
    /\ seen' = Append(seen, j)

\* next, when it finds an item; a caller of the mutable ones may change it.
IterNext ==
    /\ Borrowed
    /\ Remaining(cursor) # {}
    /\ \E item \in Item :
          ring' = [ring EXCEPT !.items =
                      Store(@, First(Remaining(cursor), cursor), item)]
    /\ Yield(First(Remaining(cursor), cursor))

\* next, when it visits every index that is left and finds nothing.
IterEnd ==
    /\ Borrowed
    /\ Remaining(cursor) = {}
    /\ cursor' = GetNextIndex(ring)
    /\ UNCHANGED <<ring, seen>>

Drop ==
    /\ Borrowed
    /\ cursor' = None
    /\ seen' = <<>>
    /\ UNCHANGED ring

IterSteps == Call \/ Borrow \/ IterNext \/ IterEnd \/ Drop

IterSpec == IterInit /\ [][IterSteps]_iterVars

-----------------------------------------------------------------------------
ItemCount(r) == Cardinality({s \in Slots : r.items[s] # None})     \* len

SaturatingSub(x, y) == IF y <= x THEN x - y ELSE 0

Unvisited(i) == WrappingAdd(WrappingSub(ring.newest, i), 1)

\* size_hint takes an iterator for exhausted when its index lies past newest.
ExhaustedFaulty(i) == WrappingGt(WrappingSub(i, 1), ring.newest, NumItems - 1)

Exhausted(i) == WrappingGt(WrappingSub(i, 1), ring.newest, NumItems)

SizeHint(i) ==
    IF ItemCount(ring) = 0 \/ Exhausted(i)
    THEN [lower |-> 0, upper |-> 0]
    ELSE [lower |-> SaturatingSub(ItemCount(ring), SaturatingSub(NumItems, Unvisited(i))),
          upper |-> IF Unvisited(i) <= ItemCount(ring) THEN Unvisited(i) ELSE ItemCount(ring)]

-----------------------------------------------------------------------------
\* How far an index lies from the oldest one of the window.
Age(i) == WrappingSub(i, OldestIndex(ring))

\* ring_buffer.rs:103, 250: an iterator returns the items in chronological
\* order, none of them left out and none twice (the unsafe block of iter_mut
\* rests on it), across the wrap-around of the indices as elsewhere; and the
\* assertion of iter_mut, ring_buffer.rs:234, holds.
YieldsEachOnceInOrder ==
    Borrowed =>
        /\ {seen[n] : n \in DOMAIN seen} =
               {j \in Keys(ring) : Age(j) < NumItems - WrappingSub(GetNextIndex(ring), cursor)}
        /\ \A m, n \in DOMAIN seen : m < n => Age(seen[m]) < Age(seen[n])
        /\ WrappingSub(GetNextIndex(ring), cursor) <= NumItems

\* ring_buffer.rs:210-222: size_hint, which decides by wrapping_gt whether the
\* iterator is exhausted, brackets the number of items next still returns.
HintBracketsWhatRemains ==
    Borrowed =>
        LET left == Cardinality(Keys(ring)) - Len(seen)
        IN  SizeHint(cursor).lower <= left /\ left <= SizeHint(cursor).upper

=============================================================================
