----------------------------- MODULE RingBuffer -----------------------------
(***************************************************************************)
(* RingBuffer<T, NUM_ITEMS>: the newest index ever stored and NUM_ITEMS    *)
(* optional items, index i living in slot i % NUM_ITEMS.  Each operator is *)
(* one method: it returns the ring after the call, or the value the method *)
(* returns.                                                                *)
(***************************************************************************)
EXTENDS Wrapping

CONSTANTS
    NumItems,   \* the capacity NUM_ITEMS, 32 for every ring of the protocol
    None        \* an empty slot

(***************************************************************************)
(* `default` asserts that u16::MAX % NUM_ITEMS = NUM_ITEMS - 1, that is,   *)
(* that NUM_ITEMS divides the number of indices.  `insert` computes        *)
(* NUM_ITEMS * 2 as a u16: it overflows unless 2 * NUM_ITEMS < 65536, and  *)
(* for a divisor of 65536 that means 4 * NUM_ITEMS <= 65536.               *)
(***************************************************************************)
ASSUME RingAssumption ==
    /\ NumItems \in Nat \ {0}
    /\ U16 % NumItems = 0
    /\ 4 * NumItems <= U16

Slots == 0 .. NumItems - 1

Rings(Item) == [newest : Index, items : [Slots -> Item \cup {None}]]

NewRing == [newest |-> LastIndex, items |-> [s \in Slots |-> None]]

Slot(i) == i % NumItems

\* Faulty variants, here and below, are the bugs the runs are shown to catch.
GetNextIndexFaulty(ring) == ring.newest + 1         \* no wrap-around

GetNextIndex(ring) == WrappingAdd(ring.newest, 1)

\* The smallest index `get` still finds: NUM_ITEMS - 1 before the newest one.
OldestIndex(ring) == WrappingSub(ring.newest, NumItems - 1)

InWindow(ring, i) == WrappingSub(ring.newest, i) < NumItems

Get(ring, i) == IF InWindow(ring, i) THEN ring.items[Slot(i)] ELSE None

Push(ring, item) ==
    LET i == GetNextIndex(ring)
    IN  [newest |-> i, items |-> [ring.items EXCEPT ![Slot(i)] = item]]

Take(ring, i) ==
    IF InWindow(ring, i)
    THEN [ring EXCEPT !.items = [@ EXCEPT ![Slot(i)] = None]]
    ELSE ring

PushWillOverrideFaulty(ring) == ring.items[Slot(ring.newest)] # None   \* off by one

PushWillOverride(ring) == ring.items[Slot(GetNextIndex(ring))] # None

Keys(ring) == {i \in WrappingRange(OldestIndex(ring), GetNextIndex(ring)) :
                  Get(ring, i) # None}

IsEmpty(ring) == \A s \in Slots : ring.items[s] = None

\* retain, with what its predicate makes of the item of each key: the item it
\* leaves behind, or None where it returns false.
Retain(ring, verdict) ==
    [ring EXCEPT !.items =
        [s \in Slots |->
            IF \E i \in Keys(ring) : Slot(i) = s
            THEN verdict[CHOOSE i \in Keys(ring) : Slot(i) = s]
            ELSE ring.items[s]]]

-----------------------------------------------------------------------------
(* insert: its three branches, then the method.                            *)

FarFromWindowFaulty(ring, i) ==      \* plain comparison around the wrap
    \/ OldestIndex(ring) > i
    \/ i > WrappingAdd(ring.newest, NumItems - 1)

\* The index is older than the oldest entry or NUM_ITEMS or more too new.
FarFromWindow(ring, i) ==
    \/ WrappingGt(OldestIndex(ring), i, 2 * NumItems)
    \/ WrappingGt(i, WrappingAdd(ring.newest, NumItems - 1), 2 * NumItems)

InRangeOfWindow(ring, i) ==
    /\ WrappingGt(WrappingAdd(ring.newest, 1), i, NumItems)
    /\ WrappingGt(i, WrappingSub(ring.newest, NumItems), NumItems)

Store(items, i, item) == [items EXCEPT ![Slot(i)] = item]

\* All the indices that fall out of the window when i becomes the newest one.
Purged(ring, i) ==
    {j \in WrappingRange(OldestIndex(ring), WrappingSub(i, NumItems - 1)) :
        InWindow(ring, j)}

Insert(ring, i, item) ==
    IF FarFromWindow(ring, i)
    THEN [newest |-> i, items |-> Store(NewRing.items, i, item)]
    ELSE IF InRangeOfWindow(ring, i)
    THEN [ring EXCEPT !.items = Store(@, i, item)]
    ELSE [newest |-> i,
          items  |-> Store([s \in Slots |->
                               IF \E j \in Purged(ring, i) : Slot(j) = s
                               THEN None ELSE ring.items[s]],
                           i, item)]

=============================================================================
