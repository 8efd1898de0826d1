------------------------------ MODULE WindowMap ------------------------------
(***************************************************************************)
(* What RingBuffer promises its users, without slots and without the three *)
(* branches of `insert`: a map from indices to items that remembers the    *)
(* Size indices up to the newest one.  An index keeps its item exactly as  *)
(* long as it is less than Size behind the newest index; storing an item   *)
(* never moves, overwrites or loses that of another remembered index.      *)
(***************************************************************************)
EXTENDS Wrapping

CONSTANTS
    Size,       \* how many indices are remembered
    Item,       \* the items that are stored
    Nothing     \* what an index without an item maps to

VARIABLES newest, map

vars == <<newest, map>>

Remembered(new, i) == WrappingSub(new, i) < Size

\* The map after `new` became the newest index and i got the item.
Advance(new, i, item) ==
    [j \in Index |-> IF j = i THEN item
                     ELSE IF Remembered(new, j) THEN map[j] ELSE Nothing]

Init ==
    /\ newest = LastIndex
    /\ map = [i \in Index |-> Nothing]

Push(item) ==
    /\ newest' = WrappingAdd(newest, 1)
    /\ map' = Advance(newest', newest', item)

Insert(i, item) ==
    /\ newest' = IF Remembered(newest, i) THEN newest ELSE i
    /\ map' = Advance(newest', i, item)

Take(i) ==
    /\ newest' = newest
    /\ map' = [map EXCEPT ![i] = Nothing]

\* Every item is kept, replaced or removed, as `verdict` says.
Retain(verdict) ==
    /\ newest' = newest
    /\ map' = [i \in Index |-> IF i \in DOMAIN verdict THEN verdict[i] ELSE Nothing]

Occupied == {i \in Index : map[i] # Nothing}

Next ==
    \/ \E item \in Item : Push(item)
    \/ \E i \in Index, item \in Item : Insert(i, item)
    \/ \E i \in Index : Take(i)
    \/ \E verdict \in [Occupied -> Item \cup {Nothing}] : Retain(verdict)

Spec == Init /\ [][Next]_vars

=============================================================================
