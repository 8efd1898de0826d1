----------------------------- MODULE RingMachine -----------------------------
(***************************************************************************)
(* A ring buffer under every sequence of calls of its methods, on its own: *)
(* the state machine whose steps are the operators of RingBuffer, and its  *)
(* refinement of WindowMap.                                                *)
(***************************************************************************)
EXTENDS RingBuffer

CONSTANT Item       \* the items a caller stores

ASSUME ItemAssumption == None \notin Item

VARIABLE ring

Init == ring = NewRing

DoPush(item) == ring' = Push(ring, item)

DoInsert(i, item) == ring' = Insert(ring, i, item)

DoTake(i) == ring' = Take(ring, i)

DoRetain(verdict) == ring' = Retain(ring, verdict)

Next ==
    \/ \E item \in Item : DoPush(item)
    \/ \E i \in Index, item \in Item : DoInsert(i, item)
    \/ \E i \in Index : DoTake(i)
    \/ \E verdict \in [Keys(ring) -> Item \cup {None}] : DoRetain(verdict)

Spec == Init /\ [][Next]_ring

-----------------------------------------------------------------------------
(* ring_buffer.rs: `newest` and the slots keep their types. *)
TypeOK == ring \in Rings(Item)

(***************************************************************************)
(* The refinement mapping: an index maps to what `get` finds for it.       *)
(***************************************************************************)
Contents == [i \in Index |-> Get(ring, i)]

Abstract == INSTANCE WindowMap WITH
    Size <- NumItems, Nothing <- None, newest <- ring.newest, map <- Contents

\* ring_buffer.rs:28-164: seen through `get`, the slots and the three branches
\* of `insert` behave as a map that forgets an index exactly when it falls
\* NUM_ITEMS behind the newest one.
ImplementsWindowMap == Abstract!Spec

\* ring_buffer.rs:166-170: `push_will_override` answers, from a slot, whether
\* the next push makes the ring forget an item that `get` still finds.
PushOverridesOnlyWhenTold ==
    [][\A item \in Item :
          DoPush(item) =>
              (PushWillOverride(ring) <=>
                  \E i \in Keys(ring) : Get(ring', i) = None)]_ring

=============================================================================
