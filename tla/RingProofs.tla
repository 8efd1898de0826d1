----------------------------- MODULE RingProofs -----------------------------
(***************************************************************************)
(* Theorems about the ring buffer under every sequence of calls, for every *)
(* capacity and every width of the indices: its types, what a push         *)
(* overrides, and that it implements WindowMap; and about its iterators:   *)
(* a change through a mutable iterator is a call of insert, and an         *)
(* iterator yields each item once, oldest first.                           *)
(***************************************************************************)
EXTENDS RingIterators, RingFacts, FiniteSetTheorems

-----------------------------------------------------------------------------
(* The ring.                                                               *)

\* ring_buffer.rs: `newest` stays a u16 and every slot holds an item or nothing,
\* whatever sequence of methods is called.
THEOREM TypeCorrect == Spec => []TypeOK
<1>1. Init => TypeOK
  BY U16Assumption DEF Init, TypeOK, NewRing, Rings, Index, LastIndex
<1>2. TypeOK /\ [Next]_ring => TypeOK'
  <2> SUFFICES ASSUME TypeOK, [Next]_ring PROVE TypeOK'
    OBVIOUS
  <2>1. ASSUME NEW item \in Item, DoPush(item) PROVE TypeOK'
    BY <2>1, PushType DEF TypeOK, DoPush
  <2>2. ASSUME NEW i \in Index, NEW item \in Item, DoInsert(i, item) PROVE TypeOK'
    BY <2>2, InsertType DEF TypeOK, DoInsert
  <2>3. ASSUME NEW i \in Index, DoTake(i) PROVE TypeOK'
    BY <2>3, TakeType DEF TypeOK, DoTake
  <2>4. ASSUME NEW verdict \in [Keys(ring) -> Item \cup {None}], DoRetain(verdict)
        PROVE  TypeOK'
    BY <2>4, RetainType DEF TypeOK, DoRetain
  <2>5. CASE UNCHANGED ring
    BY <2>5 DEF TypeOK
  <2>6. QED BY <2>1, <2>2, <2>3, <2>4, <2>5 DEF Next
<1>3. QED BY <1>1, <1>2, PTL DEF Spec

\* ring_buffer.rs:166-170, inner.rs:374: a caller that asks push_will_override
\* before it pushes loses no item.
THEOREM PushTellsWhatItOverrides == Spec => PushOverridesOnlyWhenTold
<1> DEFINE Told(item) ==
        DoPush(item) =>
            (PushWillOverride(ring) <=> \E i \in Keys(ring) : Get(ring', i) = None)
<1>1. TypeOK => [\A item \in Item : Told(item)]_ring
  <2> SUFFICES ASSUME TypeOK, NEW item \in Item, DoPush(item)
               PROVE  PushWillOverride(ring) <=>
                          \E i \in Keys(ring) : Get(ring', i) = None
    OBVIOUS
  <2>1. ring' = Push(ring, item)  BY DEF DoPush
  <2>2. QED BY <2>1, PushForgetsOldest, ItemAssumption DEF TypeOK
<1>2. QED
  BY <1>1, TypeCorrect, PTL DEF PushOverridesOnlyWhenTold

-----------------------------------------------------------------------------
(* The refinement.                                                         *)

\* WindowMap computes with the same indices.
LEMMA SameIndices ==
    /\ Abstract!Index = Index
    /\ Abstract!LastIndex = LastIndex
    /\ \A x, d \in Index : /\ Abstract!WrappingAdd(x, d) = WrappingAdd(x, d)
                           /\ Abstract!WrappingSub(x, d) = WrappingSub(x, d)
BY DEF Abstract!Index, Abstract!LastIndex, Abstract!WrappingAdd, Abstract!WrappingSub,
       Index, LastIndex, WrappingAdd, WrappingSub

\* Every call of a method is a step of WindowMap, with what `get` finds for
\* each index as the map.
LEMMA StepRefines ==
    ASSUME TypeOK, Next PROVE Abstract!Next
<1>1. ring \in Rings(Item) /\ ring.newest \in Index
  BY DEF TypeOK, Rings
<1>0. 1 \in Index
  BY U16Assumption, RingAssumption DEF Index
<1>2. Contents = [i \in Index |-> Get(ring, i)]
  BY DEF Contents
<1>3. ASSUME NEW item \in Item, DoPush(item) PROVE Abstract!Push(item)
  <2>1. ring'.newest = WrappingAdd(ring.newest, 1)
    BY <1>3 DEF DoPush, Push, GetNextIndex
  <2> DEFINE new == ring'.newest
  <2>2. Contents' = Abstract!Advance(new, new, item)
    <3>1. new = WrappingAdd(ring.newest, 1) /\ new \in Index
      BY <1>0, <1>1, <2>1, WrappingType
    <3>2. ASSUME NEW j \in Index
          PROVE  Get(ring', j) =
                     IF j = new THEN item
                     ELSE IF WrappingSub(new, j) < NumItems THEN Contents[j] ELSE None
      BY <1>1, <1>2, <1>3, <3>1, GetAfterPush DEF DoPush
    <3>3. Contents' = [j \in Index |-> Get(ring', j)]
      BY DEF Contents
    <3> HIDE DEF new
    <3>4. QED BY <3>1, <3>2, <3>3, SameIndices DEF Abstract!Advance, Abstract!Remembered
  <2>3. QED BY <1>0, <1>1, <2>1, <2>2, SameIndices DEF Abstract!Push
<1>4. ASSUME NEW i \in Index, NEW item \in Item, DoInsert(i, item)
      PROVE  Abstract!Insert(i, item)
  <2>1. ring'.newest = IF Abstract!Remembered(ring.newest, i) THEN ring.newest ELSE i
    BY <1>1, <1>4, GetAfterInsert, SameIndices DEF DoInsert, InWindow, Abstract!Remembered
  <2>2. Contents' = Abstract!Advance(ring'.newest, i, item)
    BY <1>1, <1>2, <1>4, <2>1, GetAfterInsert, SameIndices
       DEF DoInsert, Contents, InWindow, Abstract!Advance, Abstract!Remembered
  <2>3. QED BY <2>1, <2>2 DEF Abstract!Insert
<1>5. ASSUME NEW i \in Index, DoTake(i) PROVE Abstract!Take(i)
  <2>1. ring'.newest = ring.newest
    BY <1>1, <1>5 DEF DoTake, Take, Rings
  <2>2. Contents' = [Contents EXCEPT ![i] = None]
    BY <1>1, <1>2, <1>5, GetAfterTake DEF DoTake, Contents
  <2>3. QED BY <2>1, <2>2 DEF Abstract!Take
<1>6. ASSUME NEW verdict \in [Keys(ring) -> Item \cup {None}], DoRetain(verdict)
      PROVE  /\ verdict \in [Abstract!Occupied -> Item \cup {None}]
             /\ Abstract!Retain(verdict)
  <2>1. Keys(ring) = Abstract!Occupied
    BY <1>1, <1>2, KeysAreFound, SameIndices DEF Abstract!Occupied
  <2>2. ring'.newest = ring.newest
    BY <1>1, <1>6 DEF DoRetain, Retain, Rings
  <2>3. Contents' = [i \in Index |-> IF i \in Keys(ring) THEN verdict[i] ELSE None]
    BY <1>1, <1>6, GetAfterRetain DEF DoRetain, Contents
  <2>4. QED BY <1>6, <2>1, <2>2, <2>3, SameIndices DEF Abstract!Retain
<1>7. QED BY <1>3, <1>4, <1>5, <1>6, SameIndices DEF Next, Abstract!Next

\* ring_buffer.rs: the ring buffer is a map with a window, for every capacity
\* its assertions allow: slots, wrap-around and the three branches of `insert`
\* are invisible to a caller of `get`.
THEOREM RingImplementsWindowMap == Spec => ImplementsWindowMap
<1>1. Init => Abstract!Init
  BY SlotType, SameIndices DEF Init, NewRing, Abstract!Init, Contents, Get
<1>2. TypeOK /\ [Next]_ring => [Abstract!Next]_(Abstract!vars)
  <2>1. ASSUME UNCHANGED ring PROVE UNCHANGED Abstract!vars
    BY <2>1 DEF Abstract!vars, Contents
  <2>2. QED BY <2>1, StepRefines
<1>3. QED
  BY <1>1, <1>2, TypeCorrect, PTL DEF Spec, ImplementsWindowMap, Abstract!Spec

-----------------------------------------------------------------------------
(* Ages: distances from the oldest index of a window.                      *)

\* ring_buffer.rs:357-360: the range from one index to another holds those that
\* are nearer to the first than the other is.
LEMMA RangeMembers ==
    ASSUME NEW a \in Index, NEW b \in Index
    PROVE  WrappingRange(a, b) = {j \in Index : WrappingSub(j, a) < WrappingSub(b, a)}
<1>1. ASSUME NEW k \in 0 .. WrappingSub(b, a) - 1
      PROVE  /\ WrappingAdd(a, k) \in Index
             /\ WrappingSub(WrappingAdd(a, k), a) = k
  BY U16Assumption DEF WrappingAdd, WrappingSub, Index
<1>2. ASSUME NEW j \in Index, WrappingSub(j, a) < WrappingSub(b, a)
      PROVE  /\ WrappingSub(j, a) \in 0 .. WrappingSub(b, a) - 1
             /\ j = WrappingAdd(a, WrappingSub(j, a))
  BY <1>2, U16Assumption DEF WrappingAdd, WrappingSub, Index
<1>3. ASSUME NEW j \in WrappingRange(a, b)
      PROVE  j \in Index /\ WrappingSub(j, a) < WrappingSub(b, a)
  <2>1. PICK k \in 0 .. WrappingSub(b, a) - 1 : j = WrappingAdd(a, k)
    BY DEF WrappingRange
  <2>2. WrappingSub(b, a) \in Int
    BY U16Assumption DEF WrappingSub, Index
  <2>3. QED BY <1>1, <2>1, <2>2
<1>4. QED BY <1>2, <1>3 DEF WrappingRange

\* Ages on the circle of indices, w the newest index and c an iterator's next one:
\* in the window they run from 0 to NumItems - 1, and the unvisited indices are
\* the youngest of the window.
LEMMA Ages ==
    ASSUME NEW w \in Index, NEW c \in Index, NEW j \in Index,
           WrappingSub(WrappingAdd(w, 1), c) <= NumItems
    PROVE  LET age(i) == WrappingSub(i, WrappingSub(w, NumItems - 1))
               left   == WrappingSub(WrappingAdd(w, 1), c)
           IN  /\ age(j) \in Nat /\ left \in Nat
               /\ WrappingSub(w, j) < NumItems <=> age(j) < NumItems
               /\ WrappingSub(w, j) < NumItems =>
                      /\ WrappingSub(WrappingAdd(w, 1), WrappingAdd(j, 1)) = NumItems - 1 - age(j)
                      /\ age(j) = NumItems - 1 - WrappingSub(w, j)
               /\ WrappingSub(j, c) < left <=>
                      WrappingSub(w, j) < NumItems /\ NumItems - left <= age(j)
               /\ WrappingSub(j, c) < left => WrappingSub(j, c) = age(j) - (NumItems - left)
<1>1. /\ w \in Int /\ c \in Int /\ j \in Int /\ U16 \in Int /\ NumItems \in Int
      /\ 0 <= w /\ w < U16 /\ 0 <= c /\ c < U16 /\ 0 <= j /\ j < U16
      /\ 1 <= NumItems /\ 4 * NumItems <= U16
  BY U16Assumption, RingAssumption DEF Index
<1> DEFINE age == WrappingSub(j, WrappingSub(w, NumItems - 1))
           left == WrappingSub(WrappingAdd(w, 1), c)
<1>2. age \in Nat /\ left \in Nat /\ left <= NumItems
  BY <1>1 DEF WrappingSub, WrappingAdd
<1>3. /\ WrappingSub(w, j) < NumItems <=> age < NumItems
      /\ WrappingSub(w, j) < NumItems =>
             /\ WrappingSub(WrappingAdd(w, 1), WrappingAdd(j, 1)) = NumItems - 1 - age
             /\ age = NumItems - 1 - WrappingSub(w, j)
  BY <1>1 DEF WrappingSub, WrappingAdd
<1>4. WrappingSub(j, c) < left <=> WrappingSub(w, j) < NumItems /\ NumItems - left <= age
  BY <1>1, <1>2 DEF WrappingSub, WrappingAdd
<1>5. WrappingSub(j, c) < left => WrappingSub(j, c) = age - (NumItems - left)
  BY <1>1, <1>2 DEF WrappingSub, WrappingAdd
<1>6. QED BY <1>2, <1>3, <1>4, <1>5

\* How many indices an iterator has in front of it.
Left(i) == WrappingSub(GetNextIndex(ring), i)

\* ring_buffer.rs:201: what next still looks at is the young part of the ring.
LEMMA RemainingIsYoung ==
    ASSUME TypeOK, NEW c \in Index, Left(c) <= NumItems
    PROVE  /\ Remaining(c) = {j \in Keys(ring) : NumItems - Left(c) <= Age(j)}
           /\ \A j \in Remaining(c) : WrappingSub(j, c) = Age(j) - (NumItems - Left(c))
           /\ \A j \in Keys(ring) : j \in Index /\ Age(j) \in Nat /\ Age(j) < NumItems
           /\ Left(c) \in Nat
<1> DEFINE w == ring.newest
<1>1. ring \in Rings(Item) /\ w \in Index
  BY DEF TypeOK, Rings
<1>2. Keys(ring) = {j \in Index : Get(ring, j) # None}
  BY <1>1, KeysAreFound
<1>3. \A j \in Index : Get(ring, j) # None => WrappingSub(w, j) < NumItems
  BY DEF Get, InWindow
<1>4. WrappingAdd(w, 1) \in Index
  BY <1>1, U16Assumption DEF WrappingAdd, Index
<1>5. Remaining(c) = {j \in Index : WrappingSub(j, c) < Left(c) /\ Get(ring, j) # None}
  BY <1>4, RangeMembers DEF Remaining, Left, GetNextIndex
<1>6. ASSUME NEW j \in Index
      PROVE  /\ Age(j) \in Nat /\ Left(c) \in Nat
             /\ WrappingSub(w, j) < NumItems <=> Age(j) < NumItems
             /\ WrappingSub(j, c) < Left(c) <=>
                    WrappingSub(w, j) < NumItems /\ NumItems - Left(c) <= Age(j)
             /\ WrappingSub(j, c) < Left(c) =>
                    WrappingSub(j, c) = Age(j) - (NumItems - Left(c))
  BY <1>1, Ages DEF Age, Left, GetNextIndex, OldestIndex
<1>7. QED BY <1>2, <1>3, <1>5, <1>6

\* ring_buffer.rs:202-204: next returns the oldest item that is left.
LEMMA FirstIsOldest ==
    ASSUME TypeOK, NEW c \in Index, Left(c) <= NumItems, Remaining(c) # {}
    PROVE  /\ First(Remaining(c), c) \in Remaining(c)
           /\ \A k \in Remaining(c) : Age(First(Remaining(c), c)) <= Age(k)
<1>1. /\ Remaining(c) = {j \in Keys(ring) : NumItems - Left(c) <= Age(j)}
      /\ \A j \in Remaining(c) : WrappingSub(j, c) = Age(j) - (NumItems - Left(c))
      /\ \A j \in Keys(ring) : Age(j) \in Nat
      /\ Left(c) \in Nat /\ NumItems \in Nat
  BY RemainingIsYoung, RingAssumption
<1> DEFINE S == {Age(j) : j \in Remaining(c)}
<1>2. S \subseteq Nat /\ S # {}
  BY <1>1
<1>3. PICK a \in S : \A b \in S : a <= b
  BY <1>2, Least
<1>4. PICK j \in Remaining(c) : Age(j) = a
  BY <1>3
<1>5. \A k \in Remaining(c) : Age(k) \in S /\ Age(k) \in Nat
  BY <1>1
<1> HIDE DEF S
<1>6. \A k \in Remaining(c) : WrappingSub(j, c) <= WrappingSub(k, c)
  BY <1>1, <1>3, <1>4, <1>5
<1>7. /\ First(Remaining(c), c) \in Remaining(c)
      /\ \A k \in Remaining(c) :
             WrappingSub(First(Remaining(c), c), c) <= WrappingSub(k, c)
  BY <1>6 DEF First
<1>8. QED BY <1>1, <1>5, <1>7

-----------------------------------------------------------------------------
(* A mutable iterator is one more way to call insert.                      *)

\* What IterNext makes of the ring, when it returns the item of index j.
LEMMA Stored ==
    ASSUME TypeOK, NEW j \in Keys(ring), j \in Index, NEW item \in Item,
           ring' = [ring EXCEPT !.items = Store(@, j, item)]
    PROVE  /\ ring' = Insert(ring, j, item)
           /\ ring'.newest = ring.newest
           /\ Keys(ring') = Keys(ring)
<1>1. ring \in Rings(Item)
  BY DEF TypeOK
<1>2. InWindow(ring, j)
  BY DEF Keys, Get
<1>3. ring' = Insert(ring, j, item)
  BY <1>1, <1>2, InWindowBranch DEF Insert
<1>4. ring' \in Rings(Item)
  BY <1>1, <1>3, InsertType
<1>5. ASSUME NEW k \in Index
      PROVE  Get(ring', k) # None <=> Get(ring, k) # None
  <2>1. Get(ring', k) = IF k = j THEN item
                        ELSE IF WrappingSub(ring.newest, k) < NumItems THEN Get(ring, k)
                        ELSE None
    BY <1>1, <1>2, <1>3, GetAfterInsert
  <2>2. Get(ring, j) # None
    BY DEF Keys
  <2>3. QED BY <2>1, <2>2, ItemAssumption DEF Get, InWindow
<1>6. ring'.newest = ring.newest
  BY <1>1 DEF Rings
<1>7. QED BY <1>1, <1>3, <1>4, <1>5, <1>6, KeysAreFound

\* The iterator's types.
CursorType == cursor \in Index \cup {None} /\ seen \in Seq(Index)

\* ring_buffer.rs:108, 128: what callers do with iterators they could do without.
LEMMA NextIsInsert ==
    ASSUME TypeOK, CursorType, IterNext, Left(cursor) <= NumItems
    PROVE  \E i \in Index, item \in Item : DoInsert(i, item)
<1>1. cursor \in Index
  BY DEF CursorType, IterNext, Borrowed
<1> DEFINE j == First(Remaining(cursor), cursor)
<1>2. j \in Remaining(cursor)
  BY <1>1, FirstIsOldest DEF IterNext
<1>3. j \in Keys(ring) /\ j \in Index
  BY <1>1, <1>2, RemainingIsYoung
<1>4. PICK item \in Item : ring' = [ring EXCEPT !.items = Store(@, j, item)]
  BY DEF IterNext
<1> HIDE DEF j
<1>5. ring' = Insert(ring, j, item)
  BY <1>3, <1>4, Stored
<1>6. QED BY <1>3, <1>5 DEF DoInsert

-----------------------------------------------------------------------------
(* The invariant: types, and the property itself.                          *)

IterInvariant == TypeOK /\ CursorType /\ YieldsEachOnceInOrder

\* The set of the keys an iterator that stands at c has visited.
Visited(c) == {j \in Keys(ring) : Age(j) < NumItems - Left(c)}

\* Two keys of the same age are the same.
LEMMA AgeInjective ==
    ASSUME TypeOK, NEW i \in Keys(ring), NEW j \in Keys(ring), Age(i) = Age(j)
    PROVE  i = j
<1>1. ring \in Rings(Item) /\ ring.newest \in Index
  BY DEF TypeOK, Rings
<1>2. i \in Index /\ j \in Index
  BY <1>1, KeysAreFound
<1>3. OldestIndex(ring) \in Index
  BY <1>1, U16Assumption, RingAssumption DEF OldestIndex, WrappingSub, Index
<1>4. QED BY <1>2, <1>3, U16Assumption DEF Age, WrappingSub, Index

\* One call of next that returns an item.
LEMMA NextYields ==
    ASSUME IterInvariant, IterNext
    PROVE  IterInvariant'
<1>1. TypeOK /\ cursor \in Index /\ cursor # None /\ seen \in Seq(Index)
  BY DEF IterInvariant, CursorType, IterNext, Borrowed
<1>2. /\ {seen[n] : n \in DOMAIN seen} = Visited(cursor)
      /\ \A m, n \in DOMAIN seen : m < n => Age(seen[m]) < Age(seen[n])
      /\ Left(cursor) <= NumItems
  BY <1>1 DEF IterInvariant, YieldsEachOnceInOrder, Borrowed, Visited, Left
<1> DEFINE j == First(Remaining(cursor), cursor)
<1>3. j \in Remaining(cursor) /\ \A k \in Remaining(cursor) : Age(j) <= Age(k)
  BY <1>1, <1>2, FirstIsOldest DEF IterNext
<1>4. /\ Remaining(cursor) = {k \in Keys(ring) : NumItems - Left(cursor) <= Age(k)}
      /\ \A k \in Keys(ring) : k \in Index /\ Age(k) \in Nat /\ Age(k) < NumItems
      /\ Left(cursor) \in Nat /\ NumItems \in Nat
  BY <1>1, <1>2, RemainingIsYoung, RingAssumption
<1>5. PICK item \in Item : ring' = [ring EXCEPT !.items = Store(@, j, item)]
  BY DEF IterNext
<1>6. cursor' = WrappingAdd(j, 1) /\ seen' = Append(seen, j)
  BY DEF IterNext, Yield
<1> HIDE DEF j
<1>7. j \in Keys(ring) /\ j \in Index /\ NumItems - Left(cursor) <= Age(j)
  BY <1>3, <1>4
<1>8. /\ ring' = Insert(ring, j, item)
      /\ ring'.newest = ring.newest
      /\ Keys(ring') = Keys(ring)
  BY <1>1, <1>5, <1>7, Stored
<1>9. TypeOK'
  BY <1>1, <1>7, <1>8, InsertType DEF TypeOK
<1>10. cursor' \in Index /\ seen' \in Seq(Index)
  BY <1>1, <1>6, <1>7, U16Assumption DEF WrappingAdd, Index
<1>11. \A k : WrappingSub(k, OldestIndex(ring')) = Age(k)
  BY <1>8 DEF Age, OldestIndex
<1>12. WrappingSub(GetNextIndex(ring'), cursor') = NumItems - 1 - Age(j)
  <2>1. ring.newest \in Index /\ WrappingSub(ring.newest, j) < NumItems
    BY <1>1, <1>7 DEF TypeOK, Rings, Keys, Get, InWindow
  <2>2. WrappingSub(WrappingAdd(ring.newest, 1), WrappingAdd(j, 1)) = NumItems - 1 - Age(j)
    BY <1>1, <1>2, <1>7, <2>1, Ages DEF Left, GetNextIndex, Age, OldestIndex
  <2>3. QED BY <1>6, <1>8, <2>2 DEF GetNextIndex
<1>13. {seen'[n] : n \in DOMAIN seen'} = {seen[n] : n \in DOMAIN seen} \cup {j}
  BY <1>1, <1>6
<1>14. {seen'[n] : n \in DOMAIN seen'} =
           {k \in Keys(ring) : Age(k) < NumItems - (NumItems - 1 - Age(j))}
  <2>1. ASSUME NEW k \in Keys(ring)
        PROVE  Age(k) < NumItems - (NumItems - 1 - Age(j))
                   <=> Age(k) < NumItems - Left(cursor) \/ k = j
    <3>1. CASE Age(k) < NumItems - Left(cursor)
      BY <1>4, <1>7, <3>1
    <3>2. CASE ~ (Age(k) < NumItems - Left(cursor))
      <4>1. k \in Remaining(cursor)
        BY <1>4, <3>2
      <4>2. Age(j) <= Age(k)
        BY <1>3, <4>1
      <4>3. Age(k) <= Age(j) => k = j
        BY <1>1, <1>4, <1>7, <4>2, AgeInjective
      <4>4. QED BY <1>4, <1>7, <3>2, <4>2, <4>3
    <3>3. QED BY <3>1, <3>2
  <2>2. QED BY <1>2, <1>7, <1>13, <2>1 DEF Visited
<1>15. ASSUME NEW m \in DOMAIN seen', NEW n \in DOMAIN seen', m < n
       PROVE  Age(seen'[m]) < Age(seen'[n])
  <2>1. /\ Len(seen) \in Nat /\ DOMAIN seen = 1 .. Len(seen)
        /\ DOMAIN seen' = 1 .. Len(seen) + 1
        /\ seen'[Len(seen) + 1] = j
        /\ \A k \in 1 .. Len(seen) : seen'[k] = seen[k]
    BY <1>1, <1>6
  <2>2. m \in DOMAIN seen /\ seen'[m] = seen[m]
    BY <1>15, <2>1
  <2>3. CASE n \in DOMAIN seen
    BY <1>2, <1>15, <2>1, <2>2, <2>3
  <2>4. CASE n = Len(seen) + 1
    <3>1. seen[m] \in Visited(cursor)
      BY <1>2, <2>2
    <3>2. Age(seen[m]) < NumItems - Left(cursor) /\ Age(seen[m]) \in Nat
      BY <1>4, <3>1 DEF Visited
    <3>3. QED BY <1>4, <1>7, <2>1, <2>2, <2>4, <3>2
  <2>5. QED BY <2>1, <2>3, <2>4
<1>16. YieldsEachOnceInOrder'
  <2>1. WrappingSub(GetNextIndex(ring'), cursor') <= NumItems
    BY <1>4, <1>7, <1>12
  <2>2. \A k : Age(k)' = Age(k)
    BY <1>11 DEF Age
  <2>3. QED BY <1>8, <1>12, <1>14, <1>15, <2>1, <2>2 DEF YieldsEachOnceInOrder
<1>17. QED BY <1>9, <1>10, <1>16 DEF IterInvariant, CursorType

\* A call of next that finds nothing, also if it is not the first one.
LEMMA EndKeeps ==
    ASSUME IterInvariant, IterEnd
    PROVE  IterInvariant'
<1>1. TypeOK /\ cursor \in Index /\ cursor # None /\ seen \in Seq(Index)
  BY DEF IterInvariant, CursorType, IterEnd, Borrowed
<1>2. /\ {seen[n] : n \in DOMAIN seen} = Visited(cursor)
      /\ \A m, n \in DOMAIN seen : m < n => Age(seen[m]) < Age(seen[n])
      /\ Left(cursor) <= NumItems
  BY <1>1 DEF IterInvariant, YieldsEachOnceInOrder, Borrowed, Visited, Left
<1>3. /\ ring' = ring /\ seen' = seen /\ cursor' = GetNextIndex(ring)
      /\ Remaining(cursor) = {}
  BY DEF IterEnd
<1>4. GetNextIndex(ring) \in Index
  BY <1>1, U16Assumption DEF TypeOK, Rings, GetNextIndex, WrappingAdd, Index
<1>5. WrappingSub(GetNextIndex(ring), GetNextIndex(ring)) = 0
  BY <1>4, U16Assumption DEF WrappingSub, Index
<1>6. /\ Remaining(cursor) = {k \in Keys(ring) : NumItems - Left(cursor) <= Age(k)}
      /\ \A k \in Keys(ring) : Age(k) \in Nat /\ Age(k) < NumItems
      /\ Left(cursor) \in Nat /\ NumItems \in Nat
  BY <1>1, <1>2, RemainingIsYoung, RingAssumption
<1>7. Visited(cursor) = {k \in Keys(ring) : Age(k) < NumItems - 0}
  <2>1. ASSUME NEW k \in Keys(ring) PROVE Age(k) < NumItems - Left(cursor)
    BY <1>3, <1>6
  <2>2. QED BY <1>6, <2>1 DEF Visited
<1>8. \A k : Age(k)' = Age(k)
  BY <1>3 DEF Age
<1>9. YieldsEachOnceInOrder'
  BY <1>2, <1>3, <1>5, <1>6, <1>7, <1>8 DEF YieldsEachOnceInOrder
<1>10. QED BY <1>1, <1>3, <1>4, <1>9 DEF IterInvariant, CursorType, TypeOK

\* A new iterator has everything in front of it.
LEMMA BorrowStarts ==
    ASSUME IterInvariant, Borrow
    PROVE  IterInvariant'
<1>1. TypeOK /\ ring \in Rings(Item) /\ ring.newest \in Index
  BY DEF IterInvariant, TypeOK, Rings
<1>2. ring' = ring /\ seen' = << >> /\ cursor' = OldestIndex(ring)
  BY DEF Borrow
<1>3. /\ OldestIndex(ring) \in Index
      /\ Left(OldestIndex(ring)) = NumItems
  BY <1>1, U16Assumption, RingAssumption
     DEF Left, GetNextIndex, OldestIndex, WrappingAdd, WrappingSub, Index
<1>4. \A k \in Keys(ring) : Age(k) \in Nat
  BY <1>1, <1>3, RingAssumption, RemainingIsYoung
<1>5. \A k : Age(k)' = Age(k)
  BY <1>2 DEF Age
<1>6. {k \in Keys(ring) : Age(k) < NumItems - NumItems} = {}
  BY <1>4, RingAssumption
<1>7. YieldsEachOnceInOrder'
  <2>1. WrappingSub(GetNextIndex(ring'), cursor') = NumItems
    BY <1>2, <1>3 DEF Left
  <2>2. {seen'[n] : n \in DOMAIN seen'} = {} /\ DOMAIN seen' = {}
    BY <1>2
  <2>3. QED BY <1>2, <1>5, <1>6, <2>1, <2>2, RingAssumption DEF YieldsEachOnceInOrder
<1>8. QED BY <1>1, <1>2, <1>3, <1>7 DEF IterInvariant, CursorType, TypeOK

-----------------------------------------------------------------------------
(* The theorems.                                                           *)

\* No step of an iterator or of its owner leaves the invariant.
LEMMA IterInductive ==
    ASSUME IterInvariant, [IterSteps]_iterVars
    PROVE  IterInvariant' /\ [Next]_ring
<1>1. CASE Call
  <2>1. ring \in Rings(Item) /\ Next /\ cursor = None /\ cursor' = None /\ seen' = seen
    BY <1>1 DEF Call, Borrowed, IterInvariant, TypeOK
  <2>2. ring' \in Rings(Item)
    BY <2>1, PushType, InsertType, TakeType, RetainType
       DEF Next, DoPush, DoInsert, DoTake, DoRetain
  <2>3. QED BY <2>1, <2>2
               DEF IterInvariant, TypeOK, CursorType, YieldsEachOnceInOrder, Borrowed
<1>2. CASE Borrow
  BY <1>2, BorrowStarts DEF Borrow
<1>3. CASE IterNext
  <2>1. TypeOK /\ CursorType /\ Left(cursor) <= NumItems
    BY <1>3 DEF IterInvariant, YieldsEachOnceInOrder, IterNext, Borrowed, Left
  <2>2. \E i \in Index, item \in Item : DoInsert(i, item)
    BY <1>3, <2>1, NextIsInsert
  <2>3. QED BY <1>3, <2>2, NextYields DEF Next
<1>4. CASE IterEnd
  BY <1>4, EndKeeps DEF IterEnd
<1>5. CASE Drop
  BY <1>5 DEF Drop, IterInvariant, TypeOK, CursorType, YieldsEachOnceInOrder, Borrowed
<1>6. CASE UNCHANGED iterVars
  BY <1>6 DEF iterVars, IterInvariant, TypeOK, CursorType, YieldsEachOnceInOrder, Borrowed,
              Age
<1>7. QED BY <1>1, <1>2, <1>3, <1>4, <1>5, <1>6 DEF IterSteps

LEMMA IterInvariantHolds == IterSpec => []IterInvariant /\ [][Next]_ring
<1>1. IterInit => IterInvariant
  BY U16Assumption DEF IterInit, Init, IterInvariant, TypeOK, CursorType, NewRing, Rings,
     Index, LastIndex, YieldsEachOnceInOrder, Borrowed
<1>2. IterInvariant /\ [IterSteps]_iterVars => IterInvariant' /\ [Next]_ring
  BY IterInductive
<1>3. QED BY <1>1, <1>2, PTL DEF IterSpec

\* ring_buffer.rs:103-142, 201-242: an iterator returns every item that is in the
\* ring, once, from the oldest to the newest; so the references that iter_mut
\* hands out by its unsafe block are to different items.
THEOREM IteratorsYieldEachOnceInOrder == IterSpec => []YieldsEachOnceInOrder
<1>1. IterInvariant => YieldsEachOnceInOrder
  BY DEF IterInvariant
<1>2. QED BY <1>1, IterInvariantHolds, PTL

\* ring_buffer.rs:113-134: an owner who also uses iterators, and changes items
\* through them, finds no other ring than one who calls methods only.
THEOREM IteratorsImplementWindowMap == IterSpec => ImplementsWindowMap
<1>1. IterInit => Init
  BY DEF IterInit
<1>2. IterSpec => Spec
  BY <1>1, IterInvariantHolds, PTL DEF IterSpec, Spec
<1>3. QED BY <1>2, RingImplementsWindowMap

-----------------------------------------------------------------------------
(* How many items there are.                                               *)

\* Every slot belongs to an index of the window.
LEMMA SlotHasIndex ==
    ASSUME NEW w \in Index, NEW s \in Slots
    PROVE  \E i \in Index : WrappingSub(w, i) < NumItems /\ Slot(i) = s
<1>1. /\ U16 \in Nat /\ NumItems \in Nat \ {0} /\ w \in Nat /\ s \in Nat
      /\ w < U16 /\ s < NumItems /\ 4 * NumItems <= U16 /\ s \in Index
  BY U16Assumption, RingAssumption DEF Index, Slots
<1>2. Slot(s) = s
  <2>1. PICK q \in Int : s = NumItems * q + Slot(s)
    BY <1>1, SlotType
  <2>2. Slot(s) \in Slots
    BY <1>1, SlotType
  <2>3. -NumItems < NumItems * q /\ NumItems * q < NumItems
    BY <1>1, <2>1, <2>2 DEF Slots
  <2>4. q = 0
    BY <1>1, <2>3, NoSmallMultiple
  <2>5. QED BY <1>1, <2>1, <2>2, <2>4 DEF Slots
<1>3. CASE s <= w
  <2> DEFINE d == (w - s) % NumItems
             q == (w - s) \div NumItems
             i == w - d
  <2>1. /\ q \in Int /\ w - s = NumItems * q + d
        /\ d \in Int /\ 0 <= d /\ d < NumItems
    BY <1>1, <1>3, DivMod
  <2>2. d <= w - s
    BY <1>1, <1>3
  <2> HIDE DEF d, q
  <2>3. i \in Index /\ i - s = NumItems * q /\ WrappingSub(w, i) < NumItems
    BY <1>1, <1>3, <2>1, <2>2 DEF Index, WrappingSub
  <2>4. QED BY <1>1, <1>2, <2>1, <2>3, SameSlot
<1>4. CASE w < s
  <2> DEFINE i == s + U16 - NumItems
  <2>1. PICK m \in Int : U16 = NumItems * m
    BY U16IsMultiple
  <2>2. NumItems * m - NumItems = NumItems * (m - 1)
    BY <1>1
  <2>3. i - s = NumItems * (m - 1)
    BY <1>1, <2>1, <2>2
  <2>4. i \in Index /\ WrappingSub(w, i) < NumItems
    BY <1>1, <1>4 DEF Index, WrappingSub
  <2>5. QED BY <1>1, <1>2, <2>3, <2>4, SameSlot
<1>5. QED BY <1>1, <1>3, <1>4

\* ring_buffer.rs:182-185: len, which counts slots, counts keys.
LEMMA LenCountsKeys ==
    ASSUME TypeOK
    PROVE  IsFiniteSet(Keys(ring)) /\ Cardinality(Keys(ring)) = ItemCount(ring)
<1>1. ring \in Rings(Item) /\ ring.newest \in Index
  BY DEF TypeOK, Rings
<1> DEFINE full == {s \in Slots : ring.items[s] # None}
           f == [k \in Keys(ring) |-> Slot(k)]
<1>2. Keys(ring) = {i \in Index : Get(ring, i) # None}
  BY <1>1, KeysAreFound
<1>3. \A k \in Keys(ring) :
          k \in Index /\ WrappingSub(ring.newest, k) < NumItems /\ Slot(k) \in full
  BY <1>2, SlotType DEF Get, InWindow
<1>4. \A k, l \in Keys(ring) : Slot(k) = Slot(l) => k = l
  BY <1>1, <1>3, WindowInjective
<1>5. ASSUME NEW s \in full PROVE \E k \in Keys(ring) : Slot(k) = s
  <2>1. PICK i \in Index : WrappingSub(ring.newest, i) < NumItems /\ Slot(i) = s
    BY <1>1, SlotHasIndex
  <2>2. QED BY <1>2, <2>1 DEF Get, InWindow
<1> HIDE DEF full
<1>6. f \in Bijection(Keys(ring), full)
  BY <1>3, <1>4, <1>5 DEF Bijection, Injection, Surjection, IsInjective
<1>7. IsFiniteSet(full)
  <2>1. IsFiniteSet(Slots)
    BY RingAssumption, FS_Interval DEF Slots
  <2>2. full \in SUBSET Slots
    BY DEF full
  <2>3. QED BY <2>1, <2>2, FS_Subset
<1>8. IsFiniteSet(Keys(ring)) /\ Cardinality(Keys(ring)) = Cardinality(full)
  <2>1. f \in Injection(Keys(ring), full) /\ f \in Surjection(Keys(ring), full)
    BY <1>6 DEF Bijection
  <2>2. QED BY <1>7, <2>1, FS_Injection
<1>9. QED BY <1>8 DEF ItemCount, full

\* At most one key has each age, so that many keys have an age in a range.
LEMMA KeysOfAges ==
    ASSUME TypeOK, NEW a \in Int, NEW b \in Int, NEW S, S \subseteq Keys(ring),
           \A k \in S : Age(k) \in a .. b
    PROVE  IsFiniteSet(S) /\ Cardinality(S) <= Cardinality(a .. b)
<1> DEFINE f == [k \in S |-> Age(k)]
<1>1. \A k, l \in S : Age(k) = Age(l) => k = l
  BY AgeInjective
<1>2. f \in Injection(S, a .. b)
  BY <1>1 DEF Injection, IsInjective
<1>3. IsFiniteSet(a .. b)
  BY FS_Interval
<1>4. QED BY <1>2, <1>3, FS_Injection

\* What an iterator has returned and what it has not make up the ring, and
\* neither is more than the indices behind and in front of it.
LEMMA VisitedAndRemaining ==
    ASSUME TypeOK, NEW c \in Index, Left(c) <= NumItems
    PROVE  /\ Cardinality(Visited(c)) \in Nat /\ Cardinality(Remaining(c)) \in Nat
           /\ IsFiniteSet(Visited(c))
           /\ ItemCount(ring) = Cardinality(Visited(c)) + Cardinality(Remaining(c))
           /\ Cardinality(Visited(c)) <= NumItems - Left(c)
           /\ Cardinality(Remaining(c)) <= Left(c)
<1>1. /\ Remaining(c) = {k \in Keys(ring) : NumItems - Left(c) <= Age(k)}
      /\ \A k \in Keys(ring) : Age(k) \in Nat /\ Age(k) < NumItems
      /\ Left(c) \in Nat /\ NumItems \in Nat
  BY RemainingIsYoung, RingAssumption
<1>2. /\ IsFiniteSet(Visited(c))
      /\ Cardinality(Visited(c)) <= Cardinality(0 .. NumItems - Left(c) - 1)
  <2>1. \A k \in Visited(c) : Age(k) \in 0 .. NumItems - Left(c) - 1
    BY <1>1 DEF Visited
  <2>2. Visited(c) \subseteq Keys(ring) /\ NumItems - Left(c) - 1 \in Int /\ 0 \in Int
    BY <1>1 DEF Visited
  <2>3. QED BY <2>1, <2>2, KeysOfAges
<1>3. /\ IsFiniteSet(Remaining(c))
      /\ Cardinality(Remaining(c)) <= Cardinality(NumItems - Left(c) .. NumItems - 1)
  <2>1. \A k \in Remaining(c) : Age(k) \in NumItems - Left(c) .. NumItems - 1
    BY <1>1
  <2>2. /\ Remaining(c) \subseteq Keys(ring)
        /\ NumItems - Left(c) \in Int /\ NumItems - 1 \in Int
    BY <1>1
  <2>3. QED BY <2>1, <2>2, KeysOfAges
<1>4. /\ Cardinality(0 .. NumItems - Left(c) - 1) = NumItems - Left(c)
      /\ Cardinality(NumItems - Left(c) .. NumItems - 1) = Left(c)
  <2>1. \A a, b \in Int : Cardinality(a .. b) = IF a > b THEN 0 ELSE b - a + 1
    BY FS_Interval
  <2>2. 0 \in Int /\ NumItems - Left(c) - 1 \in Int /\ NumItems - Left(c) \in Int /\ NumItems - 1 \in Int
    BY <1>1
  <2>3. Cardinality(0 .. NumItems - Left(c) - 1) =
            IF 0 > NumItems - Left(c) - 1 THEN 0 ELSE NumItems - Left(c) - 1 - 0 + 1
    BY <2>1, <2>2
  <2>4. Cardinality(NumItems - Left(c) .. NumItems - 1) =
            IF NumItems - Left(c) > NumItems - 1 THEN 0
            ELSE NumItems - 1 - (NumItems - Left(c)) + 1
    BY <2>1, <2>2
  <2>5. QED BY <1>1, <2>3, <2>4
<1>5. Visited(c) \cup Remaining(c) = Keys(ring) /\ Visited(c) \cap Remaining(c) = {}
  BY <1>1 DEF Visited
<1>6. Cardinality(Visited(c)) \in Nat /\ Cardinality(Remaining(c)) \in Nat
  BY <1>2, <1>3, FS_CardinalityType
<1>7. Cardinality(Keys(ring)) = Cardinality(Visited(c)) + Cardinality(Remaining(c))
  <2>1. Cardinality(Visited(c) \cup Remaining(c)) =
            Cardinality(Visited(c)) + Cardinality(Remaining(c))
                - Cardinality(Visited(c) \cap Remaining(c))
    BY <1>2, <1>3, FS_Union
  <2>2. Cardinality(Visited(c) \cap Remaining(c)) = 0
    BY <1>5, FS_EmptySet
  <2>3. Cardinality(Visited(c) \cup Remaining(c)) = Cardinality(Keys(ring))
    BY <1>5
  <2>4. QED BY <1>6, <2>1, <2>2, <2>3
<1>8. QED BY <1>2, <1>3, <1>4, <1>6, <1>7, LenCountsKeys

\* An iterator has returned as many items as it has visited keys.
LEMMA SeenIsVisited ==
    ASSUME IterInvariant, Borrowed
    PROVE  Len(seen) = Cardinality(Visited(cursor))
<1>1. TypeOK /\ cursor \in Index /\ seen \in Seq(Index)
  BY DEF IterInvariant, CursorType, Borrowed
<1>2. /\ {seen[n] : n \in DOMAIN seen} = Visited(cursor)
      /\ \A m, n \in DOMAIN seen : m < n => Age(seen[m]) < Age(seen[n])
      /\ Left(cursor) <= NumItems
  BY DEF IterInvariant, YieldsEachOnceInOrder, Visited, Left
<1>3. Len(seen) \in Nat /\ DOMAIN seen = 1 .. Len(seen)
  BY <1>1
<1>4. \A n \in 1 .. Len(seen) : Age(seen[n]) \in Nat
  BY <1>1, <1>2, <1>3, RemainingIsYoung DEF Visited
<1>5. \A m, n \in 1 .. Len(seen) : seen[m] = seen[n] => m = n
  BY <1>2, <1>3, <1>4
<1>6. seen \in [1 .. Len(seen) -> Visited(cursor)]
  BY <1>1, <1>2, <1>3
<1>7. /\ seen \in Injection(1 .. Len(seen), Visited(cursor))
      /\ seen \in Surjection(1 .. Len(seen), Visited(cursor))
  BY <1>2, <1>3, <1>5, <1>6 DEF Injection, Surjection, IsInjective
<1>8. IsFiniteSet(Visited(cursor))
  BY <1>1, <1>2, VisitedAndRemaining
<1>9. Cardinality(1 .. Len(seen)) = Cardinality(Visited(cursor))
  BY <1>7, <1>8, FS_Injection
<1>10. Cardinality(1 .. Len(seen)) = IF 1 > Len(seen) THEN 0 ELSE Len(seen) - 1 + 1
  BY <1>3, FS_Interval
<1>11. QED BY <1>3, <1>9, <1>10

\* ring_buffer.rs:212, 215: with NumItems as its bound wrapping_gt never takes an
\* index of the window, or the one behind it, for one past newest; and what
\* size_hint computes as unvisited is what is in front of the iterator.
LEMMA HintArithmetic ==
    ASSUME NEW w \in Index, NEW c \in Index,
           WrappingSub(WrappingAdd(w, 1), c) <= NumItems
    PROVE  /\ ~ WrappingGt(WrappingSub(c, 1), w, NumItems)
           /\ WrappingAdd(WrappingSub(w, c), 1) = WrappingSub(WrappingAdd(w, 1), c)
<1>1. /\ w \in Int /\ c \in Int /\ U16 \in Int /\ NumItems \in Int
      /\ 0 <= w /\ w < U16 /\ 0 <= c /\ c < U16 /\ 1 <= NumItems /\ 4 * NumItems <= U16
  BY U16Assumption, RingAssumption DEF Index
<1>2. WrappingAdd(WrappingSub(w, c), 1) = WrappingSub(WrappingAdd(w, 1), c)
  BY <1>1 DEF WrappingSub, WrappingAdd
<1>3. ~ WrappingGt(WrappingSub(c, 1), w, NumItems)
  BY <1>1 DEF WrappingSub, WrappingAdd, WrappingGt, AcrossWrap, LastIndex
<1>4. QED BY <1>2, <1>3

LEMMA HintBrackets ==
    ASSUME IterInvariant PROVE HintBracketsWhatRemains
<1> SUFFICES ASSUME Borrowed
             PROVE  LET left == Cardinality(Keys(ring)) - Len(seen)
                    IN  SizeHint(cursor).lower <= left /\ left <= SizeHint(cursor).upper
  BY DEF HintBracketsWhatRemains
<1>1. TypeOK /\ ring.newest \in Index /\ cursor \in Index /\ Left(cursor) <= NumItems
  BY DEF IterInvariant, CursorType, Borrowed, YieldsEachOnceInOrder, Left, TypeOK, Rings
<1> DEFINE v == Cardinality(Visited(cursor))
           r == Cardinality(Remaining(cursor))
           p == Left(cursor)
<1>2. /\ v \in Nat /\ r \in Nat /\ ItemCount(ring) = v + r
      /\ v <= NumItems - p /\ r <= p
  BY <1>1, VisitedAndRemaining
<1>3. p \in Nat /\ NumItems \in Nat /\ p <= NumItems
  BY <1>1, RemainingIsYoung, RingAssumption
<1>4. Len(seen) = v /\ Cardinality(Keys(ring)) = v + r
  BY <1>1, <1>2, SeenIsVisited, LenCountsKeys
<1>5. ~ Exhausted(cursor) /\ Unvisited(cursor) = p
  BY <1>1, HintArithmetic DEF Exhausted, Unvisited, Left, GetNextIndex
<1> HIDE DEF v, r, p
<1>6. SizeHint(cursor) =
          IF v + r = 0 THEN [lower |-> 0, upper |-> 0]
          ELSE [lower |-> SaturatingSub(v + r, SaturatingSub(NumItems, p)),
                upper |-> IF p <= v + r THEN p ELSE v + r]
  BY <1>2, <1>5 DEF SizeHint
<1>7. SaturatingSub(NumItems, p) = NumItems - p
  BY <1>3 DEF SaturatingSub
<1>8. SaturatingSub(v + r, NumItems - p) <= r
  BY <1>2, <1>3 DEF SaturatingSub
<1>9. CASE v + r = 0
  BY <1>2, <1>4, <1>6, <1>9
<1>10. CASE v + r # 0
  <2>1. /\ SizeHint(cursor).lower = SaturatingSub(v + r, NumItems - p)
        /\ SizeHint(cursor).upper = IF p <= v + r THEN p ELSE v + r
    BY <1>6, <1>7, <1>10
  <2>2. QED BY <1>2, <1>3, <1>4, <1>8, <2>1
<1>11. QED BY <1>9, <1>10

\* ring_buffer.rs:210-222: size_hint of every iterator, at every point, in a ring of
\* any capacity and at any place of the indices, brackets what it still returns.
THEOREM HintsBracketWhatRemains == IterSpec => []HintBracketsWhatRemains
BY HintBrackets, IterInvariantHolds, PTL

=============================================================================
