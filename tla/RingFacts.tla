------------------------------ MODULE RingFacts ------------------------------
(***************************************************************************)
(* What the methods of the ring buffer do, for every number of index       *)
(* values, every capacity the code's assertions allow and every item set:  *)
(* their types, what the index arithmetic computes, and what `get` finds   *)
(* after each method.                                                      *)
(***************************************************************************)
EXTENDS RingBuffer, WellFoundedInduction, TLAPS

-----------------------------------------------------------------------------
(* Numbers.                                                                *)

NatLess == {p \in Nat \X Nat : p[1] < p[2]}

\* No sequence of numbers descends for ever.
LEMMA NatLessWellFounded == IsWellFoundedOn(NatLess, Nat)
BY NatLessThanWellFounded DEF OpToRel, NatLess

\* Every set of numbers that is not empty has a least element.
LEMMA Least ==
    ASSUME NEW S, S \subseteq Nat, S # {}
    PROVE  \E m \in S : \A k \in S : m <= k
<1>1. PICK m \in S : \A k \in S : <<k, m>> \notin NatLess
  BY NatLessWellFounded, WFMin
<1>2. ASSUME NEW k \in S, k < m PROVE FALSE
  <2>1. <<k, m>> \in NatLess  BY <1>2 DEF NatLess
  <2>2. QED BY <1>1, <2>1
<1>3. \A k \in S : k \in Nat /\ m \in Nat  OBVIOUS
<1>4. QED BY <1>2, <1>3

-----------------------------------------------------------------------------
(* Arithmetic: distances on the circle of indices.                         *)

\* ring_buffer.rs: u16 wrapping arithmetic stays within u16.
LEMMA WrappingType ==
    ASSUME NEW x \in Index, NEW d \in Index
    PROVE  WrappingAdd(x, d) \in Index /\ WrappingSub(x, d) \in Index
BY U16Assumption DEF Index, WrappingAdd, WrappingSub

\* A multiple of n that lies strictly between -n and n is zero.
LEMMA NoSmallMultiple ==
    ASSUME NEW n \in Nat \ {0}, NEW k \in Int, -n < n * k, n * k < n
    PROVE  k = 0
<1>1. CASE k >= 1
  <2>1. n * k >= n  BY <1>1
  <2>2. QED BY <2>1
<1>2. CASE k <= -1
  <2>1. n * k <= -n  BY <1>2
  <2>2. QED BY <2>1
<1>3. QED BY <1>1, <1>2

\* Division with remainder, with the bounds of the remainder.
LEMMA DivMod ==
    ASSUME NEW x \in Nat, NEW n \in Nat \ {0}
    PROVE  /\ x \div n \in Int
           /\ x = n * (x \div n) + (x % n)
           /\ x % n \in 0 .. n - 1
OBVIOUS

\* ring_buffer.rs:14: the capacity divides the number of indices.
LEMMA U16IsMultiple == \E m \in Int : U16 = NumItems * m
<1>1. /\ U16 \div NumItems \in Int
      /\ U16 = NumItems * (U16 \div NumItems) + 0
  BY U16Assumption, RingAssumption, DivMod
<1>2. U16 = NumItems * (U16 \div NumItems)
  BY <1>1, RingAssumption
<1>3. QED BY <1>1, <1>2

\* ring_buffer.rs:31: `index % NUM_ITEMS` is a slot.
LEMMA SlotType ==
    ASSUME NEW i \in Index
    PROVE  /\ Slot(i) \in Slots
           /\ \E q \in Int : i = NumItems * q + Slot(i)
<1>1. i \in Nat /\ NumItems \in Nat \ {0}
  BY U16Assumption, RingAssumption DEF Index
<1>2. /\ i \div NumItems \in Int
      /\ i = NumItems * (i \div NumItems) + (i % NumItems)
      /\ i % NumItems \in 0 .. NumItems - 1
  BY <1>1, DivMod
<1>3. QED BY <1>2 DEF Slot, Slots

\* Two indices whose difference is a multiple of the capacity share a slot.
LEMMA SameSlot ==
    ASSUME NEW i \in Index, NEW j \in Index, NEW q \in Int, i - j = NumItems * q
    PROVE  Slot(i) = Slot(j)
<1>1. PICK a \in Int : i = NumItems * a + Slot(i)  BY SlotType
<1>2. PICK b \in Int : j = NumItems * b + Slot(j)  BY SlotType
<1>3. Slot(i) - Slot(j) = NumItems * (q - a + b)
  BY <1>1, <1>2, SlotType, RingAssumption DEF Slots, Index
<1>4. q - a + b = 0
  BY <1>3, NoSmallMultiple, SlotType, RingAssumption DEF Slots
<1>5. QED BY <1>3, <1>4, SlotType, RingAssumption DEF Slots

\* ring_buffer.rs:28-35: no two indices that `get` finds share a slot, so an
\* item is never returned for an index it was not stored under.
LEMMA WindowInjective ==
    ASSUME NEW w \in Index, NEW i \in Index, NEW j \in Index,
           WrappingSub(w, i) < NumItems, WrappingSub(w, j) < NumItems,
           Slot(i) = Slot(j)
    PROVE  i = j
<1>1. PICK a \in Int : i = NumItems * a + Slot(i)  BY SlotType
<1>2. PICK b \in Int : j = NumItems * b + Slot(i)  BY SlotType
<1>3. PICK m \in Int : U16 = NumItems * m  BY U16IsMultiple
<1> DEFINE d == WrappingSub(w, i) - WrappingSub(w, j)
<1>4. /\ NumItems \in Nat \ {0} /\ U16 \in Nat /\ Slot(i) \in Int
      /\ i \in Int /\ j \in Int /\ w \in Int
  BY SlotType, U16Assumption, RingAssumption DEF Slots, Index
<1>5. -NumItems < d /\ d < NumItems
  BY <1>4 DEF WrappingSub, Index
<1>6. d = j - i \/ d = j - i + U16 \/ d = j - i - U16
  BY <1>4 DEF WrappingSub
<1>7. d = 0
  <2>1. CASE d = j - i
    <3>1. d = NumItems * (b - a)  BY <1>1, <1>2, <1>4, <2>1
    <3>2. QED BY <3>1, <1>4, <1>5, NoSmallMultiple
  <2>2. CASE d = j - i + U16
    <3>1. d = NumItems * (b - a + m)  BY <1>1, <1>2, <1>3, <1>4, <2>2
    <3>2. b - a + m = 0  BY <3>1, <1>4, <1>5, NoSmallMultiple
    <3>3. QED BY <3>1, <3>2, <1>4
  <2>3. CASE d = j - i - U16
    <3>1. d = NumItems * (b - a - m)  BY <1>1, <1>2, <1>3, <1>4, <2>3
    <3>2. b - a - m = 0  BY <3>1, <1>4, <1>5, NoSmallMultiple
    <3>3. QED BY <3>1, <3>2, <1>4
  <2>4. QED BY <1>6, <2>1, <2>2, <2>3
<1>8. QED BY <1>4, <1>7 DEF WrappingSub, Index

-----------------------------------------------------------------------------
(* The window tests of `insert` (ring_buffer.rs:54-79).                    *)

\* ring_buffer.rs:70-76: an index that `get` finds is never far from the
\* window, and takes the in-range branch.
LEMMA InWindowBranch ==
    ASSUME NEW Item, NEW r \in Rings(Item), NEW i \in Index, InWindow(r, i)
    PROVE  ~ FarFromWindow(r, i) /\ InRangeOfWindow(r, i)
<1> DEFINE w == r.newest
<1>1. w \in Index  BY DEF Rings
<1> HIDE DEF w
<1>2. WrappingSub(w, i) < NumItems  BY DEF InWindow, w
<1>3. ~ WrappingGt(WrappingSub(w, NumItems - 1), i, 2 * NumItems)
  BY <1>1, <1>2, U16Assumption, RingAssumption
     DEF WrappingGt, AcrossWrap, WrappingSub, LastIndex, Index
<1>4. ~ WrappingGt(i, WrappingAdd(w, NumItems - 1), 2 * NumItems)
  BY <1>1, <1>2, U16Assumption, RingAssumption
     DEF WrappingGt, AcrossWrap, WrappingSub, WrappingAdd, LastIndex, Index
<1>5. WrappingGt(WrappingAdd(w, 1), i, NumItems)
  BY <1>1, <1>2, U16Assumption, RingAssumption
     DEF WrappingGt, AcrossWrap, WrappingSub, WrappingAdd, LastIndex, Index
<1>6. WrappingGt(i, WrappingSub(w, NumItems), NumItems)
  BY <1>1, <1>2, U16Assumption, RingAssumption
     DEF WrappingGt, AcrossWrap, WrappingSub, LastIndex, Index
<1>7. QED BY <1>3, <1>4, <1>5, <1>6 DEF FarFromWindow, InRangeOfWindow, OldestIndex, w

\* ring_buffer.rs:80: an index less than NUM_ITEMS after the newest one takes
\* the purging branch.
LEMMA AheadBranch ==
    ASSUME NEW Item, NEW r \in Rings(Item), NEW i \in Index,
           ~ InWindow(r, i), WrappingSub(i, r.newest) < NumItems
    PROVE  ~ FarFromWindow(r, i) /\ ~ InRangeOfWindow(r, i)
<1> DEFINE w == r.newest
<1>1. w \in Index  BY DEF Rings
<1>2. WrappingSub(w, i) >= NumItems
  BY <1>1, U16Assumption, RingAssumption DEF InWindow, WrappingSub, Index
<1>3. WrappingSub(i, w) < NumItems  OBVIOUS
<1> HIDE DEF w
<1>4. ~ WrappingGt(WrappingSub(w, NumItems - 1), i, 2 * NumItems)
  BY <1>1, <1>2, <1>3, U16Assumption, RingAssumption
     DEF WrappingGt, AcrossWrap, WrappingSub, LastIndex, Index
<1>5. ~ WrappingGt(i, WrappingAdd(w, NumItems - 1), 2 * NumItems)
  BY <1>1, <1>2, <1>3, U16Assumption, RingAssumption
     DEF WrappingGt, AcrossWrap, WrappingSub, WrappingAdd, LastIndex, Index
<1>6. ~ WrappingGt(WrappingAdd(w, 1), i, NumItems)
  BY <1>1, <1>2, <1>3, U16Assumption, RingAssumption
     DEF WrappingGt, AcrossWrap, WrappingSub, WrappingAdd, LastIndex, Index
<1>7. QED BY <1>4, <1>5, <1>6 DEF FarFromWindow, InRangeOfWindow, OldestIndex, w

\* ring_buffer.rs:55-61: every other index, at any distance in front or behind,
\* takes the branch that empties the ring.
LEMMA FarBranch ==
    ASSUME NEW Item, NEW r \in Rings(Item), NEW i \in Index,
           ~ InWindow(r, i), WrappingSub(i, r.newest) >= NumItems
    PROVE  FarFromWindow(r, i)
<1> DEFINE w == r.newest
<1>1. w \in Index  BY DEF Rings
<1>2. WrappingSub(w, i) >= NumItems
  BY <1>1, U16Assumption, RingAssumption DEF InWindow, WrappingSub, Index
<1>3. WrappingSub(i, w) >= NumItems  OBVIOUS
<1> HIDE DEF w
<1>4. \/ WrappingGt(WrappingSub(w, NumItems - 1), i, 2 * NumItems)
      \/ WrappingGt(i, WrappingAdd(w, NumItems - 1), 2 * NumItems)
  BY <1>1, <1>2, <1>3, U16Assumption, RingAssumption
     DEF WrappingGt, AcrossWrap, WrappingSub, WrappingAdd, LastIndex, Index
<1>5. QED BY <1>4 DEF FarFromWindow, OldestIndex, w

\* ring_buffer.rs:82-85: the purge reaches exactly the entries that `get` finds
\* now and will not find once i is the newest index.
LEMMA PurgedIndices ==
    ASSUME NEW Item, NEW r \in Rings(Item), NEW i \in Index,
           ~ InWindow(r, i), WrappingSub(i, r.newest) < NumItems
    PROVE  Purged(r, i) =
               {j \in Index : InWindow(r, j) /\ WrappingSub(i, j) >= NumItems}
<1> DEFINE w == r.newest
           start == WrappingSub(w, NumItems - 1)
           end == WrappingSub(i, NumItems - 1)
<1>1. w \in Index  BY DEF Rings
<1>2. WrappingSub(w, i) >= NumItems /\ WrappingSub(i, w) < NumItems
  BY <1>1, U16Assumption, RingAssumption DEF InWindow, WrappingSub, Index
<1> HIDE DEF w
<1>3. start \in Index /\ end \in Index
  BY <1>1, U16Assumption, RingAssumption DEF WrappingSub, Index
<1>4. ASSUME NEW j \in WrappingRange(start, end), WrappingSub(w, j) < NumItems
      PROVE  j \in Index /\ WrappingSub(i, j) >= NumItems
  <2>1. PICK k \in 0 .. WrappingSub(end, start) - 1 : j = WrappingAdd(start, k)
    BY <1>4 DEF WrappingRange
  <2>2. WrappingSub(end, start) \in Index
    BY <1>3, U16Assumption DEF WrappingSub, Index
  <2>3. QED
    BY <1>1, <1>2, <1>4, <2>1, <2>2, U16Assumption, RingAssumption
       DEF WrappingSub, WrappingAdd, Index
<1>5. ASSUME NEW j \in Index, WrappingSub(w, j) < NumItems,
             WrappingSub(i, j) >= NumItems
      PROVE  j \in WrappingRange(start, end)
  <2> DEFINE k == WrappingSub(j, start)
  <2>1. k \in 0 .. WrappingSub(end, start) - 1
    BY <1>1, <1>2, <1>5, U16Assumption, RingAssumption DEF WrappingSub, Index
  <2>2. j = WrappingAdd(start, k)
    BY <1>1, <1>2, <1>5, U16Assumption, RingAssumption
       DEF WrappingSub, WrappingAdd, Index
  <2>3. QED BY <2>1, <2>2 DEF WrappingRange
<1>6. QED BY <1>4, <1>5 DEF Purged, OldestIndex, InWindow, w

\* ring_buffer.rs:137-142: `keys` yields the indices for which `get` finds an item.
LEMMA KeysAreFound ==
    ASSUME NEW Item, NEW r \in Rings(Item)
    PROVE  Keys(r) = {i \in Index : Get(r, i) # None}
<1> DEFINE w == r.newest
           start == WrappingSub(w, NumItems - 1)
           end == WrappingAdd(w, 1)
<1>1. w \in Index  BY DEF Rings
<1> HIDE DEF w
<1>2. start \in Index /\ end \in Index /\ WrappingSub(end, start) = NumItems
  BY <1>1, U16Assumption, RingAssumption DEF WrappingSub, WrappingAdd, Index
<1>3. ASSUME NEW i \in WrappingRange(start, end)
      PROVE  i \in Index
  BY <1>2, <1>3, U16Assumption, RingAssumption DEF WrappingRange, WrappingAdd, Index
<1>4. ASSUME NEW i \in Index, WrappingSub(w, i) < NumItems
      PROVE  i \in WrappingRange(start, end)
  <2> DEFINE k == WrappingSub(i, start)
  <2>1. k \in 0 .. NumItems - 1 /\ i = WrappingAdd(start, k)
    BY <1>1, <1>4, U16Assumption, RingAssumption DEF WrappingSub, WrappingAdd, Index
  <2>2. QED BY <1>2, <2>1 DEF WrappingRange
<1>5. QED BY <1>3, <1>4 DEF Keys, Get, InWindow, OldestIndex, GetNextIndex, w

-----------------------------------------------------------------------------
(* Each method keeps the types.                                            *)

\* ring_buffer.rs:28-44: get finds an item or nothing.
LEMMA GetType ==
    ASSUME NEW Item, NEW r \in Rings(Item), NEW i \in Index
    PROVE  Get(r, i) \in Item \cup {None}
BY SlotType DEF Get, Rings

\* ring_buffer.rs:46-51: push leaves a ring.
LEMMA PushType ==
    ASSUME NEW Item, NEW r \in Rings(Item), NEW item \in Item
    PROVE  Push(r, item) \in Rings(Item)
<1>1. GetNextIndex(r) \in Index
  BY U16Assumption DEF Rings, GetNextIndex, WrappingAdd, Index
<1>2. QED BY <1>1, SlotType DEF Push, Rings

\* ring_buffer.rs:94-101: take leaves a ring.
LEMMA TakeType ==
    ASSUME NEW Item, NEW r \in Rings(Item), NEW i \in Index
    PROVE  Take(r, i) \in Rings(Item)
BY SlotType DEF Take, Rings

\* ring_buffer.rs:53-92: insert leaves a ring in each of its branches.
LEMMA InsertType ==
    ASSUME NEW Item, NEW r \in Rings(Item), NEW i \in Index, NEW item \in Item
    PROVE  Insert(r, i, item) \in Rings(Item)
<1>1. ASSUME NEW items \in [Slots -> Item \cup {None}]
      PROVE  Store(items, i, item) \in [Slots -> Item \cup {None}]
  BY SlotType DEF Store
<1>2. NewRing.items \in [Slots -> Item \cup {None}]
  BY DEF NewRing
<1>3. /\ r.items \in [Slots -> Item \cup {None}]
      /\ r.newest \in Index
      /\ r = [newest |-> r.newest, items |-> r.items]
  BY DEF Rings
<1>4. [s \in Slots |-> IF \E j \in Purged(r, i) : Slot(j) = s
                       THEN None ELSE r.items[s]] \in [Slots -> Item \cup {None}]
  BY <1>3
<1>5. QED BY <1>1, <1>2, <1>3, <1>4 DEF Insert, Rings

\* ring_buffer.rs:147-164: retain leaves a ring, with what its predicate made of
\* the items.
LEMMA RetainType ==
    ASSUME NEW Item, NEW r \in Rings(Item), NEW verdict \in [Keys(r) -> Item \cup {None}]
    PROVE  Retain(r, verdict) \in Rings(Item)
<1>1. ASSUME NEW s \in Slots, \E i \in Keys(r) : Slot(i) = s
      PROVE  verdict[CHOOSE i \in Keys(r) : Slot(i) = s] \in Item \cup {None}
  BY <1>1
<1>2. QED BY <1>1 DEF Retain, Rings

-----------------------------------------------------------------------------
(* What `get` finds after each method, in terms of what it found before.   *)

\* ring_buffer.rs:46-51: push stores under the next index and forgets exactly
\* what falls out of the window.
LEMMA GetAfterPush ==
    ASSUME NEW Item, NEW r \in Rings(Item), NEW item \in Item, NEW j \in Index
    PROVE  LET new == WrappingAdd(r.newest, 1) IN
           Get(Push(r, item), j) =
               IF j = new THEN item
               ELSE IF WrappingSub(new, j) < NumItems THEN Get(r, j) ELSE None
<1> DEFINE new == WrappingAdd(r.newest, 1)
           p == Push(r, item)
<1>1. r.newest \in Index /\ new \in Index
  BY U16Assumption DEF Rings, WrappingAdd, Index
<1>2. /\ p.newest = new
      /\ r.items \in [Slots -> Item \cup {None}]
      /\ p.items = [r.items EXCEPT ![Slot(new)] = item]
  BY DEF Push, GetNextIndex, Rings
<1>3. WrappingSub(new, new) < NumItems
  BY <1>1, RingAssumption, U16Assumption DEF WrappingSub, Index
<1>4. CASE j = new
  BY <1>1, <1>2, <1>3, <1>4, SlotType DEF Get, InWindow
<1>5. CASE j # new /\ WrappingSub(new, j) < NumItems
  <2>1. Slot(j) # Slot(new)  BY <1>1, <1>3, <1>5, WindowInjective
  <2>2. InWindow(r, j)
    BY <1>1, <1>5, U16Assumption, RingAssumption
       DEF InWindow, WrappingSub, WrappingAdd, Index
  <2>3. QED BY <1>2, <1>5, <2>1, <2>2, SlotType DEF Get, InWindow
<1>6. CASE j # new /\ ~ (WrappingSub(new, j) < NumItems)
  BY <1>2, <1>6 DEF Get, InWindow
<1>7. QED BY <1>4, <1>5, <1>6

\* ring_buffer.rs:94-101: take forgets one index and no other.
LEMMA GetAfterTake ==
    ASSUME NEW Item, NEW r \in Rings(Item), NEW i \in Index, NEW j \in Index
    PROVE  Get(Take(r, i), j) = IF j = i THEN None ELSE Get(r, j)
<1>1. r.newest \in Index /\ r.items \in [Slots -> Item \cup {None}]
  BY DEF Rings
<1>2. CASE InWindow(r, i)
  <2>1. /\ Take(r, i).newest = r.newest
        /\ Take(r, i).items = [r.items EXCEPT ![Slot(i)] = None]
    BY <1>2 DEF Take, Rings
  <2>2. ASSUME j # i, InWindow(r, j) PROVE Slot(j) # Slot(i)
    BY <1>1, <1>2, <2>2, WindowInjective DEF InWindow
  <2>3. QED BY <1>1, <2>1, <2>2, SlotType DEF Get, InWindow
<1>3. CASE ~ InWindow(r, i)
  BY <1>3 DEF Take, Get
<1>4. QED BY <1>2, <1>3

\* ring_buffer.rs:147-164: retain leaves every key what the predicate left it.
LEMMA GetAfterRetain ==
    ASSUME NEW Item, NEW r \in Rings(Item), NEW verdict \in [Keys(r) -> Item \cup {None}],
           NEW j \in Index
    PROVE  Get(Retain(r, verdict), j) = IF j \in Keys(r) THEN verdict[j] ELSE None
<1> DEFINE p == Retain(r, verdict)
<1>1. /\ p.newest = r.newest
      /\ r.newest \in Index
      /\ p.items = [s \in Slots |->
                       IF \E i \in Keys(r) : Slot(i) = s
                       THEN verdict[CHOOSE i \in Keys(r) : Slot(i) = s]
                       ELSE r.items[s]]
  BY DEF Retain, Rings
<1>2. Keys(r) = {i \in Index : Get(r, i) # None}
  BY KeysAreFound
<1>3. ASSUME NEW i \in Keys(r), Slot(i) = Slot(j), InWindow(r, j)
      PROVE  i = j
  <2>1. i \in Index /\ InWindow(r, i)  BY <1>2 DEF Get
  <2>2. QED BY <1>1, <1>3, <2>1, WindowInjective DEF InWindow
<1>4. CASE InWindow(r, j) /\ j \in Keys(r)
  <2>1. (CHOOSE i \in Keys(r) : Slot(i) = Slot(j)) = j
    BY <1>3, <1>4
  <2>2. QED BY <1>1, <1>4, <2>1, SlotType DEF Get, InWindow
<1>5. CASE InWindow(r, j) /\ j \notin Keys(r)
  <2>1. ~ \E i \in Keys(r) : Slot(i) = Slot(j)  BY <1>3, <1>5
  <2>2. Get(p, j) = r.items[Slot(j)]
    BY <1>1, <1>5, <2>1, SlotType DEF Get, InWindow
  <2>3. QED BY <1>2, <1>5, <2>2 DEF Get
<1>6. CASE ~ InWindow(r, j)
  BY <1>1, <1>2, <1>6 DEF Get, InWindow
<1>7. QED BY <1>4, <1>5, <1>6

\* ring_buffer.rs:53-92: whichever branch it takes, insert stores the item under
\* i and forgets exactly the entries that i, as the newest index, leaves behind.
LEMMA GetAfterInsert ==
    ASSUME NEW Item, NEW r \in Rings(Item), NEW i \in Index, NEW item \in Item, NEW j \in Index
    PROVE  LET new == IF InWindow(r, i) THEN r.newest ELSE i IN
           /\ Insert(r, i, item).newest = new
           /\ Get(Insert(r, i, item), j) =
                  IF j = i THEN item
                  ELSE IF WrappingSub(new, j) < NumItems THEN Get(r, j) ELSE None
<1> DEFINE w == r.newest
           p == Insert(r, i, item)
<1>1. w \in Index /\ r.items \in [Slots -> Item \cup {None}]
  BY DEF Rings
<1>2. WrappingSub(i, i) < NumItems
  BY RingAssumption, U16Assumption DEF WrappingSub, Index
<1>3. Slot(i) \in Slots /\ Slot(j) \in Slots
  BY SlotType
<1>4. CASE InWindow(r, i)
  <2>1. p.newest = w /\ p.items = [r.items EXCEPT ![Slot(i)] = item]
    BY <1>1, <1>4, InWindowBranch DEF Insert, Store, Rings
  <2>2. ASSUME j # i, InWindow(r, j) PROVE Slot(j) # Slot(i)
    BY <1>1, <1>4, <2>2, WindowInjective DEF InWindow
  <2>3. Get(p, j) = IF j = i THEN item
                    ELSE IF WrappingSub(w, j) < NumItems THEN Get(r, j) ELSE None
    BY <1>1, <1>3, <1>4, <2>1, <2>2 DEF Get, InWindow
  <2>4. QED BY <1>4, <2>1, <2>3
<1>5. CASE ~ InWindow(r, i) /\ WrappingSub(i, w) >= NumItems
  <2>1. p.newest = i /\ p.items = [s \in Slots |-> IF s = Slot(i) THEN item ELSE None]
    BY <1>3, <1>5, FarBranch DEF Insert, Store, NewRing
  <2>2. ASSUME j # i, WrappingSub(i, j) < NumItems
        PROVE  Get(r, j) = None /\ Slot(j) # Slot(i)
    <3>1. ~ InWindow(r, j)
      BY <1>1, <1>5, <2>2, U16Assumption, RingAssumption
         DEF InWindow, WrappingSub, Index
    <3>2. QED BY <1>2, <2>2, <3>1, WindowInjective DEF Get
  <2>3. Get(p, j) = IF j = i THEN item
                    ELSE IF WrappingSub(i, j) < NumItems THEN Get(r, j) ELSE None
    BY <1>2, <1>3, <2>1, <2>2 DEF Get, InWindow
  <2>4. QED BY <1>5, <2>1, <2>3
<1>6. CASE ~ InWindow(r, i) /\ WrappingSub(i, w) < NumItems
  <2> DEFINE purged(s) == \E k \in Purged(r, i) : Slot(k) = s
  <2>1. /\ p.newest = i
        /\ p.items = [s \in Slots |-> IF s = Slot(i) THEN item
                                      ELSE IF purged(s) THEN None ELSE r.items[s]]
    BY <1>1, <1>3, <1>6, AheadBranch DEF Insert, Store
  <2>2. Purged(r, i) = {k \in Index : InWindow(r, k) /\ WrappingSub(i, k) >= NumItems}
    BY <1>6, PurgedIndices
  <2>3. ASSUME j # i, WrappingSub(i, j) < NumItems
        PROVE  Get(p, j) = Get(r, j)
    <3>1. Slot(j) # Slot(i)  BY <1>2, <2>3, WindowInjective
    <3>2. Get(p, j) = IF purged(Slot(j)) THEN None ELSE r.items[Slot(j)]
      BY <1>3, <2>1, <2>3, <3>1 DEF Get, InWindow
    <3>3. CASE InWindow(r, j)
      <4>1. ASSUME NEW k \in Purged(r, i), Slot(k) = Slot(j) PROVE FALSE
        <5>1. k \in Index /\ InWindow(r, k) /\ WrappingSub(i, k) >= NumItems
          BY <2>2, <4>1
        <5>2. k = j  BY <1>1, <3>3, <4>1, <5>1, WindowInjective DEF InWindow
        <5>3. WrappingSub(i, j) \in Int  BY WrappingType DEF Index
        <5>4. QED BY <2>3, <5>1, <5>2, <5>3, RingAssumption
      <4>2. QED BY <3>2, <3>3, <4>1 DEF Get
    <3>4. CASE ~ InWindow(r, j)
      <4> DEFINE k == WrappingSub(j, NumItems)
      <4>1. /\ k \in Index
            /\ InWindow(r, k)
            /\ WrappingSub(i, k) >= NumItems
            /\ j - k = NumItems \/ j - k = NumItems - U16
        BY <1>1, <1>6, <2>3, <3>4, U16Assumption, RingAssumption
           DEF InWindow, WrappingSub, Index
      <4>2. Slot(k) = Slot(j)
        <5>1. PICK m \in Int : U16 = NumItems * m  BY U16IsMultiple
        <5>2. j - k = NumItems * 1 \/ j - k = NumItems * (1 - m)
          BY <4>1, <5>1, RingAssumption
        <5>3. QED BY <4>1, <5>2, SameSlot
      <4>3. purged(Slot(j))  BY <2>2, <4>1, <4>2
      <4>4. QED BY <3>2, <3>4, <4>3 DEF Get
    <3>5. QED BY <3>3, <3>4
  <2>4. Get(p, i) = item
    BY <1>2, <1>3, <2>1 DEF Get, InWindow
  <2>5. ASSUME ~ (WrappingSub(i, j) < NumItems) PROVE Get(p, j) = None
    BY <2>1, <2>5 DEF Get, InWindow
  <2>6. QED BY <1>6, <2>1, <2>3, <2>4, <2>5
<1>7. WrappingSub(i, w) \in Int
  BY <1>1, U16Assumption DEF WrappingSub, Index
<1>8. QED BY <1>4, <1>5, <1>6, <1>7, RingAssumption

-----------------------------------------------------------------------------
(* What a push overrides.                                                  *)

\* ring_buffer.rs:166-170: the slot of the next index is that of the oldest one,
\* so what it holds is an item that `get` finds, and the one that push forgets.
LEMMA PushForgetsOldest ==
    ASSUME NEW Item, None \notin Item, NEW r \in Rings(Item), NEW item \in Item
    PROVE  PushWillOverride(r) <=>
               \E i \in Keys(r) : Get(Push(r, item), i) = None
<1> DEFINE new == WrappingAdd(r.newest, 1)
           old == WrappingSub(r.newest, NumItems - 1)
<1>1. r.newest \in Index /\ new \in Index /\ old \in Index
  BY U16Assumption, RingAssumption DEF Rings, WrappingAdd, WrappingSub, Index
<1>2. WrappingSub(r.newest, old) = NumItems - 1 /\ WrappingSub(new, old) = NumItems
  BY U16Assumption, RingAssumption DEF Rings, WrappingAdd, WrappingSub, Index
<1>3. Slot(old) = Slot(new)
  <2>1. PICK m \in Int : U16 = NumItems * m  BY U16IsMultiple
  <2>2. new - old = NumItems \/ new - old = NumItems - U16
    BY <1>1, U16Assumption, RingAssumption DEF WrappingAdd, WrappingSub, Index
  <2>3. CASE new - old = NumItems
    <3>1. new - old = NumItems * 1  BY <2>3, RingAssumption
    <3>2. QED BY <1>1, <3>1, SameSlot
  <2>4. CASE new - old = NumItems - U16
    <3>1. new - old = NumItems * (1 - m)  BY <2>1, <2>4, RingAssumption
    <3>2. QED BY <1>1, <2>1, <3>1, SameSlot
  <2>5. QED BY <2>2, <2>3, <2>4
<1>4. Get(r, old) = r.items[Slot(new)]
  BY <1>2, <1>3, RingAssumption DEF Get, InWindow
<1>5. PushWillOverride(r) <=> Get(r, old) # None
  BY <1>4 DEF PushWillOverride, GetNextIndex
<1>6. Keys(r) = {i \in Index : Get(r, i) # None}
  BY KeysAreFound
<1>7. ASSUME NEW i \in Index
      PROVE  Get(Push(r, item), i) =
                 IF i = new THEN item
                 ELSE IF WrappingSub(new, i) < NumItems THEN Get(r, i) ELSE None
  BY GetAfterPush
<1> HIDE DEF new, old
<1>8. ASSUME Get(r, old) # None
      PROVE  \E i \in Keys(r) : Get(Push(r, item), i) = None
  <2>1. old # new /\ ~ (WrappingSub(new, old) < NumItems)
    BY <1>1, <1>2, RingAssumption, U16Assumption DEF WrappingSub, Index
  <2>2. Get(Push(r, item), old) = None  BY <1>1, <1>7, <2>1
  <2>3. QED BY <1>1, <1>6, <1>8, <2>2
<1>9. ASSUME NEW i \in Keys(r), Get(Push(r, item), i) = None
      PROVE  Get(r, old) # None
  <2>1. i \in Index /\ Get(r, i) # None  BY <1>6
  <2>2. ~ (WrappingSub(new, i) < NumItems)
    BY <1>7, <1>9, <2>1
  <2>3. WrappingSub(r.newest, i) < NumItems
    BY <2>1 DEF Get, InWindow
  <2>4. i = old
    BY <1>1, <2>1, <2>2, <2>3, RingAssumption, U16Assumption
       DEF new, old, WrappingSub, WrappingAdd, Index
  <2>5. QED BY <2>1, <2>4
<1>10. QED BY <1>5, <1>8, <1>9

=============================================================================
