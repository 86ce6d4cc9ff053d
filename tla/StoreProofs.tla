---------------------------- MODULE StoreProofs ----------------------------
(***************************************************************************)
(* The event store keeps its ring in order and is a window on the newest   *)
(* events, for any capacity, any number of writers and any devices.        *)
(***************************************************************************)
EXTENDS EventService, SequenceTheorems, TLAPS

-----------------------------------------------------------------------------
(* Remainders.                                                             *)

\* Quotient and remainder of a natural number.
LEMMA Divided ==
  ASSUME NEW n \in Nat, NEW c \in Nat \ {0}
  PROVE  n = c * (n \div c) + (n % c) /\ n % c \in 0..(c - 1) /\ n \div c \in Nat
BY SMT

\* No multiple of c lies strictly between 0 and c.
LEMMA Multiple ==
  ASSUME NEW c \in Nat \ {0}, NEW d \in Int, 0 < c * d, c * d < c
  PROVE  FALSE
<1>1. CASE d <= 0 BY <1>1, SMT
<1>2. CASE d >= 1
  <2>1. PICK e \in Nat : d = e + 1 BY <1>2, SMT
  <2>2. c * d = c * e + c BY <2>1, SMT
  <2>3. c * e >= 0 BY SMT
  <2> QED BY <2>2, <2>3, SMT
<1> QED BY <1>1, <1>2, SMT

\* The remainder is the only number below c that completes a multiple of c.
LEMMA Unique ==
  ASSUME NEW c \in Nat \ {0}, NEW q \in Int, NEW r \in 0..(c-1), NEW n \in Nat, n = c * q + r
  PROVE  n % c = r
BY SMT

\* Two numbers less than c apart have different remainders: two entries held at the
\* same time never share a slot (Append).
LEMMA Distinct ==
  ASSUME NEW c \in Nat \ {0}, NEW k \in Nat, NEW n \in Nat, k < n, n - k < c
  PROVE  k % c # n % c
<1> SUFFICES ASSUME k % c = n % c PROVE FALSE BY Zenon
<1> DEFINE d == (n \div c) - (k \div c)
<1>1. n - k = c * d BY Divided, SMT
<1>2. d \in Int BY Divided, SMT
<1> HIDE DEF d
<1> QED BY <1>1, <1>2, Multiple, SMT

\* Advancing the slot by one, wrapped, is the slot of the next number (Append).
LEMMA Successor ==
  ASSUME NEW c \in Nat \ {0}, NEW n \in Nat
  PROVE  ((n % c) + 1) % c = (n + 1) % c
<1> DEFINE q == n \div c
           r == n % c
<1>1. n = c * q + r /\ r \in 0..(c - 1) /\ q \in Nat BY Zenon, Divided
<1> HIDE DEF q, r
<1>2. CASE r = c - 1
  <2>1. n + 1 = c * (q + 1) + 0 BY <1>1, <1>2, SMT
  <2>2. (n + 1) % c = 0 BY <2>1, <1>1, Unique, SMT
  <2>3. r + 1 = c * 1 + 0 BY <1>2, SMT
  <2>4. (r + 1) % c = 0 BY <2>3, <1>1, Unique, SMT
  <2> QED BY Zenon, <2>2, <2>4 DEF r
<1>3. CASE r # c - 1
  <2>1. n + 1 = c * q + (r + 1) /\ r + 1 \in 0..(c - 1) BY <1>1, <1>3, SMT
  <2>2. (n + 1) % c = r + 1 BY <2>1, <1>1, Unique, SMT
  <2>3. r + 1 = c * 0 + (r + 1) BY <1>1, SMT
  <2>4. (r + 1) % c = r + 1 BY <2>3, <2>1, <1>1, Unique, SMT
  <2> QED BY Zenon, <2>2, <2>4 DEF r
<1> QED BY Zenon, <1>2, <1>3
-----------------------------------------------------------------------------
(* The ring.                                                               *)

\* What Append may be given, and the entry it makes of it with number n.
Stamped == [device : {parent[2] : parent \in Parents}, time : Nat]
NewEntry(ev, n) ==
  [seq |-> n, device |-> ev.device, time |-> ev.time,
   name |-> EventName(ev.device, Identifier(n))]
EntrySet == {NewEntry(ev, n) : ev \in Stamped, n \in Nat}

\* The types that keep the ring's order inductive.
StoreType ==
  /\ entries \in Seq(EntrySet)
  /\ ring \in [0..(Capacity - 1) -> Nat]
  /\ seq \in Nat /\ clock \in Nat
  /\ writing \in [Writers -> {<<>>} \cup {<<ev>> : ev \in Stamped}]

StoreInv == StoreType /\ RingInOrder

\* An empty store (NewMemoryStore) satisfies the invariant.
LEMMA StartsInOrder ==
  ASSUME StoreInit
  PROVE  StoreInv
<1> USE StoreAssumption
<1>1. StoreType
  BY DEF StoreInit, StoreType
<1>2. 0 % Capacity = 0
  BY Unique, SMT
<1>3. RingInOrder
  BY <1>2 DEF StoreInit, RingInOrder
<1> QED BY Zenon, <1>1, <1>3 DEF StoreInv

\* A writer that has stamped an event adds an entry with the next number.
LEMMA EntryIsNext ==
  ASSUME StoreInv, NEW w \in Writers, Store(w)
  PROVE  /\ Entry(w) \in EntrySet /\ Entry(w).seq = seq
         /\ entries' \in Seq(EntrySet) /\ Len(entries') = seq + 1
         /\ entries'[seq + 1] = Entry(w)
         /\ \A k \in 1..seq : entries'[k] = entries[k]
<1>1. PICK ev \in Stamped : writing[w] = <<ev>>
  BY Zenon DEF StoreInv, StoreType, Store
<1>2. Entry(w) = NewEntry(ev, seq)
  BY <1>1 DEF Entry, NewEntry
<1>3. Entry(w) \in EntrySet
  BY <1>2 DEF EntrySet, StoreInv, StoreType
<1>4. Entry(w).seq = seq
  BY <1>2 DEF NewEntry
<1>5. entries' = Append(entries, Entry(w)) /\ entries \in Seq(EntrySet) /\ Len(entries) = seq
  BY Zenon DEF Store, StoreInv, StoreType, RingInOrder
<1> HIDE DEF EntrySet, Entry
<1> QED BY <1>3, <1>4, <1>5, AppendProperties

\* The step under the lock keeps the types and the ring in order (Append).
LEMMA StoreKeepsOrder ==
  ASSUME StoreInv, NEW w \in Writers, Store(w)
  PROVE  StoreInv'
<1> USE StoreAssumption
<1>0. seq \in Nat /\ next = seq % Capacity /\ next \in 0..(Capacity - 1)
  BY Zenon, Divided DEF StoreInv, StoreType, RingInOrder
<1>1. seq' = seq + 1 /\ Len(entries) = seq
  BY Zenon DEF Store, NextNumber, StoreInv, RingInOrder
<1>2. StoreType'
  <2>1. entries' \in Seq(EntrySet)
    BY Zenon, EntryIsNext
  <2>2. ring' \in [0..(Capacity - 1) -> Nat]
    BY <1>0, <1>1 DEF Store, Pointer, StoreInv, StoreType
  <2>3. writing' \in [Writers -> {<<>>} \cup {<<ev>> : ev \in Stamped}] /\ clock' \in Nat
    BY Zenon DEF Store, StoreInv, StoreType
  <2> QED BY <2>1, <2>2, <2>3, <1>0, <1>1 DEF StoreType
<1>3. RingInOrder'
  <2>1. seq' = Len(entries')
    BY Zenon, EntryIsNext, <1>1
  <2>2. next' = seq' % Capacity
    BY Zenon, <1>0, <1>1, Successor DEF Store, NextSlot
  <2>3. count' = IF seq' < Capacity THEN seq' ELSE Capacity
    BY <1>0, <1>1 DEF Store, Full, StoreInv, RingInOrder
  <2>4. ASSUME NEW k \in (seq' - count')..(seq' - 1)
        PROVE  ring'[k % Capacity] = k + 1
    <3>1. k \in Nat /\ k <= seq /\ seq - k < Capacity
      BY <2>3, <1>0, <1>1
    <3>2. ring' = [ring EXCEPT ![next] = seq + 1]
      BY Zenon, <1>1 DEF Store, Pointer
    <3>3. CASE k = seq
      BY Zenon, <3>2, <3>3, <1>0 DEF StoreInv, StoreType
    <3>4. CASE k # seq
      <4>0. k < seq
        BY <3>1, <3>4, <1>0
      <4>1. k % Capacity # next
        <5>1. k % Capacity # seq % Capacity
          BY Zenon, <3>1, <4>0, <1>0, Distinct
        <5> QED BY Zenon, <5>1, <1>0
      <4>2. k \in (seq - count)..(seq - 1)
        BY <3>1, <3>4, <1>0 DEF StoreInv, RingInOrder
      <4>3. k % Capacity \in 0..(Capacity - 1)
        BY Zenon, <3>1, Divided
      <4>4. ring[k % Capacity] = k + 1
        BY Zenon, <4>2 DEF StoreInv, RingInOrder
      <4> QED BY Zenon, <4>1, <4>3, <4>4, <3>2 DEF StoreInv, StoreType
    <3> QED BY Zenon, <3>3, <3>4
  <2>5. ASSUME NEW k \in 1..Len(entries')
        PROVE  entries'[k].seq = k - 1
    <3>1. CASE k = seq + 1
      BY <3>1, EntryIsNext, <1>0
    <3>2. CASE k \in 1..seq
      BY Zenon, <3>2, EntryIsNext, <1>1 DEF StoreInv, RingInOrder
    <3> QED BY <3>1, <3>2, EntryIsNext, <1>0
  <2> QED BY Zenon, <2>1, <2>2, <2>3, <2>4, <2>5 DEF RingInOrder
<1> QED BY Zenon, <1>2, <1>3 DEF StoreInv

\* Stamping an event before the lock is taken touches nothing of the ring (Append).
LEMMA StampKeepsOrder ==
  ASSUME StoreInv, NEW w \in Writers, NEW parent \in Parents, Stamp(w, parent)
  PROVE  StoreInv'
<1>1. [device |-> parent[2], time |-> clock] \in Stamped
  BY Zenon DEF Stamped, StoreInv, StoreType
<1>2. StoreType'
  <2> DEFINE ev == [device |-> parent[2], time |-> clock]
  <2>1. writing' = [writing EXCEPT ![w] = <<ev>>]
    BY Zenon DEF Stamp
  <2> HIDE DEF ev, Stamped
  <2>2. writing' \in [Writers -> {<<>>} \cup {<<e>> : e \in Stamped}]
    BY Zenon, <1>1, <2>1 DEF StoreInv, StoreType, ev
  <2> QED BY <2>2 DEF Stamp, StoreInv, StoreType, storage
<1>3. RingInOrder'
  BY Zenon DEF Stamp, StoreInv, RingInOrder, storage
<1> QED BY Zenon, <1>2, <1>3 DEF StoreInv

\* A step that leaves the store alone keeps the invariant.
LEMMA StutterKeepsOrder ==
  ASSUME StoreInv, UNCHANGED store
  PROVE  StoreInv'
BY Zenon DEF StoreInv, StoreType, RingInOrder, store, storage

\* Every entry held is at the slot its number says, and positions carry consecutive
\* numbers, however often the ring has gone round (Append, at).
THEOREM RingStaysInOrder == StoreSpec => []RingInOrder
<1>1. StoreInit => StoreInv
  BY Zenon, StartsInOrder
<1>2. StoreInv /\ [Appends]_store => StoreInv'
  BY Zenon, StoreKeepsOrder, StampKeepsOrder, StutterKeepsOrder DEF Appends
<1>3. StoreInv => RingInOrder
  BY Zenon DEF StoreInv
<1> QED BY <1>1, <1>2, <1>3, PTL DEF StoreSpec

-----------------------------------------------------------------------------
(* The window.                                                             *)

\* Before and after the ring has gone round, logical position i is the slot of the
\* number seq - count + i.
LEMMA SlotOfNumber ==
  ASSUME StoreInv, NEW i \in 0..(count - 1)
  PROVE  Slot(i) = (seq - count + i) % Capacity
<1> USE StoreAssumption
<1>0. seq \in Nat /\ next = seq % Capacity
      /\ count = IF seq < Capacity THEN seq ELSE Capacity
  BY Zenon DEF StoreInv, StoreType, RingInOrder
<1>1. CASE seq < Capacity
  <2>1. next = seq
    <3>1. seq = Capacity * 0 + seq BY <1>0
    <3> QED BY <3>1, <1>0, <1>1, Unique
  <2>0. count = seq
    BY Zenon, <1>0, <1>1
  <2>2. i \in 0..(Capacity - 1) /\ next - count + i = i /\ seq - count + i = i
    BY <2>0, <2>1, <1>0, <1>1
  <2>3. i % Capacity = i
    <3>1. i = Capacity * 0 + i BY <2>2
    <3> QED BY <3>1, <2>2, Unique
  <2>4. (i + Capacity) % Capacity = i
    <3>1. i + Capacity = Capacity * 1 + i BY <2>2
    <3>2. i + Capacity \in Nat BY <2>2
    <3> QED BY <3>1, <3>2, <2>2, Unique
  <2>5. Rem(i, Capacity) = i
    BY <2>2, <2>3 DEF Rem
  <2> QED BY Zenon, <2>2, <2>3, <2>4, <2>5 DEF Slot
<1>2. CASE seq >= Capacity
  <2> DEFINE q == seq \div Capacity
  <2>1. q \in Nat /\ seq = Capacity * q + next /\ next \in 0..(Capacity - 1)
    BY Zenon, <1>0, Divided
  <2> HIDE DEF q
  <2>2. count = Capacity /\ i \in 0..(Capacity - 1) /\ seq - Capacity + i \in Nat
    BY <1>0, <1>2
  <2>3. CASE next + i >= Capacity
    <3> DEFINE x == next + i - Capacity
    <3>1. x \in 0..(Capacity - 1)
      BY <2>1, <2>2, <2>3
    <3>2. seq - Capacity + i = Capacity * q + x
      BY <2>1, <2>2
    <3>3. next - count + i = x
      BY <2>1, <2>2
    <3> HIDE DEF x
    <3>4. (seq - Capacity + i) % Capacity = x
      <4> DEFINE n == seq - Capacity + i
      <4>1. n \in Nat /\ n = Capacity * q + x
        BY Zenon, <3>2, <2>2
      <4> HIDE DEF n
      <4>2. n % Capacity = x
        BY <4>1, <3>1, <2>1, Unique
      <4> QED BY Zenon, <4>2 DEF n
    <3>5. x % Capacity = x
      <4>1. x = Capacity * 0 + x BY <3>1
      <4> QED BY <4>1, <3>1, Unique
    <3>6. (x + Capacity) % Capacity = x
      <4>1. x + Capacity = Capacity * 1 + x /\ x + Capacity \in Nat BY <3>1
      <4> QED BY <4>1, <3>1, Unique
    <3>7. Rem(x, Capacity) = x
      BY <3>1, <3>5 DEF Rem
    <3> QED BY Zenon, <3>3, <3>4, <3>6, <3>7, <2>2 DEF Slot
  <2>4. CASE next + i < Capacity
    <3> DEFINE y == next + i
    <3>1. y \in 0..(Capacity - 1)
      BY <2>1, <2>2, <2>4
    <3>2. seq - Capacity + i = Capacity * (q - 1) + y
      BY <2>1, <2>2
    <3>3. next - count + i = y - Capacity
      BY <2>1, <2>2
    <3> HIDE DEF y
    <3>4. (seq - Capacity + i) % Capacity = y
      <4> DEFINE n == seq - Capacity + i
      <4>1. n \in Nat /\ n = Capacity * (q - 1) + y
        BY Zenon, <3>2, <2>2
      <4> HIDE DEF n
      <4>2. n % Capacity = y
        BY <4>1, <3>1, <2>1, Unique
      <4> QED BY Zenon, <4>2 DEF n
    <3>5. (Rem(y - Capacity, Capacity) + Capacity) % Capacity = y
      <4>1. y - Capacity < 0 /\ -(y - Capacity) = Capacity - y
        BY <3>1
      <4>2. Rem(y - Capacity, Capacity) = -((Capacity - y) % Capacity)
        BY <4>1, <3>1 DEF Rem
      <4>3. CASE y = 0
        <5>1. Capacity = Capacity * 1 + 0 BY <4>3
        <5>2. Capacity % Capacity = 0 BY <5>1, Unique
        <5>3. Rem(y - Capacity, Capacity) = 0 BY <4>2, <4>3, <5>2
        <5> QED BY <5>2, <5>3, <4>3
      <4>4. CASE y # 0
        <5>1. Capacity - y = Capacity * 0 + (Capacity - y) /\ Capacity - y \in 0..(Capacity - 1)
          BY <4>4, <3>1
        <5>2. (Capacity - y) % Capacity = Capacity - y
          BY <5>1, Unique
        <5>3. Rem(y - Capacity, Capacity) + Capacity = y
          BY <4>2, <5>2, <3>1
        <5>4. y = Capacity * 0 + y BY <3>1
        <5>5. y % Capacity = y BY <5>4, <3>1, Unique
        <5> QED BY Zenon, <5>3, <5>5
      <4> QED BY Zenon, <4>3, <4>4
    <3> QED BY Zenon, <3>3, <3>4, <3>5, <2>2 DEF Slot
  <2> QED BY <2>3, <2>4, <2>1, <2>2
<1> QED BY <1>0, <1>1, <1>2

\* What is held are the last count entries.
NewestHeld ==
  /\ count \in 0..Capacity /\ count <= seq
  /\ Held = [k \in 1..count |-> entries[seq - count + k]]
  /\ Held \in Seq(EntrySet) /\ Len(Held) = count

\* In every state of the invariant the store holds its newest entries (at).
LEMMA HeldNow == StoreInv => NewestHeld
<1> SUFFICES ASSUME StoreInv PROVE NewestHeld
  BY Zenon
<1> USE StoreAssumption
<1>0. /\ seq \in Nat /\ count = IF seq < Capacity THEN seq ELSE Capacity
      /\ entries \in Seq(EntrySet) /\ Len(entries) = seq
  BY Zenon DEF StoreInv, StoreType, RingInOrder
<1>1. count \in 0..Capacity /\ count <= seq
  BY <1>0
<1>2. ASSUME NEW k \in 1..count
      PROVE  At(k - 1) = entries[seq - count + k]
  <2>1. k - 1 \in 0..(count - 1) /\ seq - count + (k - 1) \in (seq - count)..(seq - 1)
    BY <1>0, <1>1
  <2>2. Slot(k - 1) = (seq - count + (k - 1)) % Capacity
    BY Zenon, <2>1, SlotOfNumber
  <2>3. ring[(seq - count + (k - 1)) % Capacity] = seq - count + (k - 1) + 1
    BY Zenon, <2>1 DEF StoreInv, RingInOrder
  <2>4. seq - count + (k - 1) + 1 = seq - count + k
    BY <1>0, <1>1
  <2> QED BY Zenon, <2>2, <2>3, <2>4 DEF At
<1>3. Held = [k \in 1..count |-> entries[seq - count + k]]
  BY Zenon, <1>2 DEF Held
<1>4. \A k \in 1..count : entries[seq - count + k] \in EntrySet
  <2> TAKE k \in 1..count
  <2>1. seq - count + k \in 1..Len(entries)
    BY <1>0, <1>1
  <2> HIDE DEF EntrySet
  <2> QED BY Zenon, <2>1, <1>0, ElementOfSeq
<1>5. Held \in [1..count -> EntrySet]
  BY Zenon, <1>3, <1>4
<1>6. Held \in Seq(EntrySet)
  BY <1>5, <1>1, SeqDef
<1>7. Len(Held) = count
  BY <1>5, <1>6, <1>1, LenProperties
<1> QED BY Zenon, <1>1, <1>3, <1>6, <1>7 DEF NewestHeld

\* So it does in the next state.
LEMMA HeldNext == StoreInv' => NewestHeld'
BY HeldNow, PTL

\* Append under the lock adds its entry to the window.
LEMMA StoreAdds ==
  ASSUME StoreInv, StoreInv', NEW w \in Writers, Store(w)
  PROVE  Recent!Add
<1> USE StoreAssumption
<1> DEFINE e == Entry(w)
           longer == Append(Held, e)
<1>1. /\ seq \in Nat /\ seq' = seq + 1
      /\ count = IF seq < Capacity THEN seq ELSE Capacity
      /\ count' = IF seq' < Capacity THEN seq' ELSE Capacity
  BY Zenon DEF StoreInv, StoreType, RingInOrder, Store, NextNumber
<1>2. /\ Held = [k \in 1..count |-> entries[seq - count + k]]
      /\ Held \in Seq(EntrySet) /\ Len(Held) = count /\ count \in Nat /\ count <= seq
  BY HeldNow DEF NewestHeld
<1>3. /\ Held' = [k \in 1..count' |-> entries'[seq' - count' + k]]
      /\ Held' \in Seq(EntrySet) /\ Len(Held') = count' /\ count' \in Nat
  BY HeldNext DEF NewestHeld
<1>4. /\ e \in EntrySet /\ e.seq = seq /\ entries'[seq + 1] = e
      /\ \A k \in 1..seq : entries'[k] = entries[k]
  BY Zenon, EntryIsNext
<1> HIDE DEF e, Held, EntrySet
<1>5. /\ longer \in Seq(EntrySet) /\ Len(longer) = count + 1 /\ longer[count + 1] = e
      /\ \A k \in 1..count : longer[k] = Held[k]
  BY <1>2, <1>4, AppendProperties
<1> HIDE DEF longer
<1>6. Held'[count'] = e /\ count' >= 1
  <2>1. count' \in 1..count' /\ seq' - count' + count' = seq + 1
    BY <1>1, <1>3
  <2> QED BY <2>1, <1>3, <1>4
<1>7. Held' = Recent!Window(longer)
  <2>1. CASE seq < Capacity
    <3>1. count = seq /\ count' = seq + 1
      BY <1>1, <2>1
    <3>2. \A k \in 1..Len(Held') : Held'[k] = longer[k]
      <4> SUFFICES ASSUME NEW k \in 1..count' PROVE Held'[k] = longer[k]
        BY Zenon, <1>3
      <4>1. seq' - count' + k = k /\ seq - count + k = k
        BY <3>1, <1>1
      <4>2. Held'[k] = entries'[k]
        BY Zenon, <4>1, <1>3
      <4>3. CASE k = seq + 1
        BY Zenon, <4>2, <4>3, <3>1, <1>4, <1>5
      <4>4. CASE k # seq + 1
        <5>1. k \in 1..seq /\ k \in 1..count
          BY <4>4, <3>1, <1>1
        <5>2. Held[k] = entries[k]
          BY Zenon, <5>1, <4>1, <1>2
        <5> QED BY Zenon, <5>1, <5>2, <4>2, <1>4, <1>5
      <4> QED BY Zenon, <4>3, <4>4
    <3>3. Held' = longer
      BY Zenon, <3>1, <3>2, <1>3, <1>5, SeqEqual
    <3>4. ~(Len(longer) > Capacity)
      BY <3>1, <2>1, <1>1, <1>5
    <3> QED BY Zenon, <3>3, <3>4 DEF Recent!Window
  <2>2. CASE seq >= Capacity
    <3>1. count = Capacity /\ count' = Capacity
      BY <1>1, <2>2
    <3>2. /\ Tail(longer) \in Seq(EntrySet) /\ Len(Tail(longer)) = Capacity
          /\ \A k \in 1..Capacity : Tail(longer)[k] = longer[k + 1]
      <4>1. longer # <<>>
        BY <1>5, <1>2
      <4> QED BY <4>1, <1>5, <3>1, HeadTailProperties
    <3>3. \A k \in 1..Len(Held') : Held'[k] = Tail(longer)[k]
      <4> SUFFICES ASSUME NEW k \in 1..Capacity PROVE Held'[k] = longer[k + 1]
        BY <1>3, <3>1, <3>2
      <4>1. Held'[k] = entries'[seq + 1 - Capacity + k]
        BY <3>1, <1>1, <1>3
      <4>2. CASE k = Capacity
        <5>1. seq + 1 - Capacity + k = seq + 1
          BY <4>2, <1>1
        <5> QED BY Zenon, <5>1, <4>1, <4>2, <3>1, <1>4, <1>5
      <4>3. CASE k # Capacity
        <5>1. k + 1 \in 1..count
          BY <4>3, <3>1
        <5>2. Held[k + 1] = entries[seq - Capacity + (k + 1)]
          BY Zenon, <5>1, <3>1, <1>2
        <5>3. /\ seq - Capacity + (k + 1) = seq + 1 - Capacity + k
              /\ seq + 1 - Capacity + k \in 1..seq
          BY <4>3, <2>2, <1>1
        <5>4. entries'[seq + 1 - Capacity + k] = entries[seq + 1 - Capacity + k]
          BY Zenon, <5>3, <1>4
        <5> QED BY Zenon, <5>1, <5>2, <5>3, <5>4, <4>1, <1>5
      <4> QED BY Zenon, <4>2, <4>3
    <3>4. Held' = Tail(longer)
      BY Zenon, <3>1, <3>2, <3>3, <1>3, SeqEqual
    <3>5. Len(longer) > Capacity
      BY <3>1, <1>5
    <3> QED BY Zenon, <3>4, <3>5 DEF Recent!Window
  <2> QED BY <2>1, <2>2, <1>1
<1>8. ASSUME NEW k \in 1..Len(Held)
      PROVE  Held[k].seq < e.seq
  <2>1. k \in 1..count /\ seq - count + k \in 1..Len(entries) /\ Len(entries) = seq
    BY <1>1, <1>2 DEF StoreInv, RingInOrder
  <2>2. Held[k] = entries[seq - count + k]
    BY Zenon, <2>1, <1>2
  <2>3. entries[seq - count + k].seq = (seq - count + k) - 1
    <3>1. \A j \in 1..Len(entries) : entries[j].seq = j - 1
      BY Zenon DEF StoreInv, RingInOrder
    <3> QED BY Zenon, <3>1, <2>1
  <2>4. (seq - count + k) - 1 < seq
    BY <2>1, <1>1, <1>2
  <2> QED BY Zenon, <2>2, <2>3, <2>4, <1>4
<1>9. Held' # <<>>
  BY <1>3, <1>6
<1>10. Held'[Len(Held')] = e
  BY Zenon, <1>3, <1>6
<1> QED BY Zenon, <1>7, <1>8, <1>9, <1>10 DEF Recent!Add, longer

\* The store is a window on the newest events: whatever the ring does with its
\* slots, an append adds one event and takes the oldest away if there is no room.
THEOREM StoreIsWindow == StoreSpec => WindowOnNewest
<1>1. StoreInit => StoreInv
  BY Zenon, StartsInOrder
<1>2. StoreInv /\ [Appends]_store => StoreInv'
  BY Zenon, StoreKeepsOrder, StampKeepsOrder, StutterKeepsOrder DEF Appends
<1>3. StoreInit => Recent!Init
  <2> SUFFICES ASSUME StoreInit PROVE Held = <<>>
    BY Zenon DEF Recent!Init
  <2>1. count = 0 /\ Held \in Seq(EntrySet) /\ Len(Held) = count
    BY Zenon, StartsInOrder, HeldNow DEF NewestHeld, StoreInit
  <2> HIDE DEF Held, EntrySet
  <2> QED BY Zenon, <2>1, EmptySeq
<1>4. StoreInv /\ StoreInv' /\ [Appends]_store => [Recent!Add]_Held
  <2> SUFFICES ASSUME StoreInv, StoreInv', [Appends]_store, Held' # Held
               PROVE  Recent!Add
    BY Zenon
  <2>1. ASSUME UNCHANGED storage PROVE FALSE
    BY Zenon, <2>1 DEF storage, Held, At, Slot
  <2>2. PICK w \in Writers : Store(w)
    BY Zenon, <2>1 DEF Appends, Stamp, store
  <2> QED BY Zenon, <2>2, StoreAdds
<1> QED BY <1>1, <1>2, <1>3, <1>4, PTL DEF StoreSpec, WindowOnNewest, Recent!Spec

-----------------------------------------------------------------------------
(* The service.                                                            *)

\* A call of the service is a step of the store or leaves it alone (ListEvents,
\* GetEvent).
LEMMA ReadersLeaveTheStore ==
  ASSUME [Next]_vars
  PROVE  [Appends]_store
<1>1. CASE Appends
  BY Zenon, <1>1
<1>2. ASSUME ListEvents PROVE UNCHANGED store
  BY <1>2 DEF ListEvents, List, Refuse
<1>3. ASSUME NEW name \in Names, NEW cancelled \in BOOLEAN, GetEvent(name, cancelled)
      PROVE  UNCHANGED store
  BY Zenon, <1>3 DEF GetEvent, Refuse
<1> QED BY Zenon, <1>1, <1>2, <1>3 DEF Next, ReturnPage, ReturnEvent, vars

\* Whatever the clients of the service call, what holds of the store holds of the
\* store under the service: its ring stays in order and it is a window on the
\* newest events (GetEvent, ListEvents).
THEOREM ServiceKeepsStore == Spec => []RingInOrder /\ WindowOnNewest
<1>1. Init => StoreInit
  BY Zenon DEF Init
<1>2. [Next]_vars => [Appends]_store
  BY Zenon, ReadersLeaveTheStore
<1>3. Spec => StoreSpec
  BY <1>1, <1>2, PTL DEF Spec, StoreSpec
<1> QED BY Zenon, <1>3, RingStaysInOrder, StoreIsWindow
=============================================================================
