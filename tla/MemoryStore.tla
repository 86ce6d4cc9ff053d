---------------------------- MODULE MemoryStore ----------------------------
(***************************************************************************)
(* protobuf/service: the event store.  A fixed ring holds the most recent  *)
(* events, an index finds them by name, and a counter that survives        *)
(* eviction numbers them.  Append copies and stamps the event before it    *)
(* takes the lock, so two calls may be stamped in one order and numbered   *)
(* in the other.                                                           *)
(*                                                                         *)
(* An entry is an object of its own and the ring and the index point to    *)
(* it: a reader keeps the pointer when it lets go of the lock.             *)
(***************************************************************************)
EXTENDS Integers, Sequences

CONSTANTS
  Writers,     \* goroutines that append events
  Parents,     \* the parents that appear in calls
  Capacity,    \* how many events the store holds
  MaxUint64,   \* the largest sequence number, and the bound on appends
  NameWidth,   \* hexadecimal digits of an event's identifier
  Wildcard, Empty  \* the segments "-" and ""

ASSUME StoreAssumption ==
  /\ Capacity \in Nat \ {0}
  /\ MaxUint64 \in Nat /\ NameWidth \in Nat

VARIABLES
  entries,  \* every entry ever allocated; a pointer is an index of it
  ring,     \* the slots: a pointer, or zero for nil
  next,     \* the slot the next append writes
  count,    \* how many slots are in use
  seq,      \* the next sequence number
  byName,   \* from the names of the entries held to the entries
  writing,  \* the event each writer has stamped and not yet stored, if any
  clock     \* the next reading of the clock

storage == <<entries, ring, next, count, seq, byName>>
store   == <<storage, writing, clock>>

-----------------------------------------------------------------------------
(* Names: name.go.  A resource name is the sequence of its segments.       *)

validSegment(s) == s # Empty /\ s # Wildcard

\* Mistake: the identifier is of the slot, not of the event.
IdentifierOfSlot(n) == [i \in 1..NameWidth |-> ((n % Capacity) \div 16^(NameWidth - i)) % 16]

\* The identifier is the sequence number in hexadecimal of fixed width.
Identifier(n) == [i \in 1..NameWidth |-> (n \div 16^(NameWidth - i)) % 16]

EventName(device, event) == <<"devices", device, "events", event>>

IsEventName(name) ==
  /\ Len(name) = 4 /\ name[1] = "devices" /\ name[3] = "events"
  /\ validSegment(name[2]) /\ validSegment(name[4])

IsParent(parent) == Len(parent) = 2 /\ parent[1] = "devices" /\ parent[2] # Empty

-----------------------------------------------------------------------------
StoreInit ==
  /\ entries = <<>> /\ byName = <<>>
  /\ ring = [i \in 0..(Capacity - 1) |-> 0]
  /\ next = 0 /\ count = 0 /\ seq = 0
  /\ writing = [w \in Writers |-> <<>>] /\ clock = 1

\* Append up to the lock: the event is copied and stamped.  A parent that does
\* not name one device is refused.
Stamp(w, parent) ==
  /\ writing[w] = <<>> /\ clock <= MaxUint64
  /\ IsParent(parent) /\ parent[2] # Wildcard
  /\ writing' = [writing EXCEPT ![w] = <<[device |-> parent[2], time |-> clock]>>]
  /\ clock' = clock + 1
  /\ UNCHANGED storage

Entry(w) ==
  LET ev == writing[w][1]
  IN [seq |-> seq, device |-> ev.device, time |-> ev.time,
      name |-> EventName(ev.device, Identifier(seq))]

Without(f, key) == [k \in DOMAIN f \ {key} |-> f[k]]
With(f, key, value) == [k \in DOMAIN f \cup {key} |-> IF k = key THEN value ELSE f[k]]

Full == count = Capacity

\* The pointer to a new entry.
Pointer == Len(entries) + 1

\* The index without the entry that the next append evicts.
Remaining == IF Full THEN Without(byName, entries[ring[next]].name) ELSE byName

\* Mistake: a full ring keeps writing its last slot.
NextSlotStuck == IF Full THEN next ELSE (next + 1) % Capacity

NextSlot == (next + 1) % Capacity

NextNumber == seq + 1

\* Append under the lock: number the entry, make room for it, index it.
Store(w) ==
  /\ writing[w] # <<>>
  /\ entries' = Append(entries, Entry(w))
  /\ ring' = [ring EXCEPT ![next] = Pointer]
  /\ byName' = With(Remaining, Entry(w).name, Pointer)
  /\ count' = IF Full THEN count ELSE count + 1
  /\ next' = NextSlot
  /\ seq' = NextNumber
  /\ writing' = [writing EXCEPT ![w] = <<>>]
  /\ UNCHANGED clock

Appends == \E w \in Writers : Store(w) \/ \E parent \in Parents : Stamp(w, parent)

StoreSpec == StoreInit /\ [][Appends]_store

-----------------------------------------------------------------------------
(* Reads, each under the read lock: memory_read.go.                        *)

\* Go's remainder has the sign of the dividend.
Rem(a, n) == IF a >= 0 THEN a % n ELSE -((-a) % n)

\* Mistake: logical positions are slots.
SlotUnrotated(i) == i

\* The slot of logical position i, where 0 is the oldest held.
Slot(i) == (Rem(next - count + i, Capacity) + Capacity) % Capacity

At(i) == entries[ring[Slot(i)]]

\* sort.Search over the positions: the first at or above the cursor, by bisection.
Search(upper) ==
  LET search[lo \in 0..count, hi \in 0..count] ==
        LET mid == (lo + hi) \div 2
        IN IF lo >= hi THEN lo
           ELSE IF At(mid).seq >= upper THEN search[lo, mid] ELSE search[mid + 1, hi]
  IN search[0, count]

Matches(e, device) == device = Wildcard \/ e.device = device

FirstOf(s, n) == SubSeq(s, 1, IF n < Len(s) THEN n ELSE Len(s))

\* page: pointers to up to want entries below upper, newest first.
PageOf(device, upper, want) ==
  LET start == Search(upper) - 1
      walk  == [k \in 1..(start + 1) |-> ring[Slot(start + 1 - k)]]
  IN FirstOf(SelectSeq(walk, LAMBDA o : Matches(entries[o], device)), want)

-----------------------------------------------------------------------------
(* Properties.                                                             *)

\* What the store holds, oldest first.
Held == [k \in 1..count |-> At(k - 1)]

\* The store is a window on the newest events (RecentEvents): whatever the ring
\* does with its slots, an append puts one event at the end of what is held and
\* takes the oldest away if there is no room (Append, at).
Recent == INSTANCE RecentEvents WITH held <- Held
WindowOnNewest == Recent!Spec

\* Every entry held is at the slot its number says, so positions carry
\* consecutive numbers, and a search over them is a search over a sorted list.
RingInOrder ==
  /\ seq = Len(entries)
  /\ next = seq % Capacity
  /\ count = IF seq < Capacity THEN seq ELSE Capacity
  /\ \A k \in (seq - count)..(seq - 1) : ring[k % Capacity] = k + 1
  /\ \A k \in 1..Len(entries) : entries[k].seq = k - 1

\* Get finds exactly the entries that are held, each under its own name (Append
\* deletes the name of the entry it evicts), and no two events have ever had one
\* name ("a name is never reused").
IndexIsExact ==
  /\ DOMAIN byName = {At(i).name : i \in 0..(count - 1)}
  /\ \A name \in DOMAIN byName : entries[byName[name]].name = name
  /\ \A j, k \in 1..Len(entries) : entries[j].name = entries[k].name => j = k
=============================================================================
