---------------------------- MODULE RecentEvents ----------------------------
(***************************************************************************)
(* What the event store promises of what it keeps: the newest events, in   *)
(* the order they were numbered, and no more than Capacity of them.        *)
(***************************************************************************)
EXTENDS Integers, Sequences

CONSTANT Capacity

VARIABLE held  \* the events held, oldest first

Init == held = <<>>

Window(s) == IF Len(s) > Capacity THEN Tail(s) ELSE s

\* One event, newer than all others, is added.
Add ==
  /\ held' # <<>>
  /\ LET e == held'[Len(held')]
     IN /\ held' = Window(Append(held, e))
        /\ \A k \in 1..Len(held) : held[k].seq < e.seq

Spec == Init /\ [][Add]_held
=============================================================================
