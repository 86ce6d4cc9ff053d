---------------------------- MODULE CommandQueue ----------------------------
(***************************************************************************)
(* What the bus promises an application about the commands it accepts: a   *)
(* queue per device, which an accepted command joins at the back and       *)
(* leaves from the front, once.  Nothing is lost, repeated or overtaken on *)
(* the way.                                                                *)
(***************************************************************************)
EXTENDS Sequences

CONSTANTS Devices, Commands

VARIABLE queue

Init == queue = [i \in Devices |-> <<>>]

Submit(i, m) == queue' = [queue EXCEPT ![i] = Append(@, m)]

\* The device has answered the command at the front.
Settle(i) ==
  /\ queue[i] # <<>>
  /\ queue' = [queue EXCEPT ![i] = Tail(@)]

Next == \E i \in Devices : Settle(i) \/ \E m \in Commands : Submit(i, m)

Spec == Init /\ [][Next]_queue
=============================================================================
