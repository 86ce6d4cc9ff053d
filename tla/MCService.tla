----------------------------- MODULE MCService -----------------------------
(* EventService for TLC: two devices, two writers, a ring of three.         *)
EXTENDS EventService

CONSTANTS d1, d2

MCParents  == {<<"devices", d1>>, <<"devices", d2>>, <<"devices", Wildcard>>, <<"devices", Empty>>}
MCSymmetry == Permutations(Writers)
MCJunk     == {<<Separator, 1>>}

\* Pages of one and of the default size, and a request of each kind that is
\* refused.
Ask(parent, filter, order, size) ==
  [parent |-> parent, filter |-> filter, order |-> order, size |-> size]
MCRequests ==
  {Ask(<<"devices", d>>, "", "", size) : d \in {d1, Wildcard}, size \in {1, 9}}
    \cup {Ask(<<"devices", d1>>, "", "event_time desc", 0),
          Ask(<<"devices", Empty>>, "", "", 1), Ask(<<"devices", d1>>, "kind", "name", 1),
          Ask(<<"devices", d1>>, "", "", -1)}
=============================================================================
