------------------------------- MODULE OpenBus -------------------------------
(***************************************************************************)
(* The bus on a line where anything may arrive: right, wrong, late,        *)
(* malformed or foreign replies, and none.  What holds here holds whatever *)
(* the peripherals do.                                                     *)
(***************************************************************************)
EXTENDS Bus

CONSTANTS
  Nonces,      \* what the panel's nonce source may return
  Replies(_),  \* what may arrive while a device is awaited
  MaxChain     \* bound on the length of a secure session's chain

ASSUME NoncesAssumption == Nonces \subseteq Octet

\* The secure chain grows only by a reply that verifies.
Arrive ==
  /\ step.phase = "waiting"
  /\ \E f \in Replies(dev[step.dev]) :
       /\ f \in WireFrame
       /\ Len(f.tag.log) <= MaxChain
       /\ Receive(f)

Next ==
  \/ Request
  \/ \E nonce \in Nonces : NextTurn(nonce)
  \/ Arrive
  \/ Miss
  \/ Stopped

Spec == Init /\ [][Next]_vars
==============================================================================
