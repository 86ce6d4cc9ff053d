------------------------------ MODULE MCPanel ------------------------------
(* An instance of Panel for TLC: the first caller calls twice, so that it can *)
(* give up one call and make another, and the other races it once.          *)
EXTENDS Panel

CONSTANT First

CallBounds == [c \in Callers |-> IF c = First THEN 2 ELSE 1]
=============================================================================
