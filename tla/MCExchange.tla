----------------------------- MODULE MCExchange -----------------------------
(***************************************************************************)
(* Exchange for TLC: durations and lengths on both sides of every limit.   *)
(***************************************************************************)
EXTENDS Exchange

Filled(n, last) == [k \in 1..n |-> IF k = n THEN last ELSE 65]

MCDurations == {-5, 99, 100, 25599, 25600, 6553600}
MCBodies    == {<<>>, Filled(255, 128), Filled(256, 65)}
               \cup {Filled(n, last) : n \in {4, 13, 16}, last \in {0, 128, 7}}
MCKeys      == {Filled(16, 0), Filled(16, 128)}
MCContacts  == {[k \in 1..n |-> k % 2 = 1] : n \in {0, 1, 16, 255}}
MCSettings  == [inputs : {0, 1, 255, 256}, outputs : {2, 256}, readers : {1, 256},
                queue : 0..1, secure : BOOLEAN, default : BOOLEAN]
MCBursts    == {<<1, 0>>, <<128, 0>>, <<255, 0>>, <<1, 128>>, <<128, 1>>, <<255, 255>>}
=============================================================================
