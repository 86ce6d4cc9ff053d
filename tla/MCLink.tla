------------------------------- MODULE MCLink -------------------------------
(***************************************************************************)
(* Link for TLC.                                                           *)
(***************************************************************************)
EXTENDS Link

MCKeyFor(addr) == 1
MCStart        == [i \in 1..N |-> i]
MCOne          == {Msg("Out", <<0, 2>>, 4)}
MCTwo          == MCOne \cup {Msg("Out", <<0, 1>>, 4)}
=============================================================================
