---------------------------- MODULE MCListening ----------------------------
(***************************************************************************)
(* Listening for TLC.                                                      *)
(***************************************************************************)
EXTENDS Listening

Good(f) == Unit(Encode(Seal(f)), <<Seal(f)>>, TRUE)

Poll   == Good(Frame(FALSE, FALSE, 1, NewControl(1, FALSE, FALSE), <<>>, 96, <<>>, 0))
Out    == Good(Frame(FALSE, FALSE, 1, NewControl(2, TRUE, FALSE), <<>>, 104, <<2>>, 0))
Reply  == Good(Frame(TRUE, TRUE, 2, NewControl(1, FALSE, FALSE) + 64, <<>>, 80, <<7>>, 0))
Sealed == Good(Frame(FALSE, FALSE, 1, NewControl(3, FALSE, TRUE),
                     <<SecurityBlock(19, <<1>>)>>, 118, <<9>>, 0))

\* A device says it has moved where no frame can follow, and one is told to: it
\* is not taken there, but to the other address it is.
Moved   == Good(Frame(FALSE, TRUE, 1, NewControl(1, FALSE, FALSE), <<>>, Com,
                      <<133, 128, 37, 0, 0>>, 0))
Move(a) == Good(Frame(FALSE, FALSE, 1, NewControl(2, FALSE, FALSE), <<>>, ComSet,
                      <<a, 128, 37, 0, 0>>, 0))

\* A poll with one octet of it damaged on the line.
Damaged ==
  Unit([Poll.octets EXCEPT ![6] = 97], <<[Poll.frames[1] EXCEPT !.code = 97]>>, TRUE)

Noise == Unit(<<0, 7>>, <<>>, TRUE)

\* Beginnings that lead nowhere: a start, a mark, a length too small, one too
\* large, and a security block that does not fit.
Traps == {Unit(o, <<>>, FALSE) :
            o \in {<<SOM>>, <<Mark>>, <<SOM, 1, 3, 0, 1>>, <<SOM, 1, 255, 255, 1>>,
                   <<SOM, 1, 9, 0, 9, 9, SOM, 0, 0>>}}

All   == {Poll, Out, Reply, Sealed, Damaged, Noise} \cup Traps
Told  == {Moved, Move(133), Move(2)}
MCStreams ==
  {<<a, b>> : a \in All, b \in All} \cup {<<a, b, Poll>> : a \in All, b \in All}
  \cup {<<a, b, Reply>> : a \in Told, b \in All \ Traps}
=============================================================================
