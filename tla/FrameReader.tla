---------------------------- MODULE FrameReader ----------------------------
(***************************************************************************)
(* The panel's reader and the device's scanner: whole frames out of a port *)
(* that returns whatever octets it has.  The two are one algorithm and     *)
(* differ in what they do about octets that are no frame: the reader tells *)
(* its caller, the scanner goes on listening.                              *)
(***************************************************************************)
EXTENDS Framing, Ports

CONSTANTS
  MaxFrame  \* the octets of the buffer

VARIABLES
  side,    \* "panel" or "device": which of the two this is
  line,    \* the octets on their way, oldest first
  buf,     \* the octets held, r.buf[:r.n]
  pc,      \* where the goroutine that drives the line is
  result,  \* what next returned
  port,    \* what has become of the port: "well", "closed" or "gone"
  found    \* history: the frames decoded, as they were on the line

Returned(err, frames) == [err |-> err, frames |-> frames]

-----------------------------------------------------------------------------
(* The buffer.                                                             *)

Consume(b, n) == IF n <= 0 \/ n > Len(b) THEN <<>> ELSE From(b, n + 1)

\* The memory under b once consume has slid what is left to its front.
Slid(b, n) == Consume(b, n) \o From(b, Len(Consume(b, n)) + 1)

\* The frame as its holder reads it: the two slices are of memory m.
Aliasing(f, m) ==
  LET end   == WireLen(f) - CheckSize(f.ctrl)
      block == WireLen(f) - FrameLen(f) + HeaderSize + 2
  IN [f EXCEPT !.data = SubSeq(m, end - Len(f.data) + 1, end),
               !.security = IF f.security = <<>> THEN <<>>
                            ELSE <<[@[1] EXCEPT !.data =
                                      SubSeq(m, block + 1, block + Len(@))]>>]

StartsFrame(c) == c \in {SOM, Mark}

Resync(b) ==
  LET starts == {i \in 2..Len(b) : StartsFrame(b[i])}
  IN IF starts = {} THEN <<>>
     ELSE Consume(b, (CHOOSE i \in starts : \A j \in starts : i <= j) - 1)

-----------------------------------------------------------------------------
(* next: one look at the buffer, and one read of the port.                 *)

ReturnFrame(d) ==
  /\ d.frames # <<>>
  /\ LET f == d.frames[1]
         n == WireLen(f)
     IN /\ buf' = Consume(buf, n)
        /\ result' = Returned(d.err, <<Aliasing(f, Slid(buf, n))>>)
        /\ found' = Append(found, f)
  /\ pc' = "judge"

\* Not a frame at all.
Skip(d) ==
  /\ d.frames = <<>> /\ d.err # "ShortBuffer"
  /\ buf' = Resync(buf)
  /\ IF side = "panel" /\ buf' = <<>>
     THEN pc' = "judge" /\ result' = Returned(d.err, <<>>)
     ELSE pc' = "scan" /\ UNCHANGED result
  /\ UNCHANGED found

\* Mistake: only its first start is given up.
DiscardToStart ==
  /\ buf' = Resync(buf)
  /\ IF side = "panel"
     THEN pc' = "judge" /\ result' = Returned("LengthMismatch", <<>>)
     ELSE pc' = "port" /\ UNCHANGED result

\* A full buffer that does not decode.
DiscardFull ==
  /\ buf' = <<>>
  /\ IF side = "panel"
     THEN pc' = "judge" /\ result' = Returned("LengthMismatch", <<>>)
     ELSE pc' = "port" /\ UNCHANGED result

\* The frame has not all arrived, or nothing has.
Wait(d) ==
  /\ d.err = "ShortBuffer"
  /\ IF Len(buf) = MaxFrame THEN DiscardFull
     ELSE pc' = "port" /\ UNCHANGED <<buf, result>>
  /\ UNCHANGED found

Look ==
  /\ pc = "scan"
  /\ LET d == Decode(buf) IN ReturnFrame(d) \/ Skip(d) \/ Wait(d)
  /\ UNCHANGED <<side, line, port>>

\* Read returns some of the octets that are there; what arrived before the far
\* end went may still be.
ReadSome(k) ==
  /\ pc = "port" /\ port # "closed"
  /\ k <= MaxFrame - Len(buf)
  /\ buf' = buf \o SubSeq(line, 1, k)
  /\ line' = From(line, k + 1)
  /\ pc' = "scan"
  /\ UNCHANGED <<side, result, port, found>>

\* The deadline passes, or the port has failed.
ReadNone ==
  /\ pc = "port"
  /\ \E err \in ReadErrors(port) : result' = Returned(err, <<>>)
  /\ pc' = "judge"
  /\ UNCHANGED <<side, line, buf, port, found>>

\* Close is called.
Close ==
  /\ port # "closed" /\ port' = "closed"
  /\ UNCHANGED <<side, line, buf, pc, result, found>>

\* The converter is unplugged, or the connection's far end closes.
Unplug ==
  /\ port = "well" /\ port' = "gone"
  /\ UNCHANGED <<side, line, buf, pc, result, found>>
=============================================================================
