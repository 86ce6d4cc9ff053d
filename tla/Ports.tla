------------------------------- MODULE Ports -------------------------------
(***************************************************************************)
(* The errors of the drivers' ports.  A stream connection (conn) and a     *)
(* serial line (serialPort) each turn what the operating system reports    *)
(* into the words the loops above them know: Timeout, Closed, ShortWrite.  *)
(* An error neither of them knows is passed on as it is.                   *)
(***************************************************************************)

\* conn.go: sockets and in-memory pipes.
translate(err) ==
  CASE err \in {"net.ErrClosed", "io.ErrClosedPipe"} -> "Closed"
    [] err = "net.Error.Timeout"                     -> "Timeout"
    [] OTHER                                         -> err

\* Mistake: an adapter that is gone reads like one that has nothing to say.
TranslateQuiet(err) ==
  CASE err \in {"os.ErrDeadlineExceeded", "io.EOF"} -> "Timeout"
    [] err = "os.ErrClosed"                         -> "Closed"
    [] OTHER                                        -> err

\* serial_port.go.
translateSerial(err) ==
  CASE err = "os.ErrDeadlineExceeded"        -> "Timeout"
    [] err \in {"os.ErrClosed", "io.EOF"}    -> "Closed"
    [] OTHER                                 -> err

-----------------------------------------------------------------------------
(* What a call may return, by what has become of the port: it is well, it  *)
(* was closed on this side, or its far end is gone.                        *)

Expired == {translate("net.Error.Timeout"), translateSerial("os.ErrDeadlineExceeded")}

AfterClose ==
  {translate("net.ErrClosed"), translate("io.ErrClosedPipe"), translateSerial("os.ErrClosed")}

\* Read.
ReadErrors(port) ==
  CASE port = "well"   -> Expired
    [] port = "closed" -> AfterClose
    [] port = "gone"   -> {translate("io.EOF"), translateSerial("io.EOF")}

\* Write: it may also time out, or take less than it was given.  A pipe whose far
\* end is gone says so; a socket may take what nobody will read.
WriteErrors(port) ==
  CASE port = "well"   -> Expired \cup {"ShortWrite"}
    [] port = "closed" -> AfterClose
    [] port = "gone"   -> {translate("io.ErrClosedPipe"), translate("EPIPE"),
                           translateSerial("EIO")}

\* SetReadDeadline and SetWriteDeadline need nothing but an open port.
DeadlineErrors(port) == IF port = "closed" THEN AfterClose ELSE {}
=============================================================================
