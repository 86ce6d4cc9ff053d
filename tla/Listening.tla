----------------------------- MODULE Listening -----------------------------
(***************************************************************************)
(* What goes on around a frame reader: on the panel's side await, which    *)
(* turns what next returns into an answer or a miss; on the device's side  *)
(* the loop of Server.Run, which hands frames to Handle and writes the     *)
(* replies.  The octets on the line are frames, noise and the remains of   *)
(* frames, read in pieces of any size.  Of what a frame means to the bus   *)
(* or the device behind the loop (Bus, Peripheral) only the address stays: *)
(* it decides whether the loop can go on writing.                          *)
(***************************************************************************)
EXTENDS FrameReader, FiniteSets

CONSTANTS
  Streams,  \* what may be on the line: sequences of units, see Unit
  Address   \* the device's address, to begin with

VARIABLES
  sent,       \* the units put on the line
  addr,       \* the device's address: the bus's idea of it, or its own
  cancelled,  \* the context of Run is done
  outcome     \* what Run returned

\* A unit of a stream: its octets, the frames in them, and whether it ends where
\* a receiver expects the next frame.
Unit(octets, frames, closed) == [octets |-> octets, frames |-> frames, closed |-> closed]

Octets(units) == FlattenSeq([k \in DOMAIN units |-> units[k].octets])
Frames(units) == FlattenSeq([k \in DOMAIN units |-> units[k].frames])

reading  == <<side, line, buf, pc, result, port, found>>
vars     == <<reading, sent, addr, cancelled, outcome>>

Init ==
  /\ side \in {"panel", "device"}
  /\ sent \in Streams
  /\ line = Octets(sent)
  /\ addr = Address
  /\ buf = <<>> /\ found = <<>>
  /\ pc = "top"
  /\ result = Returned("None", <<>>)
  /\ port = "well" /\ cancelled = FALSE
  /\ outcome = "running"

-----------------------------------------------------------------------------
(* The loops.                                                              *)

GoTo(label) == pc' = label /\ UNCHANGED <<side, line, buf, result, port, found, outcome>>

\* A failure while stopping is not reported (stopped, Panel.Run).
Stopped(err) == IF cancelled THEN "nil" ELSE err

End(returns) ==
  /\ pc' = "ended" /\ outcome' = returns
  /\ UNCHANGED <<side, line, buf, result, port, found>>

\* The loop sees whether it was cancelled; a panel then sends its command, a device
\* waits for one.
Top ==
  /\ pc = "top"
  /\ IF cancelled THEN End("nil") ELSE GoTo(IF side = "panel" THEN "compose" ELSE "deadline")
  /\ UNCHANGED <<sent, addr, cancelled>>

\* Bus.Next and Frame.Append: a frame for the device, at its address.  When none
\* can carry the address, Next has no step and cycle says that there are no
\* devices.  Nor can one carry a command longer than its length field can say,
\* which Send takes for a device that stated no buffer.
Compose ==
  /\ pc = "compose"
  /\ IF addr > BroadcastAddress THEN End(Stopped("NoDevices"))
     ELSE GoTo("write") \/ End(Stopped("FrameTooLong"))
  /\ UNCHANGED <<sent, addr, cancelled>>

\* A frame goes out whole, or Run ends (Panel.send, Server.write).  A device's
\* answer bears the address of the command, which a frame has carried.
Write ==
  /\ pc = "write"
  /\ \/ port # "closed" /\ GoTo(IF side = "panel" THEN "deadline" ELSE "top")
     \/ \E err \in WriteErrors(port) : End(Stopped(err))
  /\ UNCHANGED <<sent, addr, cancelled>>

\* The panel's turnaround wait, which a cancellation cuts short; then the deadline
\* of the read, and next is called.
Deadline ==
  /\ pc = "deadline"
  /\ \/ side = "panel" /\ cancelled /\ End("nil")
     \/ \E err \in DeadlineErrors(port) : End(Stopped(err))
     \/ DeadlineErrors(port) = {} /\ GoTo("scan")
  /\ UNCHANGED <<sent, addr, cancelled>>

\* Mistake: octets that are no frame are not a miss.
MissedButNoise == {"Timeout", "BadCheck", "LengthMismatch", "BadSecurityBlock"}

\* What await takes for silence of the device.
Missed == {"Timeout", "BadCheck", "LengthMismatch", "NoStartOfMessage", "BadSecurityBlock"}

Com               == 84   \* 0x54: a device says which address it has taken
ComSet            == 110  \* 0x6E: and is told to take one
CommunicationSize == 5

\* ParseCommunication: the address a payload names, if it is long enough.
Named(f, code) ==
  IF f.code = code /\ Len(f.data) >= CommunicationSize THEN {f.data[1]} ELSE {}

\* The frames Bus.Reply takes for the device's, and acts on.
Attributed(f) == f.isReply /\ f.addr = addr /\ Sequence(f.ctrl) # 0

\* Panel.await, and the end of the cycle: an answer or a miss, and on to the next.
\* An osdp_COM is believed whatever it says (onCommunication), unless there is a
\* session it does not verify in; any other frame leaves the address alone.
Await ==
  /\ pc = "judge" /\ side = "panel"
  /\ IF result.err = "None" \/ result.err \in Missed THEN GoTo("top")
     ELSE End(Stopped(result.err))
  /\ \/ UNCHANGED addr
     \/ /\ result.err = "None" /\ Attributed(result.frames[1])
        /\ addr' \in Named(result.frames[1], Com)
  /\ UNCHANGED <<sent, cancelled>>

\* screen, and addressed.
Screened(f) == ~f.isReply /\ CheckOK(f)
Answers(f)  == Screened(f) /\ f.addr = addr

\* Where the loop goes on when the panel has said nothing.
OnTimeout == "top"

\* Server.read, Handle and what Run makes of them.  An osdp_COMSET moves the device
\* to an address it accepts (applyCommunication), unless it is answered from the
\* cache or refused.
Serve ==
  /\ pc = "judge" /\ side = "device"
  /\ IF result.err = "Timeout" THEN GoTo(OnTimeout)
     ELSE IF result.err \notin {"None", "BadCheck"} THEN End(Stopped(result.err))
     ELSE GoTo(IF Answers(result.frames[1]) THEN "write" ELSE "top")
  /\ \/ UNCHANGED addr
     \/ /\ result.frames # <<>> /\ Answers(result.frames[1])
        /\ addr' \in Named(result.frames[1], ComSet) /\ addr' < BroadcastAddress
  /\ UNCHANGED <<sent, cancelled>>

Cancel == ~cancelled /\ cancelled' = TRUE /\ UNCHANGED <<reading, sent, addr, outcome>>

Reading ==
  /\ Look \/ ReadNone \/ \E k \in 1..Len(line) : ReadSome(k)
  /\ UNCHANGED <<sent, addr, cancelled, outcome>>

Fails == (Close \/ Unplug) /\ UNCHANGED <<sent, addr, cancelled, outcome>>

Loop == Top \/ Compose \/ Write \/ Deadline \/ Reading \/ Await \/ Serve
Done == pc = "ended" /\ UNCHANGED vars
Next == Loop \/ Cancel \/ Fails \/ Done

Spec == Init /\ [][Next]_vars

\* The goroutine runs, and a read returns by its deadline: weak fairness of Loop,
\* which is enabled until the run has ended and moves pc or buf at every step.
Moves    == <<pc, buf>>' # <<pc, buf>>
FairSpec == Spec /\ ([]<>(pc = "ended") \/ []<><<Moves>>_vars)

-----------------------------------------------------------------------------
(* Properties.                                                             *)

\* What there is to be found in a whole stream, by position: a window of the
\* buffer's size that holds a frame, one that never will, or rubbish up to the
\* next start.
Found(stream) ==
  LET end == Len(stream)
      found_[p \in 1..(end + MaxFrame)] ==
        LET window == SubSeq(stream, p, IF p + MaxFrame - 1 < end THEN p + MaxFrame - 1 ELSE end)
            d      == Decode(window)
            later  == {q \in (p + 1)..end : stream[q] = SOM \/ stream[q] = Mark}
        IN IF p > end THEN <<>>
           ELSE IF d.frames # <<>> THEN d.frames \o found_[p + WireLen(d.frames[1])]
           ELSE IF d.err = "ShortBuffer"
                THEN IF Len(window) < MaxFrame THEN <<>> ELSE found_[p + MaxFrame]
           ELSE IF later = {} THEN <<>>
           ELSE found_[CHOOSE q \in later : \A r \in later : q <= r]
  IN found_[1]

Heard == SubSeq(Octets(sent), 1, Len(Octets(sent)) - Len(line))

\* However the octets were cut into reads, and whatever deadlines passed between
\* them, the reader has found what there was to find in the octets it read (next,
\* consume, resync).
CutsDoNotMatter == pc = "port" => found = Found(Heard)

\* On a line with frames, marks and rubbish between them, every frame that has
\* been read whole has been returned, once and in order; a frame damaged within
\* included (the switch of next).
NothingMissed ==
  pc = "port" /\ (\A k \in DOMAIN sent : sent[k].closed) =>
    LET whole == {k \in 0..Len(sent) :
                    Len(Octets(SubSeq(sent, 1, k))) <= Len(Heard)}
    IN found = Frames(SubSeq(sent, 1, CHOOSE k \in whole : \A j \in whole : j <= k))

\* A frame, damaged ones included, encodes to the octets it was decoded from
\* (Decode, Append, WireLen).
SameOctetsAgain ==
  [][found' # found =>
       LET f == found'[Len(found')]
       IN Encode(f) = SubSeq(buf, 1, WireLen(f)) /\ Representable(f)]_vars

\* Run ends because it was cancelled, and then without an error; or with one,
\* because the port failed, a write did not complete, the application asked for
\* more than a frame holds, or a reply has put the panel's device at an address no
\* frame can carry.  Nothing else on the line stops either side: no noise, no
\* damaged frame, no remains of one, no frame for or from another, and no
\* osdp_COMSET (await, cycle, Run, Next, translate).
StopsForCause ==
  [][pc # "ended" /\ pc' = "ended" =>
       IF cancelled THEN outcome' = "nil"
       ELSE \/ port # "well" /\ outcome' # "nil"
            \/ pc = "write" /\ outcome' \in WriteErrors("well")
            \/ side = "panel" /\ outcome' = "FrameTooLong"
            \/ /\ side = "panel" /\ addr > BroadcastAddress
               /\ outcome' = "NoDevices"]_vars

\* A run that is cancelled ends, at the latest when its read is past its deadline;
\* and so does one whose port has failed, whatever the port had delivered before: it
\* is not polled for ever (Run, read, translate, translateSerial).
RunEnds == cancelled \/ port # "well" ~> pc = "ended"

-----------------------------------------------------------------------------
(* What the comments say, and the readers do not keep.                     *)

\* A frame is "valid until the next call" of next (reader.go, scan.go): what the
\* caller sees is what was decoded.
FrameIsIntact ==
  pc = "judge" /\ result.frames # <<>> => result.frames[1] = found[Len(found)]

\* "Run drives the line until ctx is cancelled or the port fails" (panel.go).
OnlyThePortStops ==
  [][pc # "ended" /\ pc' = "ended" =>
       cancelled \/ port # "well" \/ outcome' \in WriteErrors("well")]_vars
=============================================================================
