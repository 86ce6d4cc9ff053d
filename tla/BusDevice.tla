------------------------------ MODULE BusDevice ------------------------------
(***************************************************************************)
(* internal/bus: what the panel knows about one peripheral device, and     *)
(* what each bus operation does to it.  Every operation is an operator     *)
(* from the device's record to its record, named after the method it       *)
(* translates; Bus and Link put them into actions.                         *)
(*                                                                         *)
(* A pointer to a message is a sequence of at most one message.  Left out  *)
(* of the record: what nothing is decided by (ID, LastSeen).               *)
(***************************************************************************)
EXTENDS SecureSession

CONSTANTS
  SecureEnabled,  \* the bus was built WithSecureChannel
  KeyFor(_),      \* the application's keyring: the key of an address, or NoKey
  CheckSize,      \* octets of the error check: 2 for the CRC, 1 for the checksum
  NoKey

\* Consecutive misses that make a device offline.
OfflineThreshold == 3

DeviceState == {"Offline", "Identifying", "Online", "SecureHandshake", "Secure"}

\* What a call to the bus reports: the kind of the event it returns.
EventKind == {"None", "Busy", "Offline", "Resync", "Online", "Identified",
              "Capabilities", "Secure", "SecureFailed", "KeyInstalled", "NAK",
              "Communication", "CardRead", "Keypad", "Manufacturer", "Status"}

\* The contacts a status report covers, each 0 or 1.
StatusKind == {"Input", "Output", "Local", "Tamper", "Power"}
Contacts   == Seq(0..1)

Device ==
  [addr : Octet, state : DeviceState, buffer : Nat, session : Session,
   status : [StatusKind -> Contacts],
   pending : Optional(Message), deferCommands : BOOLEAN, released : Optional(Message),
   acknowledged : Code, pendingKey : Octet, installedKey : Octet,
   inflight : Optional(Message), repeatSequence : BOOLEAN, outbox : Seq(Message),
   secureDeclined : BOOLEAN, seq : Sequence, misses : 0..OfflineThreshold, event : EventKind]

NewDevice(addr) ==
  [addr |-> addr, state |-> "Offline", buffer |-> 0, session |-> NoSession,
   status |-> [kind \in StatusKind |-> <<>>], pending |-> <<>>, deferCommands |-> FALSE, released |-> <<>>,
   acknowledged |-> "Poll", pendingKey |-> NoKey, installedKey |-> NoKey,
   inflight |-> <<>>, repeatSequence |-> FALSE, outbox |-> <<>>,
   secureDeclined |-> FALSE, seq |-> 0, misses |-> 0, event |-> "None"]

Report(d, kind) == [d EXCEPT !.event = kind]

-----------------------------------------------------------------------------
(* The outbox and the command in flight: outbox.go, busy.go.               *)

\* Mistake: the newest command goes first.
EnqueueAtFront(d, m) == [d EXCEPT !.outbox = <<m>> \o @]

Enqueue(d, m) == [d EXCEPT !.outbox = Append(@, m)]

\* outbound: take the head of the outbox into flight, or poll.
Outbound(d) ==
  IF d.outbox = <<>> THEN d
  ELSE [d EXCEPT !.inflight = <<Head(d.outbox)>>, !.outbox = Tail(@)]
OutboundMessage(d) == IF d.outbox = <<>> THEN PollMessage ELSE Head(d.outbox)

SecureEstablished(d) == Established(d.session)

\* Mistake: the key goes out whatever the channel.
NeverWithholds(d) == FALSE

WithholdsKeySet(d) ==
  /\ d.outbox # <<>>
  /\ Head(d.outbox).code = "KeySet"
  /\ ~SecureEstablished(d)

Delivered(d) ==
  [d EXCEPT !.acknowledged = IF d.inflight = <<>> THEN "Poll" ELSE d.inflight[1].code,
            !.released     = d.inflight,
            !.inflight     = <<>>]

\* Mistakes: a command taken back joins at the end, or is forgotten.
RequeueAtBack(d) == [d EXCEPT !.outbox = @ \o d.inflight, !.inflight = <<>>]
RequeueNothing(d) == [d EXCEPT !.inflight = <<>>]

Requeue(d) == [d EXCEPT !.outbox = d.inflight \o @, !.inflight = <<>>]

Reclaim(d) ==
  IF d.released = <<>> THEN d
  ELSE Requeue([d EXCEPT !.inflight = d.released, !.released = <<>>])

\* Mistake: a poll that was lost repeats its number too.
RetransmitPoll(d) == [Requeue(d) EXCEPT !.repeatSequence = TRUE]

Retransmit(d) ==
  IF d.inflight = <<>> THEN d ELSE [Requeue(d) EXCEPT !.repeatSequence = TRUE]

OnBusy(d) == Report([Reclaim(d) EXCEPT !.deferCommands = TRUE], "Busy")

-----------------------------------------------------------------------------
(* Sequence numbers, sessions and silence: sequence.go, session.go,        *)
(* timeout.go.                                                             *)

\* Mistake: the number advances on a repeat.
NextOnRepeat(d) == [d EXCEPT !.repeatSequence = FALSE, !.seq = Following(@)]

NextSequence(d) ==
  IF d.repeatSequence THEN [d EXCEPT !.repeatSequence = FALSE]
  ELSE [d EXCEPT !.seq = Following(@)]

DropSession(d) == [d EXCEPT !.session = NoSession, !.pending = <<>>]

AbandonSecure(d) == [DropSession(d) EXCEPT !.secureDeclined = TRUE]

Resync(d) ==
  DropSession([Requeue(d) EXCEPT !.seq = 0, !.repeatSequence = FALSE, !.state = "Offline"])

\* Mistake: the miss that takes a device offline is not reported.
TimeoutUnreported(d) ==
  LET missed == Retransmit([d EXCEPT !.misses = IF @ < OfflineThreshold THEN @ + 1 ELSE @])
  IN Report(IF missed.misses < OfflineThreshold \/ d.state = "Offline" THEN missed
            ELSE Resync(missed), "None")

\* The count of misses is only compared with the threshold, and stays there.
Timeout(d) ==
  LET missed == Retransmit([d EXCEPT !.misses = IF @ < OfflineThreshold THEN @ + 1 ELSE @])
  IN IF missed.misses < OfflineThreshold \/ d.state = "Offline"
     THEN Report(missed, "None")
     ELSE Report(Resync(missed), "Offline")

-----------------------------------------------------------------------------
(* The panel's side of the handshake, and installing a key: secure.go,     *)
(* keyset.go.                                                              *)

\* baseKey: a key this bus installed wins over the application's keyring.
BaseKey(d) == IF d.installedKey # NoKey THEN d.installedKey ELSE KeyFor(d.addr)

AfterCapabilities(d, capable) ==
  IF ~SecureEnabled \/ d.secureDeclined THEN [d EXCEPT !.state = "Online"]
  ELSE IF ~capable \/ BaseKey(d) = NoKey
       THEN [d EXCEPT !.state = "Online", !.secureDeclined = TRUE]
       ELSE [d EXCEPT !.session = NewSession(BaseKey(d)), !.state = "SecureHandshake"]

\* Mistake: the device stays in the handshake it gave up.
SecureFailureInPlace(d) == Report(AbandonSecure(d), "SecureFailed")

SecureFailure(d) == Report([AbandonSecure(d) EXCEPT !.state = "Online"], "SecureFailed")

OnCryptogram(d, arg) ==
  IF ~AcceptsCCrypt(d.session, arg) THEN SecureFailure(d)
  ELSE LET s == AnswerClient(d.session, arg)
       IN Report([d EXCEPT !.session = s,
                           !.pending = <<Msg("SCrypt", SCryptPayload(s), 16)>>], "None")

OnInitialRMAC(d, arg) ==
  IF ~AcceptsRMAC(d.session, arg) THEN SecureFailure(d)
  ELSE Report([d EXCEPT !.session = CompleteHandshake(@), !.state = "Secure"], "Secure")

AwaitingKeySet(d) == d.pendingKey # NoKey /\ d.acknowledged = "KeySet"

OnKeyInstalled(d) ==
  Report([DropSession(d) EXCEPT !.installedKey = d.pendingKey, !.pendingKey = NoKey,
                                !.state = "Identifying"], "KeyInstalled")

KeySetRefused(d) == [d EXCEPT !.pendingKey = NoKey]

\* Mistake: the bus goes on at the old address.
OnCommunicationUnmoved(d, addr) == Report(Resync(d), "Communication")

OnCommunication(d, addr) == Report(Resync([d EXCEPT !.addr = addr]), "Communication")

-----------------------------------------------------------------------------
(* Accepting work from the application: bus.go, size.go, keyset.go,        *)
(* comset.go.                                                              *)

PaddedLength(n) == ((n + 16) \div 16) * 16

\* Octets a command takes on the wire as the channel stands now.
WireLength(d, m) ==
  LET sealed == IF m.len > 0 THEN PaddedLength(m.len) ELSE 0
  IN 5 + 1 + CheckSize + IF SecureEstablished(d) THEN 2 + sealed + 4 ELSE m.len

Fits(d, m) == d.buffer = 0 \/ WireLength(d, m) <= d.buffer

KeySetCommand(key)         == Msg("KeySet", <<key>>, 18)
CommunicationCommand(addr) == Msg("ComSet", <<addr>>, 5)

InstallKey(d, key) == Enqueue([d EXCEPT !.pendingKey = key], KeySetCommand(key))

-----------------------------------------------------------------------------
(* Speaking: compose.go and secure.go.  An operation that also produces a  *)
(* message returns it beside the device.                                   *)

\* The next handshake message: the answer an osdp_CCRYPT left pending, or a
\* fresh challenge.
HandshakeCommand(d, nonce) ==
  IF d.pending # <<>>
  THEN [dev |-> [d EXCEPT !.pending = <<>>], msg |-> Head(d.pending), block |-> 13]
  ELSE [dev |-> [d EXCEPT !.session = BeginChallenge(@, nonce)],
        msg |-> Msg("Chlng", <<nonce>>, 8), block |-> 11]

BlockForCommand(m) == IF m.len > 0 THEN 17 ELSE 15

\* A device that reported busy, or whose next command is a key it may not see
\* in the clear, is polled instead of commanded.
Polls(d) == d.deferCommands \/ WithholdsKeySet(d)

CommandFor(d, nonce) ==
  LET taken == IF Polls(d) THEN [d EXCEPT !.deferCommands = FALSE] ELSE Outbound(d)
      msg   == IF Polls(d) THEN PollMessage ELSE OutboundMessage(d)
  IN CASE d.state = "Offline" ->
            [dev |-> d, msg |-> Msg("ID", <<0>>, 1), block |-> NoBlock]
       [] d.state = "Identifying" ->
            [dev |-> d, msg |-> Msg("Cap", <<0>>, 1), block |-> NoBlock]
       [] d.state = "SecureHandshake" -> HandshakeCommand(d, nonce)
       [] d.state = "Secure" ->
            [dev |-> taken, msg |-> msg, block |-> BlockForCommand(msg)]
       [] d.state = "Online" ->
            [dev |-> taken, msg |-> msg, block |-> NoBlock]

\* Number the command and, on an established session, authenticate it.
Compose(c) ==
  LET d    == NextSequence(c.dev)
      body == Body(FALSE, d.addr, d.seq, c.block, c.msg)
      s    == Authenticate(d.session, TRUE, body)
  IN IF EstablishedBlock(c.block)
     THEN [dev |-> [d EXCEPT !.session = s], frame |-> Frame(body, s.cmac)]
     ELSE [dev |-> d, frame |-> Frame(body, NoTag)]

\* What the device's turn makes of it and puts on the line.
Turn(d, nonce) == Compose(CommandFor(d, nonce))

-----------------------------------------------------------------------------
(* Listening: reply.go and seal.go, with what panel/cycle.go does with the *)
(* error of a reply it cannot use.                                         *)

OpensReply(s, f) == f.body.block # NoBlock /\ Verifies(s, FALSE, f)

\* A reply of any kind the bus only notes: an offline device has come back.
OnOther(d) ==
  IF d.state = "Offline" THEN Report([d EXCEPT !.state = "Identifying"], "Online")
  ELSE Report(d, "None")

\* Mistake: an identity does not advance enrolment.
OnIdentityInPlace(d) == Report(d, "Identified")

OnIdentity(d) == Report([d EXCEPT !.state = "Identifying"], "Identified")

OnCapabilities(d, arg) ==
  LET known == AfterCapabilities([d EXCEPT !.buffer = arg[2]], arg[1] = 1)
  IN Report(known, IF known.state = "SecureHandshake" THEN "Capabilities" ELSE "Online")

StatusReplies == {"IStatR", "OStatR", "LStatR", "RStatR"}

\* The contacts a reply reports, of each kind: none of a kind it does not cover.
Reported(m, kind) ==
  LET contact(i) == IF m.arg[i] = 0 THEN 0 ELSE 1
      all        == [i \in 1..Len(m.arg) |-> contact(i)]
  IN CASE m.code = "IStatR" /\ kind = "Input"  -> all
       [] m.code = "OStatR" /\ kind = "Output" -> all
       [] m.code = "RStatR" /\ kind = "Local"  -> all
       [] m.code = "LStatR" /\ kind = "Tamper" -> <<contact(1)>>
       [] m.code = "LStatR" /\ kind = "Power"  -> <<contact(2)>>
       [] OTHER -> <<>>

\* statusChanges: a kind that was never reported is news whole, and a contact
\* beyond those known counts as having been inactive.
Moved(old, new) ==
  \E i \in DOMAIN new : old = <<>> \/ new[i] # IF i <= Len(old) THEN old[i] ELSE 0
Overlay(old, new) == new \o SubSeq(old, Len(new) + 1, Len(old))

OnStatus(d, m) ==
  Report([d EXCEPT !.status = [kind \in StatusKind |-> Overlay(@[kind], Reported(m, kind))]],
         IF \E kind \in StatusKind : Moved(d.status[kind], Reported(m, kind))
         THEN "Status" ELSE "None")

Dispatch(d, m) ==
  CASE m.code = "PDID"      -> OnIdentity(d)
    [] m.code = "PDCap"     -> OnCapabilities(d, m.arg)
    [] m.code = "CCrypt"    -> OnCryptogram(d, m.arg)
    [] m.code = "RMACI"     -> OnInitialRMAC(d, m.arg)
    [] m.code = "NAK"       -> Report(KeySetRefused(d), "NAK")
    [] m.code = "Com"       -> OnCommunication(d, m.arg[1])
    [] m.code = "Busy"      -> OnBusy(d)
    [] m.code = "Raw"       -> Report(d, "CardRead")
    [] m.code = "Keypad"    -> Report(d, "Keypad")
    [] m.code = "MFGReply"  -> Report(d, "Manufacturer")
    [] m.code \in StatusReplies -> OnStatus(d, m)
    [] m.code = "ACK" /\ AwaitingKeySet(d) -> OnKeyInstalled(d)
    [] OTHER                -> OnOther(d)

\* Reply, or the miss the panel charges when Reply returns an error.
Reply(d, f) ==
  LET heard  == [d EXCEPT !.misses = 0]
      opened == IF SecureEstablished(d)
                THEN [heard EXCEPT !.session = Commit(@, FALSE, f.tag)] ELSE heard
      got    == Delivered(opened)
      m      == MessageOf(f)
  IN IF ~f.body.isReply \/ f.body.addr # d.addr THEN Timeout(d)
     ELSE IF f.body.seq = 0 THEN Report(Resync(heard), "Resync")
     ELSE IF SecureEstablished(d) /\ ~OpensReply(d.session, f)
          THEN Report(Resync(heard), "SecureFailed")
     ELSE IF Malformed(m) THEN Timeout(got)
     ELSE Dispatch(got, m)
=============================================================================
