----------------------------- MODULE Peripheral -----------------------------
(***************************************************************************)
(* internal/pd: a peripheral device.  A device is a record, and every      *)
(* operation an operator from the record to the record, named after the    *)
(* method it translates; Link puts them into actions.  Calls on a device   *)
(* hold its mutex, so each is one step.                                    *)
(*                                                                         *)
(* Left out of the record: the identity and the wording of the capability  *)
(* report, which Payloads has as octets.                                   *)
(***************************************************************************)
EXTENDS SecureSession, FiniteSetsExt

CONSTANTS
  SecureDevice,  \* the device was built WithSecureChannel
  Strict,        \* it refuses a sequence number out of turn
  ConfigAddr,    \* it also answers on the broadcast address
  InputCount,    \* how many monitored inputs it has
  OutputCount,   \* how many outputs it has
  QueueSize      \* how many reports wait for a poll

\* An optional value is a sequence of at most one: the cached reply, and the
\* address and the key that take effect once the reply is composed.
NewPeripheral(addr, key) ==
  [addr |-> addr, key |-> key, session |-> NoSession, reports |-> <<>>,
   inputs |-> [i \in 0..(InputCount - 1) |-> FALSE],
   outputs |-> [i \in 0..(OutputCount - 1) |-> FALSE],
   tamper |-> FALSE, power |-> FALSE,
   cached |-> <<>>, adopting |-> <<>>, adoptingKey |-> <<>>]

DropSession(p) == [p EXCEPT !.session = NoSession]

\* restart forgets the exchange in progress: the cached reply and the session.
Restart(p) == [DropSession(p) EXCEPT !.cached = <<>>]

CachedSeq(p) == p.cached[1].body.seq

-----------------------------------------------------------------------------
(* Reports: report.go.                                                     *)

Reportable(p) == Len(p.reports) < QueueSize
Queue(p, m)   == [p EXCEPT !.reports = Append(@, m)]

boolOctet(active) == IF active THEN 1 ELSE 0

ContactStatus(code, state, count) ==
  Msg(code, [k \in 1..count |-> boolOctet(state[k - 1])], count)

LocalStatus(p) == Msg("LStatR", <<boolOctet(p.tamper), boolOctet(p.power)>>, 2)

\* Mistake: the report that waits already is kept.
ReplaceNothing(reports, m) == reports

\* A waiting report of the same kind gives way to the newer one.
Replace(reports, m) ==
  [k \in DOMAIN reports |-> IF reports[k].code = m.code THEN m ELSE reports[k]]

\* The device, and whether the report was taken.
Coalesce(p, m) ==
  IF \E k \in DOMAIN p.reports : p.reports[k].code = m.code
  THEN [pd |-> [p EXCEPT !.reports = Replace(@, m)], ok |-> TRUE]
  ELSE IF Reportable(p) THEN [pd |-> Queue(p, m), ok |-> TRUE]
  ELSE [pd |-> p, ok |-> FALSE]

\* The contact is set whether or not there is room for its report.
SetInput(p, k, active) ==
  LET set == [p EXCEPT !.inputs[k] = active]
  IN Coalesce(set, ContactStatus("IStatR", set.inputs, InputCount))

SetTamper(p, active) ==
  LET set == [p EXCEPT !.tamper = active] IN Coalesce(set, LocalStatus(set))

SetPower(p, failure) ==
  LET set == [p EXCEPT !.power = failure] IN Coalesce(set, LocalStatus(set))

\* Mistake: a report stays queued after it is answered.
PollReplyKept(p) == [pd |-> p, msg |-> IF p.reports = <<>> THEN AckReply ELSE Head(p.reports)]

PollReply(p) ==
  IF p.reports = <<>> THEN [pd |-> p, msg |-> AckReply]
  ELSE [pd |-> [p EXCEPT !.reports = Tail(@)], msg |-> Head(p.reports)]

-----------------------------------------------------------------------------
(* Commands: dispatch.go, control.go, sealed.go.  Each returns the device  *)
(* and the message it answers.                                             *)

Leaves      == {0}
Deenergises == {1, 3, 6}
Energises   == {2, 4, 5}

\* The payload of osdp_OUT is a list of entries: an output and a control code.
\* All of it is checked before any of it is applied; the last entry for an
\* output that says anything wins.
ApplyOutputs(p, arg) ==
  LET entries == 1..(Len(arg) \div 2)
      output(k)  == arg[2 * k - 1]
      control(k) == arg[2 * k]
      moves(i) == {k \in entries : output(k) = i /\ control(k) \notin Leaves}
      moved == [i \in DOMAIN p.outputs |->
                  IF moves(i) = {} THEN p.outputs[i]
                  ELSE control(Max(moves(i))) \in Energises]
  IN IF arg = <<>> \/ Len(arg) % 2 # 0 THEN [pd |-> p, msg |-> NakReply(NAKCommandLength)]
     ELSE IF \A k \in entries : /\ output(k) < OutputCount
                                /\ control(k) \in Leaves \cup Deenergises \cup Energises
          THEN [pd |-> [p EXCEPT !.outputs = moved], msg |-> AckReply]
          ELSE [pd |-> p, msg |-> NakReply(NAKUnsupportedInput)]

ApplyCommunication(p, arg) ==
  IF arg = <<>> THEN [pd |-> p, msg |-> NakReply(NAKCommandLength)]
  ELSE IF arg[1] >= BroadcastAddress THEN [pd |-> p, msg |-> NakReply(NAKUnsupportedInput)]
  ELSE [pd |-> [p EXCEPT !.adopting = <<arg[1]>>], msg |-> Msg("Com", <<arg[1]>>, 5)]

\* The key type, its length and a key of one block.
KeySetSize == 18

\* A key of another length is refused, and so is any key type but the one the
\* model has.
InstallKey(p, m) ==
  IF m.arg = <<>> THEN [pd |-> p, msg |-> NakReply(NAKCommandLength)]
  ELSE IF m.len # KeySetSize THEN [pd |-> p, msg |-> NakReply(NAKUnsupportedInput)]
  ELSE [pd |-> [p EXCEPT !.adoptingKey = <<m.arg[1]>>], msg |-> AckReply]

\* A status request is answered with the contacts of the kind asked for.
StatusReply(p, code) ==
  CASE code = "LStat" -> LocalStatus(p)
    [] code = "IStat" -> ContactStatus("IStatR", p.inputs, InputCount)
    [] code = "RStat" -> Msg("RStatR", <<0>>, 1)
    [] code = "OStat" -> ContactStatus("OStatR", p.outputs, OutputCount)

\* Commands acknowledged with no more effect than that.
Acknowledged == {"LED", "Buz", "Text", "KeepActive", "Abort", "ACURxSize"}

\* The secure channel the device claims and the octets it can receive.
ReceiveBuffer == 128
Capabilities  == Msg("PDCap", <<IF SecureDevice THEN 1 ELSE 0, ReceiveBuffer>>, 24)

Dispatch(p, m, secured) ==
  LET says(reply) == [pd |-> p, msg |-> reply]
  IN CASE m.code = "Poll"   -> PollReply(p)
       [] m.code = "ID"     -> says(Msg("PDID", <<1>>, 12))
       [] m.code = "Cap"    -> says(Capabilities)
       [] m.code \in {"LStat", "IStat", "OStat", "RStat"} -> says(StatusReply(p, m.code))
       [] m.code = "Out"    -> ApplyOutputs(p, m.arg)
       [] m.code = "ComSet" -> ApplyCommunication(p, m.arg)
       [] m.code = "KeySet" /\ secured  -> InstallKey(p, m)
       [] m.code = "KeySet" /\ ~secured -> says(NakReply(NAKSecureRequired))
       [] m.code \in Acknowledged       -> says(AckReply)
       [] m.code \in {"Chlng", "SCrypt"} ->
            says(NakReply(IF SecureDevice THEN NAKSecureRequired ELSE NAKEncryptionUnsup))
       [] OTHER -> says(NakReply(NAKUnknownCommand))

-----------------------------------------------------------------------------
(* The secure channel: handshake.go, sealed.go, secure.go.  An answer also *)
(* names the block the reply travels under, and whether the command was    *)
(* carried out.                                                            *)

Refuse(p, reason) ==
  [pd |-> p, msg |-> NakReply(reason), block |-> NoBlock, ran |-> FALSE]

AnswerChallenge(p, arg, nonce) ==
  LET s == AnswerWith(NewSession(p.key), arg[1], nonce)
  IN IF Len(arg) # 1 THEN Refuse(DropSession(p), NAKCommandLength)
     ELSE [pd |-> [p EXCEPT !.session = s],
           msg |-> Msg("CCrypt", CCryptPayload(s), 32), block |-> 12, ran |-> FALSE]

AnswerCryptogram(p, arg) ==
  IF p.session = NoSession THEN Refuse(p, NAKSecureRequired)
  ELSE IF ~AcceptsSCrypt(p.session, arg) THEN Refuse(DropSession(p), NAKSecureRequired)
  ELSE [pd |-> [p EXCEPT !.session = AnswerServer(@)],
        msg |-> Msg("RMACI", RMACPayload(p.session), 16), block |-> 14, ran |-> FALSE]

ReplyBlock(m) == IF m.len > 0 THEN 18 ELSE 16

\* Run a command and say under which block its answer travels.
Run(p, m, secured) ==
  LET done == Dispatch(p, m, secured)
  IN [pd |-> done.pd, msg |-> done.msg, ran |-> done.msg.code # "NAK",
      block |-> IF secured THEN ReplyBlock(done.msg) ELSE NoBlock]

AnswerEstablished(p, f) ==
  IF ~Established(p.session) THEN Refuse(p, NAKSecureRequired)
  ELSE IF ~Verifies(p.session, TRUE, f) THEN Refuse(DropSession(p), NAKSecureRequired)
  ELSE Run([p EXCEPT !.session = Commit(@, TRUE, f.tag)], MessageOf(f), TRUE)

AnswerSecure(p, f, nonce) ==
  CASE ~SecureDevice           -> Refuse(p, NAKEncryptionUnsup)
    [] SecureDevice /\ f.body.block = 11 -> AnswerChallenge(p, f.body.arg, nonce)
    [] SecureDevice /\ f.body.block = 13 -> AnswerCryptogram(p, f.body.arg)
    [] SecureDevice /\ f.body.block \in {15, 17} -> AnswerEstablished(p, f)
    [] OTHER                   -> Refuse(p, NAKEncryptionUnsup)

\* A command in the clear ends an established channel and is refused.
Answer(p, f, nonce) ==
  IF f.body.block # NoBlock THEN AnswerSecure(p, f, nonce)
  ELSE IF Established(p.session) THEN Refuse(DropSession(p), NAKSecureRequired)
  ELSE Run(p, MessageOf(f), FALSE)

-----------------------------------------------------------------------------
(* An exchange: handle.go, cache.go.                                       *)

\* Mistake: the key is acknowledged and dropped.
AdoptKeyDropped(p) ==
  IF p.adoptingKey = <<>> THEN p ELSE [DropSession(p) EXCEPT !.adoptingKey = <<>>]

AdoptKey(p) ==
  IF p.adoptingKey = <<>> THEN p
  ELSE [DropSession(p) EXCEPT !.key = p.adoptingKey[1], !.adoptingKey = <<>>]

\* Compose the reply, keep it for a repeat, and only then let a new address or
\* a new key take effect.
Emit(a, seq) ==
  LET p    == a.pd
      body == Body(TRUE, p.addr, seq, a.block, a.msg)
      s    == Authenticate(p.session, FALSE, body)
      f    == IF EstablishedBlock(a.block) THEN Frame(body, s.rmac) ELSE Frame(body, NoTag)
      kept == [p EXCEPT !.session = IF EstablishedBlock(a.block) THEN s ELSE @,
                        !.cached  = IF seq = 0 THEN <<>> ELSE <<f>>,
                        !.addr    = IF p.adopting = <<>> THEN @ ELSE p.adopting[1],
                        !.adopting = <<>>]
  IN [pd |-> AdoptKey(kept), reply |-> <<f>>, ran |-> a.ran]

Addressed(p, addr) == addr = p.addr \/ (ConfigAddr /\ addr = BroadcastAddress)

AnswerFor(p, f, nonce) ==
  IF Strict /\ p.cached # <<>> /\ f.body.seq # Following(CachedSeq(p))
  THEN Refuse(p, NAKSequenceError)
  ELSE Answer(p, f, nonce)

Handle(p, f, silent, nonce) ==
  LET seen == IF silent THEN Restart(p) ELSE p
      seq  == f.body.seq
  IN IF f.body.isReply \/ ~Addressed(p, f.body.addr)
     THEN [pd |-> p, reply |-> <<>>, ran |-> FALSE]
     ELSE IF seq # 0 /\ seen.cached # <<>> /\ seq = CachedSeq(seen)
          THEN [pd |-> seen, reply |-> seen.cached, ran |-> FALSE]
     ELSE Emit(AnswerFor(IF seq = 0 THEN Restart(seen) ELSE seen, f, nonce), seq)
=============================================================================
