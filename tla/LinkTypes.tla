------------------------------ MODULE LinkTypes ------------------------------
(***************************************************************************)
(* What the operations of a peripheral return: lemmas about Peripheral, as *)
(* Link instantiates it, that the proofs about the line rest on.  Every    *)
(* operation takes a device to a device, every answer is a reply, and the  *)
(* capabilities of a device are never reported under a session's code.     *)
(***************************************************************************)
EXTENDS Link, BusTypes

\* What the device proves itself with, and what it seeds the chain with, is a
\* payload.
LEMMA CryptogramType ==
  ASSUME NEW base \in Octet, NEW rndA \in Octet, NEW rndB \in Octet
  PROVE  /\ PD!ClientCryptogram(base, rndA, rndB) \in Payload
         /\ PD!InitialRMAC(base, rndA, rndB) \in Payload
<1>1. 1 \in Octet /\ 3 \in Octet
  BY DEF Octet
<1> QED BY <1>1 DEF PD!ClientCryptogram, PD!InitialRMAC, Payload

\* Both ends of the line speak of the same messages, frames and sessions.
LEMMA SameMessages ==
  /\ \A code, arg, len : PD!Msg(code, arg, len) = Msg(code, arg, len)
  /\ PD!AckReply = AckReply
  /\ \A reason : PD!NakReply(reason) = NakReply(reason)
  /\ \A f : PD!MessageOf(f) = MessageOf(f)
BY Zenon DEF PD!Msg, Msg, PD!AckReply, AckReply, PD!NakReply, NakReply, PD!MessageOf, MessageOf

LEMMA SameFrames ==
  /\ PD!NoBlock = NoBlock /\ PD!NoTag = NoTag
  /\ \A b : PD!EstablishedBlock(b) <=> EstablishedBlock(b)
  /\ \A r, addr, seq, b, m : PD!Body(r, addr, seq, b, m) = Body(r, addr, seq, b, m)
  /\ \A body, tag : PD!Frame(body, tag) = Frame(body, tag)
BY Zenon DEF PD!NoBlock, NoBlock, PD!NoTag, NoTag, PD!EstablishedBlock, EstablishedBlock,
       PD!Body, Body, PD!Frame, Frame

LEMMA SameSessions ==
  /\ PD!NoSession = NoSession
  /\ \A key : PD!NewSession(key) = NewSession(key)
  /\ \A s, isCommand, tag : PD!Commit(s, isCommand, tag) = Commit(s, isCommand, tag)
  /\ \A s, isCommand, body :
       PD!Authenticate(s, isCommand, body) = Authenticate(s, isCommand, body)
<1>1. PD!NoSession = NoSession
  BY Zenon, SameFrames DEF PD!NoSession, NoSession
<1>2. \A key : PD!NewSession(key) = NewSession(key)
  BY Zenon, <1>1 DEF PD!NewSession, NewSession
<1>3. ASSUME NEW s, NEW isCommand, NEW x
      PROVE  /\ PD!Commit(s, isCommand, x) = Commit(s, isCommand, x)
             /\ PD!MAC(s, isCommand, x) = MAC(s, isCommand, x)
  BY Zenon DEF PD!Commit, Commit, PD!MAC, MAC, PD!ChainFor, ChainFor
<1>4. ASSUME NEW s, NEW isCommand, NEW body
      PROVE  PD!Authenticate(s, isCommand, body) = Authenticate(s, isCommand, body)
  BY Zenon, <1>3 DEF PD!Authenticate, Authenticate
<1> QED BY Zenon, <1>1, <1>2, <1>3, <1>4

-----------------------------------------------------------------------------
(* Reports.                                                                *)

LEMMA AckType == AckReply \in ReportMessage
<1>1. "ACK" \in Code /\ <<>> \in Payload
  BY DEF Code, ReplyCode, Payload
<1> QED BY Zenon, <1>1, MessageType DEF AckReply, Msg, ReportMessage

LEMMA NakType ==
  ASSUME NEW reason \in Octet
  PROVE  NakReply(reason) \in ReportMessage
<1>1. "NAK" \in Code /\ <<reason>> \in Payload
  BY DEF Code, ReplyCode, Payload
<1> QED BY Zenon, <1>1, MessageType DEF NakReply, Msg, ReportMessage

LEMMA QueueType ==
  ASSUME NEW p \in PeripheralDevice, NEW m \in ReportMessage
  PROVE  PD!Queue(p, m) \in PeripheralDevice
<1>1. Append(p.reports, m) \in Seq(ReportMessage)
  BY DEF PeripheralDevice
<1> QED BY Zenon, <1>1 DEF PD!Queue, PeripheralDevice

LEMMA CoalesceType ==
  ASSUME NEW p \in PeripheralDevice, NEW m \in ReportMessage
  PROVE  PD!Coalesce(p, m).pd \in PeripheralDevice
<1>1. p.reports \in Seq(ReportMessage)
  BY Zenon DEF PeripheralDevice
<1>2. PD!Replace(p.reports, m) \in Seq(ReportMessage)
  BY <1>1 DEF PD!Replace
<1>3. ASSUME NEW r \in Seq(ReportMessage)
      PROVE  [p EXCEPT !.reports = r] \in PeripheralDevice
  BY Zenon DEF PeripheralDevice
<1> QED BY Zenon, <1>2, <1>3, QueueType DEF PD!Coalesce

LEMMA ContactStatusType ==
  ASSUME NEW code \in Code \ {"PDCap"}, NEW count \in Nat,
         NEW state \in [0..(count - 1) -> BOOLEAN]
  PROVE  PD!ContactStatus(code, state, count) \in ReportMessage
<1> DEFINE arg == [k \in 1..count |-> PD!boolOctet(state[k - 1])]
<1>1. \A k \in 1..count : PD!boolOctet(state[k - 1]) \in Octet
  BY DEF PD!boolOctet, Octet
<1>2. arg \in Payload
  BY <1>1 DEF Payload
<1> HIDE DEF arg
<1>3. Msg(code, arg, count) \in Message
  BY Zenon, <1>2, MessageType
<1>4. Msg(code, arg, count).code # "PDCap"
  BY Zenon DEF Msg
<1> QED BY Zenon, <1>3, <1>4, SameMessages DEF PD!ContactStatus, ReportMessage, arg

LEMMA LocalStatusType ==
  ASSUME NEW p \in PeripheralDevice
  PROVE  PD!LocalStatus(p) \in ReportMessage
<1> DEFINE arg == <<PD!boolOctet(p.tamper), PD!boolOctet(p.power)>>
<1>1. arg \in Payload
  BY DEF PD!boolOctet, Octet, Payload
<1> HIDE DEF arg
<1>2. "LStatR" \in Code
  BY Zenon DEF Code, ReplyCode
<1>3. Msg("LStatR", arg, 2) \in Message
  BY Zenon, <1>1, <1>2, MessageType
<1>4. Msg("LStatR", arg, 2).code # "PDCap"
  BY Zenon DEF Msg
<1> QED BY Zenon, <1>3, <1>4, SameMessages DEF PD!LocalStatus, ReportMessage, arg

\* The contacts of a device, as a report of them.
LEMMA InputStatusType ==
  ASSUME NEW p \in PeripheralDevice
  PROVE  /\ PD!ContactStatus("IStatR", p.inputs, InputCount) \in ReportMessage
         /\ PD!ContactStatus("OStatR", p.outputs, OutputCount) \in ReportMessage
<1>1. /\ p.inputs \in [0..(InputCount - 1) -> BOOLEAN]
      /\ p.outputs \in [0..(OutputCount - 1) -> BOOLEAN]
  BY Zenon DEF PeripheralDevice
<1>2. {"IStatR", "OStatR"} \subseteq Code \ {"PDCap"}
  BY Zenon DEF Code, ReplyCode
<1> QED BY Zenon, <1>1, <1>2, ContactStatusType, LinkAssumption

\* A contact that changes.
LEMMA SwitchType ==
  ASSUME NEW p \in PeripheralDevice, NEW active \in BOOLEAN
  PROVE  /\ \A k \in 0..(InputCount - 1) : PD!SetInput(p, k, active).pd \in PeripheralDevice
         /\ PD!SetTamper(p, active).pd \in PeripheralDevice
         /\ PD!SetPower(p, active).pd \in PeripheralDevice
<1>1. [p EXCEPT !.tamper = active] \in PeripheralDevice
  BY Zenon DEF PeripheralDevice
<1>2. [p EXCEPT !.power = active] \in PeripheralDevice
  BY Zenon DEF PeripheralDevice
<1>3. ASSUME NEW k \in 0..(InputCount - 1)
      PROVE  [p EXCEPT !.inputs[k] = active] \in PeripheralDevice
  <2>1. [p.inputs EXCEPT ![k] = active] \in [0..(InputCount - 1) -> BOOLEAN]
    BY Zenon DEF PeripheralDevice
  <2> QED BY Zenon, <2>1 DEF PeripheralDevice
<1> QED BY Zenon, <1>1, <1>2, <1>3, CoalesceType, LocalStatusType, InputStatusType
        DEF PD!SetInput, PD!SetTamper, PD!SetPower

LEMMA PollReplyType ==
  ASSUME NEW p \in PeripheralDevice
  PROVE  PD!PollReply(p).pd \in PeripheralDevice /\ PD!PollReply(p).msg \in ReportMessage
<1>1. p.reports \in Seq(ReportMessage)
  BY Zenon DEF PeripheralDevice
<1>2. CASE p.reports = <<>>
  BY Zenon, <1>2, AckType, SameMessages DEF PD!PollReply
<1>3. CASE p.reports # <<>>
  <2>1. Head(p.reports) \in ReportMessage /\ Tail(p.reports) \in Seq(ReportMessage)
    BY <1>1, <1>3
  <2>2. [p EXCEPT !.reports = Tail(p.reports)] \in PeripheralDevice
    BY Zenon, <2>1 DEF PeripheralDevice
  <2> QED BY Zenon, <1>3, <2>1, <2>2 DEF PD!PollReply
<1> QED BY Zenon, <1>2, <1>3

-----------------------------------------------------------------------------
(* Commands.                                                               *)

\* What a command leaves behind: the device and what it says.
Done == [pd : PeripheralDevice, msg : Message]

LEMMA DoneType ==
  ASSUME NEW p \in PeripheralDevice, NEW m \in ReportMessage
  PROVE  [pd |-> p, msg |-> m] \in Done /\ [pd |-> p, msg |-> m].msg.code # "PDCap"
BY Zenon DEF Done, ReportMessage

\* The reasons a device refuses a command with.
LEMMA Reasons ==
  \A reason \in {2, 3, 4, 5, 6, 9} : PD!NakReply(reason) \in ReportMessage
BY NakType, SameMessages DEF Octet

LEMMA ApplyOutputsType ==
  ASSUME NEW p \in PeripheralDevice, NEW arg
  PROVE  LET a == PD!ApplyOutputs(p, arg) IN a \in Done /\ a.msg.code # "PDCap"
<1>1. ASSUME NEW moved \in [0..(OutputCount - 1) -> BOOLEAN]
      PROVE  [p EXCEPT !.outputs = moved] \in PeripheralDevice
  BY Zenon DEF PeripheralDevice
<1>2. p.outputs \in [0..(OutputCount - 1) -> BOOLEAN]
  BY Zenon DEF PeripheralDevice
<1> DEFINE entries    == 1..(Len(arg) \div 2)
           output(k)  == arg[2 * k - 1]
           control(k) == arg[2 * k]
           moves(i)   == {k \in entries : output(k) = i /\ control(k) \notin PD!Leaves}
           drives(i)  == control(PD!Max(moves(i))) \in PD!Energises
           moved      == [i \in DOMAIN p.outputs |-> IF moves(i) = {} THEN p.outputs[i] ELSE drives(i)]
<1>3. moved \in [0..(OutputCount - 1) -> BOOLEAN]
  <2>1. ASSUME NEW x PROVE (x \in PD!Energises) \in BOOLEAN
    OBVIOUS
  <2>2. \A i : drives(i) \in BOOLEAN
    BY Zenon, <2>1
  <2> HIDE DEF moves, drives
  <2> QED BY Zenon, <1>2, <2>2
<1>4. \/ PD!ApplyOutputs(p, arg) = [pd |-> p, msg |-> PD!NakReply(2)]
      \/ PD!ApplyOutputs(p, arg) = [pd |-> p, msg |-> PD!NakReply(9)]
      \/ PD!ApplyOutputs(p, arg) = [pd |-> [p EXCEPT !.outputs = moved], msg |-> PD!AckReply]
  BY Zenon DEF PD!ApplyOutputs, PD!NAKCommandLength, PD!NAKUnsupportedInput
<1> HIDE DEF moved
<1> QED BY Zenon, <1>1, <1>3, <1>4, DoneType, Reasons, AckType, SameMessages

LEMMA ApplyCommunicationType ==
  ASSUME NEW p \in PeripheralDevice, NEW arg \in Payload
  PROVE  LET a == PD!ApplyCommunication(p, arg) IN a \in Done /\ a.msg.code # "PDCap"
<1>1. CASE arg = <<>>
  BY Zenon, <1>1, DoneType, Reasons DEF PD!ApplyCommunication, PD!NAKCommandLength
<1>2. CASE arg # <<>> /\ arg[1] >= PD!BroadcastAddress
  BY Zenon, <1>2, DoneType, Reasons DEF PD!ApplyCommunication, PD!NAKUnsupportedInput
<1>3. CASE arg # <<>> /\ ~(arg[1] >= PD!BroadcastAddress)
  <2>1. arg[1] \in Octet
    BY <1>3 DEF Payload
  <2>2. <<arg[1]>> \in Optional(Octet) /\ <<arg[1]>> \in Payload /\ "Com" \in Code
    BY <2>1 DEF Optional, Payload, Code, ReplyCode
  <2>3. [p EXCEPT !.adopting = <<arg[1]>>] \in PeripheralDevice
    BY Zenon, <2>2 DEF PeripheralDevice
  <2>4. Msg("Com", <<arg[1]>>, 5) \in ReportMessage
    BY Zenon, <2>2, MessageType DEF Msg, ReportMessage
  <2> QED BY Zenon, <1>3, <2>3, <2>4, DoneType, SameMessages DEF PD!ApplyCommunication
<1> QED BY Zenon, <1>1, <1>2, <1>3

LEMMA InstallType ==
  ASSUME NEW p \in PeripheralDevice, NEW m \in Message
  PROVE  LET a == PD!InstallKey(p, m) IN a \in Done /\ a.msg.code # "PDCap"
<1>1. CASE m.arg = <<>>
  BY Zenon, <1>1, DoneType, Reasons DEF PD!InstallKey, PD!NAKCommandLength
<1>2. CASE m.arg # <<>> /\ m.len # PD!KeySetSize
  BY Zenon, <1>2, DoneType, Reasons DEF PD!InstallKey, PD!NAKUnsupportedInput
<1>3. CASE m.arg # <<>> /\ m.len = PD!KeySetSize
  <2>1. <<m.arg[1]>> \in Optional(Octet)
    BY <1>3 DEF Optional, Payload, Message
  <2>2. [p EXCEPT !.adoptingKey = <<m.arg[1]>>] \in PeripheralDevice
    BY Zenon, <2>1 DEF PeripheralDevice
  <2> QED BY Zenon, <1>3, <2>2, DoneType, AckType, SameMessages DEF PD!InstallKey
<1> QED BY Zenon, <1>1, <1>2, <1>3

LEMMA StatusReplyType ==
  ASSUME NEW p \in PeripheralDevice, NEW code \in {"LStat", "IStat", "OStat", "RStat"}
  PROVE  PD!StatusReply(p, code) \in ReportMessage
<1>1. PD!Msg("RStatR", <<0>>, 1) \in ReportMessage
  <2>1. "RStatR" \in Code /\ <<0>> \in Payload
    BY DEF Code, ReplyCode, Payload, Octet
  <2> QED BY Zenon, <2>1, MessageType, SameMessages DEF Msg, ReportMessage
<1> QED BY Zenon, <1>1, LocalStatusType, InputStatusType DEF PD!StatusReply

LEMMA CapabilitiesType == PD!Capabilities \in Message
<1>1. "PDCap" \in Code /\ <<IF SecureDevice THEN 1 ELSE 0, 128>> \in Payload
  BY DEF Code, ReplyCode, Payload, Octet
<1> QED BY Zenon, <1>1, MessageType, SameMessages DEF PD!Capabilities, PD!ReceiveBuffer

\* The outcomes of a command.
LEMMA CommandCases ==
  ASSUME NEW p, NEW m, NEW secured
  PROVE  LET a == PD!Dispatch(p, m, secured)
         IN \/ a = PD!PollReply(p)
            \/ a = [pd |-> p, msg |-> PD!Msg("PDID", <<1>>, 12)]
            \/ m.code = "Cap" /\ a = [pd |-> p, msg |-> PD!Capabilities]
            \/ /\ m.code \in {"LStat", "IStat", "OStat", "RStat"}
               /\ a = [pd |-> p, msg |-> PD!StatusReply(p, m.code)]
            \/ a = PD!ApplyOutputs(p, m.arg)
            \/ a = PD!ApplyCommunication(p, m.arg)
            \/ a = PD!InstallKey(p, m)
            \/ a = [pd |-> p, msg |-> PD!AckReply]
            \/ \E reason \in {3, 5, 6} : a = [pd |-> p, msg |-> PD!NakReply(reason)]
<1> DEFINE a == PD!Dispatch(p, m, secured)
<1>1. m.code = "Poll" => a = PD!PollReply(p)
  BY Zenon DEF PD!Dispatch, PD!Acknowledged
<1>2. m.code = "ID" => a = [pd |-> p, msg |-> PD!Msg("PDID", <<1>>, 12)]
  BY Zenon DEF PD!Dispatch, PD!Acknowledged
<1>3. m.code = "Cap" => a = [pd |-> p, msg |-> PD!Capabilities]
  BY Zenon DEF PD!Dispatch, PD!Acknowledged
<1>4. m.code \in {"LStat", "IStat", "OStat", "RStat"} =>
        a = [pd |-> p, msg |-> PD!StatusReply(p, m.code)]
  BY Zenon DEF PD!Dispatch, PD!Acknowledged
<1>5. m.code = "Out" => a = PD!ApplyOutputs(p, m.arg)
  BY Zenon DEF PD!Dispatch, PD!Acknowledged
<1>6. m.code = "ComSet" => a = PD!ApplyCommunication(p, m.arg)
  BY Zenon DEF PD!Dispatch, PD!Acknowledged
<1>7. m.code = "KeySet" /\ secured => a = PD!InstallKey(p, m)
  BY Zenon DEF PD!Dispatch, PD!Acknowledged
<1>8. m.code = "KeySet" /\ ~secured => a = [pd |-> p, msg |-> PD!NakReply(5)]
  BY Zenon DEF PD!Dispatch, PD!Acknowledged, PD!NAKSecureRequired
<1>9. m.code \in PD!Acknowledged => a = [pd |-> p, msg |-> PD!AckReply]
  BY Zenon DEF PD!Dispatch, PD!Acknowledged
<1>10. m.code \in {"Chlng", "SCrypt"} =>
         \E reason \in {5, 6} : a = [pd |-> p, msg |-> PD!NakReply(reason)]
  BY Zenon DEF PD!Dispatch, PD!Acknowledged, PD!NAKSecureRequired, PD!NAKEncryptionUnsup
<1>11. \/ m.code \in {"Poll", "ID", "Cap", "LStat", "IStat", "OStat", "RStat", "Out",
                      "ComSet", "KeySet", "Chlng", "SCrypt"} \cup PD!Acknowledged
       \/ a = [pd |-> p, msg |-> PD!NakReply(3)]
  BY Zenon DEF PD!Dispatch, PD!Acknowledged, PD!NAKUnknownCommand
<1> HIDE DEF a
<1>12. \/ a = PD!PollReply(p)
       \/ a = [pd |-> p, msg |-> PD!Msg("PDID", <<1>>, 12)]
       \/ m.code = "Cap" /\ a = [pd |-> p, msg |-> PD!Capabilities]
       \/ /\ m.code \in {"LStat", "IStat", "OStat", "RStat"}
          /\ a = [pd |-> p, msg |-> PD!StatusReply(p, m.code)]
       \/ a = PD!ApplyOutputs(p, m.arg)
       \/ a = PD!ApplyCommunication(p, m.arg)
       \/ a = PD!InstallKey(p, m)
       \/ a = [pd |-> p, msg |-> PD!AckReply]
       \/ \E reason \in {3, 5, 6} : a = [pd |-> p, msg |-> PD!NakReply(reason)]
  BY Zenon, <1>1, <1>2, <1>3, <1>4, <1>5, <1>6, <1>7, <1>8, <1>9, <1>10, <1>11
<1> QED BY Zenon, <1>12 DEF a

\* Only osdp_CAP is answered with the capabilities of the device.
LEMMA CommandType ==
  ASSUME NEW p \in PeripheralDevice, NEW m \in Message, NEW secured
  PROVE  LET a == PD!Dispatch(p, m, secured)
         IN a \in Done /\ (a.msg.code = "PDCap" => m.code = "Cap")
<1> DEFINE a == PD!Dispatch(p, m, secured)
           Fine(x) == x \in Done /\ x.msg.code # "PDCap"
<1>1. m.arg \in Payload
  BY Zenon DEF Message
<1>2. Fine(PD!PollReply(p))
  <2>1. PD!PollReply(p).pd \in PeripheralDevice /\ PD!PollReply(p).msg \in ReportMessage
    BY Zenon, PollReplyType
  <2>2. PD!PollReply(p) = [pd |-> PD!PollReply(p).pd, msg |-> PD!PollReply(p).msg]
    BY Zenon DEF PD!PollReply
  <2> QED BY Zenon, <2>1, <2>2, DoneType
<1>3. Fine([pd |-> p, msg |-> PD!Msg("PDID", <<1>>, 12)])
  <2>1. "PDID" \in Code /\ <<1>> \in Payload
    BY DEF Code, ReplyCode, Payload, Octet
  <2>2. PD!Msg("PDID", <<1>>, 12) \in ReportMessage
    BY Zenon, <2>1, MessageType, SameMessages DEF Msg, ReportMessage
  <2> QED BY Zenon, <2>2, DoneType
<1>4. [pd |-> p, msg |-> PD!Capabilities] \in Done
  BY Zenon, CapabilitiesType DEF Done
<1>5. m.code \in {"LStat", "IStat", "OStat", "RStat"} =>
        Fine([pd |-> p, msg |-> PD!StatusReply(p, m.code)])
  BY Zenon, StatusReplyType, DoneType
<1>6. /\ Fine(PD!ApplyOutputs(p, m.arg)) /\ Fine(PD!ApplyCommunication(p, m.arg))
      /\ Fine(PD!InstallKey(p, m))
  BY Zenon, <1>1, ApplyOutputsType, ApplyCommunicationType, InstallType
<1>7. Fine([pd |-> p, msg |-> PD!AckReply])
  BY Zenon, AckType, DoneType, SameMessages
<1>8. \A reason \in {3, 5, 6} : Fine([pd |-> p, msg |-> PD!NakReply(reason)])
  BY Zenon, Reasons, DoneType
<1> HIDE DEF Fine
<1>9. Fine(a) \/ (m.code = "Cap" /\ a = [pd |-> p, msg |-> PD!Capabilities])
  BY Zenon, <1>2, <1>3, <1>5, <1>6, <1>7, <1>8, CommandCases
<1> QED BY Zenon, <1>4, <1>9 DEF Fine

-----------------------------------------------------------------------------
(* The secure channel.                                                     *)

\* An answer: the device, what it says and under which block, and whether the
\* command was carried out.
Answers ==
  {a \in [pd : PeripheralDevice, msg : Message, block : BlockType, ran : BOOLEAN] :
     a.msg.code = "PDCap" => ~EstablishedBlock(a.block)}

\* The session of a device.
LEMMA HoldType ==
  ASSUME NEW p \in PeripheralDevice, NEW s \in Session
  PROVE  [p EXCEPT !.session = s] \in PeripheralDevice
BY Zenon DEF PeripheralDevice

LEMMA DropType ==
  ASSUME NEW p \in PeripheralDevice
  PROVE  PD!DropSession(p) \in PeripheralDevice
BY Zenon, HoldType, NoSessionType, SameSessions DEF PD!DropSession

LEMMA RestartType ==
  ASSUME NEW p \in PeripheralDevice
  PROVE  PD!Restart(p) \in PeripheralDevice
<1>1. ASSUME NEW q \in PeripheralDevice
      PROVE  [q EXCEPT !.cached = <<>>] \in PeripheralDevice
  BY Zenon, EmptyIsOptional DEF PeripheralDevice
<1> QED BY Zenon, <1>1, DropType DEF PD!Restart

LEMMA RefuseType ==
  ASSUME NEW p \in PeripheralDevice, NEW reason \in {2, 3, 4, 5, 6, 9}
  PROVE  PD!Refuse(p, reason) \in Answers
<1>1. PD!NakReply(reason) \in ReportMessage
  BY Zenon, Reasons
<1>2. NoBlock \in BlockType
  BY Zenon, BlockTypes
<1> QED BY Zenon, <1>1, <1>2, SameFrames DEF PD!Refuse, Answers, ReportMessage

\* An answer of the handshake.
LEMMA HandshakeAnswerType ==
  ASSUME NEW p \in PeripheralDevice, NEW s \in Session,
         NEW code \in {"CCrypt", "RMACI"}, NEW arg \in Payload, NEW n \in Nat,
         NEW b \in {12, 14}
  PROVE  [pd |-> [p EXCEPT !.session = s], msg |-> PD!Msg(code, arg, n),
          block |-> b, ran |-> FALSE] \in Answers
<1>1. [p EXCEPT !.session = s] \in PeripheralDevice
  BY Zenon, HoldType
<1>2. code \in Code
  BY Zenon DEF Code, ReplyCode
<1>3. Msg(code, arg, n) \in Message /\ Msg(code, arg, n).code # "PDCap"
  BY Zenon, <1>2, MessageType DEF Msg
<1>4. b \in BlockType
  BY Zenon DEF BlockType
<1> QED BY Zenon, <1>1, <1>3, <1>4, SameMessages DEF Answers

LEMMA AnswerChallengeType ==
  ASSUME NEW p \in PeripheralDevice, NEW arg \in Payload, NEW nonce \in Octet
  PROVE  PD!AnswerChallenge(p, arg, nonce) \in Answers
<1>1. CASE Len(arg) # 1
  BY Zenon, <1>1, DropType, RefuseType DEF PD!AnswerChallenge, PD!NAKCommandLength
<1>2. CASE Len(arg) = 1
  <2> DEFINE s == PD!AnswerWith(PD!NewSession(p.key), arg[1], nonce)
  <2>1. p.key \in Octet /\ arg[1] \in Octet
    <3>1. p.key \in Octet
      BY Zenon DEF PeripheralDevice
    <3>2. arg # <<>>
      BY <1>2
    <3>3. arg[1] \in Octet
      BY <3>2 DEF Payload
    <3> QED BY Zenon, <3>1, <3>3
  <2>2. PD!NewSession(p.key) \in Session
    BY Zenon, <2>1, NewSessionType, SameSessions
  <2>3. ASSUME NEW q \in Session, NEW x \in Octet
        PROVE  PD!AnswerWith(q, x, nonce) \in Session
    <3>1. "Cryptogram" \in SessionState
      BY Zenon DEF SessionState
    <3> QED BY Zenon, <3>1 DEF PD!AnswerWith, Session
  <2>4. s \in Session
    BY Zenon, <2>1, <2>2, <2>3
  <2>5. ASSUME NEW q \in Session
        PROVE  PD!CCryptPayload(q) \in Payload
    <3>1. q.base \in Octet /\ q.rndA \in Octet /\ q.rndB \in Octet
      BY Zenon DEF Session
    <3>2. <<q.rndB>> \in Payload
      BY <3>1 DEF Payload
    <3>3. PD!ClientCryptogram(q.base, q.rndA, q.rndB) \in Payload
      BY Zenon, <3>1, CryptogramType
    <3> QED BY <3>2, <3>3 DEF PD!CCryptPayload, Payload
  <2>6. PD!AnswerChallenge(p, arg, nonce) =
          [pd |-> [p EXCEPT !.session = s], msg |-> PD!Msg("CCrypt", PD!CCryptPayload(s), 32),
           block |-> 12, ran |-> FALSE]
    BY Zenon, <1>2 DEF PD!AnswerChallenge
  <2> HIDE DEF s
  <2> QED BY Zenon, <2>4, <2>5, <2>6, HandshakeAnswerType
<1> QED BY Zenon, <1>1, <1>2

LEMMA AnswerCryptogramType ==
  ASSUME NEW p \in PeripheralDevice, NEW arg
  PROVE  PD!AnswerCryptogram(p, arg) \in Answers
<1>1. PD!Refuse(p, 5) \in Answers /\ PD!Refuse(PD!DropSession(p), 5) \in Answers
  BY Zenon, DropType, RefuseType
<1>2. p.session \in Session
  BY Zenon DEF PeripheralDevice
<1>3. PD!AnswerServer(p.session) \in Session
  <2>1. "Established" \in SessionState
    BY Zenon DEF SessionState
  <2>2. PD!SeedChain(p.session) \in Tag
    BY Zenon, <1>2, SeedChainType DEF PD!SeedChain, SeedChain
  <2> QED BY Zenon, <1>2, <2>1, <2>2 DEF PD!AnswerServer, Session
<1>4. PD!RMACPayload(p.session) \in Payload
  <2>1. p.session.base \in Octet /\ p.session.rndA \in Octet /\ p.session.rndB \in Octet
    BY Zenon, <1>2 DEF Session
  <2> QED BY Zenon, <2>1, CryptogramType DEF PD!RMACPayload
<1>5. [pd |-> [p EXCEPT !.session = PD!AnswerServer(p.session)],
       msg |-> PD!Msg("RMACI", PD!RMACPayload(p.session), 16),
       block |-> 14, ran |-> FALSE] \in Answers
  BY Zenon, <1>3, <1>4, HandshakeAnswerType
<1> QED BY Zenon, <1>1, <1>5 DEF PD!AnswerCryptogram, PD!NAKSecureRequired

LEMMA RunType ==
  ASSUME NEW p \in PeripheralDevice, NEW m \in Message, NEW secured \in BOOLEAN,
         secured => m.code # "Cap"
  PROVE  PD!Run(p, m, secured) \in Answers
<1> DEFINE a == PD!Dispatch(p, m, secured)
<1>1. /\ a.pd \in PeripheralDevice /\ a.msg \in Message
      /\ a.msg.code = "PDCap" => ~secured
  BY Zenon, CommandType DEF Done
<1>2. PD!Run(p, m, secured) =
        [pd |-> a.pd, msg |-> a.msg, ran |-> a.msg.code # "NAK",
         block |-> IF secured THEN PD!ReplyBlock(a.msg) ELSE PD!NoBlock]
  BY Zenon DEF PD!Run
<1> HIDE DEF a
<1>3. PD!ReplyBlock(a.msg) \in BlockType /\ NoBlock \in BlockType /\ ~EstablishedBlock(NoBlock)
  BY DEF PD!ReplyBlock, BlockType, NoBlock, EstablishedBlock
<1> QED BY <1>1, <1>2, <1>3, SameFrames DEF Answers

\* A command the bus may have sent is answered.
LEMMA AnswerType ==
  ASSUME NEW p \in PeripheralDevice, NEW f \in SealedCommand, NEW nonce \in Octet
  PROVE  PD!Answer(p, f, nonce) \in Answers
<1>1. /\ f \in WireFrame /\ f.body.arg \in Payload /\ f.tag \in Tag
      /\ MessageOf(f) \in Message /\ MessageOf(f).code = f.body.code
  BY Zenon, MessageOfType DEF SealedCommand, WireFrame, FrameBody, MessageOf, Msg
<1>2. /\ PD!Refuse(p, 5) \in Answers /\ PD!Refuse(p, 6) \in Answers
      /\ PD!Refuse(PD!DropSession(p), 5) \in Answers
  BY Zenon, DropType, RefuseType
<1>3. PD!Run(p, PD!MessageOf(f), FALSE) \in Answers
  BY Zenon, <1>1, RunType, SameMessages
<1>4. f.body.block \in {15, 17} => PD!AnswerEstablished(p, f) \in Answers
  <2>1. p.session \in Session
    BY Zenon DEF PeripheralDevice
  <2>2. [p EXCEPT !.session = PD!Commit(p.session, TRUE, f.tag)] \in PeripheralDevice
    BY Zenon, <1>1, <2>1, CommitType, HoldType, SameSessions
  <2>3. f.body.block \in {15, 17} => f.body.code # "Cap"
    BY DEF SealedCommand, EstablishedBlock
  <2>4. f.body.block \in {15, 17} =>
          PD!Run([p EXCEPT !.session = PD!Commit(p.session, TRUE, f.tag)],
                 PD!MessageOf(f), TRUE) \in Answers
    BY Zenon, <1>1, <2>2, <2>3, RunType, SameMessages
  <2> QED BY Zenon, <1>2, <2>4 DEF PD!AnswerEstablished, PD!NAKSecureRequired
<1>5. PD!AnswerSecure(p, f, nonce) \in Answers
  <2>1. /\ PD!AnswerChallenge(p, f.body.arg, nonce) \in Answers
        /\ PD!AnswerCryptogram(p, f.body.arg) \in Answers
    BY Zenon, <1>1, AnswerChallengeType, AnswerCryptogramType
  <2> QED BY Zenon, <1>2, <1>4, <2>1 DEF PD!AnswerSecure, PD!NAKEncryptionUnsup
<1> QED BY Zenon, <1>2, <1>3, <1>5 DEF PD!Answer, PD!NAKSecureRequired

-----------------------------------------------------------------------------
(* An exchange.                                                            *)

LEMMA AdoptKeyType ==
  ASSUME NEW p \in PeripheralDevice
  PROVE  PD!AdoptKey(p) \in PeripheralDevice
<1>1. CASE p.adoptingKey = <<>>
  BY Zenon, <1>1 DEF PD!AdoptKey
<1>2. CASE p.adoptingKey # <<>>
  <2>1. p.adoptingKey[1] \in Octet
    BY Zenon, <1>2, OptionalElement DEF PeripheralDevice
  <2>2. ASSUME NEW q \in PeripheralDevice, NEW key \in Octet
        PROVE  [q EXCEPT !.key = key, !.adoptingKey = <<>>] \in PeripheralDevice
    BY Zenon, EmptyIsOptional DEF PeripheralDevice
  <2> QED BY Zenon, <1>2, <2>1, <2>2, DropType DEF PD!AdoptKey
<1> QED BY Zenon, <1>1, <1>2

\* Composing a reply: what is sent is what is kept for a repeat.
LEMMA EmitType ==
  ASSUME NEW a \in Answers, NEW seq \in Sequence
  PROVE  /\ PD!Emit(a, seq).pd \in PeripheralDevice
         /\ PD!Emit(a, seq).reply \in Seq(OpenReply)
<1> DEFINE p    == a.pd
           body == PD!Body(TRUE, p.addr, seq, a.block, a.msg)
           s    == PD!Authenticate(p.session, FALSE, body)
           f    == IF PD!EstablishedBlock(a.block) THEN PD!Frame(body, s.rmac)
                   ELSE PD!Frame(body, PD!NoTag)
           t    == IF PD!EstablishedBlock(a.block) THEN s ELSE p.session
           c    == IF seq = 0 THEN <<>> ELSE <<f>>
           addr == IF p.adopting = <<>> THEN p.addr ELSE p.adopting[1]
           kept == [p EXCEPT !.session = t, !.cached = c, !.addr = addr, !.adopting = <<>>]
<1>1. /\ p \in PeripheralDevice /\ a.msg \in Message /\ a.block \in BlockType
      /\ a.msg.code = "PDCap" => ~EstablishedBlock(a.block)
  BY Zenon DEF Answers
<1>2. p.addr \in Octet /\ p.session \in Session /\ p.adopting \in Optional(Octet)
  BY Zenon, <1>1 DEF PeripheralDevice
<1>3. body \in FrameBody /\ body.code = a.msg.code
  <2>1. body = Body(TRUE, p.addr, seq, a.block, a.msg)
    BY Zenon, SameFrames
  <2>2. Body(TRUE, p.addr, seq, a.block, a.msg) \in FrameBody
    BY Zenon, <1>1, <1>2, BodyType
  <2>3. Body(TRUE, p.addr, seq, a.block, a.msg).code = a.msg.code
    BY Zenon DEF Body
  <2> QED BY Zenon, <2>1, <2>2, <2>3
<1> HIDE DEF body
<1>4. s \in Session
  BY Zenon, <1>2, <1>3, AuthenticateType, SameSessions
<1> HIDE DEF s
<1>5. f \in OpenReply
  <2>1. s.rmac \in Tag /\ NoTag \in Tag
    BY Zenon, <1>4, NoTagType DEF Session
  <2>2. f = IF EstablishedBlock(a.block) THEN Frame(body, s.rmac) ELSE Frame(body, NoTag)
    BY Zenon, SameFrames
  <2> HIDE DEF f
  <2> QED BY Zenon, <1>1, <1>3, <2>1, <2>2 DEF Frame, WireFrame, OpenReply
<1>6. PD!Emit(a, seq) = [pd |-> PD!AdoptKey(kept), reply |-> <<f>>, ran |-> a.ran]
  BY Zenon DEF PD!Emit, body, s
<1> HIDE DEF f
<1>7. t \in Session /\ c \in Optional(OpenReply) /\ addr \in Octet
  <2>1. t \in Session
    BY Zenon, <1>2, <1>4
  <2>2. c \in Optional(OpenReply)
    BY <1>5 DEF Optional
  <2>3. addr \in Octet
    BY Zenon, <1>2, OptionalElement
  <2> QED BY Zenon, <2>1, <2>2, <2>3
<1> HIDE DEF t, c, addr
<1>8. kept \in PeripheralDevice
  BY Zenon, <1>1, <1>7, EmptyIsOptional DEF PeripheralDevice
<1> HIDE DEF kept
<1> QED BY <1>5, <1>6, <1>8, AdoptKeyType

\* A device answers a command with at most one reply, and stays a device.
LEMMA HandleType ==
  ASSUME NEW p \in PeripheralDevice, NEW f \in SealedCommand, NEW silent, NEW nonce \in Octet
  PROVE  /\ PD!Handle(p, f, silent, nonce).pd \in PeripheralDevice
         /\ PD!Handle(p, f, silent, nonce).reply \in Seq(OpenReply)
<1> DEFINE seen == IF silent THEN PD!Restart(p) ELSE p
           now  == IF f.body.seq = 0 THEN PD!Restart(seen) ELSE seen
           h    == PD!Handle(p, f, silent, nonce)
<1>1. f.body.seq \in Sequence
  BY Zenon DEF SealedCommand, WireFrame, FrameBody
<1>2. seen \in PeripheralDevice /\ now \in PeripheralDevice
  BY Zenon, RestartType
<1>3. PD!AnswerFor(now, f, nonce) \in Answers
  BY Zenon, <1>2, AnswerType, RefuseType DEF PD!AnswerFor, PD!NAKSequenceError
<1>4. \/ h = [pd |-> p, reply |-> <<>>, ran |-> FALSE]
      \/ h = [pd |-> seen, reply |-> seen.cached, ran |-> FALSE]
      \/ h = PD!Emit(PD!AnswerFor(now, f, nonce), f.body.seq)
  BY Zenon DEF PD!Handle
<1>5. seen.cached \in Seq(OpenReply)
  BY Zenon, <1>2 DEF PeripheralDevice, Optional
<1> HIDE DEF seen, now, h
<1>6. h.pd \in PeripheralDevice /\ h.reply \in Seq(OpenReply)
  <2>1. CASE h = [pd |-> p, reply |-> <<>>, ran |-> FALSE]
    BY <2>1
  <2>2. CASE h = [pd |-> seen, reply |-> seen.cached, ran |-> FALSE]
    BY Zenon, <1>2, <1>5, <2>2
  <2>3. CASE h = PD!Emit(PD!AnswerFor(now, f, nonce), f.body.seq)
    BY Zenon, <1>1, <1>3, <2>3, EmitType
  <2> QED BY Zenon, <1>4, <2>1, <2>2, <2>3
<1> QED BY Zenon, <1>6 DEF h

LEMMA NewPeripheralType ==
  ASSUME NEW addr \in Octet
  PROVE  PD!NewPeripheral(addr, StartKey) \in PeripheralDevice
<1>1. StartKey \in Octet
  BY Zenon, LinkAssumption
<1>2. PD!NoSession \in Session
  BY Zenon, NoSessionType, SameSessions
<1>3. <<>> \in Seq(ReportMessage)
  OBVIOUS
<1>4. /\ [i \in 0..(InputCount - 1) |-> FALSE] \in [0..(InputCount - 1) -> BOOLEAN]
      /\ [i \in 0..(OutputCount - 1) |-> FALSE] \in [0..(OutputCount - 1) -> BOOLEAN]
      /\ FALSE \in BOOLEAN
  BY Zenon
<1> QED BY Zenon, <1>1, <1>2, <1>3, <1>4, EmptyIsOptional DEF PD!NewPeripheral, PeripheralDevice
=============================================================================
