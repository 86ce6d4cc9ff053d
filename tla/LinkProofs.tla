----------------------------- MODULE LinkProofs -----------------------------
(***************************************************************************)
(* What holds of the bus and its peripherals together, for every number of *)
(* devices, every line and every bound.                                    *)
(***************************************************************************)
EXTENDS LinkTypes, BusSteps

-----------------------------------------------------------------------------
(* Turns.                                                                  *)

\* What the application may ask for is no osdp_CAP, and no key of no octets.
LEMMA AcceptedCodes ==
  \A m \in Accepted : m.code # "Cap" /\ (m.code = "KeySet" => m.len > 0)
<1>1. \A key : KeySetCommand(key).code = "KeySet" /\ KeySetCommand(key).len = 18
  BY DEF KeySetCommand, Msg
<1>2. \A addr : CommunicationCommand(addr).code = "ComSet"
  BY DEF CommunicationCommand, Msg
<1>3. \A m \in Commands : m.code # "Cap" /\ (m.code = "KeySet" => m.len > 0)
  BY LinkAssumption
<1> QED BY <1>1, <1>2, <1>3 DEF Accepted

\* What a device that is polled and commanded says is a poll or the head of its
\* queue, and the latter only if nothing withholds it.
LEMMA TakenCodes ==
  ASSUME NEW d \in Device, d.inflight = <<>>, Held(d) \in Seq(Accepted)
  PROVE  LET m == TakenMsg(d)
         IN /\ m.code # "Cap"
            /\ m.code = "KeySet" => m.len > 0 /\ SecureEstablished(d)
<1>1. d.outbox \in Seq(Accepted)
  BY HeldInFlight
<1>2. PollMessage.code = "Poll"
  BY DEF PollMessage, Msg
<1>3. CASE Polls(d) \/ d.outbox = <<>>
  BY <1>2, <1>3 DEF TakenMsg, OutboundMessage
<1>4. CASE ~Polls(d) /\ d.outbox # <<>>
  <2>1. TakenMsg(d) = Head(d.outbox) /\ Head(d.outbox) \in Accepted
    BY <1>1, <1>4 DEF TakenMsg, OutboundMessage
  <2>2. Head(d.outbox).code = "KeySet" => SecureEstablished(d)
    BY <1>4 DEF Polls, WithholdsKeySet
  <2> QED BY <2>1, <2>2, AcceptedCodes
<1> QED BY <1>3, <1>4

\* No turn sends a key in the clear, or asks for capabilities in a session.
LEMMA TurnSealed ==
  ASSUME NEW d \in Device, d.inflight = <<>>, Guarded(d), NEW nonce \in Octet
  PROVE  Turn(d, nonce).frame \in SealedCommand
<1> DEFINE c == CommandFor(d, nonce)
           f == Turn(d, nonce).frame
<1>1. c \in Composition /\ f \in WireFrame
  BY CommandForType, TurnType
<1>2. f.body.code = c.msg.code /\ f.body.block = c.block
  BY <1>1, ComposeBody DEF Turn
<1>3. /\ c.msg.code = "KeySet" => c.block = 17
      /\ c.msg.code = "Cap" => ~EstablishedBlock(c.block)
  <2>1. CASE c = [dev |-> d, msg |-> Msg("ID", <<0>>, 1), block |-> NoBlock]
    BY <2>1 DEF Msg
  <2>2. CASE c = [dev |-> d, msg |-> Msg("Cap", <<0>>, 1), block |-> NoBlock]
    BY <2>2 DEF Msg, NoBlock, EstablishedBlock
  <2>3. CASE c = HandshakeCommand(d, nonce)
    <3>1. d.pending # <<>> => Head(d.pending).code = "SCrypt"
      <4>1. d.pending # <<>> => Head(d.pending) = d.pending[1]
        BY DEF Device, Optional
      <4> QED BY <4>1 DEF Guarded
    <3>2. Msg("Chlng", <<nonce>>, 8).code = "Chlng"
      BY DEF Msg
    <3>3. c.msg.code \in {"SCrypt", "Chlng"}
      BY <2>3, <3>1, <3>2 DEF HandshakeCommand
    <3> QED BY <3>3
  <2>4. CASE d.state = "Secure" /\ c = [dev |-> Taken(d), msg |-> TakenMsg(d),
                                        block |-> BlockForCommand(TakenMsg(d))]
    BY <2>4, TakenCodes DEF Guarded, BlockForCommand
  <2>5. CASE d.state = "Online" /\ c = [dev |-> Taken(d), msg |-> TakenMsg(d), block |-> NoBlock]
    BY <2>5, TakenCodes DEF Guarded
  <2> QED BY <2>1, <2>2, <2>3, <2>4, <2>5, CommandForCases
<1> QED BY <1>1, <1>2, <1>3 DEF SealedCommand

-----------------------------------------------------------------------------
(* Steps of the bus.                                                       *)

\* A step of the bus keeps the invariant if it leaves the devices clear and the
\* line as it should be.
LineInv ==
  /\ sent \in [Devices -> Optional(SealedCommand)]
  /\ down \in Optional(SealedCommand)
  /\ up \in Seq(OpenReply)
  /\ pd \in [Devices -> PeripheralDevice]
  /\ fresh \in 0..(MaxFresh + 1)

LEMMA LinkParts ==
  LinkInv <=> /\ BusInv /\ LineInv
              /\ \A i \in Devices : Held(dev[i]) \in Seq(Accepted) /\ Clear(dev[i])
BY DEF LinkInv, LineInv, Guarded, Clear

LEMMA BusStepKeeps ==
  ASSUME LinkInv, BusStep, \A i \in Devices : Clear(dev'[i]), LineInv'
  PROVE  LinkInv'
<1>1. BusInv /\ \A i \in Devices : Held(dev[i]) \in Seq(Accepted)
  BY LinkParts
<1>2. BusInv' /\ \A i \in Devices : Held(dev'[i]) \in Seq(Accepted)
  BY <1>1, StepInv, HeldStep
<1>3. \A i \in Devices : Guarded(dev'[i])
  BY <1>2 DEF Guarded, Clear
<1> QED BY <1>2, <1>3 DEF LinkInv, LineInv

-----------------------------------------------------------------------------
(* Steps of the panel, the line and the devices.                           *)

LEMMA AsksInv ==
  ASSUME LinkInv, NEW i \in Devices, Asks(i)
  PROVE  LinkInv'
<1>1. Request /\ UNCHANGED <<sent, line>>
  BY DEF Asks, Ask, Request, SetCommunication, Send, InstallKeyOn, Accept
<1>2. \A j \in Devices : Clear(dev'[j])
  BY <1>1, RequestClear, LinkParts DEF BusInv
<1>3. LineInv'
  BY <1>1, LinkParts DEF LineInv, line
<1> QED BY <1>1, <1>2, <1>3, BusStepKeeps DEF BusStep

\* The bus and what it knows of its devices stand still.
LEMMA LineStep ==
  ASSUME LinkInv, UNCHANGED vars, LineInv'
  PROVE  LinkInv'
<1>1. \A i \in Devices : Clear(dev'[i])
  BY LinkParts DEF vars
<1> QED BY <1>1, BusStepKeeps DEF BusStep

LEMMA SwitchesInv ==
  ASSUME LinkInv, NEW i \in Devices, Switches(i)
  PROVE  LinkInv'
<1>1. pd[i] \in PeripheralDevice /\ pd \in [Devices -> PeripheralDevice]
  BY DEF LinkInv
<1>2. /\ (~pd[i].tamper) \in BOOLEAN /\ (~pd[i].power) \in BOOLEAN
      /\ \A k \in 0..(InputCount - 1) : (~pd[i].inputs[k]) \in BOOLEAN
  OBVIOUS
<1>3. PICK p \in PeripheralDevice : pd' = [pd EXCEPT ![i] = p]
  BY <1>1, <1>2, SwitchType DEF Switches, Switch
<1>4. UNCHANGED <<vars, down, up, fresh>>
  BY DEF Switches, Switch
<1>5. LineInv'
  BY <1>1, <1>3, <1>4 DEF LinkInv, LineInv, vars
<1> QED BY <1>4, <1>5, LineStep

LEMMA PresentInv ==
  ASSUME LinkInv, NEW i \in Devices, NEW card \in Cards, Present(i, card)
  PROVE  LinkInv'
<1> DEFINE m == Msg("Raw", <<card>>, 8)
<1>1. m \in ReportMessage
  <2>1. "Raw" \in Code /\ <<card>> \in Payload
    BY LinkAssumption DEF Code, ReplyCode, Payload
  <2> QED BY <2>1, MessageType DEF Msg, ReportMessage
<1> HIDE DEF m
<1>2. PD!Queue(pd[i], m) \in PeripheralDevice
  BY <1>1, QueueType DEF LinkInv
<1>3. pd' = [pd EXCEPT ![i] = PD!Queue(pd[i], m)] /\ UNCHANGED <<vars, down, up, fresh>>
  BY DEF Present, m
<1>4. LineInv'
  BY <1>2, <1>3 DEF LinkInv, LineInv, vars
<1> QED BY <1>3, <1>4, LineStep

LEMMA LoseInv ==
  ASSUME LinkInv, Lose
  PROVE  LinkInv'
<1>1. /\ UNCHANGED <<vars, pd, fresh>>
      /\ \/ down' = <<>> /\ up' = up
         \/ up # <<>> /\ up' = Tail(up) /\ down' = down
  BY DEF Lose
<1>2. up' \in Seq(OpenReply) /\ down' \in Optional(SealedCommand)
  BY <1>1, EmptyIsOptional DEF LinkInv
<1>3. LineInv'
  BY <1>1, <1>2 DEF LinkInv, LineInv, vars
<1> QED BY <1>1, <1>3, LineStep

LEMMA HearInv ==
  ASSUME LinkInv, Hear
  PROVE  LinkInv'
<1> DEFINE f == Head(down)
           handled == [i \in Devices \ Dead |-> PD!Handle(pd[i], f, silence[i], fresh)]
           answers == {i \in Devices \ Dead : handled[i].reply # <<>>}
           one == CHOOSE i \in Devices : answers = {i}
<1>1. f \in SealedCommand
  <2>1. down \in Seq(SealedCommand) /\ down # <<>>
    BY DEF LinkInv, Hear, Optional
  <2> QED BY <2>1
<1>2. fresh \in Octet
  BY LinkAssumption DEF LinkInv, Octet
<1>3. /\ UNCHANGED <<vars, fresh>> /\ down' = <<>>
      /\ pd' = [i \in Devices |-> IF i \in Dead THEN pd[i] ELSE handled[i].pd]
      /\ up' = up \/ ((\E i \in Devices : answers = {i}) /\ up' = up \o handled[one].reply)
  BY DEF Hear
<1>4. \A i \in Devices \ Dead : /\ handled[i].pd \in PeripheralDevice
                               /\ handled[i].reply \in Seq(OpenReply)
  BY <1>1, <1>2, HandleType DEF LinkInv
<1>5. (\E i \in Devices : answers = {i}) => one \in Devices \ Dead
  <2>1. answers \subseteq Devices \ Dead
    OBVIOUS
  <2> HIDE DEF answers
  <2> QED BY <2>1
<1> HIDE DEF f, handled, answers, one
<1>6. pd' \in [Devices -> PeripheralDevice]
  BY <1>3, <1>4 DEF LinkInv
<1>7. up' \in Seq(OpenReply)
  <2>1. up \in Seq(OpenReply)
    BY DEF LinkInv
  <2>2. ASSUME NEW r \in Seq(OpenReply)
        PROVE  up \o r \in Seq(OpenReply)
    BY <2>1
  <2> QED BY Zenon, <1>3, <1>4, <1>5, <2>1, <2>2
<1>8. LineInv'
  BY <1>3, <1>6, <1>7, EmptyIsOptional DEF LinkInv, LineInv, vars
<1> QED BY <1>3, <1>8, LineStep

LEMMA PanelReceiveInv ==
  ASSUME LinkInv, PanelReceive
  PROVE  LinkInv'
<1>1. up \in Seq(OpenReply) /\ up # <<>> /\ up' = Tail(up)
  BY DEF LinkInv, PanelReceive
<1>2. PICK f \in OpenReply : Receive(f)
  BY <1>1 DEF PanelReceive
<1>3. f \in WireFrame
  BY DEF OpenReply
<1>4. PICK i \in Devices : i = step.dev /\ dev[i] \in Device
  BY <1>2, Awaited DEF LinkInv, BusInv, Receive
<1>5. dev' = [dev EXCEPT ![i] = Reply(dev[i], f)] /\ sent' = sent
  BY <1>2, <1>4 DEF Receive, Settle
<1>6. \A j \in Devices : Clear(dev'[j])
  <2>1. Clear(Reply(dev[i], f))
    BY <1>3, <1>4, ReplyClear, LinkParts DEF OpenReply
  <2> QED BY <1>5, <2>1, OneClear, LinkParts DEF BusInv
<1>7. LineInv'
  BY <1>1, <1>5 DEF LinkInv, LineInv, PanelReceive
<1> QED BY <1>2, <1>3, <1>6, <1>7, BusStepKeeps DEF BusStep

LEMMA PanelMissInv ==
  ASSUME LinkInv, PanelMiss
  PROVE  LinkInv'
<1>1. Miss /\ UNCHANGED <<pd, down, up, fresh>>
  BY DEF PanelMiss
<1>2. PICK i \in Devices : i = step.dev /\ dev[i] \in Device
  BY <1>1, Awaited DEF LinkInv, BusInv, Miss
<1>3. dev' = [dev EXCEPT ![i] = Timeout(dev[i])] /\ sent' = sent
  BY <1>1, <1>2 DEF Miss, Settle
<1>4. \A j \in Devices : Clear(dev'[j])
  BY <1>2, <1>3, TimeoutClear, OneClear, LinkParts DEF BusInv
<1>5. LineInv'
  BY <1>1, <1>3 DEF LinkInv, LineInv
<1> QED BY <1>1, <1>4, <1>5, BusStepKeeps DEF BusStep

LEMMA TransmitInv ==
  ASSUME LinkInv, Transmit
  PROVE  LinkInv'
<1>1. PICK i \in Devices : i = current
  BY DEF LinkInv, BusInv, TypeOK
<1> DEFINE turn == Turn(dev[i], fresh)
<1>2. /\ dev[i] \in Device /\ dev[i].inflight = <<>> /\ fresh \in Octet
      /\ fresh \in 0..MaxFresh /\ Guarded(dev[i])
  <2>1. fresh \in 0..(MaxFresh + 1) /\ fresh <= MaxFresh /\ step = Idle
    BY DEF LinkInv, Transmit, NextTurn, Bounded
  <2>2. fresh \in 0..MaxFresh /\ fresh \in Octet
    BY <2>1, LinkAssumption DEF Octet
  <2>3. dev[i] \in Device /\ dev[i].inflight = <<>>
    BY <2>1, Phases DEF LinkInv, BusInv, TypeOK, Repeatable
  <2> QED BY <2>2, <2>3 DEF LinkInv
<1>3. turn.frame \in SealedCommand /\ Clear(turn.dev)
  BY <1>2, TurnSealed, TurnClear DEF Guarded, Clear
<1>4. /\ dev' = [dev EXCEPT ![i] = turn.dev]
      /\ sent' = [sent EXCEPT ![i] = <<turn.frame>>] \/ sent' = sent
      /\ down' = sent'[i] /\ (fresh' = fresh \/ fresh' = fresh + 1)
      /\ UNCHANGED <<pd, up>>
  BY <1>1 DEF Transmit, NextTurn
<1> HIDE DEF turn
<1>5. \A j \in Devices : Clear(dev'[j])
  BY <1>3, <1>4, OneClear, LinkParts DEF BusInv
<1>6. <<turn.frame>> \in Optional(SealedCommand)
  BY <1>3 DEF Optional
<1>7. sent' \in [Devices -> Optional(SealedCommand)]
  BY <1>4, <1>6 DEF LinkInv
<1>8. fresh' \in 0..(MaxFresh + 1)
  BY <1>2, <1>4, LinkAssumption
<1>9. LineInv'
  BY <1>4, <1>7, <1>8 DEF LinkInv, LineInv
<1> QED BY <1>2, <1>5, <1>9, BusStepKeeps DEF BusStep, Transmit

\* A device of the bus that was just built.
LEMMA NewDeviceGuarded ==
  ASSUME NEW addr
  PROVE  Guarded(NewDevice(addr))
<1>1. LET d == NewDevice(addr)
      IN d.state = "Offline" /\ d.pending = <<>> /\ d.inflight = <<>> /\ d.outbox = <<>>
  BY DEF NewDevice
<1>2. Held(NewDevice(addr)) = <<>>
  BY <1>1 DEF Held
<1>3. <<>> \in Seq(Accepted)
  OBVIOUS
<1> QED BY <1>1, <1>2, <1>3 DEF Guarded

LEMMA LinkInitInv ==
  ASSUME LinkInit
  PROVE  LinkInv
<1>1. Init
  BY DEF LinkInit
<1>2. BusInv
  BY <1>1, InitInv
<1>3. \A i \in Devices : Guarded(dev[i])
  BY <1>1, NewDeviceGuarded DEF Init
<1>4. sent \in [Devices -> Optional(SealedCommand)]
  BY <1>1, EmptyIsOptional DEF Init
<1>5. pd \in [Devices -> PeripheralDevice]
  BY NewPeripheralType, BusAssumption DEF LinkInit
<1>6. down = <<>> /\ up = <<>> /\ fresh \in 0..(MaxFresh + 1)
  BY LinkAssumption DEF LinkInit
<1>7. down \in Optional(SealedCommand) /\ up \in Seq(OpenReply)
  BY <1>6, EmptyIsOptional
<1> QED BY <1>2, <1>3, <1>4, <1>5, <1>6, <1>7 DEF LinkInv

LEMMA PanelRestartInv ==
  ASSUME LinkInv, PanelRestart
  PROVE  LinkInv'
<1>1. Init' /\ up' = <<>> /\ UNCHANGED <<pd, down, fresh>>
  BY DEF PanelRestart, Init
<1>2. Init' => BusInv'
  BY InitInv, PTL
<1>3. \A i \in Devices : Guarded(dev'[i])
  BY <1>1, NewDeviceGuarded DEF Init
<1>4. sent' \in [Devices -> Optional(SealedCommand)] /\ up' \in Seq(OpenReply)
  BY <1>1, EmptyIsOptional DEF Init
<1> QED BY <1>1, <1>2, <1>3, <1>4 DEF LinkInv

LEMMA LinkStepInv ==
  ASSUME LinkInv, [LinkNext]_system
  PROVE  LinkInv'
<1>1. ASSUME NEW i \in Devices, Asks(i) \/ Switches(i) \/ \E card \in Cards : Present(i, card)
      PROVE  LinkInv'
  BY <1>1, AsksInv, SwitchesInv, PresentInv
<1>2. CASE PanelRestart
  BY <1>2, PanelRestartInv
<1>3. CASE Transmit
  BY <1>3, TransmitInv
<1>4. CASE PanelReceive
  BY <1>4, PanelReceiveInv
<1>5. CASE PanelMiss
  BY <1>5, PanelMissInv
<1>6. CASE Hear
  BY <1>6, HearInv
<1>7. CASE Lose
  BY <1>7, LoseInv
<1>8. CASE UNCHANGED system
  <2>1. UNCHANGED vars /\ LineInv'
    BY <1>8, LinkParts DEF system, line, LineInv, vars
  <2> QED BY <2>1, LineStep
<1> QED BY <1>1, <1>2, <1>3, <1>4, <1>5, <1>6, <1>7, <1>8 DEF LinkNext, Exhausted

-----------------------------------------------------------------------------
(* The theorems.                                                           *)

\* The inductive invariant of the whole system: the bus's own, the commands on
\* the line, the answers to them and what the devices keep of both.
THEOREM LinkInvariant == LinkSpec => []LinkInv
<1>1. LinkInit => LinkInv
  BY LinkInitInv
<1>2. LinkInv /\ [LinkNext]_system => LinkInv'
  BY LinkStepInv
<1> QED BY <1>1, <1>2, PTL DEF LinkSpec

\* Whatever is asked, lost, delayed or restarted, no frame the panel composes
\* carries an osdp_KEYSET outside the block that enciphers it (withholdsKeySet,
\* InstallKey, commandBlock).
THEOREM KeysTravelSealed == LinkSpec => []KeySetSealed
<1>1. LinkInv => KeySetSealed
  <2> SUFFICES ASSUME LinkInv, NEW i \in Devices, sent[i] # <<>>
               PROVE  sent[i][1].body.code = "KeySet" => sent[i][1].body.block = 17
    BY DEF KeySetSealed
  <2>1. sent[i] \in Seq(SealedCommand)
    BY DEF LinkInv, Optional
  <2>2. sent[i][1] \in SealedCommand
    BY <2>1
  <2> QED BY <2>2 DEF SealedCommand
<1> QED BY <1>1, LinkInvariant, PTL

\* Beside real peripherals, and across restarts of the panel, a frame that
\* repeats a sequence number is still the lost frame, octet for octet
\* (retransmit, nextSequence).
THEOREM RepeatsExactlyOnLink == LinkSpec => []RepeatIsExact
<1>1. LinkInv => RepeatIsExact
  BY RepeatsAsSent DEF LinkInv
<1> QED BY <1>1, LinkInvariant, PTL
=============================================================================
