------------------------------ MODULE BusTypes ------------------------------
(***************************************************************************)
(* What the operations of a device on the bus return: lemmas about         *)
(* BusDevice that the proofs about the bus rest on.  The lemmas of the     *)
(* first part say that every operation takes a device to a device.         *)
(***************************************************************************)
EXTENDS Bus, TLAPS

LEMMA EmptyIsOptional ==
  ASSUME NEW S
  PROVE  <<>> \in Optional(S)
BY DEF Optional

LEMMA Element ==
  ASSUME NEW S, NEW s \in Seq(S), NEW k \in 1..Len(s)
  PROVE  s[k] \in S
OBVIOUS

\* What a pointer that is not nil points to.
LEMMA OptionalElement ==
  ASSUME NEW S, NEW s \in Optional(S), s # <<>>
  PROVE  s[1] \in S /\ s = <<s[1]>>
<1>1. s \in Seq(S) /\ Len(s) <= 1
  BY DEF Optional
<1>2. Len(s) # 0
  BY <1>1
<1>3. Len(s) = 1
  BY <1>1, <1>2
<1> QED BY <1>1, <1>3

LEMMA NoTagType == NoTag \in Tag
BY DEF NoTag, Tag, Payload

LEMMA NoSessionType == NoSession \in Session
<1>1. "None" \in SessionState /\ 0 \in Octet
  BY DEF SessionState, Octet
<1> QED BY <1>1, NoTagType DEF NoSession, Session

\* The constants the operations put into a device's fields.
LEMMA Fields ==
  /\ 0 \in Sequence
  /\ {"Offline", "Identifying", "Online", "SecureHandshake", "Secure"} \subseteq DeviceState
  /\ <<>> \in Optional(Message)
  /\ NoSession \in Session
  /\ NoKey \in Octet
  /\ 0 \in 0..OfflineThreshold
<1>1. 0 \in Sequence /\ 0 \in 0..OfflineThreshold
  BY DEF Sequence, OfflineThreshold
<1>2. {"Offline", "Identifying", "Online", "SecureHandshake", "Secure"} \subseteq DeviceState
  BY DEF DeviceState
<1>3. NoKey \in Octet
  BY BusAssumption
<1> QED BY <1>1, <1>2, <1>3, EmptyIsOptional, NoSessionType

\* The kinds of event a device reports.
LEMMA Kinds ==
  /\ {"None", "Busy", "Offline", "Resync"} \subseteq EventKind
  /\ {"Online", "Identified", "Capabilities", "Secure"} \subseteq EventKind
  /\ {"SecureFailed", "KeyInstalled", "NAK", "Communication"} \subseteq EventKind
  /\ {"CardRead", "Keypad", "Manufacturer", "Status"} \subseteq EventKind
BY DEF EventKind

LEMMA ReportType ==
  ASSUME NEW d \in Device, NEW kind \in EventKind
  PROVE  Report(d, kind) \in Device
BY DEF Report, Device

\* Putting a command back empties the flight and restores the queue.
LEMMA RequeueType ==
  ASSUME NEW d \in Device
  PROVE  Requeue(d) \in Device
<1>1. d.inflight \o d.outbox \in Seq(Message)
  BY DEF Device, Optional
<1> QED BY Zenon, <1>1, Fields DEF Requeue, Device

LEMMA DropSessionType ==
  ASSUME NEW d \in Device
  PROVE  DropSession(d) \in Device
BY Zenon, Fields DEF DropSession, Device

LEMMA ResyncType ==
  ASSUME NEW d \in Device
  PROVE  Resync(d) \in Device
<1>1. Requeue(d) \in Device
  BY RequeueType
<1>2. ASSUME NEW q \in Device
      PROVE  [q EXCEPT !.seq = 0, !.repeatSequence = FALSE, !.state = "Offline"] \in Device
  <2>1. "Offline" \in DeviceState /\ 0 \in Sequence
    BY Fields
  <2> QED BY Zenon, <2>1 DEF Device
<1> QED BY Zenon, <1>1, <1>2, DropSessionType DEF Resync

LEMMA RetransmitType ==
  ASSUME NEW d \in Device
  PROVE  Retransmit(d) \in Device
<1>1. Requeue(d) \in Device
  BY RequeueType
<1>2. ASSUME NEW q \in Device
      PROVE  [q EXCEPT !.repeatSequence = TRUE] \in Device
  BY Zenon DEF Device
<1> QED BY <1>1, <1>2 DEF Retransmit

\* A miss counts up to the threshold.
LEMMA MissedType ==
  ASSUME NEW d \in Device
  PROVE  [d EXCEPT !.misses = IF @ < OfflineThreshold THEN @ + 1 ELSE @] \in Device
<1>1. d.misses \in 0..OfflineThreshold
  BY DEF Device
<1> DEFINE n == IF d.misses < OfflineThreshold THEN d.misses + 1 ELSE d.misses
<1>2. n \in 0..OfflineThreshold
  BY <1>1 DEF OfflineThreshold
<1> HIDE DEF n
<1>3. [d EXCEPT !.misses = n] \in Device
  BY <1>2 DEF Device
<1> QED BY <1>3 DEF n

LEMMA TimeoutType ==
  ASSUME NEW d \in Device
  PROVE  Timeout(d) \in Device
<1> DEFINE m == Retransmit([d EXCEPT !.misses = IF @ < OfflineThreshold THEN @ + 1 ELSE @])
<1>1. m \in Device
  BY MissedType, RetransmitType
<1>2. Resync(m) \in Device
  BY <1>1, ResyncType
<1>3. "None" \in EventKind /\ "Offline" \in EventKind
  BY Kinds
<1>4. Timeout(d) = Report(m, "None") \/ Timeout(d) = Report(Resync(m), "Offline")
  BY DEF Timeout
<1> QED BY <1>1, <1>2, <1>3, <1>4, ReportType

-----------------------------------------------------------------------------
(* Answers.                                                                *)

LEMMA DeliveredType ==
  ASSUME NEW d \in Device
  PROVE  Delivered(d) \in Device
<1> DEFINE code == IF d.inflight = <<>> THEN "Poll" ELSE d.inflight[1].code
<1>1. d.inflight \in Optional(Message)
  BY DEF Device
<1>2. code \in Code
  <2>1. CASE d.inflight = <<>>
    BY <2>1 DEF Code, CommandCode
  <2>2. CASE d.inflight # <<>>
    <3>1. d.inflight[1] \in Message
      BY <1>1, <2>2, OptionalElement
    <3> QED BY <3>1, <2>2 DEF Message
  <2> QED BY <2>1, <2>2
<1> HIDE DEF code
<1>3. [d EXCEPT !.acknowledged = code, !.released = d.inflight, !.inflight = <<>>] \in Device
  BY Zenon, <1>1, <1>2, Fields DEF Device
<1> QED BY <1>3 DEF Delivered, code

LEMMA ReclaimType ==
  ASSUME NEW d \in Device
  PROVE  Reclaim(d) \in Device
<1>1. [d EXCEPT !.inflight = d.released, !.released = <<>>] \in Device
  BY Zenon, Fields DEF Device
<1> QED BY <1>1, RequeueType DEF Reclaim

LEMMA OnBusyType ==
  ASSUME NEW d \in Device
  PROVE  OnBusy(d) \in Device
<1>1. Reclaim(d) \in Device
  BY ReclaimType
<1>2. ASSUME NEW q \in Device
      PROVE  [q EXCEPT !.deferCommands = TRUE] \in Device
  BY Zenon DEF Device
<1>3. "Busy" \in EventKind
  BY Kinds
<1> QED BY <1>1, <1>2, <1>3, ReportType DEF OnBusy

LEMMA StateType ==
  ASSUME NEW d \in Device, NEW s \in DeviceState
  PROVE  [d EXCEPT !.state = s] \in Device
BY DEF Device

LEMMA OnOtherType ==
  ASSUME NEW d \in Device
  PROVE  OnOther(d) \in Device
<1>1. "Identifying" \in DeviceState
  BY Fields
<1>2. "None" \in EventKind /\ "Online" \in EventKind
  BY Kinds
<1> QED BY <1>1, <1>2, StateType, ReportType DEF OnOther

LEMMA NewSessionType ==
  ASSUME NEW base \in Octet
  PROVE  NewSession(base) \in Session
<1>1. "Idle" \in SessionState
  BY DEF SessionState
<1> QED BY Zenon, <1>1, NoSessionType DEF NewSession, Session

LEMMA BaseKeyType ==
  ASSUME NEW d \in Device
  PROVE  BaseKey(d) \in Octet
<1>1. d.installedKey \in Octet /\ d.addr \in Octet
  BY DEF Device
<1> QED BY <1>1, BusAssumption DEF BaseKey

LEMMA AfterCapabilitiesType ==
  ASSUME NEW d \in Device, NEW capable
  PROVE  AfterCapabilities(d, capable) \in Device
<1>1. NewSession(BaseKey(d)) \in Session
  BY BaseKeyType, NewSessionType
<1>2. "Online" \in DeviceState /\ "SecureHandshake" \in DeviceState
  BY Fields
<1>3. [d EXCEPT !.state = "Online", !.secureDeclined = TRUE] \in Device
  BY Zenon, <1>2 DEF Device
<1>4. [d EXCEPT !.session = NewSession(BaseKey(d)), !.state = "SecureHandshake"] \in Device
  BY Zenon, <1>1, <1>2 DEF Device
<1> QED BY <1>2, <1>3, <1>4, StateType DEF AfterCapabilities

LEMMA SecondType ==
  ASSUME NEW arg \in Payload, Len(arg) = 2
  PROVE  arg[2] \in Nat
<1>1. arg[2] \in Octet
  BY Element DEF Payload
<1>2. \A x \in Octet : x \in Nat
  BY DEF Octet
<1> QED BY <1>1, <1>2

LEMMA OnCapabilitiesType ==
  ASSUME NEW d \in Device, NEW arg \in Payload, Len(arg) = 2
  PROVE  OnCapabilities(d, arg) \in Device
<1>1. arg[2] \in Nat
  BY SecondType
<1>2. ASSUME NEW n \in Nat
      PROVE  [d EXCEPT !.buffer = n] \in Device
  BY DEF Device
<1>3. "Capabilities" \in EventKind /\ "Online" \in EventKind
  BY Kinds
<1> QED BY <1>1, <1>2, <1>3, AfterCapabilitiesType, ReportType DEF OnCapabilities

LEMMA SecureFailureType ==
  ASSUME NEW d \in Device
  PROVE  SecureFailure(d) \in Device
<1>1. DropSession(d) \in Device
  BY DropSessionType
<1>2. ASSUME NEW q \in Device
      PROVE  [q EXCEPT !.secureDeclined = TRUE] \in Device
  BY Zenon DEF Device
<1>3. "Online" \in DeviceState /\ "SecureFailed" \in EventKind
  BY Fields, Kinds
<1> QED BY Zenon, <1>1, <1>2, <1>3, StateType, ReportType DEF SecureFailure, AbandonSecure

LEMMA MessageType ==
  ASSUME NEW code \in Code, NEW arg \in Payload, NEW n \in Nat
  PROVE  Msg(code, arg, n) \in Message
BY DEF Msg, Message

LEMMA OnCryptogramType ==
  ASSUME NEW d \in Device, NEW arg \in Payload
  PROVE  OnCryptogram(d, arg) \in Device
<1>1. CASE ~AcceptsCCrypt(d.session, arg)
  BY <1>1, SecureFailureType DEF OnCryptogram
<1>2. CASE AcceptsCCrypt(d.session, arg)
  <2> DEFINE s == AnswerClient(d.session, arg)
             m == Msg("SCrypt", SCryptPayload(s), 16)
  <2>1. s \in Session
    <3>1. Len(arg) = 5
      BY <1>2 DEF AcceptsCCrypt
    <3>2. arg[1] \in Octet
      BY <3>1, Element DEF Payload
    <3>3. Head(arg) = arg[1]
      BY <3>1 DEF Payload
    <3>4. "Cryptogram" \in SessionState
      BY DEF SessionState
    <3>5. d.session \in Session
      BY DEF Device
    <3>6. ASSUME NEW x \in Octet
          PROVE  [d.session EXCEPT !.rndB = x, !.state = "Cryptogram"] \in Session
      BY Zenon, <3>4, <3>5 DEF Session
    <3> QED BY Zenon, <3>2, <3>3, <3>6 DEF AnswerClient
  <2>2. m \in Message
    <3>1. ASSUME NEW x \in Octet, NEW y \in Octet, NEW z \in Octet
          PROVE  ServerCryptogram(x, y, z) \in Payload
      BY DEF ServerCryptogram, Payload, Octet
    <3>2. ASSUME NEW q \in Session
          PROVE  SCryptPayload(q) \in Payload
      <4>1. q.base \in Octet /\ q.rndA \in Octet /\ q.rndB \in Octet
        BY DEF Session
      <4> QED BY Zenon, <3>1, <4>1 DEF SCryptPayload
    <3>3. "SCrypt" \in Code
      BY DEF Code, CommandCode
    <3>4. SCryptPayload(s) \in Payload
      BY Zenon, <2>1, <3>2
    <3> QED BY <3>3, <3>4, MessageType
  <2>3. <<m>> \in Optional(Message)
    BY <2>2 DEF Optional
  <2> HIDE DEF s, m
  <2>4. [d EXCEPT !.session = s, !.pending = <<m>>] \in Device
    BY Zenon, <2>1, <2>3 DEF Device
  <2>5. "None" \in EventKind
    BY Kinds
  <2> QED BY <1>2, <2>4, <2>5, ReportType DEF OnCryptogram, s, m
<1> QED BY <1>1, <1>2

LEMMA SeedChainType ==
  ASSUME NEW s \in Session
  PROVE  SeedChain(s) \in Tag
<1>1. s.base \in Octet /\ s.rndA \in Octet /\ s.rndB \in Octet
  BY DEF Session
<1>2. <<s.base, s.rndA, s.rndB>> \in Payload
  BY <1>1 DEF Payload
<1> QED BY <1>2 DEF SeedChain, Tag

LEMMA OnInitialRMACType ==
  ASSUME NEW d \in Device, NEW arg \in Payload
  PROVE  OnInitialRMAC(d, arg) \in Device
<1>1. d.session \in Session
  BY DEF Device
<1>2. "Established" \in SessionState /\ "Secure" \in DeviceState /\ "Secure" \in EventKind
  BY Fields, Kinds DEF SessionState
<1>3. CompleteHandshake(d.session) \in Session
  BY Zenon, <1>1, <1>2, SeedChainType DEF CompleteHandshake, Session
<1>4. ASSUME NEW s \in Session
      PROVE  [d EXCEPT !.session = s, !.state = "Secure"] \in Device
  BY Zenon, <1>2 DEF Device
<1> QED BY Zenon, <1>2, <1>3, <1>4, SecureFailureType, ReportType DEF OnInitialRMAC

LEMMA OnKeyInstalledType ==
  ASSUME NEW d \in Device
  PROVE  OnKeyInstalled(d) \in Device
<1>1. "Identifying" \in DeviceState /\ "KeyInstalled" \in EventKind
  BY Fields, Kinds
<1>2. d.pendingKey \in Octet /\ NoKey \in Octet
  BY BusAssumption DEF Device
<1>3. ASSUME NEW q \in Device, NEW key \in Octet
      PROVE  [q EXCEPT !.installedKey = key, !.pendingKey = NoKey,
                       !.state = "Identifying"] \in Device
  BY Zenon, <1>1, <1>2 DEF Device
<1> QED BY Zenon, <1>1, <1>2, <1>3, DropSessionType, ReportType DEF OnKeyInstalled

LEMMA KeySetRefusedType ==
  ASSUME NEW d \in Device
  PROVE  KeySetRefused(d) \in Device
BY BusAssumption DEF KeySetRefused, Device

LEMMA OnCommunicationType ==
  ASSUME NEW d \in Device, NEW addr \in Octet
  PROVE  OnCommunication(d, addr) \in Device
<1>1. [d EXCEPT !.addr = addr] \in Device
  BY DEF Device
<1>2. "Communication" \in EventKind
  BY Kinds
<1> QED BY <1>1, <1>2, ResyncType, ReportType DEF OnCommunication

\* A status report leaves a table of contacts.
LEMMA ReportedType ==
  ASSUME NEW m \in Message, ~Malformed(m), NEW kind \in StatusKind
  PROVE  Reported(m, kind) \in Contacts
<1> DEFINE contact(i) == IF m.arg[i] = 0 THEN 0 ELSE 1
           all        == [i \in 1..Len(m.arg) |-> contact(i)]
<1>1. \A i : contact(i) \in 0..1
  OBVIOUS
<1>2. m.arg \in Seq(Octet) /\ Len(m.arg) \in Nat
  BY DEF Message, Payload
<1>3. all \in Seq(0..1)
  <2> HIDE DEF contact
  <2> QED BY <1>1, <1>2
<1>4. <<contact(1)>> \in Seq(0..1) /\ <<contact(2)>> \in Seq(0..1) /\ <<>> \in Seq(0..1)
  <2> HIDE DEF contact
  <2> QED BY <1>1
<1>5. Reported(m, kind) \in {all, <<contact(1)>>, <<contact(2)>>, <<>>}
  BY DEF Reported
<1> HIDE DEF all, contact
<1> QED BY Zenon, <1>3, <1>4, <1>5 DEF Contacts

LEMMA OverlayType ==
  ASSUME NEW old \in Contacts, NEW new \in Contacts
  PROVE  Overlay(old, new) \in Contacts
<1>1. SubSeq(old, Len(new) + 1, Len(old)) \in Seq(0..1)
  BY DEF Contacts
<1> QED BY <1>1 DEF Overlay, Contacts

LEMMA OnStatusType ==
  ASSUME NEW d \in Device, NEW m \in Message, ~Malformed(m)
  PROVE  OnStatus(d, m) \in Device
<1> DEFINE table == [kind \in StatusKind |-> Overlay(d.status[kind], Reported(m, kind))]
           event == IF \E kind \in StatusKind : Moved(d.status[kind], Reported(m, kind))
                    THEN "Status" ELSE "None"
<1>1. d.status \in [StatusKind -> Contacts]
  BY DEF Device
<1>2. table \in [StatusKind -> Contacts]
  BY <1>1, ReportedType, OverlayType
<1>3. event \in EventKind
  BY Kinds
<1>4. OnStatus(d, m) = Report([d EXCEPT !.status = table], event)
  BY DEF OnStatus
<1> HIDE DEF table, event
<1>5. [d EXCEPT !.status = table] \in Device
  BY <1>2 DEF Device
<1> QED BY <1>3, <1>4, <1>5, ReportType

\* The outcomes of dispatch.
LEMMA DispatchCases ==
  ASSUME NEW d, NEW m
  PROVE  \/ Dispatch(d, m) = OnIdentity(d)
         \/ m.code = "PDCap" /\ Dispatch(d, m) = OnCapabilities(d, m.arg)
         \/ Dispatch(d, m) = OnCryptogram(d, m.arg)
         \/ Dispatch(d, m) = OnInitialRMAC(d, m.arg)
         \/ Dispatch(d, m) = Report(KeySetRefused(d), "NAK")
         \/ m.code = "Com" /\ Dispatch(d, m) = OnCommunication(d, m.arg[1])
         \/ Dispatch(d, m) = OnBusy(d)
         \/ \E kind \in {"CardRead", "Keypad", "Manufacturer"} :
              Dispatch(d, m) = Report(d, kind)
         \/ m.code \in StatusReplies /\ Dispatch(d, m) = OnStatus(d, m)
         \/ Dispatch(d, m) = OnKeyInstalled(d)
         \/ Dispatch(d, m) = OnOther(d)
<1>1. m.code = "PDID" => Dispatch(d, m) = OnIdentity(d)
  BY DEF Dispatch, StatusReplies
<1>2. m.code = "PDCap" => Dispatch(d, m) = OnCapabilities(d, m.arg)
  BY DEF Dispatch, StatusReplies
<1>3. m.code = "CCrypt" => Dispatch(d, m) = OnCryptogram(d, m.arg)
  BY DEF Dispatch, StatusReplies
<1>4. m.code = "RMACI" => Dispatch(d, m) = OnInitialRMAC(d, m.arg)
  BY DEF Dispatch, StatusReplies
<1>5. m.code = "NAK" => Dispatch(d, m) = Report(KeySetRefused(d), "NAK")
  BY DEF Dispatch, StatusReplies
<1>6. m.code = "Com" => Dispatch(d, m) = OnCommunication(d, m.arg[1])
  BY DEF Dispatch, StatusReplies
<1>7. m.code = "Busy" => Dispatch(d, m) = OnBusy(d)
  BY DEF Dispatch, StatusReplies
<1>8. m.code = "Raw" => Dispatch(d, m) = Report(d, "CardRead")
  BY DEF Dispatch, StatusReplies
<1>9. m.code = "Keypad" => Dispatch(d, m) = Report(d, "Keypad")
  BY DEF Dispatch, StatusReplies
<1>10. m.code = "MFGReply" => Dispatch(d, m) = Report(d, "Manufacturer")
  BY DEF Dispatch, StatusReplies
<1>11. m.code \in StatusReplies => Dispatch(d, m) = OnStatus(d, m)
  BY DEF Dispatch, StatusReplies
<1>12. \/ m.code \in {"PDID", "PDCap", "CCrypt", "RMACI", "NAK", "Com", "Busy", "Raw",
                      "Keypad", "MFGReply"} \cup StatusReplies
       \/ Dispatch(d, m) = OnKeyInstalled(d)
       \/ Dispatch(d, m) = OnOther(d)
  BY DEF Dispatch, StatusReplies
<1> QED
  BY <1>1, <1>2, <1>3, <1>4, <1>5, <1>6, <1>7, <1>8, <1>9, <1>10, <1>11, <1>12

LEMMA DispatchType ==
  ASSUME NEW d \in Device, NEW m \in Message, ~Malformed(m)
  PROVE  Dispatch(d, m) \in Device
<1>1. m.arg \in Payload
  BY DEF Message
<1>2. /\ "Identified" \in EventKind /\ "NAK" \in EventKind
      /\ {"CardRead", "Keypad", "Manufacturer", "Status"} \subseteq EventKind
      /\ "Identifying" \in DeviceState
  BY Kinds, Fields
<1>3. m.code = "PDCap" => OnCapabilities(d, m.arg) \in Device
  BY <1>1, OnCapabilitiesType DEF Malformed, UnevenCapabilities
<1>4. m.code = "Com" => OnCommunication(d, m.arg[1]) \in Device
  <2> SUFFICES ASSUME m.code = "Com" PROVE OnCommunication(d, m.arg[1]) \in Device
    OBVIOUS
  <2>1. m.arg # <<>>
    BY DEF Malformed, ShortCommunication
  <2>2. 1 \in 1..Len(m.arg)
    BY <1>1, <2>1 DEF Payload
  <2>3. m.arg[1] \in Octet
    BY <1>1, <2>2, Element DEF Payload
  <2> QED BY <2>3, OnCommunicationType
<1>5. OnIdentity(d) \in Device
  BY <1>2, StateType, ReportType DEF OnIdentity
<1>6. OnCryptogram(d, m.arg) \in Device /\ OnInitialRMAC(d, m.arg) \in Device
  BY <1>1, OnCryptogramType, OnInitialRMACType
<1>7. Report(KeySetRefused(d), "NAK") \in Device
  BY <1>2, KeySetRefusedType, ReportType
<1>8. \A kind \in {"CardRead", "Keypad", "Manufacturer"} : Report(d, kind) \in Device
  BY <1>2, ReportType
<1>9. OnBusy(d) \in Device /\ OnKeyInstalled(d) \in Device /\ OnOther(d) \in Device
  BY OnBusyType, OnKeyInstalledType, OnOtherType
<1>10. m.code \in StatusReplies => OnStatus(d, m) \in Device
  BY OnStatusType
<1> QED BY <1>3, <1>4, <1>5, <1>6, <1>7, <1>8, <1>9, <1>10, DispatchCases

LEMMA HeardType ==
  ASSUME NEW d \in Device
  PROVE  [d EXCEPT !.misses = 0] \in Device
BY Fields DEF Device

LEMMA CommitType ==
  ASSUME NEW s \in Session, NEW tag \in Tag, NEW isCommand
  PROVE  Commit(s, isCommand, tag) \in Session
BY DEF Commit, Session

LEMMA SessionFieldType ==
  ASSUME NEW d \in Device, NEW s \in Session
  PROVE  [d EXCEPT !.session = s] \in Device
BY DEF Device

LEMMA MessageOfType ==
  ASSUME NEW f \in WireFrame
  PROVE  MessageOf(f) \in Message
BY MessageType DEF WireFrame, FrameBody, MessageOf

\* What Reply works on: the device whose session has taken the reply's code.
Opened(d, f) ==
  IF SecureEstablished(d)
  THEN [[d EXCEPT !.misses = 0] EXCEPT !.session = Commit(@, FALSE, f.tag)]
  ELSE [d EXCEPT !.misses = 0]

LEMMA OpenedType ==
  ASSUME NEW d \in Device, NEW f \in WireFrame
  PROVE  Opened(d, f) \in Device
<1> DEFINE heard == [d EXCEPT !.misses = 0]
<1>1. heard \in Device
  BY HeardType
<1> HIDE DEF heard
<1>2. heard.session \in Session /\ f.tag \in Tag
  BY <1>1 DEF Device, WireFrame
<1>3. [heard EXCEPT !.session = Commit(heard.session, FALSE, f.tag)] \in Device
  BY Zenon, <1>1, <1>2, CommitType, SessionFieldType
<1> QED BY <1>1, <1>3 DEF Opened, heard

\* The outcomes of Reply.
LEMMA ReplyCases ==
  ASSUME NEW d, NEW f
  PROVE  \/ Reply(d, f) = Timeout(d)
         \/ Reply(d, f) = Report(Resync([d EXCEPT !.misses = 0]), "Resync")
         \/ Reply(d, f) = Report(Resync([d EXCEPT !.misses = 0]), "SecureFailed")
         \/ Reply(d, f) = Timeout(Delivered(Opened(d, f)))
         \/ /\ ~Malformed(MessageOf(f))
            /\ Reply(d, f) = Dispatch(Delivered(Opened(d, f)), MessageOf(f))
BY DEF Reply, Opened

LEMMA ReplyType ==
  ASSUME NEW d \in Device, NEW f \in WireFrame
  PROVE  Reply(d, f) \in Device
<1>1. Report(Resync([d EXCEPT !.misses = 0]), "Resync") \in Device
  BY Zenon, HeardType, ResyncType, ReportType, Kinds
<1>2. Report(Resync([d EXCEPT !.misses = 0]), "SecureFailed") \in Device
  BY Zenon, HeardType, ResyncType, ReportType, Kinds
<1>3. Delivered(Opened(d, f)) \in Device
  BY OpenedType, DeliveredType
<1> QED
  BY <1>1, <1>2, <1>3, ReplyCases, TimeoutType, DispatchType, MessageOfType

-----------------------------------------------------------------------------
(* Turns.                                                                  *)

\* What CommandFor returns, for Compose to send.
Composition == [dev : Device, msg : Message, block : BlockType]

LEMMA OutboundType ==
  ASSUME NEW d \in Device
  PROVE  Outbound(d) \in Device /\ OutboundMessage(d) \in Message
<1>1. d.outbox \in Seq(Message)
  BY DEF Device
<1>2. PollMessage \in Message
  <2>1. "Poll" \in Code /\ <<>> \in Payload
    BY DEF Code, CommandCode, Payload
  <2> QED BY <2>1, MessageType DEF PollMessage
<1>3. CASE d.outbox = <<>>
  BY <1>2, <1>3 DEF Outbound, OutboundMessage
<1>4. CASE d.outbox # <<>>
  <2>1. Head(d.outbox) \in Message /\ Tail(d.outbox) \in Seq(Message)
    BY <1>1, <1>4
  <2>2. <<Head(d.outbox)>> \in Optional(Message)
    BY <2>1 DEF Optional
  <2>3. ASSUME NEW i \in Optional(Message), NEW o \in Seq(Message)
        PROVE  [d EXCEPT !.inflight = i, !.outbox = o] \in Device
    BY Zenon DEF Device
  <2> QED BY Zenon, <1>4, <2>1, <2>2, <2>3 DEF Outbound, OutboundMessage
<1> QED BY <1>3, <1>4

LEMMA BlockTypes ==
  /\ NoBlock \in BlockType /\ 11 \in BlockType /\ 13 \in BlockType
  /\ \A m : BlockForCommand(m) \in BlockType
BY DEF NoBlock, BlockType, BlockForCommand

LEMMA HandshakeCommandType ==
  ASSUME NEW d \in Device, NEW nonce \in Octet
  PROVE  HandshakeCommand(d, nonce) \in Composition
<1>1. d.pending \in Optional(Message) /\ d.session \in Session
  BY DEF Device
<1>2. CASE d.pending # <<>>
  <2>1. Head(d.pending) \in Message
    <3>1. d.pending[1] \in Message /\ d.pending = <<d.pending[1]>>
      BY <1>1, <1>2, OptionalElement
    <3> QED BY <3>1
  <2>2. [d EXCEPT !.pending = <<>>] \in Device
    BY Fields DEF Device
  <2> QED BY <1>2, <2>1, <2>2, BlockTypes DEF HandshakeCommand, Composition
<1>3. CASE d.pending = <<>>
  <2>1. "Challenged" \in SessionState
    BY DEF SessionState
  <2>2. BeginChallenge(d.session, nonce) \in Session
    BY Zenon, <1>1, <2>1 DEF BeginChallenge, Session
  <2>3. [d EXCEPT !.session = BeginChallenge(d.session, nonce)] \in Device
    BY <2>2, SessionFieldType
  <2>4. Msg("Chlng", <<nonce>>, 8) \in Message
    <3>1. "Chlng" \in Code /\ <<nonce>> \in Payload
      BY DEF Code, CommandCode, Payload
    <3> QED BY <3>1, MessageType
  <2> QED BY <1>3, <2>3, <2>4, BlockTypes DEF HandshakeCommand, Composition
<1> QED BY <1>2, <1>3

\* A device on whose turn a command may go out, and what it says then.
Taken(d)    == IF Polls(d) THEN [d EXCEPT !.deferCommands = FALSE] ELSE Outbound(d)
TakenMsg(d) == IF Polls(d) THEN PollMessage ELSE OutboundMessage(d)

LEMMA TakenType ==
  ASSUME NEW d \in Device
  PROVE  Taken(d) \in Device /\ TakenMsg(d) \in Message
<1>1. [d EXCEPT !.deferCommands = FALSE] \in Device
  BY Zenon DEF Device
<1>2. PollMessage \in Message
  <2>1. "Poll" \in Code /\ <<>> \in Payload
    BY DEF Code, CommandCode, Payload
  <2> QED BY <2>1, MessageType DEF PollMessage
<1> QED BY <1>1, <1>2, OutboundType DEF Taken, TakenMsg

\* The outcomes of CommandFor, by the state of the device.
LEMMA CommandForCases ==
  ASSUME NEW d \in Device, NEW nonce
  PROVE  \/ d.state = "Offline"
            /\ CommandFor(d, nonce) = [dev |-> d, msg |-> Msg("ID", <<0>>, 1), block |-> NoBlock]
         \/ d.state = "Identifying"
            /\ CommandFor(d, nonce) = [dev |-> d, msg |-> Msg("Cap", <<0>>, 1), block |-> NoBlock]
         \/ d.state = "SecureHandshake" /\ CommandFor(d, nonce) = HandshakeCommand(d, nonce)
         \/ d.state = "Secure"
            /\ CommandFor(d, nonce) = [dev |-> Taken(d), msg |-> TakenMsg(d),
                                       block |-> BlockForCommand(TakenMsg(d))]
         \/ d.state = "Online"
            /\ CommandFor(d, nonce) = [dev |-> Taken(d), msg |-> TakenMsg(d), block |-> NoBlock]
<1>1. d.state \in {"Offline", "Identifying", "Online", "SecureHandshake", "Secure"}
  BY DEF Device, DeviceState
<1> QED BY <1>1 DEF CommandFor, Taken, TakenMsg

LEMMA CommandForType ==
  ASSUME NEW d \in Device, NEW nonce \in Octet
  PROVE  CommandFor(d, nonce) \in Composition
<1>1. Msg("ID", <<0>>, 1) \in Message /\ Msg("Cap", <<0>>, 1) \in Message
  <2>1. "ID" \in Code /\ "Cap" \in Code /\ <<0>> \in Payload
    BY DEF Code, CommandCode, Payload, Octet
  <2> QED BY <2>1, MessageType
<1>2. ASSUME NEW q \in Device, NEW m \in Message, NEW b \in BlockType
      PROVE  [dev |-> q, msg |-> m, block |-> b] \in Composition
  BY DEF Composition
<1> QED
  BY <1>1, <1>2, CommandForCases, HandshakeCommandType, TakenType, BlockTypes

LEMMA NextSequenceType ==
  ASSUME NEW d \in Device
  PROVE  NextSequence(d) \in Device
<1>1. d.seq \in Sequence
  BY DEF Device
<1>2. Following(d.seq) \in Sequence
  BY <1>1 DEF Following, SequenceRotation, Sequence
<1>3. [d EXCEPT !.repeatSequence = FALSE] \in Device
  BY Zenon DEF Device
<1>4. [d EXCEPT !.seq = Following(d.seq)] \in Device
  BY <1>2 DEF Device
<1> QED BY <1>3, <1>4 DEF NextSequence

LEMMA AuthenticateType ==
  ASSUME NEW s \in Session, NEW body \in FrameBody, NEW isCommand
  PROVE  /\ MAC(s, isCommand, body) \in Tag
         /\ Authenticate(s, isCommand, body) \in Session
<1>1. s.base \in Octet /\ s.rndA \in Octet /\ s.rndB \in Octet
  BY DEF Session
<1>2. <<s.base, s.rndA, s.rndB>> \in Payload
  BY <1>1 DEF Payload
<1>3. ChainFor(s, isCommand) \in Tag
  BY DEF ChainFor, Session
<1>4. Append(ChainFor(s, isCommand).log, body) \in Seq(FrameBody)
  <2>1. ChainFor(s, isCommand).log \in Seq(FrameBody)
    BY <1>3 DEF Tag
  <2> QED BY <2>1
<1>5. MAC(s, isCommand, body) \in Tag
  BY <1>2, <1>4 DEF MAC, Tag
<1> QED BY <1>5, CommitType DEF Authenticate

LEMMA BodyType ==
  ASSUME NEW isReply \in BOOLEAN, NEW addr \in Octet, NEW seq \in Sequence,
         NEW block \in BlockType, NEW m \in Message
  PROVE  Body(isReply, addr, seq, block, m) \in FrameBody
<1>1. m.code \in Code /\ m.arg \in Payload /\ m.len \in Nat
  BY DEF Message
<1> QED BY <1>1 DEF Body, FrameBody

LEMMA ComposeType ==
  ASSUME NEW c \in Composition
  PROVE  Compose(c).dev \in Device /\ Compose(c).frame \in WireFrame
<1> DEFINE d    == NextSequence(c.dev)
           body == Body(FALSE, d.addr, d.seq, c.block, c.msg)
           s    == Authenticate(d.session, TRUE, body)
<1>1. c.dev \in Device /\ c.msg \in Message /\ c.block \in BlockType
  BY DEF Composition
<1>2. d \in Device
  BY <1>1, NextSequenceType
<1>3. d.addr \in Octet /\ d.seq \in Sequence /\ d.session \in Session
  BY <1>2 DEF Device
<1>4. body \in FrameBody
  BY Zenon, <1>1, <1>3, BodyType
<1>5. s \in Session
  BY Zenon, <1>3, <1>4, AuthenticateType
<1>6. s.cmac \in Tag
  BY Zenon, <1>5 DEF Session
<1>7. Compose(c) = IF EstablishedBlock(c.block)
                   THEN [dev |-> [d EXCEPT !.session = s], frame |-> Frame(body, s.cmac)]
                   ELSE [dev |-> d, frame |-> Frame(body, NoTag)]
  BY DEF Compose
<1> HIDE DEF d, body, s
<1>8. [d EXCEPT !.session = s] \in Device
  BY <1>2, <1>5, SessionFieldType
<1>9. Frame(body, s.cmac) \in WireFrame /\ Frame(body, NoTag) \in WireFrame
  BY <1>4, <1>6, NoTagType DEF Frame, WireFrame
<1> QED BY <1>2, <1>7, <1>8, <1>9

LEMMA TurnType ==
  ASSUME NEW d \in Device, NEW nonce \in Octet
  PROVE  Turn(d, nonce).dev \in Device /\ Turn(d, nonce).frame \in WireFrame
BY CommandForType, ComposeType DEF Turn

-----------------------------------------------------------------------------
(* Accepting work.                                                         *)

LEMMA EnqueueType ==
  ASSUME NEW d \in Device, NEW m \in Message
  PROVE  Enqueue(d, m) \in Device
<1>1. Append(d.outbox, m) \in Seq(Message)
  BY DEF Device
<1> QED BY Zenon, <1>1 DEF Enqueue, Device

LEMMA RequestedType ==
  /\ \A key \in NewKeys : KeySetCommand(key) \in Message
  /\ \A addr \in NewAddresses : CommunicationCommand(addr) \in Message
  /\ Accepted \subseteq Message
<1>1. "KeySet" \in Code /\ "ComSet" \in Code
  BY DEF Code, CommandCode
<1>2. ASSUME NEW x \in Octet PROVE <<x>> \in Payload
  BY DEF Payload
<1>3. \A key \in NewKeys : KeySetCommand(key) \in Message
  BY Zenon, <1>1, <1>2, BusAssumption, MessageType DEF KeySetCommand
<1>4. \A addr \in NewAddresses : CommunicationCommand(addr) \in Message
  BY Zenon, <1>1, <1>2, BusAssumption, MessageType DEF CommunicationCommand
<1> QED BY <1>3, <1>4, BusAssumption DEF Accepted

LEMMA InstallKeyType ==
  ASSUME NEW d \in Device, NEW key \in NewKeys
  PROVE  InstallKey(d, key) \in Device
<1>1. key \in Octet
  BY BusAssumption
<1>2. [d EXCEPT !.pendingKey = key] \in Device
  BY <1>1 DEF Device
<1> QED BY <1>2, EnqueueType, RequestedType DEF InstallKey

LEMMA NewDeviceType ==
  ASSUME NEW addr \in Octet
  PROVE  NewDevice(addr) \in Device
<1>1. "Offline" \in DeviceState /\ "None" \in EventKind /\ "Poll" \in Code
  BY Fields, Kinds DEF Code, CommandCode
<1>2. [kind \in StatusKind |-> <<>>] \in [StatusKind -> Contacts]
  BY DEF Contacts
<1> QED BY <1>1, <1>2, Fields DEF NewDevice, Device
=============================================================================
