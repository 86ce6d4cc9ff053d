----------------------------- MODULE BusEffects -----------------------------
(***************************************************************************)
(* What the operations of a device do to its queue, its session and its    *)
(* sequence number: the facts about BusDevice that make the invariant of   *)
(* the bus inductive.                                                      *)
(***************************************************************************)
EXTENDS BusTypes

\* The command in flight, if any, is the first element of what is held.
LEMMA HeldInFlight ==
  ASSUME NEW d \in Device
  PROVE  /\ Held(d) \in Seq(Message)
         /\ d.inflight = <<>> => Held(d) = d.outbox
         /\ d.inflight # <<>> => /\ Held(d) # <<>>
                                 /\ Head(Held(d)) = d.inflight[1]
                                 /\ Tail(Held(d)) = d.outbox
                                 /\ Len(Held(d)) = Len(d.outbox) + 1
<1>1. d.inflight \in Optional(Message) /\ d.outbox \in Seq(Message)
  BY DEF Device
<1>2. d.inflight \in Seq(Message)
  BY <1>1 DEF Optional
<1>3. Held(d) \in Seq(Message)
  BY <1>1, <1>2 DEF Held
<1>4. ASSUME d.inflight = <<>>
      PROVE  Held(d) = d.outbox
  BY <1>1, <1>4 DEF Held
<1>5. ASSUME d.inflight # <<>>
      PROVE  /\ Held(d) # <<>>
             /\ Head(Held(d)) = d.inflight[1]
             /\ Tail(Held(d)) = d.outbox
             /\ Len(Held(d)) = Len(d.outbox) + 1
  <2>1. PICK m \in Message : d.inflight = <<m>>
    BY <1>1, <1>5, OptionalElement
  <2> DEFINE o == d.outbox
             h == <<m>> \o o
  <2>2. o \in Seq(Message)
    BY <1>1
  <2>3. Held(d) = h /\ d.inflight[1] = m
    BY <2>1 DEF Held
  <2> HIDE DEF o
  <2>4. Len(h) = Len(o) + 1 /\ h[1] = m /\ h \in Seq(Message)
    BY <2>2
  <2>5. Tail(h) = o
    BY <2>2, <2>4
  <2> QED BY <2>2, <2>3, <2>4, <2>5 DEF o
<1> QED BY <1>3, <1>4, <1>5

\* The queue of e is the queue of d, and nothing of it is in flight.
Kept(d, e) == e.inflight = <<>> /\ e.outbox = Held(d)

LEMMA RequeueKeeps ==
  ASSUME NEW d \in Device
  PROVE  /\ Kept(d, Requeue(d))
         /\ Requeue(d).state = d.state /\ Requeue(d).session = d.session
         /\ Requeue(d).seq = d.seq /\ Requeue(d).addr = d.addr
         /\ Requeue(d).repeatSequence = d.repeatSequence
         /\ Requeue(d).deferCommands = d.deferCommands
         /\ Requeue(d).misses = d.misses
BY DEF Kept, Requeue, Held, Device

LEMMA ResyncKeeps ==
  ASSUME NEW d \in Device
  PROVE  /\ Kept(d, Resync(d))
         /\ Resync(d).state = "Offline" /\ ~Resync(d).repeatSequence
<1>1. Requeue(d) \in Device /\ Kept(d, Requeue(d))
  BY RequeueType, RequeueKeeps
<1>2. ASSUME NEW q \in Device
      PROVE  LET r == DropSession([q EXCEPT !.seq = 0, !.repeatSequence = FALSE,
                                            !.state = "Offline"])
             IN /\ r.inflight = q.inflight /\ r.outbox = q.outbox
                /\ r.state = "Offline" /\ ~r.repeatSequence
  BY DEF DropSession, Device
<1> QED BY Zenon, <1>1, <1>2 DEF Resync, Kept

LEMMA ReportKeeps ==
  ASSUME NEW d \in Device, NEW kind
  PROVE  /\ Report(d, kind).inflight = d.inflight /\ Report(d, kind).outbox = d.outbox
         /\ Report(d, kind).state = d.state /\ Report(d, kind).session = d.session
         /\ Report(d, kind).seq = d.seq /\ Report(d, kind).addr = d.addr
         /\ Report(d, kind).repeatSequence = d.repeatSequence
         /\ Report(d, kind).deferCommands = d.deferCommands
         /\ Report(d, kind).released = d.released
         /\ Report(d, kind).event = kind
BY DEF Report, Device

\* What the frame of a command depends on, besides the command.
Same(d, e) ==
  /\ e.state = d.state /\ e.session = d.session
  /\ e.seq = d.seq /\ e.addr = d.addr /\ e.deferCommands = d.deferCommands

LEMMA RetransmitKeeps ==
  ASSUME NEW d \in Device, ~d.repeatSequence
  PROVE  /\ Kept(d, Retransmit(d)) /\ Same(d, Retransmit(d))
         /\ Retransmit(d).repeatSequence = (d.inflight # <<>>)
         /\ Retransmit(d).misses = d.misses
<1>1. CASE d.inflight = <<>>
  <2>1. d.outbox = Held(d)
    BY <1>1, HeldInFlight
  <2>2. d.repeatSequence = FALSE
    BY DEF Device
  <2> QED BY Zenon, <1>1, <2>1, <2>2 DEF Retransmit, Kept, Same
<1>2. CASE d.inflight # <<>>
  <2> DEFINE q == Requeue(d)
  <2>1. q \in Device /\ Kept(d, q) /\ Same(d, q) /\ q.misses = d.misses
    BY RequeueType, RequeueKeeps DEF Same
  <2>2. Retransmit(d) = [q EXCEPT !.repeatSequence = TRUE]
    BY <1>2 DEF Retransmit
  <2> HIDE DEF q
  <2>3. LET r == [q EXCEPT !.repeatSequence = TRUE]
        IN Kept(d, r) /\ Same(d, r) /\ r.repeatSequence = TRUE /\ r.misses = d.misses
    BY <2>1 DEF Kept, Same, Device
  <2> QED BY Zenon, <1>2, <2>2, <2>3
<1> QED BY <1>1, <1>2

\* A miss keeps the queue.  Either the command in flight will be repeated as it
\* was, or the device is given up as offline and reported.
LEMMA TimeoutKeeps ==
  ASSUME NEW d \in Device, ~d.repeatSequence
  PROVE  /\ Kept(d, Timeout(d))
         /\ \/ /\ Same(d, Timeout(d)) /\ Timeout(d).event = "None"
               /\ Timeout(d).repeatSequence = (d.inflight # <<>>)
            \/ /\ Timeout(d).state = "Offline" /\ Timeout(d).event = "Offline"
               /\ ~Timeout(d).repeatSequence /\ d.misses # 0
<1> DEFINE c == [d EXCEPT !.misses = IF @ < OfflineThreshold THEN @ + 1 ELSE @]
           m == Retransmit(c)
<1>1. /\ c \in Device /\ ~c.repeatSequence /\ Same(d, c)
      /\ c.inflight = d.inflight /\ Held(c) = Held(d)
  <2>1. c \in Device
    BY MissedType
  <2>2. ASSUME NEW n
        PROVE  LET x == [d EXCEPT !.misses = n]
               IN /\ x.repeatSequence = d.repeatSequence /\ Same(d, x)
                  /\ x.inflight = d.inflight /\ x.outbox = d.outbox
    BY DEF Same, Device
  <2>3. /\ c.repeatSequence = d.repeatSequence /\ Same(d, c)
        /\ c.inflight = d.inflight /\ c.outbox = d.outbox
    BY Zenon, <2>2
  <2> HIDE DEF c
  <2> QED BY Zenon, <2>1, <2>3 DEF Held
<1>2. \/ Timeout(d) = Report(m, "None")
      \/ Timeout(d) = Report(Resync(m), "Offline") /\ m.misses >= OfflineThreshold
  <2>1. m.misses \in Nat /\ OfflineThreshold \in Nat
    BY <1>1, RetransmitType DEF Device, OfflineThreshold
  <2> HIDE DEF m
  <2> QED BY <2>1 DEF Timeout, m
<1>3. d.misses = 0 => c.misses = 1
  BY DEF Device, OfflineThreshold
<1>4. m.misses = c.misses
  BY Zenon, <1>1, RetransmitKeeps
<1> HIDE DEF c
<1>5. m \in Device /\ Resync(m) \in Device
  BY <1>1, RetransmitType, ResyncType
<1>6. Kept(d, m) /\ Same(d, m) /\ m.repeatSequence = (d.inflight # <<>>)
  BY <1>1, RetransmitKeeps DEF Kept, Same
<1> HIDE DEF m
<1>7. Kept(d, Resync(m)) /\ Resync(m).state = "Offline" /\ ~Resync(m).repeatSequence
  <2>1. Held(m) = Held(d)
    <3>1. m.inflight = <<>> /\ m.outbox = Held(d)
      BY <1>6 DEF Kept
    <3> QED BY <1>5, <3>1, HeldInFlight
  <2> QED BY <1>5, <2>1, ResyncKeeps DEF Kept
<1>8. CASE Timeout(d) = Report(m, "None")
  BY <1>5, <1>6, <1>8, ReportKeeps DEF Kept, Same
<1>9. CASE Timeout(d) = Report(Resync(m), "Offline") /\ m.misses >= OfflineThreshold
  <2>1. d.misses # 0
    BY <1>9, <1>3, <1>4 DEF OfflineThreshold
  <2> QED BY <1>5, <1>7, <1>9, <2>1, ReportKeeps DEF Kept, Same
<1> QED BY <1>2, <1>8, <1>9

-----------------------------------------------------------------------------
(* Answers.                                                                *)

\* An answer leaves nothing in flight and nothing to repeat, keeps the queue or
\* puts the command just answered back in front, keeps the session fit for the
\* state, and takes a device offline only by moving it to a new address.
Answered(d, e) ==
  /\ e.inflight = <<>> /\ ~e.repeatSequence
  /\ (e.outbox = d.outbox /\ e.event # "Busy") \/ e.outbox = d.released \o d.outbox
  /\ SessionFits(d) => SessionFits(e)
  /\ e.state = "Offline" => d.state = "Offline" \/ e.event = "Communication"

\* What most answers leave alone.
Aside(d, e) ==
  /\ e.inflight = d.inflight /\ e.repeatSequence = d.repeatSequence
  /\ e.outbox = d.outbox

LEMMA ReportAnswers ==
  ASSUME NEW d \in Device, NEW e \in Device, NEW kind, kind # "Busy",
         d.inflight = <<>>, ~d.repeatSequence, Aside(d, e),
         SessionFits(d) => SessionFits(e),
         e.state = "Offline" => d.state = "Offline"
  PROVE  Answered(d, Report(e, kind))
<1> DEFINE r == Report(e, kind)
<1>1. /\ r.inflight = <<>> /\ ~r.repeatSequence /\ r.outbox = d.outbox /\ r.event = kind
      /\ r.state = e.state /\ r.session = e.session
  BY ReportKeeps DEF Aside
<1> HIDE DEF r
<1>2. SessionFits(e) => SessionFits(r)
  BY <1>1 DEF SessionFits, SecureEstablished
<1>3. Answered(d, r)
  BY Zenon, <1>1, <1>2 DEF Answered
<1> QED BY <1>3 DEF r

LEMMA OnOtherAnswers ==
  ASSUME NEW d \in Device, d.inflight = <<>>, ~d.repeatSequence
  PROVE  Answered(d, OnOther(d)) /\ Answered(d, OnIdentity(d))
<1> DEFINE e == [d EXCEPT !.state = "Identifying"]
<1>1. e \in Device /\ Aside(d, e) /\ e.state = "Identifying"
  BY StateType, Fields DEF Aside, Device
<1>2. Aside(d, d)
  BY DEF Aside
<1>3. SessionFits(e)
  BY <1>1 DEF SessionFits
<1>4. /\ OnOther(d) = Report(e, "Online") \/ OnOther(d) = Report(d, "None")
      /\ OnIdentity(d) = Report(e, "Identified")
  BY DEF OnOther, OnIdentity
<1> HIDE DEF e
<1> QED BY <1>1, <1>2, <1>3, <1>4, ReportAnswers

LEMMA OnCapabilitiesAnswers ==
  ASSUME NEW d \in Device, d.inflight = <<>>, ~d.repeatSequence,
         NEW arg \in Payload, Len(arg) = 2
  PROVE  Answered(d, OnCapabilities(d, arg))
<1>1. arg[2] \in Nat
  BY SecondType
<1>2. ASSUME NEW n \in Nat, NEW capable
      PROVE  LET e == AfterCapabilities([d EXCEPT !.buffer = n], capable)
             IN e \in Device /\ Aside(d, e) /\ SessionFits(e) /\ e.state # "Offline"
  <2> DEFINE b == [d EXCEPT !.buffer = n]
             e == AfterCapabilities(b, capable)
  <2>1. b \in Device /\ Aside(d, b)
    BY DEF Aside, Device
  <2> HIDE DEF b
  <2>2. e \in Device
    BY <2>1, AfterCapabilitiesType
  <2>3. NewSession(BaseKey(b)).state # "None"
    BY DEF NewSession, NoSession
  <2>4. \/ e = [b EXCEPT !.state = "Online"]
        \/ e = [b EXCEPT !.state = "Online", !.secureDeclined = TRUE]
        \/ e = [b EXCEPT !.session = NewSession(BaseKey(b)), !.state = "SecureHandshake"]
    BY DEF AfterCapabilities
  <2> HIDE DEF e
  <2>5. Aside(d, e) /\ e.state # "Offline" /\ SessionFits(e)
    BY Zenon, <2>1, <2>3, <2>4 DEF Aside, Device, SessionFits
  <2> QED BY <2>2, <2>5 DEF e, b
<1>3. PICK kind \in {"Capabilities", "Online"} : OnCapabilities(d, arg)
               = Report(AfterCapabilities([d EXCEPT !.buffer = arg[2]], arg[1] = 1), kind)
  BY DEF OnCapabilities
<1> QED BY <1>1, <1>2, <1>3, ReportAnswers

LEMMA SecureFailureAnswers ==
  ASSUME NEW d \in Device, d.inflight = <<>>, ~d.repeatSequence
  PROVE  Answered(d, SecureFailure(d))
<1> DEFINE e == [AbandonSecure(d) EXCEPT !.state = "Online"]
<1>1. DropSession(d) \in Device /\ Aside(d, DropSession(d))
  BY Zenon, DropSessionType DEF DropSession, Aside, Device
<1>2. ASSUME NEW q \in Device, Aside(d, q)
      PROVE  LET r == [[q EXCEPT !.secureDeclined = TRUE] EXCEPT !.state = "Online"]
             IN r \in Device /\ Aside(d, r) /\ r.state = "Online"
  <2>1. "Online" \in DeviceState
    BY Fields
  <2> QED BY Zenon, <1>2, <2>1 DEF Aside, Device
<1>3. e \in Device /\ Aside(d, e) /\ e.state = "Online"
  BY Zenon, <1>1, <1>2 DEF AbandonSecure
<1>4. SecureFailure(d) = Report(e, "SecureFailed")
  BY DEF SecureFailure
<1> HIDE DEF e
<1>5. SessionFits(e)
  BY <1>3 DEF SessionFits
<1> QED BY <1>3, <1>4, <1>5, ReportAnswers

LEMMA OnCryptogramAnswers ==
  ASSUME NEW d \in Device, d.inflight = <<>>, ~d.repeatSequence, NEW arg \in Payload
  PROVE  Answered(d, OnCryptogram(d, arg))
<1>1. CASE ~AcceptsCCrypt(d.session, arg)
  BY <1>1, SecureFailureAnswers DEF OnCryptogram
<1>2. CASE AcceptsCCrypt(d.session, arg)
  <2> DEFINE s == AnswerClient(d.session, arg)
             p == <<Msg("SCrypt", SCryptPayload(s), 16)>>
             e == [d EXCEPT !.session = s, !.pending = p]
  <2>1. d.session.state = "Challenged" /\ d.session \in Session
    BY <1>2 DEF AcceptsCCrypt, Device
  <2>2. s.state = "Cryptogram"
    BY <2>1 DEF AnswerClient, Session
  <2>3. s.state # "None"
    BY <2>2
  <2>4. OnCryptogram(d, arg) = Report(e, "None")
    BY <1>2 DEF OnCryptogram
  <2> HIDE DEF s, p
  <2>5. Aside(d, e) /\ e.state = d.state /\ e.session = s
    BY DEF Aside, Device
  <2>6. SessionFits(d) => SessionFits(e)
    BY <2>1, <2>3, <2>5 DEF SessionFits, SecureEstablished, Established
  <2> HIDE DEF e
  <2>7. ASSUME NEW kind
        PROVE  LET r == Report(e, kind)
               IN Aside(d, r) /\ r.state = d.state /\ r.session = s /\ r.event = kind
    BY <2>5 DEF Report, Aside, Device, e
  <2> QED BY Zenon, <2>4, <2>5, <2>6, <2>7 DEF Answered, Aside, SessionFits, SecureEstablished
<1> QED BY <1>1, <1>2

LEMMA OnInitialRMACAnswers ==
  ASSUME NEW d \in Device, d.inflight = <<>>, ~d.repeatSequence, NEW arg \in Payload
  PROVE  Answered(d, OnInitialRMAC(d, arg))
<1>1. CASE ~AcceptsRMAC(d.session, arg)
  BY <1>1, SecureFailureAnswers DEF OnInitialRMAC
<1>2. CASE AcceptsRMAC(d.session, arg)
  <2> DEFINE s == CompleteHandshake(d.session)
             r == Report([d EXCEPT !.session = s, !.state = "Secure"], "Secure")
  <2>1. Established(s)
    <3>1. d.session \in Session
      BY DEF Device
    <3> QED BY <3>1 DEF CompleteHandshake, Established, Session
  <2>2. OnInitialRMAC(d, arg) = r
    BY <1>2 DEF OnInitialRMAC
  <2> HIDE DEF s
  <2>3. Aside(d, r) /\ r.state = "Secure" /\ r.session = s /\ r.event = "Secure"
    BY DEF Aside, Device, Report
  <2> HIDE DEF r
  <2> QED BY <2>1, <2>2, <2>3 DEF Answered, Aside, SessionFits, SecureEstablished
<1> QED BY <1>1, <1>2

LEMMA KeySetAnswers ==
  ASSUME NEW d \in Device, d.inflight = <<>>, ~d.repeatSequence
  PROVE  Answered(d, OnKeyInstalled(d)) /\ Answered(d, Report(KeySetRefused(d), "NAK"))
<1>1. Answered(d, Report(KeySetRefused(d), "NAK"))
  <2>1. LET e == KeySetRefused(d)
        IN e \in Device /\ Aside(d, e) /\ e.state = d.state /\ e.session = d.session
    BY KeySetRefusedType DEF KeySetRefused, Aside, Device
  <2> QED BY <2>1, ReportAnswers DEF SessionFits, SecureEstablished
<1>2. Answered(d, OnKeyInstalled(d))
  <2> DEFINE q == DropSession(d)
             r == Report([q EXCEPT !.installedKey = d.pendingKey, !.pendingKey = NoKey,
                                   !.state = "Identifying"], "KeyInstalled")
  <2>1. q \in Device /\ Aside(d, q)
    BY Zenon, DropSessionType DEF DropSession, Aside, Device
  <2>2. OnKeyInstalled(d) = r
    BY DEF OnKeyInstalled
  <2> HIDE DEF q
  <2>3. Aside(d, r) /\ r.state = "Identifying" /\ r.event = "KeyInstalled"
    BY <2>1 DEF Aside, Device, Report
  <2> HIDE DEF r
  <2> QED BY <2>2, <2>3 DEF Answered, Aside, SessionFits
<1> QED BY <1>1, <1>2

LEMMA OnCommunicationAnswers ==
  ASSUME NEW d \in Device, d.inflight = <<>>, ~d.repeatSequence, NEW addr \in Octet
  PROVE  Answered(d, OnCommunication(d, addr))
<1> DEFINE c == [d EXCEPT !.addr = addr]
<1>1. c \in Device /\ Aside(d, c)
  BY DEF Aside, Device
<1>2. OnCommunication(d, addr) = Report(Resync(c), "Communication")
  BY DEF OnCommunication
<1> HIDE DEF c
<1>3. Held(c) = d.outbox
  BY <1>1, HeldInFlight DEF Aside
<1>4. /\ Resync(c) \in Device /\ Resync(c).inflight = <<>> /\ Resync(c).outbox = d.outbox
      /\ Resync(c).state = "Offline" /\ ~Resync(c).repeatSequence
  BY <1>1, <1>3, ResyncType, ResyncKeeps DEF Kept
<1>5. LET e == OnCommunication(d, addr)
      IN /\ e.inflight = <<>> /\ e.outbox = d.outbox /\ ~e.repeatSequence
         /\ e.state = "Offline" /\ e.event = "Communication"
  BY <1>2, <1>4, ReportKeeps
<1> QED BY <1>5 DEF Answered, SessionFits

LEMMA OnBusyAnswers ==
  ASSUME NEW d \in Device, d.inflight = <<>>, ~d.repeatSequence
  PROVE  /\ Answered(d, OnBusy(d))
         /\ OnBusy(d).outbox = d.released \o d.outbox
<1> DEFINE c == [d EXCEPT !.inflight = d.released, !.released = <<>>]
           q == Reclaim(d)
           r == [q EXCEPT !.deferCommands = TRUE]
<1>1. OnBusy(d) = Report(r, "Busy")
  BY DEF OnBusy
<1>2. /\ q \in Device /\ q.inflight = <<>> /\ q.outbox = d.released \o d.outbox
      /\ ~q.repeatSequence /\ q.state = d.state /\ q.session = d.session
  <2>1. c \in Device
    BY Zenon, Fields DEF Device
  <2>2. /\ Held(c) = d.released \o d.outbox /\ ~c.repeatSequence
        /\ c.state = d.state /\ c.session = d.session
    BY DEF Held, Device
  <2>3. q = IF d.released = <<>> THEN d ELSE Requeue(c)
    BY DEF Reclaim
  <2> HIDE DEF c, q
  <2>4. CASE d.released = <<>>
    <3>1. d.released \o d.outbox = d.outbox
      BY <2>4 DEF Device
    <3> QED BY <2>3, <2>4, <3>1
  <2>5. CASE d.released # <<>>
    BY Zenon, <2>1, <2>2, <2>3, <2>5, RequeueType, RequeueKeeps DEF Kept
  <2> QED BY Zenon, <2>4, <2>5
<1> HIDE DEF q
<1>3. LET e == Report(r, "Busy")
      IN /\ e.inflight = <<>> /\ e.outbox = d.released \o d.outbox
         /\ ~e.repeatSequence /\ e.state = d.state /\ e.session = d.session
  BY <1>2 DEF Report, Device
<1> QED BY Zenon, <1>1, <1>3 DEF Answered, SessionFits, SecureEstablished

LEMMA OnStatusAnswers ==
  ASSUME NEW d \in Device, d.inflight = <<>>, ~d.repeatSequence,
         NEW m \in Message, ~Malformed(m)
  PROVE  Answered(d, OnStatus(d, m))
<1> DEFINE e == OnStatus(d, m)
<1>1. /\ e.inflight = d.inflight /\ e.outbox = d.outbox /\ e.released = d.released
      /\ e.repeatSequence = d.repeatSequence /\ e.state = d.state /\ e.session = d.session
  BY DEF OnStatus, Report, Device
<1>2. e.event = "Status" \/ e.event = "None"
  BY DEF OnStatus, Report, Device
<1>3. SessionFits(d) => SessionFits(e)
  BY <1>1 DEF SessionFits, SecureEstablished
<1> HIDE DEF e
<1>4. Answered(d, e)
  BY Zenon, <1>1, <1>2, <1>3 DEF Answered
<1> QED BY <1>4 DEF e

LEMMA DispatchAnswers ==
  ASSUME NEW d \in Device, d.inflight = <<>>, ~d.repeatSequence,
         NEW m \in Message, ~Malformed(m)
  PROVE  Answered(d, Dispatch(d, m))
<1>1. m.arg \in Payload
  BY DEF Message
<1>2. m.code = "PDCap" => Answered(d, OnCapabilities(d, m.arg))
  BY <1>1, OnCapabilitiesAnswers DEF Malformed, UnevenCapabilities
<1>3. m.code = "Com" => Answered(d, OnCommunication(d, m.arg[1]))
  <2> SUFFICES ASSUME m.code = "Com" PROVE Answered(d, OnCommunication(d, m.arg[1]))
    OBVIOUS
  <2>1. m.arg # <<>>
    BY DEF Malformed, ShortCommunication
  <2>2. 1 \in 1..Len(m.arg)
    BY <1>1, <2>1 DEF Payload
  <2>3. m.arg[1] \in Octet
    BY <1>1, <2>2, Element DEF Payload
  <2> QED BY <2>3, OnCommunicationAnswers
<1>4. Answered(d, OnCryptogram(d, m.arg)) /\ Answered(d, OnInitialRMAC(d, m.arg))
  BY <1>1, OnCryptogramAnswers, OnInitialRMACAnswers
<1>5. \A kind \in {"CardRead", "Keypad", "Manufacturer"} : Answered(d, Report(d, kind))
  BY ReportAnswers DEF Aside
<1>6. Answered(d, OnStatus(d, m))
  BY OnStatusAnswers
<1> QED
  BY Zenon, <1>2, <1>3, <1>4, <1>5, <1>6, DispatchCases, OnOtherAnswers, KeySetAnswers, OnBusyAnswers

\* The answered device: the command is out of flight, and its queue and the
\* state of its session are those of before.
LEMMA DeliveredOpened ==
  ASSUME NEW d \in Device, ~d.repeatSequence, NEW f \in WireFrame
  PROVE  LET g == Delivered(Opened(d, f))
         IN /\ g \in Device /\ g.inflight = <<>> /\ ~g.repeatSequence
            /\ g.released = d.inflight /\ g.outbox = d.outbox
            /\ g.state = d.state /\ g.misses = 0
            /\ SessionFits(d) => SessionFits(g)
<1> DEFINE o == Opened(d, f)
           g == Delivered(o)
<1>1. o \in Device /\ g \in Device
  BY OpenedType, DeliveredType
<1>2. Aside(d, o) /\ o.state = d.state /\ o.misses = 0
  BY DEF Opened, Aside, Device
<1>3. SessionFits(d) => SessionFits(o)
  <2>1. CASE ~SecureEstablished(d)
    <3>1. o.session = d.session
      BY <2>1 DEF Opened, Device
    <3> QED BY <1>2, <3>1 DEF SessionFits, SecureEstablished
  <2>2. CASE SecureEstablished(d)
    <3>1. o.session = Commit(d.session, FALSE, f.tag)
      BY <2>2 DEF Opened, Device
    <3>2. d.session \in Session
      BY DEF Device
    <3>3. o.session.state = "Established"
      BY <2>2, <3>1, <3>2 DEF Commit, Session, SecureEstablished, Established
    <3> QED BY <3>3 DEF SessionFits, SecureEstablished, Established
  <2> QED BY <2>1, <2>2
<1> HIDE DEF o
<1>4. /\ g.inflight = <<>> /\ g.repeatSequence = o.repeatSequence /\ g.released = o.inflight
      /\ g.outbox = o.outbox /\ g.state = o.state /\ g.session = o.session
      /\ g.misses = o.misses
  BY <1>1 DEF Delivered, Device
<1> HIDE DEF g
<1>5. SessionFits(o) => SessionFits(g)
  BY <1>4 DEF SessionFits, SecureEstablished
<1> QED BY <1>1, <1>2, <1>3, <1>4, <1>5 DEF Aside, g, o

\* A reply, of whatever kind, is a miss or settles the transaction.
Settled(d, e) ==
  /\ e.inflight = <<>> /\ ~e.repeatSequence
  /\ \/ e.outbox = Held(d)
     \/ /\ d.inflight # <<>> /\ e.outbox = d.outbox /\ e.event # "Busy"
        /\ e.state = "Offline" => d.state = "Offline" \/ e.event = "Communication"
  /\ SessionFits(d) => SessionFits(e)
  /\ e.state = "Offline" =>
       d.state = "Offline" \/ e.event \in {"Offline", "Resync", "SecureFailed", "Communication"}

LEMMA ResyncSettles ==
  ASSUME NEW d \in Device, NEW kind \in {"Resync", "SecureFailed"}
  PROVE  Settled(d, Report(Resync([d EXCEPT !.misses = 0]), kind))
<1> DEFINE c == [d EXCEPT !.misses = 0]
           e == Report(Resync(c), kind)
<1>1. c \in Device /\ Held(c) = Held(d)
  BY HeardType DEF Held, Device
<1> HIDE DEF c
<1>2. /\ Resync(c) \in Device /\ Kept(d, Resync(c)) /\ Resync(c).state = "Offline"
      /\ ~Resync(c).repeatSequence
  BY <1>1, ResyncType, ResyncKeeps DEF Kept
<1>3. /\ e.inflight = <<>> /\ e.outbox = Held(d) /\ ~e.repeatSequence
      /\ e.state = "Offline" /\ e.event = kind
  BY <1>2, ReportKeeps DEF Kept
<1> HIDE DEF e
<1>4. Settled(d, e)
  BY <1>3 DEF Settled, SessionFits
<1> QED BY <1>4 DEF e, c

LEMMA ReplySettles ==
  ASSUME NEW d \in Device, ~d.repeatSequence, NEW f \in WireFrame
  PROVE  Reply(d, f) = Timeout(d) \/ Settled(d, Reply(d, f))
<1> DEFINE g == Delivered(Opened(d, f))
<1>1. /\ g \in Device /\ g.inflight = <<>> /\ ~g.repeatSequence
      /\ g.released = d.inflight /\ g.outbox = d.outbox
      /\ g.state = d.state /\ g.misses = 0
      /\ SessionFits(d) => SessionFits(g)
  BY DeliveredOpened
<1>2. /\ d.inflight \o d.outbox = Held(d)
      /\ d.inflight = <<>> => Held(d) = d.outbox
  BY Zenon, HeldInFlight DEF Held
<1>3. \/ Reply(d, f) = Timeout(d)
      \/ \E kind \in {"Resync", "SecureFailed"} :
           Reply(d, f) = Report(Resync([d EXCEPT !.misses = 0]), kind)
      \/ Reply(d, f) = Timeout(g)
      \/ ~Malformed(MessageOf(f)) /\ Reply(d, f) = Dispatch(g, MessageOf(f))
  BY ReplyCases
<1> HIDE DEF g
<1>4. Settled(d, Timeout(g))
  <2> DEFINE e == Timeout(g)
  <2>1. /\ e.inflight = <<>> /\ e.outbox = Held(g) /\ ~e.repeatSequence
        /\ Same(g, e) /\ e.event = "None"
    BY Zenon, <1>1, TimeoutKeeps DEF Kept
  <2>2. Held(g) = d.outbox
    BY <1>1, HeldInFlight
  <2> HIDE DEF e
  <2>3. e.state = "Offline" => d.state = "Offline"
    BY <1>1, <2>1 DEF Same
  <2>4. SessionFits(d) => SessionFits(e)
    BY <1>1, <2>1 DEF SessionFits, Same, SecureEstablished
  <2>5. Settled(d, e)
    BY <1>1, <1>2, <2>1, <2>2, <2>3, <2>4 DEF Settled
  <2> QED BY <2>5 DEF e
<1>5. ~Malformed(MessageOf(f)) => Settled(d, Dispatch(g, MessageOf(f)))
  <2> DEFINE e == Dispatch(g, MessageOf(f))
  <2> SUFFICES ASSUME ~Malformed(MessageOf(f)) PROVE Settled(d, e)
    OBVIOUS
  <2>1. Answered(g, e)
    BY <1>1, DispatchAnswers, MessageOfType
  <2> HIDE DEF e
  <2>2. \/ e.outbox = Held(d)
        \/ d.inflight # <<>> /\ e.outbox = d.outbox /\ e.event # "Busy"
    BY <1>1, <1>2, <2>1 DEF Answered
  <2> QED BY <1>1, <2>1, <2>2 DEF Answered, Settled
<1> QED BY <1>3, <1>4, <1>5, ResyncSettles

-----------------------------------------------------------------------------
(* Turns.                                                                  *)

\* What a command's authentication code is computed from.
SameChain(s, t) ==
  t.base = s.base /\ t.rndA = s.rndA /\ t.rndB = s.rndB /\ t.rmac = s.rmac /\ t.state = s.state

LEMMA NextSequenceKeeps ==
  ASSUME NEW d \in Device
  PROVE  LET n == NextSequence(d)
         IN /\ n.inflight = d.inflight /\ n.outbox = d.outbox /\ ~n.repeatSequence
            /\ n.state = d.state /\ n.session = d.session /\ n.addr = d.addr
            /\ n.deferCommands = d.deferCommands
            /\ d.repeatSequence => n.seq = d.seq
<1>1. CASE d.repeatSequence
  BY <1>1 DEF NextSequence, Device
<1>2. CASE ~d.repeatSequence
  BY <1>2 DEF NextSequence, Device
<1> QED BY <1>1, <1>2

\* Composing a frame touches the number and, of the session, the code of the
\* last command, which the next command's code does not depend on.
LEMMA ComposeKeeps ==
  ASSUME NEW c \in Composition
  PROVE  LET e == Compose(c).dev
             n == NextSequence(c.dev)
         IN /\ e.inflight = c.dev.inflight /\ e.outbox = c.dev.outbox /\ ~e.repeatSequence
            /\ e.state = c.dev.state /\ e.deferCommands = c.dev.deferCommands
            /\ e.seq = n.seq /\ e.addr = n.addr
            /\ SameChain(n.session, e.session)
<1> DEFINE n    == NextSequence(c.dev)
           body == Body(FALSE, n.addr, n.seq, c.block, c.msg)
           s    == Authenticate(n.session, TRUE, body)
           e    == Compose(c).dev
<1>1. c.dev \in Device
  BY DEF Composition
<1>2. n \in Device
  BY <1>1, NextSequenceType
<1>3. /\ n.inflight = c.dev.inflight /\ n.outbox = c.dev.outbox /\ ~n.repeatSequence
      /\ n.state = c.dev.state /\ n.deferCommands = c.dev.deferCommands
  BY <1>1, NextSequenceKeeps
<1>4. n.session \in Session
  BY <1>2 DEF Device
<1>5. SameChain(n.session, s) /\ SameChain(n.session, n.session)
  BY <1>4 DEF SameChain, Authenticate, Commit, Session
<1>6. e = n \/ e = [n EXCEPT !.session = s]
  BY DEF Compose
<1> HIDE DEF n, s, e
<1>7. /\ e.inflight = n.inflight /\ e.outbox = n.outbox
      /\ e.repeatSequence = n.repeatSequence /\ e.state = n.state
      /\ e.deferCommands = n.deferCommands /\ e.seq = n.seq /\ e.addr = n.addr
      /\ e.session = n.session \/ e.session = s
  BY <1>2, <1>6 DEF Device
<1> QED BY <1>3, <1>5, <1>7 DEF n, e

\* Two devices alike in what a command's frame is made from.
LEMMA CommandFrameSame ==
  ASSUME NEW d, NEW e, NEW m, d.addr = e.addr, d.seq = e.seq, d.state = e.state,
         SameChain(d.session, e.session)
  PROVE  CommandFrame(d, m) = CommandFrame(e, m)
BY DEF CommandFrame, MAC, ChainFor, SameChain

LEMMA ComposeCommand ==
  ASSUME NEW c \in Composition, c.dev.state \in {"Online", "Secure"},
         c.block = IF c.dev.state = "Secure" THEN BlockForCommand(c.msg) ELSE NoBlock
  PROVE  /\ Compose(c).frame = CommandFrame(NextSequence(c.dev), c.msg)
         /\ Compose(c).frame = CommandFrame(Compose(c).dev, c.msg)
<1> DEFINE n    == NextSequence(c.dev)
           body == Body(FALSE, n.addr, n.seq, c.block, c.msg)
           s    == Authenticate(n.session, TRUE, body)
<1>1. c.dev \in Device
  BY DEF Composition
<1>2. n \in Device /\ n.state = c.dev.state
  BY <1>1, NextSequenceType, NextSequenceKeeps
<1>3. n.session \in Session
  BY <1>2 DEF Device
<1>4. s.cmac = MAC(n.session, TRUE, body)
  BY <1>3 DEF Authenticate, Commit, Session
<1>5. EstablishedBlock(c.block) <=> n.state = "Secure"
  BY <1>2 DEF EstablishedBlock, BlockForCommand, NoBlock
<1>6. Compose(c).frame = IF EstablishedBlock(c.block) THEN Frame(body, s.cmac)
                                                       ELSE Frame(body, NoTag)
  BY DEF Compose
<1>7. CommandFrame(n, c.msg)
        = Frame(body, IF n.state = "Secure" THEN MAC(n.session, TRUE, body) ELSE NoTag)
  BY <1>2 DEF CommandFrame
<1>8. Compose(c).frame = CommandFrame(n, c.msg)
  BY Zenon, <1>4, <1>5, <1>6, <1>7
<1>9. CommandFrame(n, c.msg) = CommandFrame(Compose(c).dev, c.msg)
  BY <1>2, ComposeKeeps, CommandFrameSame
<1> QED BY <1>8, <1>9

\* A device with work that nothing withholds: its turn takes the head of the
\* queue into flight.
LEMMA TakenKeeps ==
  ASSUME NEW d \in Device, d.inflight = <<>>
  PROVE  LET t == Taken(d)
         IN /\ Held(t) = Held(d)
            /\ t.state = d.state /\ t.session = d.session /\ t.seq = d.seq /\ t.addr = d.addr
            /\ t.repeatSequence = d.repeatSequence
            /\ t.inflight # <<>> =>
                 /\ d.outbox # <<>> /\ ~Polls(d) /\ ~t.deferCommands
                 /\ t.inflight[1] = d.outbox[1] /\ TakenMsg(d) = d.outbox[1]
<1>1. d.outbox \in Seq(Message)
  BY DEF Device
<1>2. CASE Polls(d)
  <2>1. Taken(d) = [d EXCEPT !.deferCommands = FALSE]
    BY <1>2 DEF Taken
  <2> QED BY <2>1 DEF Held, Device
<1>3. CASE ~Polls(d) /\ d.outbox = <<>>
  BY <1>3 DEF Taken, Outbound
<1>4. CASE ~Polls(d) /\ d.outbox # <<>>
  <2> DEFINE h == <<Head(d.outbox)>>
             o == Tail(d.outbox)
  <2>1. Taken(d) = [d EXCEPT !.inflight = h, !.outbox = o] /\ TakenMsg(d) = Head(d.outbox)
    BY <1>4 DEF Taken, TakenMsg, Outbound, OutboundMessage
  <2>2. h \o o = d.outbox /\ h[1] = d.outbox[1] /\ Head(d.outbox) = d.outbox[1]
    BY <1>1, <1>4
  <2>3. ~d.deferCommands
    BY <1>4 DEF Polls
  <2>4. Held(d) = d.outbox
    BY HeldInFlight
  <2> HIDE DEF h, o
  <2>5. LET t == [d EXCEPT !.inflight = h, !.outbox = o]
        IN /\ Held(t) = h \o o /\ t.inflight = h
           /\ t.state = d.state /\ t.session = d.session /\ t.seq = d.seq /\ t.addr = d.addr
           /\ t.repeatSequence = d.repeatSequence /\ t.deferCommands = d.deferCommands
    BY DEF Held, Device
  <2> QED BY <1>4, <2>1, <2>2, <2>3, <2>4, <2>5
<1> QED BY <1>2, <1>3, <1>4

\* A turn keeps the queue, sends the number a repeat asked for, and leaves a
\* command in flight only as the last frame carries it.
Spoken(d, e, f) ==
  /\ Held(e) = Held(d) /\ ~e.repeatSequence /\ e.state = d.state
  /\ SessionFits(d) => SessionFits(e)
  /\ e.inflight # <<>> =>
       /\ e.state \in {"Online", "Secure"} /\ ~e.deferCommands
       /\ e.inflight[1].code = "KeySet" => SecureEstablished(e)
       /\ f = CommandFrame(e, e.inflight[1])

LEMMA HandshakeSpeaks ==
  ASSUME NEW d \in Device, d.inflight = <<>>, d.state = "SecureHandshake", NEW nonce \in Octet
  PROVE  Spoken(d, Turn(d, nonce).dev, Turn(d, nonce).frame)
<1> DEFINE c == HandshakeCommand(d, nonce)
           e == Compose(c).dev
<1>1. c \in Composition /\ Turn(d, nonce) = Compose(c)
  BY HandshakeCommandType, CommandForCases DEF Turn
<1>2. /\ c.dev.inflight = <<>> /\ c.dev.outbox = d.outbox /\ c.dev.state = d.state
      /\ c.dev.session.state = d.session.state \/ c.dev.session.state = "Challenged"
  <2>1. d.session \in Session
    BY DEF Device
  <2>2. BeginChallenge(d.session, nonce).state = "Challenged"
    BY <2>1 DEF BeginChallenge, Session
  <2> QED BY <2>2 DEF HandshakeCommand, Device
<1> HIDE DEF c
<1>3. c.dev \in Device
  BY <1>1 DEF Composition
<1>4. NextSequence(c.dev).session = c.dev.session
  BY <1>3, NextSequenceKeeps
<1>5. /\ e.inflight = <<>> /\ e.outbox = d.outbox /\ ~e.repeatSequence /\ e.state = d.state
      /\ e.session.state = c.dev.session.state
  BY <1>1, <1>2, <1>4, ComposeKeeps DEF SameChain
<1> HIDE DEF e
<1>6. Held(e) = Held(d)
  BY <1>5 DEF Held
<1>7. Spoken(d, e, Compose(c).frame)
  BY <1>2, <1>5, <1>6 DEF Spoken, SessionFits
<1> QED BY <1>1, <1>7 DEF e

\* The turn of a device that is polled and commanded.
LEMMA CommandTurn ==
  ASSUME NEW d \in Device, d.inflight = <<>>, d.state \in {"Online", "Secure"},
         NEW nonce \in Octet
  PROVE  LET e == Turn(d, nonce).dev
             f == Turn(d, nonce).frame
             n == NextSequence(Taken(d))
         IN /\ e.inflight = Taken(d).inflight /\ e.outbox = Taken(d).outbox
            /\ ~e.repeatSequence /\ e.state = d.state
            /\ e.deferCommands = Taken(d).deferCommands
            /\ e.session.state = d.session.state
            /\ f = CommandFrame(n, TakenMsg(d)) /\ f = CommandFrame(e, TakenMsg(d))
<1> DEFINE b == IF d.state = "Secure" THEN BlockForCommand(TakenMsg(d)) ELSE NoBlock
           c == [dev |-> Taken(d), msg |-> TakenMsg(d), block |-> b]
           e == Compose(c).dev
<1>1. Turn(d, nonce) = Compose(c)
  BY CommandForCases DEF Turn
<1>2. b \in BlockType
  BY BlockTypes
<1>3. /\ Taken(d) \in Device /\ TakenMsg(d) \in Message
      /\ Taken(d).state = d.state /\ Taken(d).session = d.session
  BY TakenType, TakenKeeps
<1>4. c \in Composition
  BY <1>2, <1>3 DEF Composition
<1>5. /\ c.dev = Taken(d) /\ c.msg = TakenMsg(d)
      /\ c.dev.state \in {"Online", "Secure"}
      /\ c.block = IF c.dev.state = "Secure" THEN BlockForCommand(c.msg) ELSE NoBlock
  BY <1>3
<1> HIDE DEF c
<1>6. /\ e.inflight = Taken(d).inflight /\ e.outbox = Taken(d).outbox
      /\ ~e.repeatSequence /\ e.state = d.state
      /\ e.deferCommands = Taken(d).deferCommands
      /\ e.session.state = NextSequence(Taken(d)).session.state
  BY <1>3, <1>4, <1>5, ComposeKeeps DEF SameChain
<1>7. NextSequence(Taken(d)).session = d.session
  BY <1>3, NextSequenceKeeps
<1>8. /\ Compose(c).frame = CommandFrame(NextSequence(Taken(d)), TakenMsg(d))
      /\ Compose(c).frame = CommandFrame(e, TakenMsg(d))
  BY <1>4, <1>5, ComposeCommand
<1> HIDE DEF e
<1> QED BY <1>1, <1>6, <1>7, <1>8 DEF e

LEMMA CommandSpeaks ==
  ASSUME NEW d \in Device, d.inflight = <<>>, d.state \in {"Online", "Secure"},
         NEW nonce \in Octet
  PROVE  Spoken(d, Turn(d, nonce).dev, Turn(d, nonce).frame)
<1> DEFINE e == Turn(d, nonce).dev
           f == Turn(d, nonce).frame
           t == Taken(d)
<1>1. /\ e.inflight = t.inflight /\ e.outbox = t.outbox
      /\ ~e.repeatSequence /\ e.state = d.state /\ e.deferCommands = t.deferCommands
      /\ e.session.state = d.session.state
      /\ f = CommandFrame(e, TakenMsg(d))
  BY CommandTurn
<1>2. /\ Held(t) = Held(d)
      /\ t.inflight # <<>> =>
           /\ d.outbox # <<>> /\ ~Polls(d) /\ ~t.deferCommands
           /\ t.inflight[1] = d.outbox[1] /\ TakenMsg(d) = d.outbox[1]
  BY TakenKeeps
<1>3. d.outbox # <<>> => Head(d.outbox) = d.outbox[1]
  BY DEF Device
<1> HIDE DEF e, f, t
<1>4. Held(e) = Held(d)
  BY <1>1, <1>2 DEF Held
<1>5. SessionFits(d) => SessionFits(e)
  BY <1>1 DEF SessionFits, SecureEstablished, Established
<1>6. ASSUME e.inflight # <<>>
      PROVE  /\ ~e.deferCommands
             /\ e.inflight[1].code = "KeySet" => SecureEstablished(e)
             /\ f = CommandFrame(e, e.inflight[1])
  BY <1>1, <1>2, <1>3, <1>6 DEF Polls, WithholdsKeySet, SecureEstablished, Established
<1>7. Spoken(d, e, f)
  BY <1>1, <1>4, <1>5, <1>6 DEF Spoken
<1> QED BY <1>7 DEF e, f

LEMMA TurnSpeaks ==
  ASSUME NEW d \in Device, d.inflight = <<>>, NEW nonce \in Octet
  PROVE  Spoken(d, Turn(d, nonce).dev, Turn(d, nonce).frame)
<1>1. CASE d.state \in {"Offline", "Identifying"}
  <2> DEFINE c == CommandFor(d, nonce)
             e == Compose(c).dev
  <2>1. c \in Composition /\ c.dev = d
    BY <1>1, CommandForType, CommandForCases
  <2> HIDE DEF c
  <2>2. /\ e.inflight = <<>> /\ e.outbox = d.outbox /\ ~e.repeatSequence /\ e.state = d.state
    BY <2>1, ComposeKeeps
  <2> HIDE DEF e
  <2>3. Held(e) = Held(d)
    BY <2>2 DEF Held
  <2>4. Spoken(d, e, Compose(c).frame)
    BY <1>1, <2>2, <2>3 DEF Spoken, SessionFits
  <2> QED BY <2>4 DEF e, c, Turn
<1>2. CASE d.state \notin {"Offline", "Identifying"}
  <2>1. d.state \in {"Online", "SecureHandshake", "Secure"}
    BY <1>2 DEF Device, DeviceState
  <2> QED BY <2>1, HandshakeSpeaks, CommandSpeaks
<1> QED BY <1>1, <1>2

\* A device that is to repeat a number, and whose queue nothing withholds,
\* composes the frame of the head of its queue under the number it has.
LEMMA RepeatTurn ==
  ASSUME NEW d \in Device, d.inflight = <<>>, d.state \in {"Online", "Secure"},
         d.repeatSequence, d.outbox # <<>>, ~d.deferCommands,
         d.outbox[1].code = "KeySet" => SecureEstablished(d), NEW nonce \in Octet
  PROVE  Turn(d, nonce).frame = CommandFrame(d, d.outbox[1])
<1> DEFINE t == Taken(d)
           n == NextSequence(t)
<1>1. Head(d.outbox) = d.outbox[1]
  BY DEF Device
<1>2. ~Polls(d)
  BY <1>1 DEF Polls, WithholdsKeySet
<1>3. TakenMsg(d) = d.outbox[1]
  BY <1>1, <1>2 DEF TakenMsg, OutboundMessage
<1>4. /\ t \in Device /\ t.repeatSequence /\ t.state = d.state
      /\ t.session = d.session /\ t.seq = d.seq /\ t.addr = d.addr
  BY TakenType, TakenKeeps
<1> HIDE DEF t
<1>5. n.addr = d.addr /\ n.seq = d.seq /\ n.state = d.state /\ n.session = d.session
  BY <1>4, NextSequenceKeeps
<1>6. Turn(d, nonce).frame = CommandFrame(n, TakenMsg(d))
  BY CommandTurn DEF t
<1> HIDE DEF n
<1>7. SameChain(n.session, d.session)
  BY <1>5 DEF SameChain
<1>8. CommandFrame(n, d.outbox[1]) = CommandFrame(d, d.outbox[1])
  BY <1>5, <1>7, CommandFrameSame
<1> QED BY <1>3, <1>6, <1>8
=============================================================================
