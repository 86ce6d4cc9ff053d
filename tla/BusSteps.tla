------------------------------ MODULE BusSteps ------------------------------
(***************************************************************************)
(* What a step of the bus keeps and does, on any line: the lemmas that the *)
(* theorems of BusProofs and LinkProofs rest on.                           *)
(***************************************************************************)
EXTENDS BusEffects

\* A step of the bus: what the application may ask, and a transaction with any
\* nonce and any frame.
BusStep ==
  \/ Request
  \/ \E nonce \in Octet : NextTurn(nonce)
  \/ \E f \in WireFrame : Receive(f)
  \/ Miss
  \/ UNCHANGED vars

\* The requests and steps of the bus that change a device.
LEMMA AcceptType ==
  ASSUME TypeOK, NEW i \in Devices, NEW d \in Device, Accept(i, d)
  PROVE  TypeOK'
BY DEF TypeOK, Accept

LEMMA RequestType ==
  ASSUME TypeOK, Request
  PROVE  TypeOK'
<1>1. PICK i \in Devices :
        \/ \E m \in Commands : Send(i, m)
        \/ \E key \in NewKeys : InstallKeyOn(i, key)
        \/ \E addr \in NewAddresses : SetCommunication(i, addr)
  BY DEF Request
<1>2. dev[i] \in Device
  BY DEF TypeOK
<1>3. ASSUME NEW m \in Message, Send(i, m)
      PROVE  TypeOK'
  BY <1>2, <1>3, EnqueueType, AcceptType DEF Send
<1>4. ASSUME NEW key \in NewKeys, InstallKeyOn(i, key)
      PROVE  TypeOK'
  BY <1>2, <1>4, InstallKeyType, AcceptType DEF InstallKeyOn
<1>5. ASSUME NEW addr \in NewAddresses, SetCommunication(i, addr)
      PROVE  TypeOK'
  BY <1>3, <1>5, RequestedType DEF SetCommunication
<1> QED BY <1>1, <1>3, <1>4, <1>5, BusAssumption

LEMMA NextTurnType ==
  ASSUME TypeOK, NEW nonce \in Octet, NextTurn(nonce)
  PROVE  TypeOK'
<1> DEFINE turn == Turn(dev[current], nonce)
<1>1. current \in Devices /\ dev[current] \in Device
  BY DEF TypeOK
<1>2. turn.dev \in Device /\ turn.frame \in WireFrame
  BY <1>1, TurnType
<1>3. /\ dev' = [dev EXCEPT ![current] = turn.dev]
      /\ \/ sent' = [sent EXCEPT ![current] = <<turn.frame>>] /\ step' = Waiting(current)
         \/ step' = Halted /\ UNCHANGED sent
      /\ current' = (current % N) + 1
  BY DEF NextTurn
<1> HIDE DEF turn
<1>4. dev' \in [Devices -> Device]
  BY <1>1, <1>2, <1>3 DEF TypeOK
<1>5. current' \in Devices
  BY <1>1, <1>3, BusAssumption DEF Devices
<1>6. <<turn.frame>> \in Optional(WireFrame)
  BY <1>2 DEF Optional
<1>7. sent' \in [Devices -> Optional(WireFrame)]
  BY <1>1, <1>3, <1>6 DEF TypeOK
<1>8. step' \in {Idle, Halted} \cup {Waiting(i) : i \in Devices}
  BY <1>1, <1>3
<1> QED BY <1>4, <1>5, <1>7, <1>8 DEF TypeOK

\* The device awaited.
LEMMA Awaited ==
  ASSUME TypeOK, step.phase = "waiting"
  PROVE  step.dev \in Devices /\ step = Waiting(step.dev) /\ dev[step.dev] \in Device
BY DEF TypeOK, Idle, Halted, Waiting

LEMMA SettleType ==
  ASSUME TypeOK, step.phase = "waiting", NEW d \in Device, Settle(d)
  PROVE  TypeOK'
BY Awaited DEF TypeOK, Settle

LEMMA StepType ==
  ASSUME TypeOK, BusStep
  PROVE  TypeOK'
<1>1. CASE Request
  BY <1>1, RequestType
<1>2. ASSUME NEW nonce \in Octet, NextTurn(nonce)
      PROVE  TypeOK'
  BY <1>2, NextTurnType
<1>3. ASSUME NEW f \in WireFrame, Receive(f)
      PROVE  TypeOK'
  BY <1>3, Awaited, ReplyType, SettleType DEF Receive
<1>4. CASE Miss
  BY <1>4, Awaited, TimeoutType, SettleType DEF Miss
<1>5. CASE UNCHANGED vars
  BY <1>5 DEF TypeOK, vars
<1> QED BY <1>1, <1>2, <1>3, <1>4, <1>5 DEF BusStep

LEMMA InitType ==
  ASSUME Init
  PROVE  TypeOK
<1>1. \A i \in Devices : NewDevice(StartAddress[i]) \in Device
  <2>1. StartAddress \in [Devices -> Octet]
    BY BusAssumption
  <2> QED BY <2>1, NewDeviceType
<1>2. 1 \in Devices
  BY BusAssumption DEF Devices
<1> QED BY <1>1, <1>2, EmptyIsOptional DEF Init, TypeOK

-----------------------------------------------------------------------------
(* The invariant.                                                          *)

\* A command joins the queue at the back, and nothing else of the device that
\* a frame is made from moves.
Joined(d, e, m) ==
  /\ Same(d, e) /\ e.inflight = d.inflight /\ e.repeatSequence = d.repeatSequence
  /\ e.outbox = Append(d.outbox, m)

LEMMA EnqueueJoins ==
  ASSUME NEW d \in Device, NEW m
  PROVE  Joined(d, Enqueue(d, m), m)
BY DEF Joined, Enqueue, Same, Device

LEMMA RequestJoins ==
  ASSUME TypeOK, Request
  PROVE  \E i \in Devices, m \in Accepted, e \in Device :
           Joined(dev[i], e, m) /\ Accept(i, e)
<1>1. PICK i \in Devices :
        \/ \E m \in Commands : Send(i, m)
        \/ \E key \in NewKeys : InstallKeyOn(i, key)
        \/ \E addr \in NewAddresses : SetCommunication(i, addr)
  BY DEF Request
<1>2. dev[i] \in Device
  BY DEF TypeOK
<1>3. ASSUME NEW m \in Accepted, Send(i, m)
      PROVE  \E e \in Device : Joined(dev[i], e, m) /\ Accept(i, e)
  <2>1. Enqueue(dev[i], m) \in Device
    BY <1>2, RequestedType, EnqueueType
  <2> QED BY <1>2, <1>3, <2>1, EnqueueJoins DEF Send
<1>4. ASSUME NEW key \in NewKeys, InstallKeyOn(i, key)
      PROVE  \E e \in Device : Joined(dev[i], e, KeySetCommand(key)) /\ Accept(i, e)
  <2> DEFINE p == [dev[i] EXCEPT !.pendingKey = key]
             e == Enqueue(p, KeySetCommand(key))
  <2>1. /\ p \in Device /\ Same(dev[i], p) /\ p.inflight = dev[i].inflight
        /\ p.repeatSequence = dev[i].repeatSequence /\ p.outbox = dev[i].outbox
    BY <1>2, BusAssumption DEF Same, Device
  <2>2. e \in Device /\ Accept(i, e)
    BY <1>2, <1>4, InstallKeyType DEF InstallKeyOn, InstallKey
  <2> HIDE DEF p
  <2>3. Joined(p, e, KeySetCommand(key))
    BY <2>1, EnqueueJoins
  <2>4. Joined(dev[i], e, KeySetCommand(key))
    BY <2>1, <2>3 DEF Joined, Same
  <2> QED BY <2>2, <2>4
<1>5. ASSUME NEW addr \in NewAddresses, SetCommunication(i, addr)
      PROVE  \E e \in Device : Joined(dev[i], e, CommunicationCommand(addr)) /\ Accept(i, e)
  BY <1>3, <1>5 DEF SetCommunication, Accepted
<1>6. CASE \E m \in Commands : Send(i, m)
  BY <1>3, <1>6 DEF Accepted
<1>7. CASE \E key \in NewKeys : InstallKeyOn(i, key)
  BY <1>4, <1>7 DEF Accepted
<1>8. CASE \E addr \in NewAddresses : SetCommunication(i, addr)
  BY <1>5, <1>8 DEF Accepted
<1> QED BY <1>1, <1>6, <1>7, <1>8

LEMMA CarriedSame ==
  ASSUME NEW d, NEW e, NEW m, NEW s, Same(d, e), Carried(d, m, s)
  PROVE  Carried(e, m, s)
<1>1. SameChain(d.session, e.session)
  BY DEF Same, SameChain
<1>2. CommandFrame(d, m) = CommandFrame(e, m)
  BY <1>1, CommandFrameSame DEF Same
<1> QED BY <1>2 DEF Carried, Same, SecureEstablished

LEMMA RequestInv ==
  ASSUME BusInv, Request
  PROVE  SessionMatchesState' /\ \A j \in Devices : Repeatable(j)'
<1>1. PICK i \in Devices, m \in Accepted, e \in Device :
        Joined(dev[i], e, m) /\ Accept(i, e)
  BY RequestJoins DEF BusInv
<1>2. /\ step = Idle /\ step' = step /\ sent' = sent
      /\ dev' = [dev EXCEPT ![i] = e] /\ dev \in [Devices -> Device]
  BY <1>1 DEF Accept, BusInv, TypeOK
<1>3. dev'[i] = e /\ \A j \in Devices \ {i} : dev'[j] = dev[j]
  BY <1>2
<1>4. SessionFits(dev[i]) => SessionFits(e)
  BY <1>1 DEF Joined, Same, SessionFits, SecureEstablished
<1>5. SessionMatchesState'
  BY <1>3, <1>4 DEF BusInv, SessionMatchesState
<1>6. ASSUME NEW j \in Devices \ {i}
      PROVE  Repeatable(j)'
  BY <1>2, <1>3 DEF BusInv, Repeatable
<1>7. Repeatable(i)'
  <2>1. Repeatable(i) /\ step # Waiting(i)
    BY <1>2 DEF BusInv, Idle, Waiting
  <2>2. ASSUME e.repeatSequence
        PROVE  e.inflight = <<>> /\ e.outbox # <<>> /\ Carried(e, e.outbox[1], sent[i])
    <3>1. dev[i].inflight = <<>> /\ dev[i].outbox # <<>> /\ Carried(dev[i], dev[i].outbox[1], sent[i])
      BY <1>1, <2>1, <2>2 DEF Joined, Repeatable
    <3>2. dev[i].outbox \in Seq(Message)
      BY <1>2 DEF Device
    <3>3. m \in Message
      BY RequestedType
    <3>4. e.outbox # <<>> /\ e.outbox[1] = dev[i].outbox[1]
      BY <1>1, <3>1, <3>2, <3>3 DEF Joined
    <3> QED BY <1>1, <3>1, <3>4, CarriedSame DEF Joined
  <2>3. step \notin {Waiting(i), Halted} => e.inflight = <<>>
    BY <1>1, <2>1 DEF Joined, Repeatable
  <2> QED BY <1>2, <1>3, <2>1, <2>2, <2>3 DEF Repeatable
<1> QED BY <1>5, <1>6, <1>7

\* The step of the panel is its own: awaiting one device is not awaiting another.
LEMMA Phases ==
  /\ \A i : Idle # Waiting(i) /\ Halted # Waiting(i)
  /\ \A i, j : Waiting(i) = Waiting(j) => i = j
  /\ Idle # Halted
BY DEF Idle, Halted, Waiting

LEMMA NextTurnInv ==
  ASSUME BusInv, NEW nonce \in Octet, NextTurn(nonce)
  PROVE  SessionMatchesState' /\ \A j \in Devices : Repeatable(j)'
<1>0. PICK i \in Devices : i = current
  BY DEF BusInv, TypeOK
<1> DEFINE e == Turn(dev[i], nonce).dev
           f == Turn(dev[i], nonce).frame
<1>1. /\ step = Idle /\ dev' = [dev EXCEPT ![i] = e]
      /\ \/ sent' = [sent EXCEPT ![i] = <<f>>] /\ step' = Waiting(i)
         \/ sent' = sent /\ step' = Halted
  BY <1>0 DEF NextTurn
<1>2. /\ dev \in [Devices -> Device]
      /\ sent \in [Devices -> Optional(WireFrame)]
  BY DEF BusInv, TypeOK
<1>3. dev[i] \in Device /\ dev[i].inflight = <<>>
  BY <1>1, <1>2, Phases DEF BusInv, Repeatable
<1>4. Spoken(dev[i], e, f)
  BY <1>3, TurnSpeaks
<1> HIDE DEF e, f
<1>5. dev'[i] = e /\ \A j \in Devices \ {i} : dev'[j] = dev[j] /\ sent'[j] = sent[j]
  BY <1>1, <1>2
<1>6. SessionMatchesState'
  BY <1>2, <1>4, <1>5 DEF BusInv, SessionMatchesState, Spoken
<1>7. ASSUME NEW j \in Devices \ {i}
      PROVE  Repeatable(j)'
  <2>1. Repeatable(j) /\ step # Waiting(j) /\ step # Halted /\ step' # Waiting(j)
    BY <1>1, Phases DEF BusInv
  <2> QED BY <1>5, <2>1 DEF Repeatable
<1>8. Repeatable(i)'
  <2>1. ~e.repeatSequence /\ step' \in {Waiting(i), Halted}
    BY <1>1, <1>4 DEF Spoken
  <2>2. ASSUME step' = Waiting(i), e.inflight # <<>>
        PROVE  Carried(e, e.inflight[1], sent'[i])
    <3>1. sent'[i] = <<f>>
      BY <1>1, <1>2, <2>2, Phases
    <3> QED BY <1>4, <2>2, <3>1 DEF Spoken, Carried
  <2> QED BY <1>5, <2>1, <2>2 DEF Repeatable
<1> QED BY <1>6, <1>7, <1>8

\* What settles a transaction: a miss, or a reply that is not one.
LEMMA SettleInv ==
  ASSUME BusInv, step.phase = "waiting", NEW e \in Device, Settle(e),
         e = Timeout(dev[step.dev]) \/ Settled(dev[step.dev], e)
  PROVE  SessionMatchesState' /\ \A j \in Devices : Repeatable(j)'
<1>0. PICK i \in Devices : i = step.dev
  BY Awaited DEF BusInv
<1> DEFINE d == dev[i]
<1>1. step = Waiting(i) /\ d \in Device /\ dev \in [Devices -> Device]
  BY <1>0, Awaited DEF BusInv, TypeOK
<1>2. step' = Idle /\ sent' = sent /\ dev' = [dev EXCEPT ![i] = e]
  BY <1>0 DEF Settle
<1>3. dev'[i] = e /\ \A j \in Devices \ {i} : dev'[j] = dev[j]
  BY <1>1, <1>2
<1>4. /\ ~d.repeatSequence /\ SessionFits(d)
      /\ d.inflight # <<>> => Carried(d, d.inflight[1], sent[i])
  BY <1>1 DEF BusInv, SessionMatchesState, Repeatable
<1>5. ASSUME NEW j \in Devices \ {i}
      PROVE  Repeatable(j)'
  <2>1. Repeatable(j) /\ step # Waiting(j) /\ step # Halted /\ step' # Waiting(j)
    BY <1>1, <1>2, Phases DEF BusInv
  <2> QED BY <1>2, <1>3, <2>1 DEF Repeatable
<1>6. CASE e = Timeout(d)
  <2>1. /\ Kept(d, e)
        /\ \/ Same(d, e) /\ e.repeatSequence = (d.inflight # <<>>)
           \/ e.state = "Offline" /\ ~e.repeatSequence
    BY <1>1, <1>4, <1>6, TimeoutKeeps
  <2>2. SessionFits(e)
    BY <1>4, <2>1 DEF SessionFits, Same, SecureEstablished
  <2>3. SessionMatchesState'
    BY <1>3, <2>2 DEF BusInv, SessionMatchesState
  <2>4. ASSUME e.repeatSequence
        PROVE  e.outbox # <<>> /\ Carried(e, e.outbox[1], sent[i])
    <3>1. Same(d, e) /\ d.inflight # <<>>
      BY Zenon, <2>1, <2>4
    <3>2. Held(d) \in Seq(Message) /\ Held(d) # <<>> /\ Head(Held(d)) = d.inflight[1]
      BY <1>1, <3>1, HeldInFlight
    <3>3. e.outbox # <<>> /\ e.outbox[1] = d.inflight[1]
      BY <2>1, <3>2 DEF Kept
    <3> QED BY <1>4, <3>1, <3>3, CarriedSame
  <2>5. Repeatable(i)'
    BY <1>2, <1>3, <2>1, <2>4, Phases DEF Repeatable, Kept
  <2> QED BY <1>5, <2>3, <2>5
<1>7. CASE Settled(d, e)
  <2>1. SessionMatchesState'
    BY <1>3, <1>4, <1>7 DEF BusInv, SessionMatchesState, Settled
  <2>2. Repeatable(i)'
    BY <1>2, <1>3, <1>7, Phases DEF Repeatable, Settled
  <2> QED BY <1>5, <2>1, <2>2
<1> QED BY <1>0, <1>6, <1>7

\* A frame that arrives settles the transaction of the device awaited.
LEMMA ReceiveSettles ==
  ASSUME BusInv, NEW f \in WireFrame, Receive(f)
  PROVE  LET e == Reply(dev[step.dev], f)
         IN /\ e \in Device /\ step.phase = "waiting" /\ Settle(e)
            /\ e = Timeout(dev[step.dev]) \/ Settled(dev[step.dev], e)
<1>1. step.phase = "waiting" /\ Settle(Reply(dev[step.dev], f))
  BY DEF Receive
<1>2. dev[step.dev] \in Device /\ ~dev[step.dev].repeatSequence
  BY <1>1, Awaited DEF BusInv, Repeatable
<1>3. Reply(dev[step.dev], f) \in Device
  BY <1>2, ReplyType
<1> QED BY <1>1, <1>2, <1>3, ReplySettles

LEMMA MissSettles ==
  ASSUME BusInv, Miss
  PROVE  Timeout(dev[step.dev]) \in Device /\ Settle(Timeout(dev[step.dev]))
BY Awaited, TimeoutType DEF BusInv, Miss

LEMMA StepInv ==
  ASSUME BusInv, BusStep
  PROVE  BusInv'
<1>1. TypeOK'
  BY StepType DEF BusInv
<1>2. CASE Request
  BY <1>1, <1>2, RequestInv DEF BusInv
<1>3. ASSUME NEW nonce \in Octet, NextTurn(nonce)
      PROVE  BusInv'
  BY <1>1, <1>3, NextTurnInv DEF BusInv
<1>4. ASSUME NEW f \in WireFrame, Receive(f)
      PROVE  BusInv'
  BY <1>1, <1>4, ReceiveSettles, SettleInv DEF BusInv
<1>5. CASE Miss
  <2>1. step.phase = "waiting"
    BY <1>5 DEF Miss
  <2> QED BY <1>1, <1>5, <2>1, MissSettles, SettleInv DEF BusInv
<1>6. CASE UNCHANGED vars
  BY <1>1, <1>6 DEF BusInv, SessionMatchesState, Repeatable, vars
<1> QED BY <1>2, <1>3, <1>4, <1>5, <1>6 DEF BusStep

LEMMA InitInv ==
  ASSUME Init
  PROVE  BusInv
<1>1. TypeOK
  BY InitType
<1>2. \A i \in Devices : /\ dev[i] = NewDevice(StartAddress[i])
                         /\ dev[i].state = "Offline" /\ dev[i].inflight = <<>>
                         /\ ~dev[i].repeatSequence
  BY DEF Init, NewDevice
<1>3. \A i \in Devices : SessionFits(dev[i])
  BY <1>2 DEF SessionFits
<1>4. \A i \in Devices : Repeatable(i)
  BY <1>2 DEF Repeatable
<1> QED BY <1>1, <1>3, <1>4 DEF BusInv, SessionMatchesState

\* What is to be repeated will be repeated as it was.
LEMMA RepeatsAsSent ==
  ASSUME BusInv
  PROVE  RepeatIsExact
<1> SUFFICES ASSUME NEW i \in Devices, dev[i].repeatSequence
             PROVE  sent[i] = <<Turn(dev[i], 0).frame>>
  BY DEF RepeatIsExact
<1>1. dev[i] \in Device /\ 0 \in Octet
  BY DEF BusInv, TypeOK, Octet
<1>2. /\ dev[i].inflight = <<>> /\ dev[i].outbox # <<>>
      /\ Carried(dev[i], dev[i].outbox[1], sent[i])
  BY DEF BusInv, Repeatable
<1> QED BY <1>1, <1>2, RepeatTurn DEF Carried

-----------------------------------------------------------------------------
(* What a step does to the queues.                                         *)

Losses == {"Offline", "Resync", "SecureFailed", "Communication"}

\* One device moves in a step.  It takes a command into its queue, or keeps its
\* queue, or is the device awaited and lets go of the command in flight.
JoinStep(i, e) ==
  e.state = dev[i].state /\ \E m \in Accepted : Held(e) = Append(Held(dev[i]), m)

SpeakStep(i, e) == e.state = dev[i].state /\ Held(e) = Held(dev[i])

SettleStep(i, e) ==
  /\ step = Waiting(i)
  /\ \/ Held(e) = Held(dev[i])
     \/ /\ dev[i].inflight # <<>> /\ Held(e) = Tail(Held(dev[i])) /\ e.event # "Busy"
        /\ e.state = "Offline" => dev[i].state = "Offline" \/ e.event = "Communication"
  /\ e.state = "Offline" => dev[i].state = "Offline" \/ e.event \in Losses

LEMMA SettleEffect ==
  ASSUME BusInv, step.phase = "waiting", NEW e \in Device, Settle(e),
         e = Timeout(dev[step.dev]) \/ Settled(dev[step.dev], e)
  PROVE  \E i \in Devices : dev' = [dev EXCEPT ![i] = e] /\ SettleStep(i, e)
<1>1. PICK i \in Devices : i = step.dev
  BY Awaited DEF BusInv
<1> DEFINE d == dev[i]
<1>2. step = Waiting(i) /\ d \in Device /\ dev' = [dev EXCEPT ![i] = e]
  BY <1>1, Awaited DEF BusInv, Settle
<1>3. ~d.repeatSequence
  BY <1>2 DEF BusInv, Repeatable
<1> HIDE DEF d
<1>4. CASE e = Timeout(d)
  <2>1. /\ e.inflight = <<>> /\ e.outbox = Held(d)
        /\ e.state = d.state \/ e.event = "Offline"
    BY <1>2, <1>3, <1>4, TimeoutKeeps DEF Kept, Same
  <2>2. Held(e) = Held(d)
    BY <2>1, HeldInFlight
  <2>3. SettleStep(i, e)
    BY <1>2, <2>1, <2>2 DEF SettleStep, Losses, d
  <2> QED BY Zenon, <1>2, <2>3
<1>5. CASE Settled(d, e)
  <2>1. Held(e) = e.outbox
    BY <1>5, HeldInFlight DEF Settled
  <2>2. d.inflight # <<>> => Tail(Held(d)) = d.outbox
    BY <1>2, HeldInFlight
  <2>3. SettleStep(i, e)
    BY <1>2, <1>5, <2>1, <2>2 DEF SettleStep, Settled, Losses, d
  <2> QED BY Zenon, <1>2, <2>3
<1> QED BY <1>1, <1>4, <1>5 DEF d

LEMMA StepEffect ==
  ASSUME BusInv, BusStep
  PROVE  \/ dev' = dev
         \/ \E i \in Devices, e \in Device :
              /\ dev' = [dev EXCEPT ![i] = e]
              /\ JoinStep(i, e) \/ SpeakStep(i, e) \/ SettleStep(i, e)
<1>1. CASE Request
  <2>1. PICK i \in Devices, m \in Accepted, e \in Device :
          Joined(dev[i], e, m) /\ Accept(i, e)
    BY <1>1, RequestJoins DEF BusInv
  <2>2. /\ dev[i] \in Device /\ dev[i].inflight = <<>> /\ m \in Message
        /\ dev' = [dev EXCEPT ![i] = e]
    BY <2>1, Phases, RequestedType DEF BusInv, TypeOK, Repeatable, Accept
  <2>3. Held(dev[i]) = dev[i].outbox /\ Held(e) = e.outbox
    BY <2>1, <2>2, HeldInFlight DEF Joined
  <2>4. JoinStep(i, e)
    BY <2>1, <2>3 DEF JoinStep, Joined, Same
  <2> QED BY Zenon, <2>2, <2>4
<1>2. ASSUME NEW nonce \in Octet, NextTurn(nonce)
      PROVE  \E i \in Devices, e \in Device : dev' = [dev EXCEPT ![i] = e] /\ SpeakStep(i, e)
  <2>1. PICK i \in Devices : i = current
    BY DEF BusInv, TypeOK
  <2> DEFINE e == Turn(dev[i], nonce).dev
  <2>2. /\ dev[i] \in Device /\ dev[i].inflight = <<>> /\ nonce \in Octet
        /\ dev' = [dev EXCEPT ![i] = e]
    BY <1>2, <2>1, Phases DEF BusInv, TypeOK, Repeatable, NextTurn
  <2>3. e \in Device /\ Spoken(dev[i], e, Turn(dev[i], nonce).frame)
    BY <2>2, TurnType, TurnSpeaks
  <2>4. SpeakStep(i, e)
    BY <2>3 DEF SpeakStep, Spoken
  <2> HIDE DEF e
  <2> QED BY Zenon, <2>2, <2>3, <2>4
<1>3. ASSUME NEW f \in WireFrame, Receive(f)
      PROVE  \E i \in Devices, e \in Device :
               dev' = [dev EXCEPT ![i] = e] /\ SettleStep(i, e)
  BY Zenon, <1>3, ReceiveSettles, SettleEffect
<1>4. CASE Miss
  <2>1. step.phase = "waiting"
    BY <1>4 DEF Miss
  <2> QED BY <1>4, <2>1, MissSettles, SettleEffect
<1>5. CASE UNCHANGED vars
  BY <1>5 DEF vars
<1> QED BY <1>1, <1>2, <1>3, <1>4, <1>5 DEF BusStep

LEMMA MissKeepsQueues ==
  ASSUME BusInv, Miss, NEW i \in Devices
  PROVE  Held(dev'[i]) = Held(dev[i])
<1>1. PICK j \in Devices : j = step.dev
  BY Awaited DEF BusInv, Miss
<1>2. /\ step = Waiting(j) /\ dev[j] \in Device /\ dev \in [Devices -> Device]
      /\ dev' = [dev EXCEPT ![j] = Timeout(dev[j])]
  BY <1>1, Awaited DEF BusInv, TypeOK, Miss, Settle
<1>3. ~dev[j].repeatSequence
  BY <1>2 DEF BusInv, Repeatable
<1>4. Kept(dev[j], Timeout(dev[j])) /\ Timeout(dev[j]) \in Device
  BY <1>2, <1>3, TimeoutKeeps, TimeoutType
<1>5. Held(Timeout(dev[j])) = Held(dev[j])
  BY <1>4, HeldInFlight DEF Kept
<1> QED BY <1>2, <1>5

-----------------------------------------------------------------------------
(* What keeps a key from going out in the clear, through the operations of *)
(* a device of the bus.                                                    *)

Clear(d) ==
  /\ d.pending # <<>> => d.pending[1].code = "SCrypt"
  /\ d.state = "Online" => ~SecureEstablished(d)

\* What Clear depends on.
LEMMA ClearSame ==
  ASSUME NEW d, NEW e, e.state = d.state, e.pending = d.pending,
         e.session.state = d.session.state, Clear(d)
  PROVE  Clear(e)
BY DEF Clear, SecureEstablished, Established

LEMMA ReportClear ==
  ASSUME NEW d \in Device, NEW kind, Clear(d)
  PROVE  Clear(Report(d, kind))
<1>1. LET e == Report(d, kind)
      IN e.state = d.state /\ e.pending = d.pending /\ e.session = d.session
  BY DEF Report, Device
<1> QED BY Zenon, <1>1, ClearSame

LEMMA ResyncClear ==
  ASSUME NEW d \in Device
  PROVE  Clear(Resync(d))
<1>1. Requeue(d) \in Device
  BY RequeueType
<1>2. ASSUME NEW q \in Device
      PROVE  LET r == DropSession([q EXCEPT !.seq = 0, !.repeatSequence = FALSE,
                                            !.state = "Offline"])
             IN r.pending = <<>> /\ r.state = "Offline"
  BY DEF DropSession, Device
<1>3. Resync(d).pending = <<>> /\ Resync(d).state = "Offline"
  BY Zenon, <1>1, <1>2 DEF Resync
<1> QED BY <1>3 DEF Clear

LEMMA RequeueClear ==
  ASSUME NEW d \in Device, Clear(d)
  PROVE  /\ Clear(Requeue(d)) /\ Clear(Retransmit(d)) /\ Clear(Reclaim(d))
<1>1. ASSUME NEW q \in Device, Clear(q)
      PROVE  Clear(Requeue(q)) /\ Clear([Requeue(q) EXCEPT !.repeatSequence = TRUE])
  <2>1. LET e == Requeue(q)
        IN e.state = q.state /\ e.pending = q.pending /\ e.session = q.session
    BY DEF Requeue, Device
  <2>2. ASSUME NEW r \in Device
        PROVE  LET e == [r EXCEPT !.repeatSequence = TRUE]
               IN e.state = r.state /\ e.pending = r.pending /\ e.session = r.session
    BY DEF Device
  <2>3. Clear(Requeue(q)) /\ Requeue(q) \in Device
    BY Zenon, <1>1, <2>1, ClearSame, RequeueType
  <2> QED BY Zenon, <2>2, <2>3, ClearSame
<1>2. Clear(Reclaim(d))
  <2> DEFINE c == [d EXCEPT !.inflight = d.released, !.released = <<>>]
  <2>1. c \in Device
    BY Zenon, Fields DEF Device
  <2>2. c.state = d.state /\ c.pending = d.pending /\ c.session = d.session
    BY DEF Device
  <2> HIDE DEF c
  <2>3. Clear(Requeue(c))
    BY Zenon, <1>1, <2>1, <2>2, ClearSame
  <2> QED BY Zenon, <2>3 DEF Reclaim, c
<1> QED BY Zenon, <1>1, <1>2 DEF Retransmit

LEMMA TimeoutClear ==
  ASSUME NEW d \in Device, Clear(d)
  PROVE  Clear(Timeout(d))
<1> DEFINE c == [d EXCEPT !.misses = IF @ < OfflineThreshold THEN @ + 1 ELSE @]
           m == Retransmit(c)
<1>1. c \in Device
  BY MissedType
<1>2. ASSUME NEW n
      PROVE  LET e == [d EXCEPT !.misses = n]
             IN e.state = d.state /\ e.pending = d.pending /\ e.session = d.session
  BY DEF Device
<1>3. c.state = d.state /\ c.pending = d.pending /\ c.session = d.session
  BY Zenon, <1>2
<1>4. Timeout(d) = Report(m, "None") \/ Timeout(d) = Report(Resync(m), "Offline")
  BY DEF Timeout
<1> HIDE DEF c
<1>5. Clear(c)
  BY Zenon, <1>3, ClearSame
<1>6. m \in Device /\ Clear(m) /\ Resync(m) \in Device /\ Clear(Resync(m))
  BY <1>1, <1>5, RetransmitType, RequeueClear, ResyncType, ResyncClear
<1> HIDE DEF m
<1> QED BY <1>4, <1>6, ReportClear

-----------------------------------------------------------------------------
(* Replies.                                                                *)

LEMMA SecureFailureClear ==
  ASSUME NEW d \in Device
  PROVE  Clear(SecureFailure(d))
<1>1. DropSession(d) \in Device /\ DropSession(d).pending = <<>>
      /\ DropSession(d).session = NoSession
  BY DropSessionType DEF DropSession, Device
<1>2. ASSUME NEW q \in Device
      PROVE  LET e == Report([[q EXCEPT !.secureDeclined = TRUE] EXCEPT !.state = "Online"],
                             "SecureFailed")
             IN e.pending = q.pending /\ e.session = q.session
  BY DEF Report, Device
<1>3. SecureFailure(d).pending = <<>> /\ SecureFailure(d).session = NoSession
  BY Zenon, <1>1, <1>2 DEF SecureFailure, AbandonSecure
<1> QED BY <1>3 DEF Clear, SecureEstablished, Established, NoSession

LEMMA OnCryptogramClear ==
  ASSUME NEW d \in Device, NEW arg, Clear(d)
  PROVE  Clear(OnCryptogram(d, arg))
<1>1. CASE ~AcceptsCCrypt(d.session, arg)
  BY <1>1, SecureFailureClear DEF OnCryptogram
<1>2. CASE AcceptsCCrypt(d.session, arg)
  <2> DEFINE s == AnswerClient(d.session, arg)
             m == Msg("SCrypt", SCryptPayload(s), 16)
             e == Report([d EXCEPT !.session = s, !.pending = <<m>>], "None")
  <2>1. s.state = "Cryptogram"
    BY DEF AnswerClient, Session, Device
  <2>2. m.code = "SCrypt"
    BY DEF Msg
  <2>3. OnCryptogram(d, arg) = e
    BY <1>2 DEF OnCryptogram
  <2> HIDE DEF s, m
  <2>4. e.pending = <<m>> /\ e.session = s
    BY DEF Report, Device
  <2> HIDE DEF e
  <2>5. e.pending[1] = m
    BY <2>4
  <2> QED BY <2>1, <2>2, <2>3, <2>4, <2>5 DEF Clear, SecureEstablished, Established
<1> QED BY <1>1, <1>2

LEMMA OnInitialRMACClear ==
  ASSUME NEW d \in Device, NEW arg, Clear(d)
  PROVE  Clear(OnInitialRMAC(d, arg))
<1>1. CASE ~AcceptsRMAC(d.session, arg)
  BY <1>1, SecureFailureClear DEF OnInitialRMAC
<1>2. CASE AcceptsRMAC(d.session, arg)
  <2>1. ASSUME NEW s
        PROVE  LET e == Report([d EXCEPT !.session = s, !.state = "Secure"], "Secure")
               IN e.pending = d.pending /\ e.state = "Secure"
    BY DEF Report, Device
  <2>2. /\ OnInitialRMAC(d, arg).pending = d.pending
        /\ OnInitialRMAC(d, arg).state = "Secure"
    BY Zenon, <1>2, <2>1 DEF OnInitialRMAC
  <2> QED BY <2>2 DEF Clear
<1> QED BY <1>1, <1>2

\* The capabilities of a device that has no session leave it none.
LEMMA OnCapabilitiesClear ==
  ASSUME NEW d \in Device, NEW arg, Clear(d), ~SecureEstablished(d)
  PROVE  Clear(OnCapabilities(d, arg))
<1> DEFINE b == [d EXCEPT !.buffer = arg[2]]
           k == AfterCapabilities(b, arg[1] = 1)
           e == OnCapabilities(d, arg)
<1>1. PICK kind : e = Report(k, kind)
  BY DEF OnCapabilities
<1>2. /\ DOMAIN b = DOMAIN d /\ b.pending = d.pending /\ b.session = d.session
  BY DEF Device
<1>3. \/ k = [b EXCEPT !.state = "Online"]
      \/ k = [b EXCEPT !.state = "Online", !.secureDeclined = TRUE]
      \/ \E s : k = [b EXCEPT !.session = s, !.state = "SecureHandshake"]
  BY DEF AfterCapabilities
<1> HIDE DEF b, k
<1>4. /\ DOMAIN k = DOMAIN d /\ k.pending = d.pending
      /\ k.session = d.session \/ k.state = "SecureHandshake"
  BY <1>2, <1>3 DEF Device
<1>5. e.pending = d.pending /\ (e.session = d.session \/ e.state = "SecureHandshake")
  BY <1>1, <1>4 DEF Report, Device
<1> HIDE DEF e
<1>6. Clear(e)
  BY <1>5 DEF Clear, SecureEstablished
<1> QED BY <1>6 DEF e

LEMMA DispatchClear ==
  ASSUME NEW d \in Device, NEW m \in Message, ~Malformed(m), Clear(d),
         m.code = "PDCap" => ~SecureEstablished(d)
  PROVE  Clear(Dispatch(d, m))
<1>1. Clear([d EXCEPT !.state = "Identifying"]) /\ [d EXCEPT !.state = "Identifying"] \in Device
  <2>1. LET e == [d EXCEPT !.state = "Identifying"]
        IN e \in Device /\ e.pending = d.pending /\ e.state = "Identifying"
    BY StateType, Fields DEF Device
  <2> QED BY <2>1 DEF Clear
<1>2. Clear(OnIdentity(d)) /\ Clear(OnOther(d))
  BY <1>1, ReportClear DEF OnIdentity, OnOther
<1>3. m.code = "PDCap" => Clear(OnCapabilities(d, m.arg))
  BY OnCapabilitiesClear
<1>4. Clear(OnCryptogram(d, m.arg)) /\ Clear(OnInitialRMAC(d, m.arg))
  BY OnCryptogramClear, OnInitialRMACClear
<1>5. Clear(Report(KeySetRefused(d), "NAK"))
  <2>1. LET e == KeySetRefused(d)
        IN e.state = d.state /\ e.pending = d.pending /\ e.session = d.session
    BY DEF KeySetRefused, Device
  <2>2. Clear(KeySetRefused(d))
    BY Zenon, <2>1, ClearSame
  <2> QED BY <2>2, KeySetRefusedType, ReportClear
<1>6. m.code = "Com" => Clear(OnCommunication(d, m.arg[1]))
  <2> SUFFICES ASSUME m.code = "Com" PROVE Clear(OnCommunication(d, m.arg[1]))
    OBVIOUS
  <2>1. m.arg \in Payload /\ m.arg # <<>>
    BY DEF Malformed, ShortCommunication, Message
  <2>2. m.arg[1] \in Octet
    BY <2>1 DEF Payload
  <2>3. [d EXCEPT !.addr = m.arg[1]] \in Device
    BY <2>2 DEF Device
  <2> QED BY Zenon, <2>3, ResyncType, ResyncClear, ReportClear DEF OnCommunication
<1>7. Clear(OnBusy(d))
  <2>1. ASSUME NEW q \in Device, Clear(q)
        PROVE  Clear(Report([q EXCEPT !.deferCommands = TRUE], "Busy"))
    <3>1. LET e == [q EXCEPT !.deferCommands = TRUE]
          IN e.state = q.state /\ e.pending = q.pending /\ e.session = q.session
      BY DEF Device
    <3>2. [q EXCEPT !.deferCommands = TRUE] \in Device
      BY Zenon DEF Device
    <3>3. Clear([q EXCEPT !.deferCommands = TRUE])
      BY Zenon, <2>1, <3>1, ClearSame
    <3> QED BY <3>2, <3>3, ReportClear
  <2> QED BY Zenon, <2>1, ReclaimType, RequeueClear DEF OnBusy
<1>8. \A kind \in {"CardRead", "Keypad", "Manufacturer"} : Clear(Report(d, kind))
  BY ReportClear
<1>9. Clear(OnStatus(d, m))
  <2>1. LET e == OnStatus(d, m)
        IN e.state = d.state /\ e.pending = d.pending /\ e.session = d.session
    BY DEF OnStatus, Report, Device
  <2> QED BY Zenon, <2>1, ClearSame
<1>10. Clear(OnKeyInstalled(d))
  <2>1. DropSession(d) \in Device /\ DropSession(d).pending = <<>>
    BY DropSessionType DEF DropSession, Device
  <2>2. ASSUME NEW q \in Device, NEW key
        PROVE  LET e == Report([q EXCEPT !.installedKey = key, !.pendingKey = NoKey,
                                         !.state = "Identifying"], "KeyInstalled")
               IN e.pending = q.pending /\ e.state = "Identifying"
    BY DEF Report, Device
  <2>3. OnKeyInstalled(d).pending = <<>> /\ OnKeyInstalled(d).state = "Identifying"
    BY Zenon, <2>1, <2>2 DEF OnKeyInstalled
  <2> QED BY <2>3 DEF Clear
<1> QED BY Zenon, <1>2, <1>3, <1>4, <1>5, <1>6, <1>7, <1>8, <1>9, <1>10, DispatchCases

\* A reply in an established session carries the session's code, so it is not one
\* that reports the capabilities of a device.
LEMMA ReplyClear ==
  ASSUME NEW d \in Device, NEW f \in WireFrame, Clear(d), f.body.code = "PDCap" => f.tag = NoTag
  PROVE  Clear(Reply(d, f))
<1> DEFINE heard == [d EXCEPT !.misses = 0]
           o == Opened(d, f)
           g == Delivered(o)
<1>1. f \in WireFrame /\ MessageOf(f) \in Message /\ MessageOf(f).code = f.body.code
  BY MessageOfType DEF MessageOf, Msg
<1>2. /\ Clear(Report(Resync(heard), "Resync")) /\ Clear(Report(Resync(heard), "SecureFailed"))
  BY Zenon, HeardType, ResyncType, ResyncClear, ReportClear
<1>3. o \in Device /\ g \in Device
  BY <1>1, OpenedType, DeliveredType
<1>4. o.state = d.state /\ o.pending = d.pending /\ o.session.state = d.session.state
  <2>1. CASE ~SecureEstablished(d)
    BY <2>1 DEF Opened, Device
  <2>2. CASE SecureEstablished(d)
    <3>1. o.session = Commit(d.session, FALSE, f.tag) /\ o.state = d.state /\ o.pending = d.pending
      BY <2>2 DEF Opened, Device
    <3>2. d.session \in Session
      BY DEF Device
    <3> QED BY <3>1, <3>2 DEF Commit, Session
  <2> QED BY <2>1, <2>2
<1> HIDE DEF o
<1>5. g.state = o.state /\ g.pending = o.pending /\ g.session = o.session
  BY <1>3 DEF Delivered, Device
<1> HIDE DEF g
<1>6. Clear(g) /\ (SecureEstablished(g) => SecureEstablished(d))
  BY <1>4, <1>5, ClearSame DEF SecureEstablished, Established
<1>7. \/ Reply(d, f) = Timeout(d)
      \/ Reply(d, f) = Report(Resync(heard), "Resync")
      \/ Reply(d, f) = Report(Resync(heard), "SecureFailed")
      \/ Reply(d, f) = Timeout(g)
      \/ /\ ~Malformed(MessageOf(f)) /\ Reply(d, f) = Dispatch(g, MessageOf(f))
         /\ SecureEstablished(d) => OpensReply(d.session, f)
  BY Zenon DEF Reply, Opened, o, g
<1>8. ASSUME OpensReply(d.session, f) PROVE f.body.code # "PDCap"
  <2>1. f.tag = MAC(d.session, FALSE, f.body)
    BY <1>8 DEF OpensReply, Verifies
  <2>2. d.session \in Session /\ f.body \in FrameBody
    BY <1>1 DEF Device, WireFrame
  <2>3. d.session.cmac.log \in Seq(FrameBody)
    BY <2>2 DEF Session, Tag
  <2>4. f.tag.log = Append(d.session.cmac.log, f.body)
    BY <2>1 DEF MAC, ChainFor
  <2>5. Append(d.session.cmac.log, f.body) # <<>>
    BY <2>2, <2>3
  <2> QED BY <2>4, <2>5 DEF NoTag
<1>9. ~Malformed(MessageOf(f)) /\ (SecureEstablished(d) => OpensReply(d.session, f))
        => Clear(Dispatch(g, MessageOf(f)))
  BY <1>1, <1>3, <1>6, <1>8, DispatchClear
<1>10. Clear(Timeout(d)) /\ Clear(Timeout(g))
  BY <1>3, <1>6, TimeoutClear
<1> HIDE DEF heard
<1> QED BY Zenon, <1>2, <1>7, <1>9, <1>10

LEMMA ComposeBody ==
  ASSUME NEW c \in Composition
  PROVE  /\ Compose(c).frame.body.code = c.msg.code
         /\ Compose(c).frame.body.block = c.block
         /\ Compose(c).dev.pending = c.dev.pending
<1> DEFINE n    == NextSequence(c.dev)
           body == Body(FALSE, n.addr, n.seq, c.block, c.msg)
           s    == Authenticate(n.session, TRUE, body)
           a    == [n EXCEPT !.session = s]
<1>1. n \in Device /\ n.pending = c.dev.pending
  <2>1. c.dev \in Device
    BY DEF Composition
  <2>2. n \in Device
    BY <2>1, NextSequenceType
  <2>3. CASE c.dev.repeatSequence
    BY <2>1, <2>2, <2>3 DEF NextSequence, Device
  <2>4. CASE ~c.dev.repeatSequence
    BY <2>1, <2>2, <2>4 DEF NextSequence, Device
  <2> QED BY <2>3, <2>4
<1>2. body.code = c.msg.code /\ body.block = c.block
  BY DEF Body
<1>3. \/ Compose(c) = [dev |-> a, frame |-> Frame(body, s.cmac)]
      \/ Compose(c) = [dev |-> n, frame |-> Frame(body, NoTag)]
  BY DEF Compose
<1> HIDE DEF n, body, s
<1>4. a.pending = n.pending
  BY <1>1 DEF Device
<1> HIDE DEF a
<1>5. \A tag : Frame(body, tag).body = body
  BY DEF Frame
<1>6. Compose(c).frame.body = body
  BY <1>3, <1>5
<1>7. Compose(c).dev.pending = n.pending
  BY <1>3, <1>4
<1> QED BY <1>1, <1>2, <1>6, <1>7

LEMMA TurnClear ==
  ASSUME NEW d \in Device, d.inflight = <<>>, Clear(d), NEW nonce \in Octet
  PROVE  Clear(Turn(d, nonce).dev)
<1> DEFINE c == CommandFor(d, nonce)
           e == Turn(d, nonce).dev
<1>1. e.state = d.state
  BY TurnSpeaks DEF Spoken
<1>2. d.state = "Online" => e.session.state = d.session.state
  BY CommandTurn
<1>3. e.pending = c.dev.pending
  BY CommandForType, ComposeBody DEF Turn
<1>4. Taken(d).pending = d.pending
  BY DEF Taken, Outbound, Device
<1>5. LET h == HandshakeCommand(d, nonce).dev IN h.pending = <<>> \/ h.pending = d.pending
  BY DEF HandshakeCommand, Device
<1>6. c.dev.pending = <<>> \/ c.dev.pending = d.pending
  BY <1>4, <1>5, CommandForCases
<1> HIDE DEF c, e
<1>7. Clear(e)
  BY <1>1, <1>2, <1>3, <1>6 DEF Clear, SecureEstablished, Established
<1> QED BY <1>7 DEF e


\* A queue holds nothing but what the application asked for.
LEMMA HeldStep ==
  ASSUME BusInv, BusStep, \A i \in Devices : Held(dev[i]) \in Seq(Accepted)
  PROVE  \A i \in Devices : Held(dev'[i]) \in Seq(Accepted)
<1>1. dev \in [Devices -> Device]
  BY DEF BusInv, TypeOK
<1>2. CASE dev' = dev
  BY <1>2
<1>3. ASSUME NEW i \in Devices, NEW e \in Device, dev' = [dev EXCEPT ![i] = e],
             JoinStep(i, e) \/ SpeakStep(i, e) \/ SettleStep(i, e)
      PROVE  \A j \in Devices : Held(dev'[j]) \in Seq(Accepted)
  <2>1. Held(dev[i]) \in Seq(Accepted)
    OBVIOUS
  <2>2. CASE JoinStep(i, e)
    <3>1. PICK m \in Accepted : Held(e) = Append(Held(dev[i]), m)
      BY <2>2 DEF JoinStep
    <3>2. Held(e) \in Seq(Accepted)
      BY <2>1, <3>1
    <3> QED BY <1>1, <1>3, <3>2
  <2>3. CASE Held(e) = Held(dev[i])
    BY <1>1, <1>3, <2>1, <2>3
  <2>4. CASE dev[i].inflight # <<>> /\ Held(e) = Tail(Held(dev[i]))
    <3>1. Held(dev[i]) # <<>>
      BY <1>1, <2>4, HeldInFlight
    <3>2. Held(e) \in Seq(Accepted)
      BY <2>1, <2>4, <3>1
    <3> QED BY <1>1, <1>3, <3>2
  <2> QED BY <1>3, <2>2, <2>3, <2>4 DEF SpeakStep, SettleStep
<1> QED BY <1>2, <1>3, StepEffect

\* One device moves, and stays clear.
LEMMA OneClear ==
  ASSUME TypeOK, NEW i \in Devices, NEW e, dev' = [dev EXCEPT ![i] = e], Clear(e),
         \A j \in Devices : Clear(dev[j])
  PROVE  \A j \in Devices : Clear(dev'[j])
<1>1. dev'[i] = e /\ \A j \in Devices \ {i} : dev'[j] = dev[j]
  BY DEF TypeOK
<1> QED BY <1>1

LEMMA RequestClear ==
  ASSUME TypeOK, Request, \A i \in Devices : Clear(dev[i])
  PROVE  \A i \in Devices : Clear(dev'[i])
<1>1. ASSUME NEW d \in Device, Clear(d), NEW m
      PROVE  Clear(Enqueue(d, m))
  <2>1. LET e == Enqueue(d, m)
        IN e.state = d.state /\ e.pending = d.pending /\ e.session = d.session
    BY DEF Enqueue, Device
  <2> QED BY Zenon, <1>1, <2>1, ClearSame
<1>2. ASSUME NEW d \in Device, Clear(d), NEW key \in NewKeys
      PROVE  Clear(InstallKey(d, key))
  <2> DEFINE p == [d EXCEPT !.pendingKey = key]
  <2>1. p \in Device /\ p.state = d.state /\ p.pending = d.pending /\ p.session = d.session
    BY BusAssumption DEF Device
  <2>2. InstallKey(d, key) = Enqueue(p, KeySetCommand(key))
    BY DEF InstallKey
  <2> HIDE DEF p
  <2>3. Clear(p)
    BY Zenon, <1>2, <2>1, ClearSame
  <2> QED BY <1>1, <2>1, <2>2, <2>3
<1>3. PICK i \in Devices :
        \/ \E m : Accept(i, Enqueue(dev[i], m))
        \/ \E key \in NewKeys : Accept(i, InstallKey(dev[i], key))
  BY DEF Request, Send, InstallKeyOn, SetCommunication
<1>4. dev[i] \in Device
  BY DEF TypeOK
<1>5. CASE \E m : Accept(i, Enqueue(dev[i], m))
  BY <1>1, <1>4, <1>5, OneClear DEF Accept
<1>6. CASE \E key \in NewKeys : Accept(i, InstallKey(dev[i], key))
  BY <1>2, <1>4, <1>6, OneClear DEF Accept
<1> QED BY <1>3, <1>5, <1>6
=============================================================================
