------------------------------ MODULE BusProofs ------------------------------
(***************************************************************************)
(* What holds of the bus on any line, for every number of devices, every   *)
(* configuration and every sequence of replies.                            *)
(***************************************************************************)
EXTENDS OpenBus, BusSteps

LEMMA NextIsStep ==
  ASSUME [Next]_vars
  PROVE  BusStep
<1>1. Arrive => \E f \in WireFrame : Receive(f)
  BY DEF Arrive
<1>2. (\E nonce \in Nonces : NextTurn(nonce)) => \E nonce \in Octet : NextTurn(nonce)
  BY NoncesAssumption
<1> QED BY <1>1, <1>2 DEF Next, Stopped, BusStep

\* Every variable of the bus keeps its type, whatever arrives on the line: no
\* reply drives a device's record out of the values its methods expect.
THEOREM TypeCorrect == Spec => []TypeOK
BY InitType, StepType, NextIsStep, PTL DEF Spec

\* The bus's inductive invariant: outside its transaction a device has nothing
\* in flight, and what it is to repeat it will repeat exactly.
THEOREM BusInvariant == Spec => []BusInv
BY InitInv, StepInv, NextIsStep, PTL DEF Spec

\* The states that use a device's session have one, whatever arrives: the
\* dereferences of handshakeCommand and compose are safe.
THEOREM SessionsFit == Spec => []SessionMatchesState
<1>1. BusInv => SessionMatchesState
  BY DEF BusInv
<1> QED BY <1>1, BusInvariant, PTL

\* A repeated sequence number always carries the lost frame again, octet for
\* octet and with the same authentication code.
THEOREM RepeatsExactly == Spec => []RepeatIsExact
BY RepeatsAsSent, BusInvariant, PTL

\* A command leaves a device's queue only while that device is awaited, only if
\* it is the one the last frame carried, and only on an answer to it: no miss, no
\* osdp_BUSY and no restart of the exchange takes it.
THEOREM OnlyAnsweredLeaves == Spec => OnlyTheAnsweredCommandLeaves
<1>1. ASSUME BusInv, [Next]_vars, NEW i \in Devices,
             Len(Held(dev[i])') < Len(Held(dev[i]))
      PROVE  /\ step = Waiting(i)
             /\ MessageOf(sent[i][1]) = Head(Held(dev[i]))
             /\ ~Miss
             /\ dev'[i].event # "Busy"
             /\ dev'[i].state = "Offline" => dev'[i].event = "Communication"
  <2>1. dev \in [Devices -> Device] /\ dev[i] \in Device
    BY <1>1 DEF BusInv, TypeOK
  <2>2. Held(dev[i]) \in Seq(Message)
    BY <2>1, HeldInFlight
  <2>3. Len(Held(dev'[i])) < Len(Held(dev[i]))
    BY Zenon, <1>1 DEF Held
  <2>4. PICK j \in Devices, e \in Device :
          /\ dev' = [dev EXCEPT ![j] = e]
          /\ JoinStep(j, e) \/ SpeakStep(j, e) \/ SettleStep(j, e)
    <3>1. dev' # dev
      BY <2>2, <2>3
    <3> QED BY <1>1, <3>1, NextIsStep, StepEffect
  <2>5. i = j /\ dev'[i] = e
    <3>1. i # j => dev'[i] = dev[i]
      BY <2>1, <2>4
    <3> QED BY <2>1, <2>2, <2>3, <2>4, <3>1
  <2>6. ~JoinStep(i, e)
    BY <2>2, <2>3, <2>5, RequestedType DEF JoinStep
  <2>7. ~SpeakStep(i, e)
    BY <2>2, <2>3, <2>5 DEF SpeakStep
  <2>8. /\ step = Waiting(i) /\ dev[i].inflight # <<>> /\ e.event # "Busy"
        /\ e.state = "Offline" => dev[i].state = "Offline" \/ e.event = "Communication"
    BY <2>2, <2>3, <2>4, <2>5, <2>6, <2>7 DEF SettleStep
  <2>9. Head(Held(dev[i])) = dev[i].inflight[1]
    BY <2>1, <2>8, HeldInFlight
  <2>10. /\ sent[i] = <<CommandFrame(dev[i], dev[i].inflight[1])>>
         /\ dev[i].state # "Offline"
    BY <1>1, <2>8 DEF BusInv, Repeatable, Carried
  <2>11. dev[i].inflight[1] \in Message
    BY <2>1, <2>8, OptionalElement DEF Device
  <2>12. MessageOf(CommandFrame(dev[i], dev[i].inflight[1])) = dev[i].inflight[1]
    <3>1. ASSUME NEW x \in Message
          PROVE  Msg(x.code, x.arg, x.len) = x
      BY DEF Msg, Message
    <3>2. ASSUME NEW x, NEW addr, NEW seq, NEW block, NEW tag
          PROVE  MessageOf(Frame(Body(FALSE, addr, seq, block, x), tag))
                   = Msg(x.code, x.arg, x.len)
      BY DEF MessageOf, Frame, Body
    <3>3. ASSUME NEW d, NEW x
          PROVE  MessageOf(CommandFrame(d, x)) = Msg(x.code, x.arg, x.len)
      BY Zenon, <3>2 DEF CommandFrame
    <3> QED BY Zenon, <2>11, <3>1, <3>3
  <2>13. ~Miss
    BY <1>1, <2>2, <2>3, MissKeepsQueues
  <2> QED BY <2>5, <2>8, <2>9, <2>10, <2>12, <2>13
<1>2. BusInv /\ [Next]_vars =>
        [\A i \in Devices :
           Len(Held(dev[i])') < Len(Held(dev[i])) =>
             /\ step = Waiting(i)
             /\ MessageOf(sent[i][1]) = Head(Held(dev[i]))
             /\ ~Miss
             /\ dev'[i].event # "Busy"
             /\ dev'[i].state = "Offline" => dev'[i].event = "Communication"]_vars
  BY <1>1
<1> QED BY <1>2, BusInvariant, PTL DEF Spec, OnlyTheAnsweredCommandLeaves

\* A device goes offline only in its own transaction, and the application hears.
THEOREM LossesReported == Spec => LossIsReported
<1>1. ASSUME BusInv, [Next]_vars, NEW i \in Devices,
             dev[i].state # "Offline", dev'[i].state = "Offline"
      PROVE  step = Waiting(i) /\ dev'[i].event \in Losses
  <2>1. dev \in [Devices -> Device]
    BY <1>1 DEF BusInv, TypeOK
  <2>2. PICK j \in Devices, e \in Device :
          /\ dev' = [dev EXCEPT ![j] = e]
          /\ JoinStep(j, e) \/ SpeakStep(j, e) \/ SettleStep(j, e)
    BY <1>1, NextIsStep, StepEffect
  <2>3. i = j /\ dev'[i] = e
    BY <1>1, <2>1, <2>2
  <2> QED BY <1>1, <2>2, <2>3 DEF JoinStep, SpeakStep, SettleStep
<1>2. BusInv /\ [Next]_vars =>
        [\A i \in Devices :
           dev[i].state # "Offline" /\ dev'[i].state = "Offline" =>
             /\ step = Waiting(i)
             /\ dev'[i].event \in {"Offline", "Resync", "SecureFailed", "Communication"}]_vars
  BY <1>1 DEF Losses
<1> QED BY <1>2, BusInvariant, PTL DEF Spec, LossIsReported

\* The bus implements the queue it promises its application: however the line
\* behaves, a command accepted is never lost, repeated or overtaken in custody.
THEOREM CustodyKept == Spec => Custody
<1> DEFINE q == [i \in Devices |-> Held(dev[i])]
<1>1. Init => Promise!Init
  <2> SUFFICES ASSUME Init PROVE q = [i \in Devices |-> <<>>]
    BY DEF Promise!Init
  <2> QED BY DEF Init, NewDevice, Held
<1>2. ASSUME BusInv, [Next]_vars
      PROVE  [Promise!Next]_q
  <2>1. dev \in [Devices -> Device]
    BY <1>2 DEF BusInv, TypeOK
  <2>2. CASE dev' = dev
    BY <2>2
  <2>3. ASSUME NEW i \in Devices, NEW e \in Device, dev' = [dev EXCEPT ![i] = e],
               JoinStep(i, e) \/ SpeakStep(i, e) \/ SettleStep(i, e)
        PROVE  [Promise!Next]_q
    <3>1. q' = [q EXCEPT ![i] = Held(e)]
      BY Zenon, <2>1, <2>3
    <3>2. q[i] = Held(dev[i])
      OBVIOUS
    <3>3. CASE Held(e) = Held(dev[i])
      BY Zenon, <3>1, <3>3
    <3>4. CASE \E m \in Accepted : Held(e) = Append(Held(dev[i]), m)
      <4>1. PICK m \in Accepted : Held(e) = Append(q[i], m)
        BY Zenon, <3>2, <3>4
      <4>2. Promise!Submit(i, m)
        BY Zenon, <3>1, <4>1 DEF Promise!Submit
      <4> QED BY Zenon, <4>2 DEF Promise!Next
    <3>5. CASE dev[i].inflight # <<>> /\ Held(e) = Tail(Held(dev[i]))
      <4>1. Held(dev[i]) # <<>>
        BY <2>1, <3>5, HeldInFlight
      <4> QED BY Zenon, <3>1, <3>2, <3>5, <4>1 DEF Promise!Next, Promise!Settle
    <3> QED BY <2>3, <3>3, <3>4, <3>5 DEF JoinStep, SpeakStep, SettleStep
  <2> QED BY <1>2, <2>2, <2>3, NextIsStep, StepEffect
<1> QED BY <1>1, <1>2, BusInvariant, PTL DEF Spec, Custody, Promise!Spec
=============================================================================
