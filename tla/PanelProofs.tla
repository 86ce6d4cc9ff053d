---------------------------- MODULE PanelProofs ----------------------------
(***************************************************************************)
(* What the goroutines around Run do to requests and events, for any       *)
(* number of callers and calls and channels of any capacity.               *)
(***************************************************************************)
EXTENDS Panel, SequenceTheorems, FiniteSetTheorems, TLAPS

\* Variables the ordering of requests and events is about.
PanelType ==
  /\ accepted \in Seq(Request) /\ requests \in Seq(Request)
  /\ calls \in [Callers -> Nat]
  /\ call \in [Callers -> {"Idle", "Submitting", "Waiting"}]
  /\ \A c \in Callers : call[c] # "Idle" => calls[c] \in 1..MaxCalls[c]
  /\ done \in [Request -> {"None", "Accepted", "Refused"}]
  /\ outcome \in [Request -> {"None", "Accepted", "Refused", "NotRunning", "Cancelled"}]
  /\ events \in Seq(Nat) /\ received \in Seq(Nat) /\ produced \in Nat

\* A request that was made in an earlier call, or in this one once it is submitted.
Begun(r) ==
  r[2] <= calls[r[1]] /\ (call[r[1]] = "Submitting" => r[2] < calls[r[1]])

\* Accepted requests, then those in the channel, are in the order of their calls.
Ordered ==
  /\ CallerOrder
  /\ \A j, k \in 1..Len(requests) :
       j < k /\ requests[j][1] = requests[k][1] => requests[j][2] < requests[k][2]
  /\ \A j \in 1..Len(accepted), k \in 1..Len(requests) :
       accepted[j][1] = requests[k][1] => accepted[j][2] < requests[k][2]
  /\ \A k \in 1..Len(accepted) : Begun(accepted[k])
  /\ \A k \in 1..Len(requests) : Begun(requests[k])

\* What the done channels say is what was done.
Settled ==
  /\ \A k \in 1..Len(accepted) : done[accepted[k]] = "Accepted"
  /\ \A k \in 1..Len(requests) : done[requests[k]] = "None"
  /\ \A r \in Request : done[r] = "Accepted" => \E k \in 1..Len(accepted) : accepted[k] = r
  /\ \A r \in Request : outcome[r] \in {"Accepted", "Refused"} => done[r] = outcome[r]
  /\ \A r \in Request : ~Begun(r) => done[r] = "None"

\* Events are numbered as they were produced, and at most the last is missing.
Ended   == {"Failing", "Stopping", "Closing", "Returned"}
Counted ==
  /\ \A k \in 1..Len(received) : received[k] = k
  /\ \A k \in 1..Len(events) : events[k] = Len(received) + k
  /\ run = "Emit" => Len(received) + Len(events) = produced - 1
  /\ run # "Emit" =>
       \/ Len(received) + Len(events) = produced
       \/ Len(received) + Len(events) = produced - 1 /\ cancelled /\ run \in Ended

PanelInv == PanelType /\ Ordered /\ Settled /\ Counted

-----------------------------------------------------------------------------
(* Requests.                                                               *)

\* A request is a caller and the number of its call (Send).
LEMMA Requests ==
  /\ \A r \in Request : r[1] \in Callers /\ r[2] \in 1..MaxCalls[r[1]] /\ r = <<r[1], r[2]>>
  /\ \A c \in Callers : \A n \in 1..MaxCalls[c] : <<c, n>> \in Request
BY DEF Request

\* Calls are numbered with natural numbers.
LEMMA Numbers ==
  ASSUME NEW r \in Request
  PROVE  r[2] \in Nat
BY Requests, PanelAssumption

\* A caller inside Send is making one of its requests.
LEMMA CurrentIsRequest ==
  ASSUME PanelType, NEW c \in Callers, call[c] # "Idle"
  PROVE  /\ Current(c) \in Request
         /\ Current(c)[1] = c /\ Current(c)[2] = calls[c] /\ calls[c] \in Nat
BY Requests DEF PanelType, Current

\* A panel that New has just built satisfies the invariant.
LEMMA Starts ==
  ASSUME Init
  PROVE  PanelInv
<1>0. <<>> \in Seq(Request) /\ <<>> \in Seq(Nat) /\ Len(<<>>) = 0
  BY EmptySeq
<1>1. PanelType
  BY <1>0 DEF Init, PanelType
<1>2. Ordered
  BY <1>0 DEF Init, Ordered, CallerOrder
<1>3. Settled
  BY <1>0 DEF Init, Settled
<1>4. Counted
  BY <1>0 DEF Init, Counted
<1> QED BY <1>1, <1>2, <1>3, <1>4 DEF PanelInv

\* A step that moves no request keeps their order and their answers.
LEMMA RequestsUntouched ==
  ASSUME PanelInv, UNCHANGED <<app, asked>>
  PROVE  Ordered' /\ Settled'
BY DEF PanelInv, Ordered, CallerOrder, Begun, Settled, app, asked

\* A step that moves no event keeps them counted.
LEMMA EventsUntouched ==
  ASSUME PanelInv, UNCHANGED <<line, flow>>
  PROVE  Counted'
BY DEF PanelInv, Counted, line, flow

\* drainRequests moves the oldest request from the channel to the bus.
LEMMA DrainKeeps ==
  ASSUME PanelInv, DrainOne
  PROVE  PanelInv'
<1> DEFINE r == Head(requests)
<1>1. /\ requests \in Seq(Request) /\ requests # <<>> /\ accepted \in Seq(Request)
      /\ requests' = Tail(requests) /\ UNCHANGED <<line, app, flow>>
  BY DEF DrainOne, PanelInv, PanelType
<1>2. /\ r \in Request /\ requests' \in Seq(Request) /\ Len(requests') = Len(requests) - 1
      /\ \A k \in 1..Len(requests') : requests'[k] = requests[k + 1]
      /\ Len(requests) \in Nat \ {0} /\ r = requests[1]
  BY <1>1, HeadTailProperties, LenProperties, EmptySeq
<1>3. Counted'
  BY <1>1, EventsUntouched
<1>4. /\ UNCHANGED <<calls, call, outcome, events, received, produced>>
      /\ done \in [Request -> {"None", "Accepted", "Refused"}]
  BY <1>1 DEF app, flow, PanelInv, PanelType
<1> HIDE DEF r
<1>5. \A k \in 1..Len(requests') : k + 1 \in 1..Len(requests) /\ k + 1 # 1
  BY <1>2
<1>6. \A k \in 1..Len(requests') : requests'[k] \in Request /\ requests'[k] # r
  <2> TAKE k \in 1..Len(requests')
  <2>1. requests'[k] \in Request
    BY <1>2, ElementOfSeq
  <2>2. requests[1][1] = requests[k + 1][1] => requests[1][2] < requests[k + 1][2]
    BY <1>2, <1>5 DEF PanelInv, Ordered
  <2> QED BY <2>1, <2>2, <1>2, <1>5, Numbers
<1>a. ASSUME NEW j \in 1..Len(requests'), NEW k \in 1..Len(requests'), j < k,
             requests'[j][1] = requests'[k][1]
      PROVE  requests'[j][2] < requests'[k][2]
  <2>1. /\ j + 1 \in 1..Len(requests) /\ k + 1 \in 1..Len(requests) /\ j + 1 < k + 1
        /\ requests'[j] = requests[j + 1] /\ requests'[k] = requests[k + 1]
    BY <1>2, <1>5, <1>a
  <2>2. requests[j + 1][1] = requests[k + 1][1] => requests[j + 1][2] < requests[k + 1][2]
    BY <2>1 DEF PanelInv, Ordered
  <2> QED BY <1>a, <2>1, <2>2
<1>7. CASE accepted' = Append(accepted, r) /\ done' = [done EXCEPT ![r] = "Accepted"]
  <2>1. /\ accepted' \in Seq(Request) /\ Len(accepted') = Len(accepted) + 1
        /\ \A k \in 1..Len(accepted) : accepted'[k] = accepted[k]
        /\ accepted'[Len(accepted) + 1] = r /\ Len(accepted) \in Nat
    BY <1>1, <1>2, <1>7, AppendProperties, LenProperties
  <2>2. PanelType'
    BY <2>1, <1>2, <1>4, <1>7 DEF PanelInv, PanelType
  <2>3. Ordered'
    <3>1. CallerOrder'
      <4> SUFFICES ASSUME NEW j \in 1..(Len(accepted) + 1), NEW k \in 1..(Len(accepted) + 1),
                          j < k, accepted'[j][1] = accepted'[k][1]
                   PROVE  accepted'[j][2] < accepted'[k][2]
        BY <2>1 DEF CallerOrder
      <4>1. j \in 1..Len(accepted)
        BY <2>1
      <4>2. CASE k = Len(accepted) + 1
        BY <4>1, <4>2, <2>1, <1>2 DEF PanelInv, Ordered
      <4>3. CASE k \in 1..Len(accepted)
        BY <4>1, <4>3, <2>1 DEF PanelInv, Ordered, CallerOrder
      <4> QED BY <4>2, <4>3, <2>1
    <3>2. \A j, k \in 1..Len(requests') :
            j < k /\ requests'[j][1] = requests'[k][1] => requests'[j][2] < requests'[k][2]
      BY <1>a
    <3>3. \A j \in 1..Len(accepted'), k \in 1..Len(requests') :
            accepted'[j][1] = requests'[k][1] => accepted'[j][2] < requests'[k][2]
      <4> SUFFICES ASSUME NEW j \in 1..(Len(accepted) + 1), NEW k \in 1..Len(requests'),
                          accepted'[j][1] = requests'[k][1]
                   PROVE  accepted'[j][2] < requests'[k][2]
        BY <2>1
      <4>1. CASE j = Len(accepted) + 1
        <5>1. 1 \in 1..Len(requests) /\ 1 < k + 1
          BY <1>2
        <5> QED BY <5>1, <4>1, <2>1, <1>2, <1>5 DEF PanelInv, Ordered
      <4>2. CASE j \in 1..Len(accepted)
        BY <4>2, <2>1, <1>2, <1>5 DEF PanelInv, Ordered
      <4> QED BY <4>1, <4>2, <2>1
    <3>4. (\A k \in 1..Len(accepted) : Begun(accepted[k]))'
      <4> SUFFICES ASSUME NEW k \in 1..(Len(accepted) + 1) PROVE Begun(accepted[k])'
        BY <2>1
      <4>1. CASE k = Len(accepted) + 1
        BY <4>1, <2>1, <1>2, <1>4 DEF PanelInv, Ordered, Begun
      <4>2. CASE k \in 1..Len(accepted)
        BY <4>2, <2>1, <1>4 DEF PanelInv, Ordered, Begun
      <4> QED BY <4>1, <4>2, <2>1
    <3>5. (\A k \in 1..Len(requests) : Begun(requests[k]))'
      BY <1>2, <1>4, <1>5 DEF PanelInv, Ordered, Begun
    <3> QED BY <3>1, <3>2, <3>3, <3>4, <3>5 DEF Ordered
  <2>4. Settled'
    <3>1. \A k \in 1..Len(accepted') : done'[accepted'[k]] = "Accepted"
      BY <2>1, <1>2, <1>4, <1>7, ElementOfSeq, <1>1 DEF PanelInv, Settled
    <3>2. \A k \in 1..Len(requests') : done'[requests'[k]] = "None"
      BY <1>2, <1>4, <1>5, <1>6, <1>7 DEF PanelInv, Settled
    <3>3. \A q \in Request : done'[q] = "Accepted" => \E k \in 1..Len(accepted') : accepted'[k] = q
      BY <2>1, <1>2, <1>4, <1>7 DEF PanelInv, Settled
    <3>4. \A q \in Request : outcome'[q] \in {"Accepted", "Refused"} => done'[q] = outcome'[q]
      BY <1>2, <1>4, <1>7 DEF PanelInv, Settled
    <3>5. \A q \in Request : ~Begun(q)' => done'[q] = "None"
      BY <1>2, <1>4, <1>7 DEF PanelInv, Settled, Ordered, Begun
    <3> QED BY <3>1, <3>2, <3>3, <3>4, <3>5 DEF Settled
  <2> QED BY <2>2, <2>3, <2>4, <1>3 DEF PanelInv
<1>8. CASE done' = [done EXCEPT ![r] = "Refused"] /\ UNCHANGED accepted
  <2>2. PanelType'
    BY <1>1, <1>2, <1>4, <1>8 DEF PanelInv, PanelType
  <2>3. Ordered'
    <3>2. \A j, k \in 1..Len(requests') :
            j < k /\ requests'[j][1] = requests'[k][1] => requests'[j][2] < requests'[k][2]
      BY <1>a
    <3>3. \A j \in 1..Len(accepted'), k \in 1..Len(requests') :
            accepted'[j][1] = requests'[k][1] => accepted'[j][2] < requests'[k][2]
      BY <1>2, <1>5, <1>8 DEF PanelInv, Ordered
    <3>4. (\A k \in 1..Len(accepted) : Begun(accepted[k]))'
      BY <1>4, <1>8 DEF PanelInv, Ordered, Begun
    <3>5. (\A k \in 1..Len(requests) : Begun(requests[k]))'
      BY <1>2, <1>4, <1>5 DEF PanelInv, Ordered, Begun
    <3>6. CallerOrder'
      BY <1>8 DEF PanelInv, Ordered, CallerOrder
    <3> QED BY <3>2, <3>3, <3>4, <3>5, <3>6 DEF Ordered
  <2>4. Settled'
    <3>0. \A k \in 1..Len(accepted) : accepted[k] \in Request /\ accepted[k] # r
      <4> TAKE k \in 1..Len(accepted)
      <4>1. accepted[k] \in Request
        BY <1>1, ElementOfSeq
      <4>2. accepted[k][1] = requests[1][1] => accepted[k][2] < requests[1][2]
        BY <1>2 DEF PanelInv, Ordered
      <4> QED BY <4>1, <4>2, <1>2, Numbers
    <3>1. \A k \in 1..Len(accepted') : done'[accepted'[k]] = "Accepted"
      BY <3>0, <1>4, <1>8 DEF PanelInv, Settled
    <3>2. \A k \in 1..Len(requests') : done'[requests'[k]] = "None"
      BY <1>2, <1>4, <1>5, <1>6, <1>8 DEF PanelInv, Settled
    <3>3. \A q \in Request : done'[q] = "Accepted" => \E k \in 1..Len(accepted') : accepted'[k] = q
      BY <1>2, <1>4, <1>8 DEF PanelInv, Settled
    <3>4. \A q \in Request : outcome'[q] \in {"Accepted", "Refused"} => done'[q] = outcome'[q]
      BY <1>2, <1>4, <1>8 DEF PanelInv, Settled
    <3>5. \A q \in Request : ~Begun(q)' => done'[q] = "None"
      BY <1>2, <1>4, <1>8 DEF PanelInv, Settled, Ordered, Begun
    <3> QED BY <3>1, <3>2, <3>3, <3>4, <3>5 DEF Settled
  <2> QED BY <2>2, <2>3, <2>4, <1>3 DEF PanelInv
<1> QED BY <1>7, <1>8 DEF DrainOne, r

\* A call begins: its request is newer than every other of its caller.
LEMMA BeginKeeps ==
  ASSUME PanelInv, NEW c \in Callers, Begin(c)
  PROVE  PanelInv'
<1> USE PanelAssumption
<1>0. calls[c] \in Nat /\ MaxCalls[c] \in Nat
  BY DEF PanelInv, PanelType
<1>1. /\ call[c] = "Idle" /\ calls[c] + 1 \in 1..MaxCalls[c]
      /\ call' = [call EXCEPT ![c] = "Submitting"]
      /\ calls' = [calls EXCEPT ![c] = calls[c] + 1]
      /\ UNCHANGED <<line, outcome, flow, requests, done, accepted>>
  BY <1>0 DEF Begin, asked
<1>2. /\ calls \in [Callers -> Nat]
      /\ call \in [Callers -> {"Idle", "Submitting", "Waiting"}]
      /\ accepted \in Seq(Request) /\ requests \in Seq(Request)
  BY DEF PanelInv, PanelType
<1>3. PanelType'
  BY <1>0, <1>1 DEF PanelInv, PanelType, flow
<1>4. \A r \in Request : Begun(r) => Begun(r)'
  <2> SUFFICES ASSUME NEW r \in Request, Begun(r) PROVE Begun(r)'
    OBVIOUS
  <2>1. r[1] \in Callers /\ r[2] \in Nat
    BY Requests, Numbers
  <2> QED BY <2>1, <1>0, <1>1, <1>2 DEF Begun
<1>5. Ordered'
  <2>1. \A k \in 1..Len(accepted) : accepted[k] \in Request
    BY <1>2, ElementOfSeq
  <2>2. \A k \in 1..Len(requests) : requests[k] \in Request
    BY <1>2, ElementOfSeq
  <2>3. (\A k \in 1..Len(accepted) : Begun(accepted[k]))'
    <3> SUFFICES ASSUME NEW k \in 1..Len(accepted) PROVE Begun(accepted[k])'
      BY <1>1
    <3> QED BY <2>1, <1>1, <1>4 DEF PanelInv, Ordered, Begun
  <2>4. (\A k \in 1..Len(requests) : Begun(requests[k]))'
    <3> SUFFICES ASSUME NEW k \in 1..Len(requests) PROVE Begun(requests[k])'
      BY <1>1
    <3> QED BY <2>2, <1>1, <1>4 DEF PanelInv, Ordered, Begun
  <2> QED BY <2>3, <2>4, <1>1 DEF PanelInv, Ordered, CallerOrder
<1>6. Settled'
  <2>1. \A r \in Request : ~Begun(r)' => done'[r] = "None"
    BY <1>1, <1>4 DEF PanelInv, Settled
  <2> QED BY <2>1, <1>1 DEF PanelInv, Settled
<1> QED BY <1>1, <1>3, <1>5, <1>6, EventsUntouched DEF PanelInv

\* The request of a call goes to the end of the channel.
LEMMA SubmitKeeps ==
  ASSUME PanelInv, NEW c \in Callers, Submit(c)
  PROVE  PanelInv'
<1> DEFINE r == Current(c)
<1>1. /\ call[c] = "Submitting" /\ requests' = Append(requests, r)
      /\ call' = [call EXCEPT ![c] = "Waiting"]
      /\ UNCHANGED <<line, calls, outcome, flow, done, accepted>>
  BY DEF Submit
<1>2. /\ calls \in [Callers -> Nat]
      /\ call \in [Callers -> {"Idle", "Submitting", "Waiting"}]
      /\ accepted \in Seq(Request) /\ requests \in Seq(Request)
  BY DEF PanelInv, PanelType
<1>3. r \in Request /\ r[1] = c /\ r[2] = calls[c] /\ calls[c] \in Nat
  BY <1>1, CurrentIsRequest DEF PanelInv
<1>0. r' = r
  BY <1>1 DEF Current
<1> HIDE DEF r
<1>4. /\ requests' \in Seq(Request) /\ Len(requests') = Len(requests) + 1
      /\ \A k \in 1..Len(requests) : requests'[k] = requests[k] /\ requests[k] \in Request
      /\ requests'[Len(requests) + 1] = r /\ Len(requests) \in Nat
  BY <1>1, <1>2, <1>3, AppendProperties, LenProperties, ElementOfSeq
<1>5. PanelType'
  BY <1>1, <1>4 DEF PanelInv, PanelType, flow
<1>6. \A q \in Request : Begun(q) => Begun(q)' /\ (q[1] = c => q[2] < r[2])
  <2> SUFFICES ASSUME NEW q \in Request, Begun(q)
               PROVE  Begun(q)' /\ (q[1] = c => q[2] < r[2])
    OBVIOUS
  <2>1. q[1] \in Callers /\ q[2] \in Nat
    BY Requests, Numbers
  <2> QED BY <2>1, <1>1, <1>2, <1>3 DEF Begun
<1>7. Begun(r)'
  BY <1>0, <1>1, <1>2, <1>3 DEF Begun
<1>8. ~Begun(r)
  BY <1>1, <1>3 DEF Begun
<1>9. Ordered'
  <2>1. \A k \in 1..Len(accepted) : accepted[k] \in Request /\ Begun(accepted[k])
    BY <1>2, ElementOfSeq DEF PanelInv, Ordered
  <2>2. \A k \in 1..Len(requests) : requests[k] \in Request /\ Begun(requests[k])
    BY <1>4 DEF PanelInv, Ordered
  <2>3. (\A k \in 1..Len(accepted) : Begun(accepted[k]))'
    <3> SUFFICES ASSUME NEW k \in 1..Len(accepted) PROVE Begun(accepted[k])'
      BY <1>1
    <3> QED BY <2>1, <1>1, <1>6 DEF Begun
  <2>4. (\A k \in 1..Len(requests) : Begun(requests[k]))'
    <3> SUFFICES ASSUME NEW k \in 1..(Len(requests) + 1) PROVE Begun(requests[k])'
      BY <1>4
    <3>1. CASE k = Len(requests) + 1
      BY <3>1, <1>0, <1>4, <1>7 DEF Begun
    <3>2. CASE k \in 1..Len(requests)
      BY <3>2, <2>2, <1>4, <1>6 DEF Begun
    <3> QED BY <3>1, <3>2, <1>4
  <2>5. ASSUME NEW j \in 1..(Len(requests) + 1), NEW k \in 1..(Len(requests) + 1),
               j < k, requests'[j][1] = requests'[k][1]
        PROVE  requests'[j][2] < requests'[k][2]
    <3>1. j \in 1..Len(requests)
      BY <2>5, <1>4
    <3>2. CASE k = Len(requests) + 1
      BY <3>1, <3>2, <2>5, <2>2, <1>3, <1>4, <1>6
    <3>3. CASE k \in 1..Len(requests)
      BY <3>1, <3>3, <2>5, <1>4 DEF PanelInv, Ordered
    <3> QED BY <3>2, <3>3, <1>4
  <2>6. ASSUME NEW j \in 1..Len(accepted), NEW k \in 1..(Len(requests) + 1),
               accepted[j][1] = requests'[k][1]
        PROVE  accepted[j][2] < requests'[k][2]
    <3>1. CASE k = Len(requests) + 1
      BY <3>1, <2>6, <2>1, <1>3, <1>4, <1>6
    <3>2. CASE k \in 1..Len(requests)
      BY <3>2, <2>6, <1>4 DEF PanelInv, Ordered
    <3> QED BY <3>1, <3>2, <1>4
  <2>7. CallerOrder'
    BY <1>1 DEF PanelInv, Ordered, CallerOrder
  <2> QED BY <2>3, <2>4, <2>5, <2>6, <2>7, <1>1, <1>4 DEF Ordered
<1>10. Settled'
  <2>1. done[r] = "None"
    BY <1>3, <1>8 DEF PanelInv, Settled
  <2>2. \A k \in 1..Len(requests') : done'[requests'[k]] = "None"
    <3> TAKE k \in 1..Len(requests')
    <3>1. CASE k = Len(requests) + 1
      BY <3>1, <2>1, <1>1, <1>4
    <3>2. CASE k \in 1..Len(requests)
      BY <3>2, <1>1, <1>4 DEF PanelInv, Settled
    <3> QED BY <3>1, <3>2, <1>4
  <2>3. \A q \in Request : ~Begun(q)' => done'[q] = "None"
    BY <1>1, <1>6 DEF PanelInv, Settled
  <2> QED BY <2>2, <2>3, <1>1 DEF PanelInv, Settled
<1> QED BY <1>1, <1>5, <1>9, <1>10, EventsUntouched DEF PanelInv

\* A call returns, with the answer of its request or without one.
LEMMA ReturnKeeps ==
  ASSUME PanelInv, NEW c \in Callers, Answered(c) \/ NotRunning(c) \/ GiveUp(c)
  PROVE  PanelInv'
<1>1. PICK what \in {done[Current(c)], "NotRunning", "Cancelled"} :
        /\ call[c] # "Idle" /\ call' = [call EXCEPT ![c] = "Idle"]
        /\ outcome' = [outcome EXCEPT ![Current(c)] = what]
        /\ what \in {"Accepted", "Refused"} => done[Current(c)] = what
        /\ UNCHANGED <<calls, line, flow, requests, done, accepted>>
  BY DEF Answered, NotRunning, GiveUp, Returns, asked, PanelInv, PanelType
<1>2. Current(c) \in Request
  BY <1>1, CurrentIsRequest DEF PanelInv
<1>3. /\ calls \in [Callers -> Nat]
      /\ call \in [Callers -> {"Idle", "Submitting", "Waiting"}]
      /\ done \in [Request -> {"None", "Accepted", "Refused"}]
      /\ accepted \in Seq(Request) /\ requests \in Seq(Request)
  BY DEF PanelInv, PanelType
<1> HIDE DEF Current
<1>4. PanelType'
  BY <1>1, <1>2, <1>3 DEF PanelInv, PanelType, flow
<1>5. \A q \in Request : Begun(q) => Begun(q)'
  <2> SUFFICES ASSUME NEW q \in Request, Begun(q) PROVE Begun(q)'
    OBVIOUS
  <2>1. q[1] \in Callers
    BY Requests
  <2> QED BY <2>1, <1>1, <1>3 DEF Begun
<1>6. Ordered'
  <2>1. (\A k \in 1..Len(accepted) : Begun(accepted[k]))'
    <3> SUFFICES ASSUME NEW k \in 1..Len(accepted) PROVE Begun(accepted[k])'
      BY <1>1
    <3>1. accepted[k] \in Request
      BY <1>3, ElementOfSeq
    <3> QED BY <3>1, <1>1, <1>5 DEF PanelInv, Ordered, Begun
  <2>2. (\A k \in 1..Len(requests) : Begun(requests[k]))'
    <3> SUFFICES ASSUME NEW k \in 1..Len(requests) PROVE Begun(requests[k])'
      BY <1>1
    <3>1. requests[k] \in Request
      BY <1>3, ElementOfSeq
    <3> QED BY <3>1, <1>1, <1>5 DEF PanelInv, Ordered, Begun
  <2> QED BY <2>1, <2>2, <1>1 DEF PanelInv, Ordered, CallerOrder
<1>7. Settled'
  <2>1. \A q \in Request : outcome'[q] \in {"Accepted", "Refused"} => done'[q] = outcome'[q]
    BY <1>1, <1>2 DEF PanelInv, PanelType, Settled
  <2>2. \A q \in Request : ~Begun(q)' => done'[q] = "None"
    BY <1>1, <1>5 DEF PanelInv, Settled
  <2> QED BY <2>1, <2>2, <1>1 DEF PanelInv, Settled
<1> QED BY <1>1, <1>4, <1>6, <1>7, EventsUntouched DEF PanelInv

-----------------------------------------------------------------------------
(* Events.                                                                 *)

\* Run publishes the event of an exchange, or gives it up on a cancel (emit).
LEMMA EmitKeeps ==
  ASSUME PanelInv, Emit
  PROVE  PanelInv'
<1>1. /\ run = "Emit" /\ UNCHANGED <<app, asked>>
      /\ UNCHANGED <<cancelled, produced, received>>
      /\ events \in Seq(Nat) /\ received \in Seq(Nat) /\ produced \in Nat
      /\ Len(received) + Len(events) = produced - 1
  BY DEF Emit, PanelInv, PanelType, Counted
<1>2. CASE events' = Append(events, produced) /\ run' = "Top"
  <2>1. /\ events' \in Seq(Nat) /\ Len(events') = Len(events) + 1
        /\ \A k \in 1..Len(events) : events'[k] = events[k]
        /\ events'[Len(events) + 1] = produced
        /\ Len(events) \in Nat /\ Len(received) \in Nat
    BY <1>1, <1>2, AppendProperties, LenProperties
  <2>2. \A k \in 1..Len(events') : events'[k] = Len(received) + k
    <3> TAKE k \in 1..Len(events')
    <3>1. CASE k = Len(events) + 1
      BY <3>1, <2>1, <1>1
    <3>2. CASE k \in 1..Len(events)
      BY <3>2, <2>1 DEF PanelInv, Counted
    <3> QED BY <3>1, <3>2, <2>1
  <2>3. Counted'
    BY <2>1, <2>2, <1>1, <1>2 DEF PanelInv, Counted
  <2>4. PanelType'
    BY <2>1, <1>1 DEF PanelInv, PanelType, app, asked
  <2> QED BY <2>3, <2>4, <1>1, RequestsUntouched DEF PanelInv
<1>3. CASE cancelled /\ run' = "Failing" /\ UNCHANGED events
  <2>1. Counted'
    BY <1>1, <1>3 DEF PanelInv, Counted, Ended
  <2>2. PanelType'
    BY <1>1, <1>3 DEF PanelInv, PanelType, app, asked
  <2> QED BY <2>1, <2>2, <1>1, RequestsUntouched DEF PanelInv
<1> QED BY <1>2, <1>3 DEF Emit

\* The consumer takes the oldest event from the channel (Events).
LEMMA TakeKeeps ==
  ASSUME PanelInv, Take
  PROVE  PanelInv'
<1>1. /\ events \in Seq(Nat) /\ events # <<>> /\ received \in Seq(Nat)
      /\ received' = Append(received, Head(events)) /\ events' = Tail(events)
      /\ UNCHANGED <<line, app, asked, produced>>
  BY DEF Take, PanelInv, PanelType
<1>2. /\ Head(events) \in Nat /\ events' \in Seq(Nat) /\ Len(events') = Len(events) - 1
      /\ \A k \in 1..Len(events') : events'[k] = events[k + 1]
      /\ Len(events) \in Nat \ {0} /\ Head(events) = events[1]
  BY <1>1, HeadTailProperties, LenProperties, EmptySeq
<1>3. /\ received' \in Seq(Nat) /\ Len(received') = Len(received) + 1
      /\ \A k \in 1..Len(received) : received'[k] = received[k]
      /\ received'[Len(received) + 1] = events[1] /\ Len(received) \in Nat
  BY <1>1, <1>2, AppendProperties, LenProperties
<1>4. Counted'
  <2>1. events[1] = Len(received) + 1
    BY <1>2 DEF PanelInv, Counted
  <2>2. \A k \in 1..Len(received') : received'[k] = k
    <3> TAKE k \in 1..Len(received')
    <3>1. CASE k = Len(received) + 1
      BY <3>1, <2>1, <1>3
    <3>2. CASE k \in 1..Len(received)
      BY <3>2, <1>3 DEF PanelInv, Counted
    <3> QED BY <3>1, <3>2, <1>3
  <2>3. \A k \in 1..Len(events') : events'[k] = Len(received') + k
    <3> TAKE k \in 1..Len(events')
    <3>1. k + 1 \in 1..Len(events)
      BY <1>2
    <3>2. events[k + 1] = Len(received) + (k + 1)
      BY <3>1 DEF PanelInv, Counted
    <3> QED BY <3>1, <3>2, <1>2, <1>3
  <2>4. Len(received') + Len(events') = Len(received) + Len(events)
    BY <1>2, <1>3
  <2> QED BY <2>2, <2>3, <2>4, <1>1 DEF PanelInv, Counted, line
<1>5. PanelType'
  BY <1>1, <1>2, <1>3 DEF PanelInv, PanelType, app, asked
<1> QED BY <1>1, <1>4, <1>5, RequestsUntouched DEF PanelInv

\* The other steps move no request and no event; an exchange may produce one.
LEMMA OthersKeep ==
  ASSUME PanelInv,
         Start \/ Top \/ DrainEnd \/ Write \/ Sleep \/ Await \/ Failing \/ Return
           \/ Receive \/ SeeEnd \/ Cancel \/ Close \/ UNCHANGED vars
  PROVE  PanelInv'
<1> USE DEF app, asked, flow, line
<1>1. UNCHANGED <<app, asked, events, received>>
  BY DEF Start, Top, DrainEnd, Write, Sleep, Await, Failing, Return, Receive, SeeEnd,
         Cancel, Close, vars
<1>2. produced' \in Nat
  <2>1. produced \in Nat
    BY DEF PanelInv, PanelType
  <2>2. CASE Await
    BY <2>1, <2>2 DEF Await
  <2>3. CASE Start \/ Top \/ DrainEnd \/ Write \/ Sleep \/ Failing \/ Return
    BY <2>1, <2>3 DEF Start, Top, DrainEnd, Write, Sleep, Failing, Return
  <2>4. CASE Receive \/ SeeEnd \/ Cancel \/ Close \/ UNCHANGED vars
    BY <2>1, <2>4 DEF Receive, SeeEnd, Cancel, Close, vars
  <2> QED BY <2>2, <2>3, <2>4
<1>3. PanelType'
  BY <1>1, <1>2 DEF PanelInv, PanelType
<1>4. Len(received) \in Nat /\ Len(events) \in Nat /\ produced \in Nat
  BY LenProperties DEF PanelInv, PanelType
<1>5. Counted'
  <2> DEFINE taken == Len(received) + Len(events)
             Now == IF run = "Emit" THEN taken = produced - 1
                    ELSE \/ taken = produced
                         \/ taken = produced - 1 /\ cancelled /\ run \in Ended
             Then == IF run' = "Emit" THEN taken = produced' - 1
                     ELSE \/ taken = produced'
                          \/ taken = produced' - 1 /\ cancelled' /\ run' \in Ended
  <2>1. Now /\ taken \in Nat
    BY <1>4 DEF PanelInv, Counted
  <2> SUFFICES Then
    BY <1>1 DEF PanelInv, Counted
  <2> HIDE DEF taken
  <2>2. CASE Start \/ Top \/ DrainEnd \/ Write \/ Sleep
    BY <2>1, <2>2 DEF Start, Top, DrainEnd, Write, Sleep, Ended
  <2>3. CASE Await
    BY <2>1, <2>3, <1>4 DEF Await, Ended
  <2>4. CASE Failing \/ Return
    BY <2>1, <2>4 DEF Failing, Return, Ended
  <2>5. CASE Receive \/ SeeEnd \/ Cancel \/ Close \/ UNCHANGED vars
    BY <2>1, <2>5 DEF Receive, SeeEnd, Cancel, Close, vars
  <2> QED BY <2>2, <2>3, <2>4, <2>5
<1> QED BY <1>1, <1>3, <1>5, RequestsUntouched DEF PanelInv

\* Every step of the panel keeps the invariant.
LEMMA StepKeeps ==
  ASSUME PanelInv, [Next]_vars
  PROVE  PanelInv'
BY DrainKeeps, BeginKeeps, SubmitKeeps, ReturnKeeps, EmitKeeps, TakeKeeps, OthersKeep
   DEF Next, Run

\* The invariant holds in every state of the panel.
LEMMA Invariant == Spec => []PanelInv
<1>1. Init => PanelInv
  BY Starts
<1>2. PanelInv /\ [Next]_vars => PanelInv'
  BY StepKeeps
<1> QED BY <1>1, <1>2, PTL DEF Spec

-----------------------------------------------------------------------------
(* What follows.                                                           *)

\* The requests of one goroutine reach the bus in the order of its calls, those it
\* had given up waiting for included (submit, drainRequests).
THEOREM CallersKeepOrder == Spec => []CallerOrder
<1>1. PanelInv => CallerOrder
  BY DEF PanelInv, Ordered
<1> QED BY <1>1, Invariant, PTL

\* The answer of a call is the truth about its request, and no request is put on the
\* bus twice (Send, drainRequests).
THEOREM AnswersAreTrue == Spec => []AcceptedMeansQueued
<1>1. PanelInv => AcceptedMeansQueued
  <2> SUFFICES ASSUME PanelInv, NEW r \in Request
               PROVE  /\ Times(r) <= 1
                      /\ outcome[r] = "Accepted" => Times(r) = 1
                      /\ outcome[r] = "Refused"  => Times(r) = 0
    BY DEF AcceptedMeansQueued
  <2> DEFINE places == {k \in 1..Len(accepted) : accepted[k] = r}
  <2>0. accepted \in Seq(Request) /\ Len(accepted) \in Nat /\ r[2] \in Nat
    BY LenProperties, Numbers DEF PanelInv, PanelType
  <2>1. \A j, k \in places : j = k
    <3> SUFFICES ASSUME NEW j \in places, NEW k \in places, j < k PROVE FALSE
      BY <2>0
    <3> QED BY <2>0 DEF PanelInv, Ordered, CallerOrder
  <2>2. ASSUME places = {} PROVE Times(r) = 0
    BY <2>2, FS_EmptySet DEF Times
  <2>3. ASSUME NEW k \in places PROVE Times(r) = 1
    <3>1. places = {k}
      BY <2>1
    <3> QED BY <3>1, FS_Singleton DEF Times
  <2>4. done[r] = "Accepted" => places # {}
    BY DEF PanelInv, Settled
  <2>5. done[r] = "Refused" => places = {}
    BY DEF PanelInv, Settled
  <2>6. outcome[r] \in {"Accepted", "Refused"} => done[r] = outcome[r]
    BY DEF PanelInv, Settled
  <2> HIDE DEF places
  <2> QED BY <2>2, <2>3, <2>4, <2>5, <2>6
<1> QED BY <1>1, Invariant, PTL

\* No event is dropped, repeated or reordered on its way to the consumer; only a
\* cancelled Run may leave its last one unpublished (Events, emit).
THEOREM EventsAllArrive == Spec => []NoEventForgotten
<1>1. PanelInv => NoEventForgotten
  <2> SUFFICES ASSUME PanelInv PROVE NoEventForgotten
    OBVIOUS
  <2> DEFINE seen == received \o events
  <2>0. events \in Seq(Nat) /\ received \in Seq(Nat) /\ produced \in Nat
    BY DEF PanelInv, PanelType
  <2>1. /\ Len(seen) = Len(received) + Len(events)
        /\ Len(received) \in Nat /\ Len(events) \in Nat
        /\ \A k \in 1..Len(seen) : seen[k] = IF k <= Len(received) THEN received[k]
                                              ELSE events[k - Len(received)]
    BY <2>0, ConcatProperties, LenProperties
  <2> HIDE DEF seen
  <2>2. ASSUME NEW k \in 1..Len(seen) PROVE seen[k] = k
    <3>1. CASE k <= Len(received)
      BY <3>1, <2>1 DEF PanelInv, Counted
    <3>2. CASE k > Len(received)
      <4>1. k - Len(received) \in 1..Len(events)
        BY <3>2, <2>1
      <4> QED BY <4>1, <3>2, <2>1 DEF PanelInv, Counted
    <3> QED BY <3>1, <3>2, <2>1
  <2>3. Len(seen) # produced => Len(seen) = produced - 1 /\ (run = "Emit" \/ cancelled)
    BY <2>1 DEF PanelInv, Counted
  <2> QED BY <2>2, <2>3 DEF NoEventForgotten, seen
<1> QED BY <1>1, Invariant, PTL
=============================================================================
