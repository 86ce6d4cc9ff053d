--------------------------------- MODULE Bus ---------------------------------
(***************************************************************************)
(* internal/bus driven by internal/panel: one panel and its devices.  The  *)
(* panel owns one transaction at a time (panel/cycle.go): it takes         *)
(* requests, gives the next device its turn, and settles that turn with a  *)
(* reply or a miss before it takes anything else.                          *)
(*                                                                         *)
(* What arrives on the line is the business of the modules that extend     *)
(* this one: anything at all in OpenBus, what peripherals say in Link.     *)
(***************************************************************************)
EXTENDS BusDevice

CONSTANTS
  N,             \* how many devices the bus was built with
  StartAddress,  \* their configured addresses
  Commands,      \* what the application may send
  NewKeys,       \* keys it may install
  NewAddresses,  \* addresses it may move a device to
  MaxQueue       \* bound on the commands a device holds

Devices == 1..N

ASSUME BusAssumption ==
  /\ N \in Nat \ {0}
  /\ StartAddress \in [Devices -> Octet]
  /\ Commands \subseteq Message
  /\ NewKeys \subseteq Octet \ {NoKey}
  /\ NewAddresses \subseteq Octet
  /\ NoKey \in Octet
  /\ \A addr \in Octet : KeyFor(addr) \in Octet

VARIABLES
  dev,      \* the devices of the bus
  current,  \* whose turn is next
  step,     \* the transaction the panel is in
  sent      \* history: the last frame composed for each device, if any

vars == <<dev, current, step, sent>>

Idle       == [phase |-> "idle", dev |-> 0]
Halted     == [phase |-> "halted", dev |-> 0]
Waiting(i) == [phase |-> "waiting", dev |-> i]

Init ==
  /\ dev = [i \in Devices |-> NewDevice(StartAddress[i])]
  /\ current = 1
  /\ step = Idle
  /\ sent = [i \in Devices |-> <<>>]

Held(d) == d.inflight \o d.outbox

-----------------------------------------------------------------------------
(* What the application asks for, drained between transactions.            *)

Accept(i, d) ==
  /\ step = Idle
  /\ Len(Held(dev[i])) < MaxQueue
  /\ dev' = [dev EXCEPT ![i] = d]
  /\ UNCHANGED <<current, step, sent>>

Send(i, m) == Fits(dev[i], m) /\ Accept(i, Enqueue(dev[i], m))

InstallKeyOn(i, key) == SecureEstablished(dev[i]) /\ Accept(i, InstallKey(dev[i], key))

SetCommunication(i, addr) ==
  /\ addr < BroadcastAddress
  /\ \A j \in Devices \ {i} : dev[j].addr # addr
  /\ Send(i, CommunicationCommand(addr))

-----------------------------------------------------------------------------
(* A transaction.                                                          *)

\* Next.  A frame cannot be encoded for an address beyond the broadcast one:
\* Next returns nothing and the panel's Run returns.
NextTurn(nonce) ==
  LET turn == Turn(dev[current], nonce)
  IN /\ step = Idle
     /\ dev' = [dev EXCEPT ![current] = turn.dev]
     /\ IF dev[current].addr <= BroadcastAddress
        THEN /\ sent' = [sent EXCEPT ![current] = <<turn.frame>>]
             /\ step' = Waiting(current)
        ELSE step' = Halted /\ UNCHANGED sent
     /\ current' = (current % N) + 1

Settle(d) ==
  /\ dev' = [dev EXCEPT ![step.dev] = d]
  /\ step' = Idle
  /\ UNCHANGED <<current, sent>>

\* A frame arrives.
Receive(f) == step.phase = "waiting" /\ Settle(Reply(dev[step.dev], f))

\* Mistake: the device that did not answer has the next turn too.
MissAndStay ==
  /\ step.phase = "waiting"
  /\ dev' = [dev EXCEPT ![step.dev] = Timeout(dev[step.dev])]
  /\ current' = step.dev /\ step' = Idle /\ UNCHANGED sent

\* Nothing arrives before the deadline, or nothing that decodes.
Miss == step.phase = "waiting" /\ Settle(Timeout(dev[step.dev]))

\* Run has returned.
Stopped == step = Halted /\ UNCHANGED vars

\* What the application may ask for.
Request ==
  \E i \in Devices :
    \/ \E m \in Commands : Send(i, m)
    \/ \E key \in NewKeys : InstallKeyOn(i, key)
    \/ \E addr \in NewAddresses : SetCommunication(i, addr)

-----------------------------------------------------------------------------
(* Properties.                                                             *)

\* Every variable has its type.
TypeOK ==
  /\ dev \in [Devices -> Device]
  /\ current \in Devices
  /\ step \in {Idle, Halted} \cup {Waiting(i) : i \in Devices}
  /\ sent \in [Devices -> Optional(WireFrame)]

\* The bus implements the promise of CommandQueue: what an application asked
\* for leaves the device's queue from the front, once, and everything else a
\* device or the line does (a miss, a resync, osdp_BUSY, a dropped session, a
\* change of address) keeps the queue as it was.
Accepted ==
  Commands \cup {KeySetCommand(key) : key \in NewKeys}
           \cup {CommunicationCommand(addr) : addr \in NewAddresses}
Promise == INSTANCE CommandQueue
             WITH Commands <- Accepted, queue <- [i \in Devices |-> Held(dev[i])]
Custody == Promise!Spec

\* A command leaves the queue only while its device is awaited, only if it is
\* the very command the last frame to that device carried, and only on an answer
\* that is one: not on a miss, not on osdp_BUSY, and not on a reply that made the
\* bus restart the exchange, save the osdp_COM that moves the device (Reply,
\* delivered, reclaim, requeue).
OnlyTheAnsweredCommandLeaves ==
  [][\A i \in Devices :
       Len(Held(dev[i])') < Len(Held(dev[i])) =>
         /\ step = Waiting(i)
         /\ MessageOf(sent[i][1]) = Head(Held(dev[i]))
         /\ ~Miss
         /\ dev'[i].event # "Busy"
         /\ dev'[i].state = "Offline" => dev'[i].event = "Communication"]_vars

\* The frame that repeats a sequence number is the lost frame again, octet for
\* octet and with the same authentication code (retransmit, nextSequence): the
\* device may answer it from its cache without looking.
RepeatIsExact ==
  \A i \in Devices : dev[i].repeatSequence =>
    sent[i] = <<Turn(dev[i], 0).frame>>

\* The states that use the session have one: handshakeCommand and compose
\* dereference it without a check.
SessionFits(d) ==
  /\ d.state = "SecureHandshake" => d.session.state # "None"
  /\ d.state = "Secure" => SecureEstablished(d)
SessionMatchesState == \A i \in Devices : SessionFits(dev[i])

\* The same as an inductive invariant.  Outside its transaction a device has no
\* command in flight; while it has one, the last frame carried it, and would
\* again; while it is to be repeated, it heads the queue, nothing withholds it,
\* and the next frame is the last one.
CommandFrame(d, m) ==
  LET body == Body(FALSE, d.addr, d.seq,
                   IF d.state = "Secure" THEN BlockForCommand(m) ELSE NoBlock, m)
  IN Frame(body, IF d.state = "Secure" THEN MAC(d.session, TRUE, body) ELSE NoTag)

\* s is the frame that carries the command m to the device, and nothing about
\* the device has changed that would make the next one different.
Carried(d, m, s) ==
  /\ d.state \in {"Online", "Secure"}
  /\ ~d.deferCommands
  /\ m.code = "KeySet" => SecureEstablished(d)
  /\ s = <<CommandFrame(d, m)>>

Repeatable(i) ==
  /\ step \notin {Waiting(i), Halted} => dev[i].inflight = <<>>
  /\ dev[i].repeatSequence => /\ step # Waiting(i)
                              /\ dev[i].inflight = <<>> /\ dev[i].outbox # <<>>
                              /\ Carried(dev[i], dev[i].outbox[1], sent[i])
  /\ step = Waiting(i) /\ dev[i].inflight # <<>> =>
       Carried(dev[i], dev[i].inflight[1], sent[i])

BusInv == TypeOK /\ SessionMatchesState /\ \A i \in Devices : Repeatable(i)

\* A device that stops being polled as online was reported: the application
\* hears Offline, Resync, SecureFailed or Communication for it, and nothing
\* takes a device offline while another is awaited.
LossIsReported ==
  [][\A i \in Devices :
       dev[i].state # "Offline" /\ dev'[i].state = "Offline" =>
         /\ step = Waiting(i)
         /\ dev'[i].event \in {"Offline", "Resync", "SecureFailed", "Communication"}]_vars

-----------------------------------------------------------------------------
(* What comments and documents of the repository say, and the bus does not *)
(* keep in every case.                                                     *)

\* No two devices of the line come to share an address: SetCommunication
\* refuses one that is in use.
AddressesDistinct ==
  \A i, j \in Devices : i # j => dev[i].addr # dev[j].addr

\* A key acknowledged by its device is the key the bus uses from then on
\* (InstallKey, onKeyInstalled).
AcknowledgedKeyIsAdopted ==
  [][\A i \in Devices :
       LET d == dev[i] e == dev'[i]
       IN /\ step = Waiting(i)
          /\ d.inflight # <<>> /\ d.inflight[1].code = "KeySet"
          /\ Len(Held(e)) < Len(Held(d))
          /\ e.misses = 0 /\ e.event \in {"None", "KeyInstalled"}
          => e.installedKey = d.inflight[1].arg[1]]_vars
=============================================================================
