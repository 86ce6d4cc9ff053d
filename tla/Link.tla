-------------------------------- MODULE Link --------------------------------
(***************************************************************************)
(* A panel, its peripherals and the line between them: Bus composed with   *)
(* Peripheral.  The line is half duplex and multidrop.  Every device hears *)
(* every command, the one it is addressed to answers, and two answers at   *)
(* once are none.  A frame in either direction may be lost or corrupted,   *)
(* which the receiver cannot tell apart (the error check fails), and with  *)
(* Late a reply may also outlive the transaction it answers.               *)
(***************************************************************************)
EXTENDS Bus, SequencesExt

CONSTANTS
  SecureDevice, Strict, ConfigAddr, InputCount, OutputCount, QueueSize,  \* see Peripheral
  StartKey,  \* the key each device was built with
  Cards,     \* cards that may be presented, each once
  MaxSwitches,  \* bound on the changes of contacts
  MaxRestarts,  \* bound on the restarts of the panel's process
  Patience,  \* the devices were built WithCommunicationTimeout
  Dead,      \* devices that are configured and not there
  Burst,     \* bound on the frames lost in a row
  Late,      \* a reply may arrive after its transaction
  MaxHistory, \* bound on what a device has done or said before losses end
  MaxFresh,  \* bound on the challenges of a run
  MaxChain   \* bound on the length of a secure session's chain

\* The application leaves enrolment to the bus, and sends no osdp_KEYSET without
\* a key in it.
ASSUME LinkAssumption ==
  /\ InputCount \in Nat /\ OutputCount \in Nat
  /\ StartKey \in Octet /\ Cards \subseteq Octet
  /\ MaxFresh \in 0..254
  /\ \A m \in Commands : m.code # "Cap" /\ (m.code = "KeySet" => m.len > 0)

PD == INSTANCE Peripheral

VARIABLES
  pd,         \* the peripherals
  down,       \* the command on the line, if any
  up,         \* the replies on the line, oldest first
  failures,   \* frames lost in a row
  fresh,      \* the next nonce
  silence,    \* the line has been silent for longer than a device waits
  asked,      \* history: what the application asked of each device
  performed,  \* history: what of it each device carried out
  presented,  \* history: the cards presented, per device
  reported,   \* history: the cards the panel reported, per device
  news,       \* history: how the last report of a kind of contact was taken
  switches,   \* history: the changes of contacts
  restarts,   \* history: the restarts of the panel
  abandoned,  \* history: what was asked of a panel that restarted before it was done
  longest,    \* history: the most frames lost in a row
  overtaken   \* history: a reply has outlived its transaction

history  == <<asked, performed, presented, reported>>
losses   == <<failures, longest, overtaken>>
contacts == <<news, switches>>
process  == <<silence, restarts, abandoned>>
line     == <<pd, down, up, fresh, losses>>
system   == <<vars, line, history, contacts, process>>

LinkInit ==
  /\ Init
  /\ pd = [i \in Devices |-> PD!NewPeripheral(StartAddress[i], StartKey)]
  /\ down = <<>> /\ up = <<>>
  /\ failures = 0 /\ longest = 0 /\ overtaken = FALSE
  /\ fresh = 1
  /\ asked = [i \in Devices |-> <<>>]
  /\ performed = [i \in Devices |-> <<>>]
  /\ presented = [i \in Devices |-> <<>>]
  /\ reported = [i \in Devices |-> <<>>]
  /\ news = [i \in Devices |-> [code \in {"IStatR", "LStatR"} |-> "none"]]
  /\ switches = 0
  /\ silence = [i \in Devices |-> FALSE]
  /\ restarts = 0 /\ abandoned = {}

-----------------------------------------------------------------------------
(* The application and the world.                                          *)

\* Each request is made once, so that carrying it out twice shows.
Ask(i, m, request) ==
  /\ \A j \in Devices : ~Contains(asked[j], m)
  /\ request
  /\ asked' = [asked EXCEPT ![i] = Append(@, m)]
  /\ UNCHANGED <<line, performed, presented, reported, contacts, process>>

Asks(i) ==
  \/ \E m \in Commands : Ask(i, m, Send(i, m))
  \/ \E key \in NewKeys : Ask(i, KeySetCommand(key), InstallKeyOn(i, key))
  \/ \E addr \in NewAddresses :
       Ask(i, CommunicationCommand(addr), SetCommunication(i, addr))

Present(i, card) ==
  /\ \A j \in Devices : ~Contains(presented[j], card)
  /\ PD!Reportable(pd[i])
  /\ pd' = [pd EXCEPT ![i] = PD!Queue(@, Msg("Raw", <<card>>, 8))]
  /\ presented' = [presented EXCEPT ![i] = Append(@, card)]
  /\ UNCHANGED <<vars, down, up, fresh, losses, asked, performed, reported, contacts, process>>

\* A contact changes, and the device is told.
Switch(i, code, set) ==
  /\ switches < MaxSwitches
  /\ switches' = switches + 1
  /\ pd' = [pd EXCEPT ![i] = set.pd]
  /\ news' = [news EXCEPT ![i][code] = IF set.ok THEN "queued" ELSE "refused"]
  /\ UNCHANGED <<vars, down, up, fresh, losses, history, process>>

Switches(i) ==
  \/ \E k \in 0..(InputCount - 1) :
       Switch(i, "IStatR", PD!SetInput(pd[i], k, ~pd[i].inputs[k]))
  \/ Switch(i, "LStatR", PD!SetTamper(pd[i], ~pd[i].tamper))
  \/ Switch(i, "LStatR", PD!SetPower(pd[i], ~pd[i].power))

\* The panel's process ends and another starts, with nothing of the first: what
\* was queued is gone, and the devices keep their side of the exchange.  The line
\* carries nothing by then, and may have been silent long enough to be noticed.
PanelRestart ==
  /\ restarts < MaxRestarts /\ restarts' = restarts + 1
  /\ down = <<>> /\ up' = <<>>
  /\ dev' = [i \in Devices |-> NewDevice(StartAddress[i])]
  /\ current' = 1 /\ step' = Idle
  /\ sent' = [i \in Devices |-> <<>>]
  /\ \E long \in {FALSE, Patience} : silence' = [i \in Devices |-> long]
  /\ abandoned' = abandoned \cup UNION {ToSet(Held(dev[i])) : i \in Devices}
  /\ UNCHANGED <<pd, down, fresh, losses, history, contacts>>

-----------------------------------------------------------------------------
(* The panel's end.                                                        *)

\* Beyond the bounds of the model nothing is sent.
Bounded ==
  /\ Len(dev[current].session.rmac.log) <= MaxChain
  /\ fresh <= MaxFresh

Transmit ==
  /\ Bounded
  /\ NextTurn(fresh)
  /\ down' = sent'[current]
  /\ fresh' = IF sent'[current][1].body.code = "Chlng" THEN fresh + 1 ELSE fresh
  /\ UNCHANGED <<pd, up, losses, history, contacts, process>>

PanelReceive ==
  /\ up # <<>>
  /\ Receive(Head(up))
  /\ up' = Tail(up)
  /\ failures' = 0
  /\ reported' = IF dev'[step.dev].event = "CardRead"
                 THEN [reported EXCEPT ![step.dev] = Append(@, Head(up).body.arg[1])]
                 ELSE reported
  /\ UNCHANGED <<pd, down, fresh, longest, overtaken, asked, performed, presented,
                 contacts, process>>

\* One more frame in a row did not make it in time.
Fail ==
  /\ failures < Burst
  /\ failures' = failures + 1
  /\ longest' = Max({longest, failures'})

\* The deadline passes with nothing on the line, or before it arrives.  At most
\* one reply is late at a time.
PanelMiss ==
  /\ down = <<>>
  /\ Miss
  /\ \/ up = <<>> /\ UNCHANGED losses
     \/ Len(up) = 1 /\ Late /\ Fail /\ overtaken' = TRUE
  /\ UNCHANGED <<pd, down, up, fresh, history, contacts, process>>

-----------------------------------------------------------------------------
(* The line and the devices' end.                                          *)

\* Every device that is there handles the frame on the line.
Hear ==
  /\ down # <<>>
  /\ LET f == Head(down)
         handled == [i \in Devices \ Dead |-> PD!Handle(pd[i], f, silence[i], fresh)]
         answers == {i \in Devices \ Dead : handled[i].reply # <<>>}
     IN /\ pd' = [i \in Devices |-> IF i \in Dead THEN pd[i] ELSE handled[i].pd]
        /\ up' = IF \E i \in Devices : answers = {i}
                 THEN up \o handled[CHOOSE i \in Devices : answers = {i}].reply ELSE up
        /\ performed' = [i \in Devices |->
                           IF i \notin Dead /\ handled[i].ran /\ MessageOf(f) \in Accepted
                           THEN Append(performed[i], MessageOf(f)) ELSE performed[i]]
  /\ down' = <<>>
  /\ silence' = [i \in Devices |-> silence[i] /\ ~PD!Addressed(pd[i], Head(down).body.addr)]
  /\ UNCHANGED <<vars, fresh, losses, asked, presented, reported, contacts, restarts, abandoned>>

\* A frame is lost, or arrives corrupted and is dropped by its receiver.
Lose ==
  /\ Fail /\ UNCHANGED overtaken
  /\ \A i \in Devices : Len(performed[i]) + Len(reported[i]) < MaxHistory
  /\ \/ down # <<>> /\ down' = <<>> /\ UNCHANGED up
     \/ up # <<>> /\ up' = Tail(up) /\ UNCHANGED down
  /\ UNCHANGED <<vars, pd, fresh, history, contacts, process>>

\* The bounds of this model are reached.
Exhausted == step = Idle /\ ~Bounded /\ UNCHANGED system

LinkNext ==
  \/ \E i \in Devices : Asks(i) \/ Switches(i) \/ \E card \in Cards : Present(i, card)
  \/ PanelRestart
  \/ Transmit \/ PanelReceive \/ PanelMiss
  \/ Hear \/ Lose
  \/ Exhausted

LinkSpec == LinkInit /\ [][LinkNext]_system

\* The panel's loop and the devices' servers keep running, and the line carries
\* what it does not lose.  Nothing is assumed of the application.
Fairness ==
  /\ WF_system(Transmit) /\ WF_system(PanelReceive) /\ WF_system(PanelMiss)
  /\ WF_system(Hear)
LinkFairSpec == LinkSpec /\ Fairness

-----------------------------------------------------------------------------
(* Properties.                                                             *)

\* No two frames in a row were lost, and no reply outlived its transaction.
Quiet == longest <= 1 /\ ~overtaken

\* A device carries commands out in the order they were asked for, whatever was
\* lost, late, taken back or repeated; and none of them twice, short of the misses
\* that restart the exchange (requeue, dequeue, the cached reply of Handle, the
\* repeated number of nextSequence).
OnceInOrder ==
  \A i \in Devices :
    /\ longest < OfflineThreshold => IsInjective(performed[i])
    /\ IsInjective(performed[i]) =>
         performed[i] = SelectSeq(asked[i], LAMBDA m : Contains(performed[i], m))

\* A command the bus lets go of without a refusal was carried out, as long as
\* the line is quiet (delivered, the numbers both ends keep).
LetGo(i)   == Len(Held(dev'[i])) < Len(Held(dev[i])) /\ dev'[i].event # "NAK"
WasDone(i) == Contains(performed[i], dev[i].inflight[1])

DeliveredWasPerformed == [][\A i \in Devices : Quiet /\ LetGo(i) => WasDone(i)]_system

\* The same of a command that went out on an established channel, on any line:
\* there the authentication code ties the answer to the command (openReply).
SecureDeliveredWasPerformed ==
  [][\A i \in Devices : LetGo(i) /\ dev[i].state = "Secure" => WasDone(i)]_system

\* On a quiet line the panel reports a card at most once, and cards in the order
\* they were presented (pollReply, queue, the cached reply of Handle).
CardsInOrder ==
  Quiet =>
    \A i \in Devices :
      /\ IsInjective(reported[i])
      /\ reported[i] = SelectSeq(presented[i], LAMBDA c : Contains(reported[i], c))

\* A key never travels outside the secure channel that would encipher it
\* (withholdsKeySet, InstallKey).
KeySetSealed ==
  \A i \in Devices : sent[i] # <<>> /\ sent[i][1].body.code = "KeySet" =>
    sent[i][1].body.block = 17

\* The same as an inductive invariant.  A key is withheld while there is no
\* session, and would go out in the clear from a device that is online beside an
\* established one.  Only the capabilities of a device could bring the bus there,
\* and a device never reports them under a session's code: the bus never asks
\* for them in one.
Guarded(d) ==
  /\ Held(d) \in Seq(Accepted)
  /\ d.pending # <<>> => d.pending[1].code = "SCrypt"
  /\ d.state = "Online" => ~SecureEstablished(d)

SealedCommand ==
  {f \in WireFrame : /\ f.body.code = "KeySet" => f.body.block = 17
                     /\ f.body.code = "Cap" => ~EstablishedBlock(f.body.block)}
OpenReply == {f \in WireFrame : f.body.code = "PDCap" => f.tag = NoTag}

ReportMessage == {m \in Message : m.code # "PDCap"}
PeripheralDevice ==
  [addr : Octet, key : Octet, session : Session, reports : Seq(ReportMessage),
   inputs : [0..(InputCount - 1) -> BOOLEAN], outputs : [0..(OutputCount - 1) -> BOOLEAN],
   tamper : BOOLEAN, power : BOOLEAN,
   cached : Optional(OpenReply), adopting : Optional(Octet), adoptingKey : Optional(Octet)]

LinkInv ==
  /\ BusInv
  /\ \A i \in Devices : Guarded(dev[i])
  /\ sent \in [Devices -> Optional(SealedCommand)]
  /\ down \in Optional(SealedCommand)
  /\ up \in Seq(OpenReply)
  /\ pd \in [Devices -> PeripheralDevice]
  /\ fresh \in 0..(MaxFresh + 1)

\* After an exchange that was not disturbed, both ends of a secure channel built
\* on the key the device still holds have the same session keys and the same
\* chaining values: the next frame of either will verify at the other
\* (Authenticate, Verify, the replay in Handle).
ChainsAgree ==
  step = Idle /\ failures = 0 /\ up = <<>> =>
    \A i \in Devices :
      dev[i].state = "Secure" /\ dev[i].session.base = pd[i].key
        => dev[i].session = pd[i].session

\* A key the bus has adopted is the key its device holds, as long as only one was
\* ever asked for: there is one pending key per device, and with two installs in
\* its queue the acknowledgement of the first adopts the second (InstallKey,
\* onKeyInstalled, adoptKey).
OneInstall(i) ==
  \A j, k \in DOMAIN asked[i] :
    asked[i][j].code = "KeySet" /\ asked[i][k].code = "KeySet" => j = k
KeysAgree ==
  step = Idle =>
    \A i \in Devices :
      OneInstall(i) /\ dev[i].installedKey # NoKey => dev[i].installedKey = pd[i].key

\* On a quiet line a device is left without a secure channel for good only if it
\* has none or holds another key (abandonSecure).
DeclinedMeansWrongKey ==
  Quiet =>
    \A i \in Devices :
      dev[i].secureDeclined => ~SecureDevice \/ BaseKey(dev[i]) # pd[i].key

\* On a quiet line what is asked of a device that is there is carried out: not
\* lost on the way, not held up by a device that is not there, and not swallowed
\* by what a device remembers of a panel that has restarted since (observe).
AskedIsPerformed ==
  []Quiet =>
    \A i \in Devices \ Dead : \A m \in Accepted :
      Contains(asked[i], m) ~> Contains(performed[i], m) \/ m \in abandoned

\* Once the line stops losing frames, every device that is there comes back and
\* stays (enrolment after resync).
Recovers ==
  <>[][failures' <= failures]_system =>
    \A i \in Devices \ Dead : <>[](dev[i].state \in {"Online", "Secure"})

\* On a line without losses, once the report of a change is off the queue the bus
\* has the contacts as they are, however they chattered in between; unless the
\* device said that it had no room for the report (coalesce, statusChanges).
ContactsOf(d, code) ==
  IF code = "IStatR" THEN d.status["Input"] ELSE d.status["Tamper"] \o d.status["Power"]
ContactsKnown ==
  step = Idle /\ up = <<>> /\ down = <<>> /\ longest = 0 =>
    \A i \in Devices, code \in {"IStatR", "LStatR"} :
      /\ news[i][code] = "queued"
      /\ \A k \in DOMAIN pd[i].reports : pd[i].reports[k].code # code
      => ContactsOf(dev[i], code) =
           PD!StatusReply(pd[i], IF code = "IStatR" THEN "IStat" ELSE "LStat").arg

-----------------------------------------------------------------------------
(* What comments and documents of the repository say, and the two ends do  *)
(* not keep in every case.                                                 *)

\* A device "cannot act twice" (ROADMAP.md), because the number is repeated.
NeverTwice == \A i \in Devices : IsInjective(performed[i])

\* A command is "retried, not lost" (README.md): on any line, one the bus lets go
\* of without a refusal was carried out.
RetriedNotLost == [][\A i \in Devices : LetGo(i) => WasDone(i)]_system

\* "When the device acknowledges it, the bus tears the session down [...] and
\* re-handshakes with it" (bus/keyset.go): once the one key asked for is off the
\* queue, the key the bus goes on with is the key its device holds, be it the new
\* one or the old.
Outstanding(i) == \E k \in DOMAIN Held(dev[i]) : Held(dev[i])[k].code = "KeySet"
RekeyedTogether ==
  step = Idle /\ restarts = 0 =>
    \A i \in Devices : OneInstall(i) /\ ~Outstanding(i) => BaseKey(dev[i]) = pd[i].key

\* A card presented is reported, rather than "silently forgotten" (report.go).
PresentedIsReported ==
  \A i \in Devices \ Dead : \A card \in Cards :
    Contains(presented[i], card) ~> Contains(reported[i], card)
=============================================================================
