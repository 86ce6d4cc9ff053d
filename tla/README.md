# A TLA+ verification of osdp-go

OSDP is the protocol between an access-control panel and the card readers on
its RS-485 line. `osdp-go` implements both ends: a poll-cycle *bus* with a
*panel* runtime around it, and a *peripheral device* with its server. These
modules model the two state machines and the line between them, the octets of
frames and payloads, the loops that read them from a port, and the event store
that keeps what the panel reports. TLC checks them, and TLAPS proves the central
properties of the bus, the line, the panel's runtime and the store.

## The system

| Part | Source | Module |
| --- | --- | --- |
| messages, frames, block types | `internal/cmd`, `internal/frame`, `internal/secure/scs.go` | `Osdp` (vocabulary) |
| secure channel session | `internal/secure` | `SecureSession` |
| one device as the bus sees it | `internal/bus` | `BusDevice` |
| the bus and the panel's transaction | `internal/bus/bus.go`, `internal/panel/cycle.go`, `send.go`, `configure.go` | `Bus`, `OpenBus` |
| what the bus promises | `Bus.Send` and its documentation | `CommandQueue` (abstract) |
| the panel's goroutines and channels | `internal/panel` | `Panel` |
| peripheral device | `internal/pd` | `Peripheral` |
| panel, line and peripherals together | the above, `pd/serve.go` | `Link` |
| frames as octets, error checks | `internal/frame` | `Framing` |
| payloads as octets, padding, size | `internal/cmd`, `pd/identity.go`, `pd/status.go`, `secure/crypt.go`, `bus/size.go` | `Payloads`, `Exchange` |
| errors of a port | `internal/driver`, `internal/transport` | `Ports` |
| frame readers and the loops around them | `panel/reader.go`, `pd/scan.go`, `panel/cycle.go`, `pd/serve.go` | `FrameReader`, `Listening` |
| event store and its API | `protobuf/service` | `MemoryStore`, `EventService` |
| what the store promises | `Store` and its documentation | `RecentEvents` (abstract) |
| providers, records, facade, telemetry | `internal/provider`, `protobuf/record`, ... | not modelled; see the end |

The panel owns one transaction at a time. Between transactions it takes what the
application asked for; then `Bus.Next` gives the next device its turn and
composes one command; the panel waits for one reply or one miss, and hands it to
`Bus.Reply` or `Bus.Timeout`. A device numbers nothing itself: it answers, keeps
its last reply, and answers a repeated number from that cache without acting.
Everything that makes the protocol hard is in that asymmetry. The panel cannot
tell a lost command from a lost reply, and the device cannot tell a repeat from a
new command that happens to carry the same number.

## How the modules correspond to the code

**State.** A `bus.Device` is the record `Device` of `BusDevice`, field for field
(`inflight`, `outbox`, `released`, `repeatSequence`, `deferCommands`, `pending`,
`pendingKey`, ...). A pointer is a sequence of length at most one. `event` is the
kind of the event the last call returned. A `pd.Device` is the record
`NewPeripheral` of `Peripheral`. A nil session is the session in state `"None"`.

**Operations.** Every method is an operator from a record to a record with the
method's name (`Requeue`, `Retransmit`, `Resync`, `Timeout`, `Compose`, `Reply`,
`Handle`, `Emit`, ...), so that calls compose as they do in the code: `Reply`
includes the resync, the delivery and the dispatch it calls, and the miss that
`panel/cycle.go` charges when it returns an error. The actions of `Bus` and
`Link` are the entry points: `Send`, `InstallKeyOn`, `SetCommunication`,
`NextTurn`, `Receive`, `Miss`; `Transmit`, `Hear`, `PanelReceive`, `PanelMiss`,
`Present`, `Lose`.

**Data.** A payload is the sequence of numbers the handlers tell apart, beside
its length in octets, which decides about receive buffers and encipherment. An
osdp_OUT carries its entries, because a device acts on them; a key, an address, a
nonce and a card are one number each. Lengths follow `wireLength`. There is one
type of key; a key of another type is refused as one of another length is
(`InstallKey`).

**Cryptography is symbolic.** A cryptogram is the tuple of what it was computed
from. A chaining value is the session's keys with the log of every authenticated
body so far, so two chains are equal exactly when they have the same history.

**Two environments.** In `OpenBus` anything may arrive at any time: right, wrong,
malformed, foreign or unauthenticated replies. What holds there holds whatever
the devices do. In `Link` the replies are what `Peripheral` says, over a line
that loses frames in bursts (a corrupted frame is a lost one: both ends discard
it and count a miss) and, with `Late`, delivers a reply one transaction late.

`Link` keeps history variables that no guard of the program reads: what was
asked, performed, presented and reported, the longest burst of losses, and
whether a reply was ever late. `Quiet` means that no two frames in a row were
lost and none came late.

`Panel` stands apart from the protocol. Its state is where each goroutine is and
what each channel holds: `run` walks `Panel.Run` through its drain, the parts of
`cycle`, `emit` and the deferred calls; `call` is where a caller is between the
two selects of `Send`, `InstallKey` and `SetCommunication`, which are the same
code; a select is one action per case, so any ready case may be chosen. Of the
bus it keeps only that a request is taken or refused and that an exchange yields
an event or none.

`Framing`, `Payloads` and `Ports` are operators without state: octets are
numbers below 256, a slice is a sequence of them, and `Decode` returns the error
and, where the code does, the frame beside it. Integers keep their widths: fields
saturate or wrap as the code makes them.

`FrameReader` is `next` of the panel's reader and the device's scanner, which are
one algorithm and differ in what they do about octets that are no frame (`side`).
Its state is the octets on the line, the buffer, the error or frame returned and
what has become of the port. The frame returned is read through the memory it
aliases (`Aliasing`, `Slid`). `Listening` puts the loops around it: `Top`,
`Compose`, `Write`, `Deadline`, `Await` for `Panel.Run`, `cycle` and `await`;
`Top`, `Deadline`, `Serve`, `Write` for `Server.Run`. The port may be closed, or
its far end go, at any moment, and the context cancelled. Of what a frame does to
the bus or the device behind the loop, which `Bus` and `Peripheral` model, it
keeps the address (`addr`): an osdp_COM that `Bus.Reply` attributes to the device
moves the panel's idea of it, an osdp_COMSET the device's own, and `Compose`
decides whether a frame can still be written for it.

`Exchange` follows one message of each kind, in either direction: a builder
(`SayOutput`, `SayCard`, ...), the size check of `Send`, the frame (`Compose`,
sealed on a session), damage on the line, and the parser at the other end. The
cipher and the authentication code are stand-ins: a length-preserving reversible
one and a digest of all that is covered. What is checked of sealing is padding,
lengths and coverage, not secrecy.

`MemoryStore` has the ring, the counter and the index of `MemoryStore`, and
entries as objects that pointers refer to. `Append` is two steps, `Stamp` before
the lock and `Store` under it. A call of `EventService` is two steps as well: the
read under the lock, and the copies made after it. Page tokens are their raw form,
since the base64 around it is a bijection.

`Link` also has contacts that change (`Switches`, with `SetInput`,
`SetTamper`, `SetPower` and the coalesced reports) and a panel process that ends
and starts anew (`PanelRestart`). A device's silence timeout is modelled where it
matters, at a restart: the line may have been silent long enough to be noticed.

Operators introduced with "Mistake" in a comment are deliberately wrong
variants. Nothing uses them; substituting one for the operator that follows it
must break the property `PROJECT.json` pairs it with.

## Runs

| Run | Instance | Checks |
| --- | --- | --- |
| `bus_one` | one device, secure channel, an osdp_OUT, a key and an address to install, queue of 2, chain of 2, any reply | `RepeatIsExact`, `BusInv`, `Custody`, `OnlyTheAnsweredCommandLeaves`, `LossIsReported` |
| `link_plain` | one device in the clear, two commands, two cards, bursts of 2, late replies | `OnceInOrder`, `CardsInOrder`, `DeliveredWasPerformed` |
| `link_secure` | secure channel, a command and two keys, bursts of 3, late replies | `ChainsAgree`, `DeclinedMeansWrongKey`, `KeySetSealed`, `KeysAgree`, `SecureDeliveredWasPerformed` |
| `link_live` | a device and an absent one, bursts of 3, a restart of the panel, fair | `BusInv`, `AskedIsPerformed`, `Recovers` |
| `link_moves` | a device moved to a new address while its contacts change, no losses, fair | `ContactsKnown`, `AskedIsPerformed` |
| `panel_run` | two callers (two calls and one), a request channel of 2, an unbuffered event channel, two events, fair | `AcceptedMeansQueued`, `CallerOrder`, `NoEventForgotten`, `CancelEndsRun`, `EveryCallReturns` |
| `listening_loops` | both sides, lines of two or three of frames, noise and remains of frames, moves of the address among them, a buffer of 16 octets, fair | `NothingMissed`, `CutsDoNotMatter`, `SameOctetsAgain`, `StopsForCause`, `RunEnds` |
| `exchange_octets` | every message, both checks, sealed or not, whole or damaged | `ArrivesAsSaid`, `HeldAsLongAsAsked`, `RefusedIfTooLong`, `DamageNoticed`, `CheckIsStandard`, `ReportAgrees` |
| `service_paging` | two writers, two devices, a ring of 3, five events, one paging client | `RingInOrder`, `IndexIsExact`, `ListingComplete`, `AnswerIsSnapshot`, `WindowOnNewest`, `TokenMeansMore` |
| `link_wrap` | as `link_plain` without cards or late replies | `RetriedNotLost`, violated |
| `link_rekey` | secure channel, one key, no command, one loss at a time | `RekeyedTogether`, violated |
| `listening_intact` | as `listening_loops` | `FrameIsIntact`, violated |

What they show, in words:

- **Custody.** The bus refines `CommandQueue`: accepted commands leave a device's
  queue from the front, once. The abstract queue is the command in flight
  followed by the outbox. `OnlyTheAnsweredCommandLeaves` adds when: in the
  device's own transaction, the command last sent, and on no miss, no osdp_BUSY
  and no restart.
- **Exact repetition.** When a number is repeated, the frame is the lost one
  again, authentication code included. That is what lets a device answer from
  its cache before it looks at the code.
- **At most once and in order**, for every burst shorter than the misses that
  take a device offline, late replies included.
- **What is let go of was done.** In the clear this needs a quiet line. On a
  secure channel it holds on any line, late replies included, because the reply's
  code depends on the command.
- **Keys.** An osdp_KEYSET is only ever sent enciphered. A key the bus has
  adopted is the one the device holds, as long as only one was ever asked for
  (`OneInstall`): a second install overwrites the key the first is waiting to
  adopt. The converse, that a key the device adopted is adopted by the bus, fails
  even for one install (`link_rekey`). Both are properties of the two ends
  together. They are not claimed in `OpenBus`, where a peer may say anything
  inside a session.
- **Recovery.** Once losses end, every device that is there is enrolled again and
  stays; a device that is not there holds up nobody.
- **The runtime.** A call that returned nil has its request on the bus once; a
  goroutine's requests arrive in the order of its calls, also when it gave up
  waiting for some; no event is dropped or reordered, except the last one of a
  cancelled `Run`. Cancelling ends `Run` whatever the consumer does; closing the
  port ends it, and every call returns, as long as the events are drained
  (`Drains`), which is what `Send`'s documentation asks.
- **Contacts.** Once the report of a change is off the device's queue, the panel's
  picture is the door's, however often it chattered in between.
- **Restarts.** A panel that starts again at number one is not answered from what
  the device remembers of the one before it for ever; what was queued in the old
  process is lost with it, and only that.
- **Reading.** What the readers find depends on the octets and not on how they
  were cut into reads; no frame that was read whole is missed on a line of frames
  and rubbish. A cancellation ends either loop, and so does a port that is closed
  or gone, also when octets are still to be read. On the line one thing does: an
  osdp_COM that puts the panel's device at an address no frame can carry. A
  command of the application that no frame can hold ends `Run` too.
- **Octets.** What the builders write the parsers read, through frame, seal and
  padding, a text or a keypad entry up to the 255 octets its count can say.
  Durations saturate, so a long one never becomes a short one. One burst
  of 16 bits behind the header is noticed under the CRC, which is compared with a
  bitwise division.
- **The store.** The ring implements `RecentEvents`, a window on the newest
  events; the index finds exactly what is held, under names never used twice; a
  listing over several pages shows nothing twice and skips only what was evicted.

### Violations

Three runs check a sentence of the repository that the code does not keep;
`PROJECT.json` quotes it.

- `link_wrap`: two lost polls bring the number round to the one the device has
  cached, and the next command is answered from the cache undone.
- `link_rekey`: one lost answer parts the chains of the two ends, so the
  osdp_KEYSET is refused in the clear and the exchange starts again at number
  one, with osdp_ID, which the device answers from its cache with that same
  osdp_NAK. `keySetRefused` takes any osdp_NAK for a refusal of the key and clears
  it, while the osdp_KEYSET is still in the queue. Once the channel is back it is
  sent, the device adopts the key and acknowledges, and the bus, with no key
  pending, goes on with the old one.
- `listening_intact`: when one read brings two frames, `consume` slides the second
  over the payload of the first before `next` returns it.

### What the models refute

Six more sentences are stated as properties beside the ones that hold, and TLC
refutes each of them under the run's configuration with the constants changed as
shown. They have no run of their own.

| Property | From | With | What happens |
| --- | --- | --- | --- |
| `Bus!AddressesDistinct` | `MCBusOne.cfg` | `N = 2`, `SecureEnabled = FALSE`, `Replies <- MCObedient`, `Commands = {}`, `NewKeys = {}`, `MaxQueue = 1`, codes ACK, PDID, PDCap | two moves to one address are queued before either is answered, and both take it. `bus/comset.go:22` says the address is refused when in use |
| `Bus!AcknowledgedKeyIsAdopted` | `MCBusOne.cfg` | `NewKeys = {3, 4}` | with two keys queued, the acknowledgement of the first adopts the second (`bus/keyset.go:46`) |
| `Link!NeverTwice` | `MCLinkPlain.cfg` | `Burst = 3`, `Commands <- MCOne` | after three losses the command comes back under another number and is carried out again (`ROADMAP.md:23`) |
| `Link!PresentedIsReported` | `MCLinkPlain.cfg` | `LinkFairSpec`, `Cards = {7}`, `Commands = {}` | a lost answer to a poll takes its card with it, since a poll is not repeated under its number (`pd/report.go:40`) |
| `Listening!OnlyThePortStops` | `MCListeningLoops.cfg` | nothing else | an osdp_COM names an address above 0x7F; `Next` can compose no frame for it, and `Run` returns that there are no devices (`panel/panel.go:106`) |
| `EventService!TimesDescend` | `MCServicePaging.cfg` | no symmetry | two writers are stamped in one order and numbered in the other, so a listing is not by time (`service/store.go:70`) |

Related behaviour met while modelling, from the same causes, has no run of its
own:

- After `resync` the first number is 1, since `nextSequence` advances first; 0 is
  never sent.
- A move to the address a device already has is answered with the cached
  osdp_COM for ever: the address is unchanged, and so is the number.
- `Send` may return `ErrNotRunning` for a request that is on the bus, and may have
  been sent: when the answer and the end of `Run` are both ready, either case of
  the select is chosen.
- The size of a command is checked when it is queued; a session that comes up
  before it is sent makes its frame longer. An osdp_KEYSET is never measured.
- `conn.translate` passes an end of file on as it is, `translateSerial` calls it
  closed; both end `Run`, with different errors.
- `cmd/output.go:22` refers to a `Validate` that does not exist.
- A handshake step answered from the cache counts as a wrong key.
- A late reply settles the current command in the clear, since `Reply` compares
  the number only with zero.

### Bounds

`MaxQueue` 2 is the least at which order matters; `MaxChain` counts
authenticated bodies, and 2 lets one full exchange verify before the channel is
cut (4 in `link_secure`). `Burst` 1 is a loss, 2 turns the sequence number round
(the rotation is 3), 3 is `OfflineThreshold`. Misses saturate at the threshold,
because the code only compares them with it. `MaxHistory` stops losses, not
progress, once enough has happened. `MaxFresh` bounds challenges; when it or
`MaxChain` is reached in `Link` the model stops (`Exhausted`). Each command and
each card is asked or presented once, so that a repetition is visible in the
history. `link_live` and `link_moves` never reach the bounds that stop the
model, so their liveness results are not cut off by them. In `bus_one` a device
may answer a move with an address that cannot be encoded, which also exercises the
halted bus; two devices take turns in `link_live`.

In `panel_run` every caller makes a bounded number of calls. That matters for
liveness: `drainRequests` runs until the channel is empty, so callers without
bound could keep `Run` there. An unbuffered event channel is the strictest, and
blocks `emit` soonest; two events show their order.

`MaxSwitches` 2 lets a contact change and change back before a poll, with a report
queue of 1; `MaxRestarts` 1 is enough for a stale number.

In `listening_loops` a buffer of 16 octets holds the longest unit and is filled by
two, so the full buffer is reached; the lines begin with any two of the units,
among them lengths too small and too large and a block that does not fit, and may
end with a whole frame. In `exchange_octets` durations, bodies and counts lie on
both sides of every limit (a tick, 255 and 65535 units, a cipher block, 255
octets). Payloads above `MaxFramed`, of 255 octets and more, are framed and read in
the clear under the checksum only (`Framed`), and only frames of at most
`MaxDamaged` octets are damaged, at every place.

A ring of three goes round and holds a page and the entry behind it; `MaxUint64`
is both the upper end of a first page and the bound on appends. The symmetry is
over the writers, which no property names. `CHECK_DEADLOCK` is off in
`service_paging`, where the writers may have spent their events, and in
`panel_run`, where everyone may have returned.

### Fairness

`LinkFairSpec` asks weak fairness of `Transmit`, `PanelReceive`, `PanelMiss` and
`Hear`: `Panel.Run` loops until cancelled, its read has a deadline, and
`Server.Run` answers what it reads. Nothing is asked of the application or of
losses. In `Panel`, `Run` is scheduled once called, its reads and writes have
deadlines, and a select or receive that is ready proceeds; nobody has to call,
cancel, close or come back for events. `Recovers` assumes that losses end;
`AskedIsPerformed` assumes a quiet line. In `Listening` the goroutine runs and a
read returns by its deadline: it moves again and again until it has ended.
Nobody has to cancel, close or send anything.

## Proofs

`BusTypes`, `BusEffects` and `BusProofs` prove about `OpenBus!Spec`, for every
number of devices, every set of commands, keys and addresses, and any replies:

| Theorem | States |
| --- | --- |
| `TypeCorrect` | `Spec => []TypeOK` |
| `BusInvariant` | `Spec => []BusInv` |
| `SessionsFit` | `Spec => []SessionMatchesState` |
| `RepeatsExactly` | `Spec => []RepeatIsExact` |
| `OnlyAnsweredLeaves` | `Spec => OnlyTheAnsweredCommandLeaves` |
| `LossesReported` | `Spec => LossIsReported` |
| `CustodyKept` | `Spec => Custody` (refinement of `CommandQueue`) |

`LinkTypes` and `LinkProofs` prove about `LinkSpec`, the same bus with peripherals
at the other end of a line that loses and delays, and a panel that restarts:

| Theorem | States |
| --- | --- |
| `LinkInvariant` | `LinkSpec => []LinkInv` |
| `KeysTravelSealed` | `LinkSpec => []KeySetSealed` |
| `RepeatsExactlyOnLink` | `LinkSpec => []RepeatIsExact` |

`PanelProofs` proves about `Panel!Spec`, for any number of callers and calls, any
number of events and channels of any capacity:

| Theorem | States |
| --- | --- |
| `CallersKeepOrder` | `Spec => []CallerOrder` |
| `AnswersAreTrue` | `Spec => []AcceptedMeansQueued` |
| `EventsAllArrive` | `Spec => []NoEventForgotten` |

`StoreProofs` proves about the store by itself and under the service, for any
capacity, devices and writers:

| Theorem | States |
| --- | --- |
| `RingStaysInOrder` | `StoreSpec => []RingInOrder` |
| `StoreIsWindow` | `StoreSpec => WindowOnNewest` (refinement of `RecentEvents`) |
| `ServiceKeepsStore` | `Spec => []RingInOrder /\ WindowOnNewest` |

The assumptions are `BusAssumption` and `NoncesAssumption`: at least one device,
addresses, keys and nonces are octets, and no key to install is the absent key; `LinkAssumption`, below;
`PanelAssumption`: the bounds are numbers and the request channel has room for
one; `StoreAssumption`: the ring has a slot. The counter of the store is a
natural number in the proofs: no store lives to see 2^64 appends.

**The bus.** `RepeatIsExact` is not inductive: it says nothing of a command
still in flight, which the next miss will schedule for repetition. `BusInv` adds
`Repeatable`: outside its transaction a device has nothing in flight; while a
command is in flight, the frame last sent is the one that carries it with the
device's present number, state and chain (`Carried`); and while a repetition is
due, the same holds of the head of the outbox, and nothing withholds or defers
it. `Carried` works because nothing moves the chain a command is authenticated
from (`rmac`) between sending a command and missing its reply.

The proof goes in three layers. `BusTypes` shows that each operator maps devices
to devices. `BusEffects` says what each does to the queue, the session and the
frame: an answer either keeps the queue or puts the released command back
(`Answered`), a whole reply keeps the queue or removes its head (`Settled`), a
turn only moves the head into flight (`Spoken`), a repeated turn composes the
same frame (`RepeatTurn`). `BusProofs` combines these for each action.

**The line.** `KeySetSealed` is not inductive: a key that waits in the queue would
go out in the clear from a device that is online beside an established session.
`LinkInv` adds `Guarded`, that no device of the bus is in such a state, and what
keeps it out of one: only an answer to osdp_CAP could bring it there, the bus
never asks for one inside a session (`SealedCommand`), and no device gives one
under a session's code (`OpenReply`), so neither is on the line nor in a device's
cache. `LinkTypes` shows that every operation of a peripheral keeps these types,
`LinkProofs` that every action does. `LinkAssumption` says that the bounds are
numbers and that an application sends neither osdp_CAP nor an empty osdp_KEYSET
through `Send`.

**The panel.** Neither `CallerOrder` nor `AcceptedMeansQueued` is inductive: both
speak of what the bus has accepted and not of what is still in the channel.
`PanelInv` adds that the channel continues the order of the accepted requests,
that a request is in the channel or accepted only if its call has begun and is
past its submit (`Begun`), and that `done` is the truth about every request
(`Settled`). A request that a caller gave up on stays below its next call number,
which is why giving up cannot reorder anything. For events the invariant counts:
what was received and what is in the channel are the numbers from one on, and
only the last may be missing, in `emit` or after a cancel (`Counted`).
`panel_run` checks the consequences; `PanelInv` itself was checked on the same
instance.

**The store.** `RingInOrder` with the types is inductive. The arithmetic is in
lemmas about remainders: numbers less than a capacity apart have different slots
(`Distinct`), and advancing the slot agrees with advancing the number
(`Successor`). `SlotOfNumber` shows that the double remainder of `at` is the slot
of the number, before and after the ring is full. From it `Held` is the last
`count` entries (`HeldNow`), and a step of `Append` is a step of the abstract
window (`StoreAdds`). Calls of the service leave the store alone
(`ReadersLeaveTheStore`), so that its behaviours are the store's.

**Only model-checked:** of `Link` everything but the three theorems above, the
readers and the octets, what the service answers, and all liveness. Liveness under
fairness is beyond the prover, and so is what the recursive definitions of
`Framing` and `Exchange` compute for every input; `Framing` also uses `Bitwise`,
which keeps its users out of reach. `OnceInOrder` is a candidate for a later
proof, from an invariant relating the device's cached number to the panel's.

## Not modelled

- Opening a port: termios, ioctl and dialling are system calls. What a port
  returns once it is open is in `Ports`.
- The application's handler on the device (`Handler`), beyond that it ran, and a
  capability report the application gives in place of the derived one.
- A second call of `Run`, which is refused at once, and the device's silence
  timeout between frames of a running panel.
- The octets of AES and the registry of suites. In `SecureSession` ciphers are
  symbolic, in `Exchange` they are stand-ins.
- `record.FromEvent` and the protobuf conversions: they are stateless. The device
  is asked whether its session is secure when an event is converted, and not when
  it happened; nothing in the code ties the two moments together.
- Provider tables, telemetry, the facade's aliases, generated code and the build
  tooling hold no state that steps of two parties could disturb.
