------------------------------ MODULE Payloads ------------------------------
(***************************************************************************)
(* internal/cmd, and the encoders of internal/pd: what a payload is as     *)
(* octets.  A builder gives the octets; a parser gives what it read in a   *)
(* sequence of length one, or the empty sequence for ErrShortPayload.      *)
(*                                                                         *)
(* Durations are whole milliseconds.  A number of 32 bits is a pair of     *)
(* halves, the high one first.                                             *)
(***************************************************************************)
EXTENDS Framing, Integers

LOCAL INSTANCE FiniteSetsExt

LittleEndian(n, width) == [k \in 1..width |-> (n \div 256^(k - 1)) % 256]

Integer(octets) ==
  FoldRight(LAMBDA octet, rest : octet + 256 * rest, octets, 0)

LittleEndian32(n) == LittleEndian(n[2], 2) \o LittleEndian(n[1], 2)
Integer32(octets) == <<Integer(SubSeq(octets, 3, 4)), Integer(SubSeq(octets, 1, 2))>>

-----------------------------------------------------------------------------
(* Commands that carry durations.  Nothing in the repository parses them.  *)

maxOutputTimer == 65535
maxToneTime    == 255
maxLEDTime     == 255
maxLEDTimer    == 65535
MaxTextLength  == 255
MaxTextHold    == 255

\* Mistake: a duration too long for the field wraps.
ticksWrapped(ms, limit) == IF ms <= 0 THEN 0 ELSE (ms \div 100) % (limit + 1)

\* Units of a hundred milliseconds.
ticks(ms, limit) == IF ms <= 0 THEN 0 ELSE Min({ms \div 100, limit})

seconds(ms, limit) == IF ms <= 0 THEN 0 ELSE Min({ms \div 1000, limit})

OutputCommand(outputs) ==
  FlattenSeq([k \in DOMAIN outputs |->
    <<outputs[k].number, outputs[k].control>>
    \o LittleEndian(ticks(outputs[k].timer, maxOutputTimer), 2)])

BuzzerCommand(reader, tone, on, off, count) ==
  <<reader, tone, ticks(on, maxToneTime), ticks(off, maxToneTime), count>>

LEDState(s) ==
  <<s.control, ticks(s.on, maxLEDTime), ticks(s.off, maxLEDTime), s.onColour, s.offColour>>

LEDCommand(reader, led, temporary, hold, permanent) ==
  <<reader, led>> \o LEDState(temporary) \o LittleEndian(ticks(hold, maxLEDTimer), 2)
  \o LEDState(permanent)

originOf(n) == IF n = 0 THEN 1 ELSE n

UpTo(s, n) == SubSeq(s, 1, Min({Len(s), n}))

TextCommand(d) ==
  LET content == UpTo(d.content, MaxTextLength)
  IN <<d.reader, IF d.control = 0 THEN 1 ELSE d.control, seconds(d.hold, MaxTextHold),
       originOf(d.row), originOf(d.column), Len(content)>> \o content

-----------------------------------------------------------------------------
(* Payloads with a parser.                                                 *)

CommunicationCommand(c) == <<c.address>> \o LittleEndian32(c.baud)

ParseCommunication(data) ==
  IF Len(data) < 5 THEN <<>>
  ELSE <<[address |-> data[1], baud |-> Integer32(SubSeq(data, 2, 5))]>>

KeySetCommand(key) == <<1, Low(Len(key))>> \o key

\* A type or reader octet, a count, and that many octets.
Counted(data) ==
  IF Len(data) < 2 \/ Len(data) - 2 < data[2] THEN <<>>
  ELSE <<[first |-> data[1], rest |-> SubSeq(data, 3, 2 + data[2])]>>

ParseKeySet(data) == Counted(data)

appendKeypad(k) ==
  LET keys == UpTo(k.keys, 255) IN <<k.reader, Len(keys)>> \o keys

ParseKeypadEntry(data) == Counted(data)

appendDeviceID(id) ==
  id.vendorCode \o <<id.model, id.version>> \o LittleEndian32(id.serial) \o id.firmware

ParseDeviceID(data) ==
  IF Len(data) < 12 THEN <<>>
  ELSE <<[vendorCode |-> SubSeq(data, 1, 3), model |-> data[4], version |-> data[5],
          serial |-> Integer32(SubSeq(data, 6, 9)), firmware |-> SubSeq(data, 10, 12)]>>

\* The octets that so many bits need.
OctetsFor(bits) == (bits + 7) \div 8

\* Whether ReportCardRead takes the credential.
Consistent(c) == Len(c.data) >= OctetsFor(c.bitCount)

appendCardRead(c) == <<c.reader, c.format>> \o LittleEndian(c.bitCount, 2) \o c.data

ParseCardRead(data) ==
  IF Len(data) < 4 \/ Len(data) - 4 < OctetsFor(Integer(SubSeq(data, 3, 4))) THEN <<>>
  ELSE <<[reader |-> data[1], format |-> data[2],
          bitCount |-> Integer(SubSeq(data, 3, 4)), data |-> From(data, 5)]>>

\* Most significant octet first, as a vendor code is written everywhere.
OUI(code) == Integer(Reverse(code))

AppendManufacturer(m) == Reverse(LittleEndian(m.oui, 3)) \o m.body

ParseManufacturerMessage(data) ==
  IF Len(data) < 3 THEN <<>>
  ELSE <<[oui |-> OUI(SubSeq(data, 1, 3)), body |-> From(data, 4)]>>

-----------------------------------------------------------------------------
(* Contacts.                                                               *)

boolOctet(active) == IF active THEN 1 ELSE 0

contactStatus(state) == [k \in DOMAIN state |-> boolOctet(state[k])]

parseContacts(data) == <<[k \in DOMAIN data |-> data[k] # 0]>>

ParseLocalStatus(data) ==
  IF Len(data) < 2 THEN <<>> ELSE <<<<data[1] # 0, data[2] # 0>>>>

-----------------------------------------------------------------------------
(* The capability report.  An entry is a function code and two octets.     *)

FuncContactStatus  == 1
FuncOutputControl  == 2
FuncCardDataFormat == 3
FuncCheckCharacter == 8
FuncCommSecurity   == 9
FuncReceiveBuffer  == 10
FuncReaders        == 13
FuncOSDPVersion    == 16

Capability(function, compliance, items) ==
  [function |-> function, compliance |-> compliance, items |-> items]

AppendReport(r) ==
  FlattenSeq([k \in DOMAIN r |-> <<r[k].function, r[k].compliance, r[k].items>>])

ParseCapabilities(data) ==
  IF Len(data) % 3 # 0 THEN <<>>
  ELSE <<[k \in 1..(Len(data) \div 3) |->
           Capability(data[3*k - 2], data[3*k - 1], data[3*k])]>>

\* The first entry of a function, if there is one.
Get(r, fn) ==
  LET of == {k \in DOMAIN r : r[k].function = fn}
  IN IF of = {} THEN <<>> ELSE <<r[Min(of)]>>

Supports(r, fn) == Get(r, fn) # <<>> /\ Get(r, fn)[1].compliance # 0

ItemsOf(r, fn) == IF Get(r, fn) = <<>> THEN 0 ELSE Get(r, fn)[1].items

\* Whether the device can, and whether it still holds the default key.
SecureChannel(r) ==
  LET c == Get(r, FuncCommSecurity)
  IN IF c = <<>> THEN <<FALSE, FALSE>>
     ELSE <<c[1].compliance % 2 = 1, c[1].items % 2 = 1>>

ReceiveBufferSize(r) ==
  LET c == Get(r, FuncReceiveBuffer)
  IN IF c = <<>> THEN 0 ELSE 256 * c[1].items + c[1].compliance

\* Mistake: one contact more than an octet counts.
validateLoosely(s) ==
  /\ s.inputs \in 0..256 /\ s.outputs \in 0..256 /\ s.readers \in 0..256
  /\ s.queue >= 1

\* What New accepts of contacts, and of places for events.
validate(s) ==
  /\ s.inputs \in 0..255 /\ s.outputs \in 0..255 /\ s.readers \in 0..255
  /\ s.queue >= 1

defaultReceiveBuffer == 128

defaultCapabilities(s) ==
  <<Capability(FuncContactStatus, 1, Low(s.inputs)),
    Capability(FuncOutputControl, 1, Low(s.outputs)),
    Capability(FuncCardDataFormat, 1, 0),
    Capability(FuncCheckCharacter, 1, 0),
    Capability(FuncCommSecurity, boolOctet(s.secure), boolOctet(s.secure /\ s.default)),
    Capability(FuncReceiveBuffer, Low(defaultReceiveBuffer), High(defaultReceiveBuffer)),
    Capability(FuncReaders, 1, Low(s.readers)),
    Capability(FuncOSDPVersion, 2, 0)>>
=============================================================================
