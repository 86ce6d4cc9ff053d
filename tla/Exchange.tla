------------------------------ MODULE Exchange ------------------------------
(***************************************************************************)
(* One message on its way: built from what a caller says, screened against *)
(* the buffer of the device, put into a frame (sealed on an established    *)
(* session), carried as octets that the line may damage, and read at the   *)
(* other end.  Link has the exchange of messages; this module has the      *)
(* octets of one of them, in either direction.                             *)
(***************************************************************************)
EXTENDS Payloads

LOCAL INSTANCE FiniteSetsExt

CONSTANTS
  Durations,  \* what a caller may ask for, in milliseconds
  Bodies,     \* free octets: a text, a card, keys, a vendor's body
  Keys,       \* base keys
  Contacts,   \* contact states a device may report
  Settings,   \* what a device may be built with
  Buffers,    \* receive buffers a device may have reported, 0 for none
  Bursts,     \* pairs of octets to add to two neighbours on the line, bit by bit
  MaxFramed,  \* bound on the payloads that are put into a frame
  MaxDamaged  \* bound on the length of the frames that are damaged

VARIABLES
  pc,       \* "idle", "built", "queued", "wired", "read", "refused"
  crc,      \* the scheme: CRC-16, or the checksum
  sealed,   \* the session is established
  buffer,   \* the receive buffer of the device
  asked,    \* what the caller said: the kind, and the content
  msg,      \* the message: code, direction and payload
  checked,  \* history: the session was established when the size was checked
  wire,     \* the octets on the line
  hit,      \* what the line did to them: nothing, or one burst
  got       \* what the other end made of it

setting  == <<crc, buffer>>
exchange == <<pc, crc, sealed, buffer, asked, msg, checked, wire, hit, got>>

Address   == 1
Number    == 1
BlockSize == 16
MACTagSize == 4
eom        == 128

Init ==
  /\ pc = "idle" /\ crc \in BOOLEAN /\ sealed \in BOOLEAN /\ buffer \in Buffers
  /\ asked = <<>> /\ msg = <<>> /\ wire = <<>> /\ hit = <<>> /\ got = <<>>
  /\ checked = FALSE

-----------------------------------------------------------------------------
(* The seal.  The cipher and the code stand for AES: the one reversible    *)
(* and length-preserving, the other a digest of all it covers.             *)

Encipher(b) == [k \in DOMAIN b |-> (b[k] + 91 * k) % 256]
Decipher(b) == [k \in DOMAIN b |-> (b[k] + 165 * k) % 256]
Digest(b)   == LET d == CRC16(b) IN <<Low(d), High(d), High(d), Low(d)>>

paddedLen(n) == ((n + BlockSize) \div BlockSize) * BlockSize

pad(b) == b \o <<eom>> \o [k \in 1..(paddedLen(Len(b)) - Len(b) - 1) |-> 0]

\* Mistake: the first marker is taken for the last.
unpadFirst(b) ==
  LET marks == {k \in DOMAIN b : b[k] = eom}
  IN IF marks = {} THEN <<>> ELSE <<SubSeq(b, 1, Min(marks) - 1)>>

unpad(b) ==
  LET i == Max({1} \cup {k \in DOMAIN b : b[k] # 0})
  IN IF b[i] = eom THEN <<SubSeq(b, 1, i - 1)>> ELSE <<>>

OpenPayload(b) ==
  IF b = <<>> \/ Len(b) % BlockSize # 0 THEN <<>> ELSE unpad(Decipher(b))

Encrypted(type) == type \in {23, 24}  \* SCS17, SCS18

\* blockForCommand and replyBlock: only a payload is enciphered.
Block(m) ==
  SecurityBlock((IF m.data = <<>> THEN 21 ELSE 23) + (IF m.isReply THEN 1 ELSE 0), <<>>)

Clear(m) == Frame(FALSE, m.isReply, Address, NewControl(Number, crc, FALSE), <<>>, m.code, m.data, 0)

Wrapped(m, data) ==
  Frame(FALSE, m.isReply, Address, NewControl(Number, crc, TRUE), <<Block(m)>>, m.code, data, 0)

\* The code covers everything before it, with a length field that counts it.
Covered(f) == LET body == AppendBody(f) IN SubSeq(body, 1, Len(body) - MACTagSize)

compose(m) ==
  IF ~sealed THEN Seal(Clear(m))
  ELSE LET payload  == IF m.data = <<>> THEN m.data ELSE Encipher(pad(m.data))
           reserved == Wrapped(m, payload \o <<0, 0, 0, 0>>)
       IN Seal([reserved EXCEPT !.data = payload \o Digest(Covered(reserved))])

\* openReply and open: the payload of a sealed frame, or nothing.
open(f) ==
  LET split   == Len(f.data) - MACTagSize
      payload == SubSeq(f.data, 1, split)
  IN IF split < 0 \/ f.security = <<>> THEN <<>>
     ELSE IF From(f.data, split + 1) # Digest(Covered(f)) THEN <<>>
     ELSE IF Encrypted(f.security[1].type) THEN OpenPayload(payload) ELSE <<payload>>

-----------------------------------------------------------------------------
(* Building.                                                               *)

Say(kind, isReply, code, content, data) ==
  /\ pc' = "built"
  /\ asked' = [kind |-> kind, content |-> content]
  /\ msg' = [isReply |-> isReply, code |-> code, data |-> data]
  /\ UNCHANGED <<setting, sealed, checked, wire, hit, got>>

SayOutput ==
  /\ pc = "idle"
  /\ \E o \in [timer : Durations, number : {0, 3}, control : {1, 5}],
       p \in [timer : Durations, number : {1}, control : {2}] :
       Say("Out", FALSE, 104, <<o, p>>, OutputCommand(<<o, p>>))

SayBuzzer ==
  /\ pc = "idle"
  /\ \E b \in Durations \X Durations :
       Say("Buz", FALSE, 106, b, BuzzerCommand(0, 2, b[1], b[2], 3))

SayLED ==
  /\ pc = "idle"
  /\ \E s \in [on : Durations, off : Durations, onColour : {2}, offColour : {0}, control : {1}],
       hold \in Durations :
       Say("LED", FALSE, 105, <<s.on, s.off, hold>>, LEDCommand(0, 1, s, hold, s))

SayText ==
  /\ pc = "idle"
  /\ \E d \in [reader : {0}, control : {0}, hold : Durations, row : 0..1, column : {0},
               content : Bodies] :
       Say("Text", FALSE, 107, d, TextCommand(d))

SayCommunication ==
  /\ pc = "idle"
  /\ \E c \in [address : 0..1, baud : {<<0, 9600>>, <<3, 33792>>}] :
       Say("ComSet", FALSE, 110, c, CommunicationCommand(c))

\* osdp_KEYSET goes out on an established session only.
SayKey ==
  /\ pc = "idle" /\ sealed
  /\ \E key \in Keys : Say("KeySet", FALSE, 117, key, KeySetCommand(key))

SayVendor ==
  /\ pc = "idle"
  /\ \E m \in [oui : {1, 65536}, body : Bodies] :
       Say("MFG", FALSE, 128, m, AppendManufacturer(m))

\* A credential with fewer octets than its bits need is refused.
SayCard ==
  /\ pc = "idle"
  /\ \E c \in [reader : {0}, format : {1}, bitCount : {0, 8, 26, 32, 257}, data : Bodies] :
       Consistent(c) /\ Say("Raw", TRUE, 80, c, appendCardRead(c))

SayKeys ==
  /\ pc = "idle"
  /\ \E k \in [reader : {1}, keys : Bodies] : Say("Keypad", TRUE, 83, k, appendKeypad(k))

SayIdentity ==
  /\ pc = "idle"
  /\ \E id \in [vendorCode : {<<0, 6, 142>>}, model : {1}, version : {2},
                serial : {<<0, 1>>, <<65535, 256>>}, firmware : {<<1, 2, 3>>}] :
       Say("PDID", TRUE, 69, id, appendDeviceID(id))

\* The report that a device derives from what it was built with.
SayCapabilities ==
  /\ pc = "idle"
  /\ \E s \in Settings :
       validate(s) /\ Say("PDCap", TRUE, 70, s, AppendReport(defaultCapabilities(s)))

SayContacts ==
  /\ pc = "idle"
  /\ \E state \in Contacts : Say("IStatR", TRUE, 73, state, contactStatus(state))

SayLocal ==
  /\ pc = "idle"
  /\ \E local \in BOOLEAN \X BOOLEAN :
       Say("LStatR", TRUE, 72, local, contactStatus(local))

-----------------------------------------------------------------------------
(* Sending.                                                                *)

\* Mistake: a payload that fills its blocks is taken to stay as it is.
paddedLengthTight(n) == ((n + BlockSize - 1) \div BlockSize) * BlockSize

paddedLength(n) == ((n + 1 + BlockSize - 1) \div BlockSize) * BlockSize

wireLength(n) ==
  LET sealing == IF sealed THEN 2 + MACTagSize ELSE 0
      payload == IF sealed /\ n > 0 THEN paddedLength(n) ELSE n
  IN HeaderSize + sealing + 1 + payload + CheckSize(NewControl(Number, crc, sealed))

checkSize(m) == buffer = 0 \/ wireLength(Len(m.data)) <= buffer

\* Bus.Send measures what it is given, and SetCommunication goes through it.
\* InstallKey queues its command as it is, and a device its answers.
Measured == ~msg.isReply /\ asked.kind # "KeySet"

Send ==
  /\ pc = "built"
  /\ pc' = IF Measured /\ ~checkSize(msg) THEN "refused" ELSE "queued"
  /\ checked' = sealed
  /\ UNCHANGED <<setting, sealed, asked, msg, wire, hit, got>>

\* The session comes up while a command waits.
Establish ==
  /\ pc = "queued" /\ ~msg.isReply /\ ~sealed /\ sealed' = TRUE
  /\ UNCHANGED <<pc, setting, asked, msg, checked, wire, hit, got>>

\* Bound: what is longer is framed in the clear under the checksum, unmeasured.
Framed == Len(msg.data) <= MaxFramed \/ (setting = <<FALSE, 0>> /\ ~sealed)

Compose ==
  /\ pc = "queued" /\ Framed /\ Representable(compose(msg))
  /\ pc' = "wired" /\ wire' = Encode(compose(msg))
  /\ UNCHANGED <<setting, sealed, asked, msg, checked, hit, got>>

-----------------------------------------------------------------------------
(* The line, and the other end.                                            *)

\* Two neighbouring octets, each with some bits turned over.
Damage ==
  /\ pc = "wired" /\ hit = <<>> /\ Len(wire) <= MaxDamaged
  /\ \E k \in 1..(Len(wire) - 1), burst \in Bursts :
       /\ wire' = [wire EXCEPT ![k] = @ ^^ burst[1], ![k + 1] = @ ^^ burst[2]]
       /\ hit' = <<[at |-> k, burst |-> burst]>>
  /\ UNCHANGED <<pc, setting, sealed, asked, msg, checked, got>>

Entries(data) ==
  [k \in 1..(Len(data) \div 4) |-> [number |-> data[4*k - 3], control |-> data[4*k - 2]]]

\* What the reader of each kind of message makes of its payload.
Read(kind, data) ==
  CASE kind = "Out" -> <<Entries(data)>>
    [] kind \in {"Buz", "LED", "Text"} -> <<data>>
    [] kind = "ComSet" -> ParseCommunication(data)
    [] kind = "KeySet" -> ParseKeySet(data)
    [] kind = "MFG" -> ParseManufacturerMessage(data)
    [] kind = "Raw" -> ParseCardRead(data)
    [] kind = "Keypad" -> ParseKeypadEntry(data)
    [] kind = "PDID" -> ParseDeviceID(data)
    [] kind = "PDCap" -> ParseCapabilities(data)
    [] kind = "IStatR" -> parseContacts(data)
    [] kind = "LStatR" -> ParseLocalStatus(data)

\* The payload of a frame that decodes, checks and, on a session, opens.
Payload(octets) ==
  LET decoded == Decode(octets)
      f       == decoded.frames[1]
  IN IF decoded.err # "None" THEN <<>> ELSE IF sealed THEN open(f) ELSE <<f.data>>

Receive ==
  /\ pc = "wired" /\ pc' = "read"
  /\ got' = IF Payload(wire) = <<>> THEN <<>> ELSE Read(asked.kind, Payload(wire)[1])
  /\ UNCHANGED <<setting, sealed, asked, msg, checked, wire, hit>>

Again ==
  /\ pc \in {"read", "refused"} \/ (pc = "queued" /\ ~Framed)
  /\ pc' = "idle"
  /\ asked' = <<>> /\ msg' = <<>> /\ wire' = <<>> /\ hit' = <<>> /\ got' = <<>>
  /\ checked' = FALSE
  /\ UNCHANGED <<setting, sealed>>

Build ==
  \/ SayOutput \/ SayBuzzer \/ SayLED \/ SayText \/ SayCommunication \/ SayKey \/ SayVendor
  \/ SayCard \/ SayKeys \/ SayIdentity \/ SayCapabilities \/ SayContacts \/ SayLocal

Next == Build \/ Send \/ Establish \/ Compose \/ Damage \/ Receive \/ Again

Spec == Init /\ [][Next]_exchange

-----------------------------------------------------------------------------
(* Properties.                                                             *)

Intact == pc = "read" /\ hit = <<>>

TextReads(data, d) ==
  /\ From(data, 7) = UpTo(d.content, MaxTextLength) /\ data[6] = Len(data) - 6
  /\ data[4] > 0 /\ data[5] > 0

\* Whether reading gave what was said.
AsSaid(read) ==
  /\ Len(read) = 1
  /\ LET c == asked.content
         g == read[1]
     IN CASE asked.kind = "Out" ->
               g = [k \in DOMAIN c |-> [number |-> c[k].number, control |-> c[k].control]]
          [] asked.kind = "Text" -> TextReads(g, c)
          [] asked.kind = "KeySet" -> g = [first |-> 1, rest |-> c]
          [] asked.kind = "Keypad" -> g = [first |-> c.reader, rest |-> UpTo(c.keys, 255)]
          [] asked.kind \in {"ComSet", "MFG", "Raw", "PDID", "IStatR", "LStatR"} -> g = c
          [] OTHER -> TRUE

\* A message arrives as it was said through frame, seal and padding, whatever
\* octets its payload ends in; a text and a keypad entry are cut where their count
\* ends (the builders and parsers, compose, sealReply, openReply, unpad, Decode).
ArrivesAsSaid == Intact => AsSaid(got)

\* A field of so many units for a duration: never longer than asked for, and short
\* by less than a unit unless the field is full.
Holds(field, ms, unit, limit) ==
  /\ field * unit <= Max({ms, 0})
  /\ field = limit \/ ms < (field + 1) * unit

\* Every duration on the wire is the one asked for, rounded down, and a duration
\* too long for its field is the longest there is: a strike that is to stay open
\* for hours does not relock at once (ticks, seconds and the builders).
HeldAsLongAsAsked ==
  pc = "built" =>
    LET c == asked.content
        d == msg.data
    IN CASE asked.kind = "Out" ->
              \A k \in 1..2 : Holds(d[4*k - 1] + 256 * d[4*k], c[k].timer, 100, 65535)
         [] asked.kind = "Buz" -> \A k \in 1..2 : Holds(d[k + 2], c[k], 100, 255)
         [] asked.kind = "LED" ->
              /\ \A k \in 1..2 : Holds(d[k + 3], c[k], 100, 255) /\ Holds(d[k + 10], c[k], 100, 255)
              /\ Holds(d[8] + 256 * d[9], c[3], 100, 65535)
         [] asked.kind = "Text" -> Holds(d[3], c.hold, 1000, 255)
         [] OTHER -> TRUE

\* A command given to Send is refused exactly when its frame would not fit the
\* device, as long as the session is what it was when the command was measured
\* (checkSize, wireLength against compose).  A session that comes up in between
\* makes the frame longer, and osdp_KEYSET is never measured.
RefusedIfTooLong ==
  /\ pc = "refused" /\ Len(msg.data) <= MaxFramed => Len(Encode(compose(msg))) > buffer
  /\ pc = "wired" /\ Measured /\ sealed = checked => buffer = 0 \/ Len(wire) <= buffer

\* One burst of at most sixteen bits behind the header is never read as a message
\* under the CRC, nor a damaged octet under the checksum (CRC16, Checksum, Decode).
DamageNoticed ==
  pc = "read" /\ hit # <<>> /\ hit[1].at > HeaderSize /\ (crc \/ hit[1].burst[2] = 0) => got = <<>>

\* The remainder of a division by x^16 + x^12 + x^5 + 1, a bit at a time.
Divided(octets) ==
  LET bit(k)  == (octets[((k - 1) \div 8) + 1] \div (2^(7 - ((k - 1) % 8)))) % 2
      shift[r \in 0..65535, b \in 0..1] ==
        ((2 * r + b) % 65536) ^^ (IF r >= 32768 THEN 4129 ELSE 0)
      n == 8 * Len(octets)
      reg[k \in 0..(n + 16)] ==
        IF k = 0 THEN 65535 ELSE shift[reg[k - 1], IF k > n THEN 0 ELSE bit(k)]
  IN reg[n + 16]

\* The checks on the wire are the ones OSDP defines: the CRC is the remainder of
\* the division, which CRC16 finds an octet at a time, and under the checksum the
\* octets of a frame add up to nothing (crcInit, CRC16, Checksum).
CheckIsStandard ==
  pc = "wired" /\ hit = <<>> /\ Len(wire) <= MaxDamaged =>
    IF crc THEN LET body == SubSeq(wire, 1, Len(wire) - 2)
                IN wire[Len(wire) - 1] + 256 * wire[Len(wire)] = Divided(body)
    ELSE FoldLeft(LAMBDA a, b : a + b, 0, wire) % 256 = 0

\* A panel that reads the derived report of a device learns the contacts that the
\* device reports the state of, its key and a buffer that takes a message: two
\* answers of one device do not contradict each other (defaultCapabilities,
\* validate, the accessors of CapabilityReport).
ReportAgrees ==
  Intact /\ asked.kind = "PDCap" =>
    LET r == got[1]
        s == asked.content
    IN /\ ItemsOf(r, FuncContactStatus) = s.inputs
       /\ ItemsOf(r, FuncOutputControl) = s.outputs
       /\ ItemsOf(r, FuncReaders) = s.readers
       /\ SecureChannel(r) = <<s.secure, s.secure /\ s.default>>
       /\ Supports(r, FuncCheckCharacter) /\ ReceiveBufferSize(r) = 128
=============================================================================
