------------------------------ MODULE Framing ------------------------------
(***************************************************************************)
(* internal/frame: one frame as octets, and the error checks.  An octet is *)
(* a number below 256 and a slice of octets a sequence of them.  Decode    *)
(* and Append are pure; FrameReader drives them on a line, Exchange with   *)
(* the payloads of the messages.                                           *)
(***************************************************************************)
EXTENDS Naturals, Sequences, SequencesExt, Bitwise

Octet == 0..255

SOM              == 83   \* 0x53
Mark             == 255  \* 0xFF
HeaderSize       == 5
ReplyFlag        == 128
BroadcastAddress == 127
MaxSecurityBlockSize == 255
MaxFrameSize         == 65535

Low(n)  == n % 256
High(n) == (n \div 256) % 256

-----------------------------------------------------------------------------
(* The control octet.  Its reserved bits are kept as they came.            *)

Sequence(c)         == c % 4
HasCRC(c)           == (c \div 4) % 2 = 1
HasSecurityBlock(c) == (c \div 8) % 2 = 1
CheckSize(c)        == IF HasCRC(c) THEN 2 ELSE 1

NewControl(seq, crc, security) ==
  (seq % 4) + (IF crc THEN 4 ELSE 0) + (IF security THEN 8 ELSE 0)

-----------------------------------------------------------------------------
(* The error checks.                                                       *)

crcInit == 7439  \* 0x1D0F

\* Mistake: the last shift takes the high octet along.
MixUnmasked(crc, c) ==
  LET a == (High(crc) + 256 * Low(crc)) ^^ c
      b == a ^^ (Low(a) \div 16)
      d == b ^^ ((b * 4096) % 65536)
  IN d ^^ ((d * 32) % 65536)

\* One octet of CRC16.
Mix(crc, c) ==
  LET a == (High(crc) + 256 * Low(crc)) ^^ c
      b == a ^^ (Low(a) \div 16)
      d == b ^^ ((b * 4096) % 65536)
  IN d ^^ (Low(d) * 32)

CRC16(b) ==
  LET mix[crc \in 0..65535, c \in Octet] == Mix(crc, c)
      crc[k \in 0..Len(b)] == IF k = 0 THEN crcInit ELSE mix[crc[k - 1], b[k]]
  IN crc[Len(b)]

\* The sum of the octets is taken by halves.
Checksum(b) ==
  LET sum[first \in 1..(Len(b) + 1), last \in 0..Len(b)] ==
        LET middle == (first + last) \div 2
        IN IF first > last THEN 0
           ELSE IF first = last THEN b[first]
           ELSE sum[first, middle] + sum[middle + 1, last]
  IN (256 - (sum[1, Len(b)] % 256)) % 256

-----------------------------------------------------------------------------
(* Frames.  Security is a sequence of at most one block.                   *)

SecurityBlock(type, data) == [type |-> type, data |-> data]

Frame(mark, isReply, addr, ctrl, security, code, data, check) ==
  [mark |-> mark, isReply |-> isReply, addr |-> addr, ctrl |-> ctrl,
   security |-> security, code |-> code, data |-> data, check |-> check]

\* Length of a block as its own first octet counts it.
BlockLen(security) == IF security = <<>> THEN 0 ELSE 2 + Len(security[1].data)

\* Length as the length field counts it, from the start of message on.
FrameLen(f) == HeaderSize + BlockLen(f.security) + 1 + Len(f.data) + CheckSize(f.ctrl)

WireLen(f) == FrameLen(f) + (IF f.mark THEN 1 ELSE 0)

BlockOctets(b) == <<Low(2 + Len(b.data)), b.type>> \o b.data

\* The octets the error check covers.
AppendBody(f) ==
  <<SOM, f.addr + (IF f.isReply THEN ReplyFlag ELSE 0),
    Low(FrameLen(f)), High(FrameLen(f)), f.ctrl>>
  \o (IF f.security = <<>> THEN <<>> ELSE BlockOctets(f.security[1]))
  \o <<f.code>> \o f.data

ComputeCheck(f) == IF HasCRC(f.ctrl) THEN CRC16(AppendBody(f)) ELSE Checksum(AppendBody(f))
CheckOK(f)      == f.check = ComputeCheck(f)
Seal(f)         == [f EXCEPT !.check = ComputeCheck(f)]

Representable(f) ==
  /\ f.addr <= BroadcastAddress
  /\ BlockLen(f.security) <= MaxSecurityBlockSize
  /\ FrameLen(f) <= MaxFrameSize

\* Mistake: the check is computed anew.
EncodeSealed(f) ==
  (IF f.mark THEN <<Mark>> ELSE <<>>) \o AppendBody(f)
  \o (IF HasCRC(f.ctrl) THEN <<Low(ComputeCheck(f)), High(ComputeCheck(f))>>
      ELSE <<Low(ComputeCheck(f))>>)

\* The octets of a representable frame; the check is written as the frame has it.
Encode(f) ==
  (IF f.mark THEN <<Mark>> ELSE <<>>) \o AppendBody(f)
  \o (IF HasCRC(f.ctrl) THEN <<Low(f.check), High(f.check)>> ELSE <<Low(f.check)>>)

-----------------------------------------------------------------------------
(* Decode.  The result names the error, and the frame where there is one.  *)

Failed(err)     == [err |-> err, frames |-> <<>>]
Decoded(err, f) == [err |-> err, frames |-> <<f>>]

From(s, k) == SubSeq(s, k, Len(s))

\* Mistake: a frame whose check fails is not returned.
CheckedDropped(f) == IF CheckOK(f) THEN Decoded("None", f) ELSE Failed("BadCheck")

\* Mistake: the check is not looked at.
CheckedAnyway(f) == Decoded("None", f)

\* A frame whose check fails is returned all the same, with the error.
Checked(f) == Decoded(IF CheckOK(f) THEN "None" ELSE "BadCheck", f)

\* The part after the header: block, code, payload and check.
DecodeRest(mark, body, rest) ==
  LET ctrl   == body[5]
      size   == CheckSize(ctrl)
      n      == rest[1]
      block  == IF HasSecurityBlock(ctrl)
                THEN <<SecurityBlock(rest[2], SubSeq(rest, 3, n))>> ELSE <<>>
      after  == IF HasSecurityBlock(ctrl) THEN From(rest, n + 1) ELSE rest
      end    == Len(after) - size
      check  == IF size = 2 THEN after[end + 1] + 256 * after[end + 2] ELSE after[end + 1]
      f      == Frame(mark, body[2] >= ReplyFlag, body[2] % ReplyFlag, ctrl, block,
                      after[1], SubSeq(after, 2, end), check)
  IN IF HasSecurityBlock(ctrl) /\ (Len(rest) < 2 \/ n < 2 \/ n > Len(rest))
     THEN Failed("BadSecurityBlock")
     ELSE IF Len(after) < 1 + size THEN Failed("LengthMismatch")
     ELSE Checked(f)

Decode(buf) ==
  LET mark  == buf # <<>> /\ buf[1] = Mark
      body  == IF mark THEN Tail(buf) ELSE buf
      total == body[3] + 256 * body[4]
  IN IF body = <<>> THEN Failed("ShortBuffer")
     ELSE IF body[1] # SOM THEN Failed("NoStartOfMessage")
     ELSE IF Len(body) < HeaderSize THEN Failed("ShortBuffer")
     ELSE IF total < HeaderSize + 1 + CheckSize(body[5]) THEN Failed("LengthMismatch")
     ELSE IF Len(body) < total THEN Failed("ShortBuffer")
     ELSE DecodeRest(mark, body, SubSeq(body, HeaderSize + 1, total))
=============================================================================
