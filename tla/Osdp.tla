-------------------------------- MODULE Osdp --------------------------------
(***************************************************************************)
(* The vocabulary both ends of the line share: messages, frames and the    *)
(* secure-channel block types (internal/cmd, internal/frame,               *)
(* internal/secure/scs.go).                                                *)
(*                                                                         *)
(* A payload is a sequence of numbers that stand for the octets the        *)
(* handlers tell apart: the number of a door, a card, a key or an          *)
(* address.  The empty sequence is a payload too short to parse.           *)
(***************************************************************************)
EXTENDS Naturals, Sequences

Octet   == 0..255
Payload == Seq(Octet)

\* What a pointer holds: nothing, or one thing.
Optional(S) == {s \in Seq(S) : Len(s) <= 1}

\* cmd.Code.  "Other" is any octet that names no command and no reply.
CommandCode == {"Poll", "ID", "Cap", "LStat", "IStat", "OStat", "RStat", "Out", "LED",
                "Buz", "Text", "ComSet", "BioRead", "BioMatch", "KeySet", "Chlng", "SCrypt",
                "ACURxSize", "FileTransfer", "MFG", "Abort", "PIVData", "GenAuth",
                "CRAuth", "KeepActive"}
ReplyCode   == {"ACK", "NAK", "PDID", "PDCap", "LStatR", "IStatR", "OStatR", "RStatR",
                "Raw", "Keypad", "Com", "BioReadR", "CCrypt", "RMACI", "MFGReply", "Busy"}
Code        == CommandCode \cup ReplyCode \cup {"Other"}

\* cmd.Message: a code, what the payload says, and how many octets it takes.
\* The length decides whether a secure frame enciphers a body and whether a
\* device can receive the command.
Message == [code : Code, arg : Payload, len : Nat]

Msg(code, arg, len) == [code |-> code, arg |-> arg, len |-> len]

PollMessage == Msg("Poll", <<>>, 0)
AckReply    == Msg("ACK", <<>>, 0)

\* cmd.NAKReason octets the peripheral device sends.
NAKCommandLength    == 2
NAKUnknownCommand   == 3
NAKSequenceError    == 4
NAKSecureRequired   == 5
NAKEncryptionUnsup  == 6
NAKUnsupportedInput == 9

NakReply(reason) == Msg("NAK", <<reason>>, 1)

\* Replies whose payload the bus parses, and what too short means for each.
\* An osdp_PDCAP is malformed when it is not a whole number of entries, which
\* here is a payload that is not the pair <<secure channel, receive buffer>>.
ShortReport(m)        == m.code \in {"PDID", "Raw", "Keypad", "MFGReply"} /\ m.arg = <<>>
ShortRefusal(m)       == m.code = "NAK" /\ m.arg = <<>>
ShortCommunication(m) == m.code = "Com" /\ m.arg = <<>>
ShortStatus(m)        == m.code = "LStatR" /\ Len(m.arg) < 2
UnevenCapabilities(m) == m.code = "PDCap" /\ Len(m.arg) # 2

Malformed(m) ==
  \/ ShortReport(m) \/ ShortRefusal(m) \/ ShortCommunication(m) \/ ShortStatus(m)
  \/ UnevenCapabilities(m)

\* Security blocks.  Zero is a frame without one.
NoBlock == 0
BlockType == {NoBlock, 11, 12, 13, 14, 15, 16, 17, 18}

Handshake(b)        == b \in 11..14
EstablishedBlock(b) == b \in 15..18
Encrypted(b)        == b \in {17, 18}

BroadcastAddress == 127
Sequence         == 0..3

\* The rotation proper is 1, 2, 3, 1; zero is outside it.
SequenceRotation == 3
Following(s) == IF s >= SequenceRotation THEN 1 ELSE s + 1

\* The octets a message authentication code covers.
Body(isReply, addr, seq, block, m) ==
  [isReply |-> isReply, addr |-> addr, seq |-> seq, block |-> block,
   code |-> m.code, arg |-> m.arg, len |-> m.len]

\* A frame is its body and, on an established session, the code over it.
NoTag == [keys |-> <<>>, log |-> <<>>]
Frame(body, tag) == [body |-> body, tag |-> tag]

\* What a decoder can hand the bus: a tag records what it was computed from.
FrameBody == [isReply : BOOLEAN, addr : Octet, seq : Sequence, block : BlockType,
              code : Code, arg : Payload, len : Nat]
Tag       == [keys : Payload, log : Seq(FrameBody)]
WireFrame == [body : FrameBody, tag : Tag]

MessageOf(f) == Msg(f.body.code, f.body.arg, f.body.len)
=============================================================================
