---------------------------- MODULE SecureSession ----------------------------
(***************************************************************************)
(* internal/secure: one end of a secure channel session.  Cryptography is  *)
(* symbolic.  A cryptogram is the term that names what it was computed     *)
(* from, and a chaining value is the keys with the log of every body       *)
(* authenticated so far, so that two values are equal exactly when they    *)
(* were computed from the same keys and the same history.                  *)
(***************************************************************************)
EXTENDS Osdp

SessionState == {"None", "Idle", "Challenged", "Cryptogram", "Established"}

Session == [state : SessionState, base : Octet, rndA : Octet, rndB : Octet,
            cmac : Tag, rmac : Tag]

\* A nil *Session is the record whose state is "None".
NoSession == [state |-> "None", base |-> 0, rndA |-> 0, rndB |-> 0,
              cmac |-> NoTag, rmac |-> NoTag]

NewSession(base) == [NoSession EXCEPT !.state = "Idle", !.base = base]

Established(s) == s.state = "Established"

ClientCryptogram(base, rndA, rndB) == <<1, base, rndA, rndB>>
ServerCryptogram(base, rndA, rndB) == <<2, base, rndA, rndB>>
InitialRMAC(base, rndA, rndB)      == <<3, base, rndA, rndB>>

\* The chaining value both ends start from.
SeedChain(s) == [keys |-> <<s.base, s.rndA, s.rndB>>, log |-> <<>>]

\* CP: osdp_CHLNG.  It is accepted in any state.
BeginChallenge(s, rndA) == [s EXCEPT !.rndA = rndA, !.state = "Challenged"]

\* PD: osdp_CHLNG in, osdp_CCRYPT out (AnswerChallenge).
AnswerWith(s, rndA, rndB) ==
  [s EXCEPT !.rndA = rndA, !.rndB = rndB, !.state = "Cryptogram"]

\* Mistake: the nonces are taken in the wrong order.
CCryptSwapped(s) == <<s.rndB>> \o ClientCryptogram(s.base, s.rndB, s.rndA)

CCryptPayload(s) == <<s.rndB>> \o ClientCryptogram(s.base, s.rndA, s.rndB)

\* CP: osdp_CCRYPT in, osdp_SCRYPT out (AnswerCryptogram).  Every caller drops a
\* session whose handshake step returns an error, so a failed session is never
\* kept and the steps below are defined where they succeed.
AcceptsCCrypt(s, arg) ==
  /\ s.state = "Challenged"
  /\ Len(arg) = 5
  /\ Tail(arg) = ClientCryptogram(s.base, s.rndA, Head(arg))
AnswerClient(s, arg) == [s EXCEPT !.rndB = Head(arg), !.state = "Cryptogram"]
SCryptPayload(s) == ServerCryptogram(s.base, s.rndA, s.rndB)

\* PD: osdp_SCRYPT in, osdp_RMAC_I out (AnswerServerCryptogram).
AcceptsSCrypt(s, arg) ==
  s.state = "Cryptogram" /\ arg = ServerCryptogram(s.base, s.rndA, s.rndB)

\* Mistake: the chain is not seeded at the end of the handshake.
AnswerServerUnseeded(s) == [s EXCEPT !.state = "Established"]

AnswerServer(s) == [s EXCEPT !.rmac = SeedChain(s), !.state = "Established"]
RMACPayload(s) == InitialRMAC(s.base, s.rndA, s.rndB)

\* CP: osdp_RMAC_I in.
AcceptsRMAC(s, arg) ==
  s.state = "Cryptogram" /\ arg = InitialRMAC(s.base, s.rndA, s.rndB)
CompleteHandshake(s) == [s EXCEPT !.rmac = SeedChain(s), !.state = "Established"]

\* A command is chained from the last reply and a reply from the last command.
ChainFor(s, isCommand) == IF isCommand THEN s.rmac ELSE s.cmac

MAC(s, isCommand, body) ==
  [keys |-> <<s.base, s.rndA, s.rndB>>, log |-> Append(ChainFor(s, isCommand).log, body)]

Commit(s, isCommand, mac) ==
  IF isCommand THEN [s EXCEPT !.cmac = mac] ELSE [s EXCEPT !.rmac = mac]

\* Authenticate returns the tag and moves the chain; Verify moves it only when
\* the tag is the one it would have computed.
Authenticate(s, isCommand, body) == Commit(s, isCommand, MAC(s, isCommand, body))
Verifies(s, isCommand, f) == f.tag = MAC(s, isCommand, f.body)
=============================================================================
