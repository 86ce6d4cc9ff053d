-------------------------------- MODULE MCBus --------------------------------
(***************************************************************************)
(* Bus for TLC: an arbitrary line.  A device may answer anything at any    *)
(* time, rightly or wrongly, and frames of other exchanges may arrive.     *)
(***************************************************************************)
EXTENDS OpenBus

CONSTANTS
  Codes,  \* the replies that arrive in this instance
  FarAddress  \* an address no frame can carry

MCKeyFor(addr) == 1
MCStart        == [i \in 1..N |-> i]
MCOut          == {Msg("Out", <<1>>, 4)}

\* Payloads: what parses and what does not, the right proof and a wrong one.
MCMessages(d) ==
  {AckReply, Msg("Busy", <<>>, 0), Msg("PDID", <<1>>, 12), Msg("PDID", <<>>, 0),
   Msg("PDCap", <<1, 0>>, 6), Msg("PDCap", <<0, 0>>, 6), Msg("PDCap", <<>>, 1),
   NakReply(NAKUnknownCommand), Msg("Raw", <<7>>, 8), Msg("Raw", <<>>, 2),
   Msg("IStatR", <<0>>, 1), Msg("IStatR", <<1>>, 1),
   Msg("Com", <<FarAddress>>, 5),
   Msg("CCrypt", <<2>> \o ClientCryptogram(d.session.base, d.session.rndA, 2), 32),
   Msg("CCrypt", <<2>>, 32),
   Msg("RMACI", RMACPayload(d.session), 16), Msg("RMACI", <<2>>, 16)}

\* A message framed as the device would, authenticated when there is a channel.
MCFramed(d, m) ==
  LET block == IF SecureEstablished(d) THEN IF m.len > 0 THEN 18 ELSE 16 ELSE NoBlock
      body  == Body(TRUE, d.addr, 1, block, m)
  IN Frame(body, IF SecureEstablished(d) THEN MAC(d.session, FALSE, body) ELSE NoTag)

MCReplies(d) ==
  {MCFramed(d, m) : m \in {m \in MCMessages(d) : m.code \in Codes}}
    \cup {Frame(Body(TRUE, d.addr, 1, NoBlock, AckReply), NoTag),
          Frame(Body(TRUE, d.addr, 0, NoBlock, AckReply), NoTag),
          Frame(Body(TRUE, d.addr + 50, 1, NoBlock, AckReply), NoTag),
          Frame(Body(FALSE, d.addr, 1, NoBlock, AckReply), NoTag)}

\* Devices that do as they are told: an osdp_COMSET is answered with the
\* address it asks for.
MCObedient(d) ==
  {MCFramed(d, m) : m \in
     {m \in MCMessages(d) \ {Msg("Com", <<FarAddress>>, 5)} :
        m.code \in Codes}
     \cup {Msg("Com", d.inflight[1].arg, 5) :
             i \in {i \in DOMAIN d.inflight : d.inflight[i].code = "ComSet"}}}
==============================================================================
