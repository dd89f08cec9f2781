-------------------------------- MODULE MCWire --------------------------------
(* What is written to the wire and read from it: the range coder, the symbols  *)
(* of MLow frames, the packets that carry them, STUN messages and signaling    *)
(* stanzas.  Each behaviour runs one of them, chosen at the start.             *)
EXTENDS RangeCoder, MlowFrame, MlowPacket, Stun, Stanzas

VARIABLE part

wireVars == <<part, coderVars, frameVars, packetVars, stunVars, stanzaVars>>

-----------------------------------------------------------------------------
\* Symbols of a cumulative table, an inverse table, single bits and uniform ones, with
\* and without raw bits.
MCSymbols ==
    {[kind |-> "cdf", s |-> s, table |-> <<2, 3, 8, 9>>, bits |-> 0] : s \in 0..2}
    \cup {[kind |-> "icdf", s |-> s, table |-> <<5, 1, 0>>, bits |-> 3] : s \in 0..2}
    \cup {[kind |-> "bit", s |-> s, table |-> <<>>, bits |-> 2] : s \in 0..1}
    \cup {[kind |-> "uint", s |-> s, table |-> <<>>, bits |-> 4] : s \in {0, 2, 3}}
    \cup {[kind |-> "uint", s |-> s, table |-> <<>>, bits |-> 11] : s \in {0, 5, 10}}

\* Contours of one and of two blocks, close to the last block and far from it.
MCContours ==
    <<[blocks |-> <<0>>, order |-> 1], [blocks |-> <<0, 1>>, order |-> 0],
      [blocks |-> <<1, 0>>, order |-> 2], [blocks |-> <<3>>, order |-> 3]>>

MCGainWeight == [g \in 0..1 |-> IF g = 0 THEN 9000 ELSE 15000]

\* Subframes without a pulse, with one, with two of one sign or of both.
Subframes == {<<0, 0>>, <<1, 0>>, <<0, -2>>, <<-1, 1>>}

Unvoiced ==
    {[stage1 |-> 0, grid |-> g, stage2 |-> <<g, 1 - g>>, extra |-> 0,
      pulse |-> a \o b \o c \o d, main |-> g, delta |-> 1, nrg |-> <<1, 0, 1, g>>] :
        g \in 0..1, a \in Subframes, b \in Subframes, c \in Subframes, d \in Subframes}

Voiced ==
    {[stage1 |-> 1, grid |-> 1, stage2 |-> <<0, 1>>, extra |-> 1,
      pulse |-> pulse, gains |-> <<g, h, g, h>>, filts |-> <<f, 1, 0, 1>>, contour |-> c,
      idx |-> [k \in 1..Len(MCContours[c].blocks) |->
                  MCContours[c].blocks[k] * 4 + (IF k = 1 THEN x ELSE 3 - x)]] :
        pulse \in {<<0, 0, 1, 0, 0, -2, 0, 0>>, <<-1, 1, 1, 0, 0, -2, 1, 1>>},
        g \in 0..1, h \in 0..1, f \in 0..1, c \in 1..4, x \in {0, 3}}

MCParameters == Unvoiced \cup Voiced

\* TOC bytes of active and inactive frames, of standard Opus, of 20 and of 60 ms, and
\* frames that look like the beginning of a container.
MCFrames ==
    {<<80>>, <<18, 7>>, <<144, 2>>, <<146, 9, 1>>, <<146, 2, 1, 80>>, <<248, 5, 5>>, <<88, 1>>}

MCStreams == {<<5>>, <<4, 0>>, <<0, 3, 17>>, <<>>}

MCDevices == <<"d1", "d2">>

Te2(addr, len, token, rtt) == Leaf("te2", [token_id |-> token], rtt, len, addr)

\* Addresses of IPv4 and IPv6, with and without a measured time and a token id, repeated
\* tokens and ids, keys and a participant.
MCRelayParts ==
    {Te2("a1", 6, "", 5), Te2("a2", 6, "1", -1), Te2("a3", 6, "1", 3),
     Te2("v6", 18, "1", 1), Te2("a4", 6, "0", 5),
     Leaf("token", [id |-> ""], -1, 9, "t0"), Leaf("token", [id |-> "1"], -1, 9, "t1"),
     Leaf("token", [id |-> "1"], -1, 9, "t2"),
     Leaf("key", NoAttrs, -1, 9, "key"), Leaf("hbh_key", NoAttrs, -1, 30, "hbh"),
     Node("participant", [jid |-> "d1"], <<>>)}

MCUsers ==
    {Node("user", NoAttrs, <<Node("device", [jid |-> "d1"], <<>>),
                             Node("device", [jid |-> "d2"], <<>>)>>)}

-----------------------------------------------------------------------------
Init ==
    /\ part \in {"coder", "frame", "packet", "stun", "stanza"}
    /\ CoderInit /\ FrameInit /\ PacketInit /\ StunInit /\ StanzaInit
    /\ part # "coder" => \A n \in Sizes : Len(enc.buf) <= n

Next ==
    /\ UNCHANGED part
    /\ \/ /\ part = "coder" /\ CoderNext
          /\ UNCHANGED <<frameVars, packetVars, stunVars, stanzaVars>>
       \/ /\ part = "frame" /\ FrameNext
          /\ UNCHANGED <<coderVars, packetVars, stunVars, stanzaVars>>
       \/ /\ part = "packet" /\ PacketNext
          /\ UNCHANGED <<coderVars, frameVars, stunVars, stanzaVars>>
       \/ /\ part = "stun" /\ StunNext
          /\ UNCHANGED <<coderVars, frameVars, packetVars, stanzaVars>>
       \/ /\ part = "stanza" /\ StanzaNext
          /\ UNCHANGED <<coderVars, frameVars, packetVars, stunVars>>

Spec == Init /\ [][Next]_wireVars
=============================================================================
