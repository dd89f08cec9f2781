------------------------------- MODULE Stanzas -------------------------------
(***************************************************************************)
(* The stanzas of a call: what internal/voip/signaling builds for an       *)
(* offer, an accept and the echo of a latency probe, and what it reads     *)
(* from the offers, accepts, acks and probes of others.  A node is a tag,  *)
(* attributes and either children or bytes.  Encrypting a call key for a   *)
(* device (wa/socket.go, on top of whatsmeow) leaves out the devices it    *)
(* has no session with; the server gives each device its own part of a     *)
(* destination.  When the stanzas are sent is module CallManager.          *)
(***************************************************************************)
EXTENDS Integers, Sequences, FiniteSets, SequencesExt

CONSTANTS
    Devices,      \* the callee's devices, a sequence
    RelayParts,   \* children a relay block may have
    Users,        \* other children of an ack
    MaxParts,     \* children of a relay block, a bound
    LatencyBase,  \* added to a latency on the wire: 0x2000000
    Latencies     \* latencies of the probes, as numbers on the wire

VARIABLES
    flow,     \* which exchange: "none", "offer", "accept", "relays" or "probe"
    stanza,   \* the node that was sent
    meant,    \* what its sender put into it, <<>> before
    read      \* what its receiver makes of it, <<>> before

stanzaVars == <<flow, stanza, meant, read>>

-----------------------------------------------------------------------------
(* Nodes (wanode/nodeutil.go).  An attribute is absent or a value, and the *)
(* empty string counts as absent; one that is a number, of which a node    *)
(* has one at most, is num, -1 when absent.                                *)

NoAttrs == [a \in {} |-> ""]
NoBytes == [len |-> 0, of |-> "nothing"]
Node(tag, attrs, kids) ==
    [tag |-> tag, attrs |-> attrs, num |-> -1, kids |-> kids, bytes |-> NoBytes]
Leaf(tag, attrs, num, len, of) ==
    [tag |-> tag, attrs |-> attrs, num |-> num, kids |-> <<>>,
     bytes |-> [len |-> len, of |-> of]]

AttrString(n, key) == IF key \in DOMAIN n.attrs THEN n.attrs[key] ELSE ""
HasAttr(n, key) == AttrString(n, key) # ""
attrStringOr(n, key, fallback) == IF HasAttr(n, key) THEN n.attrs[key] ELSE fallback

Tagged(nodes, tag) == SelectSeq(nodes, LAMBDA n : n.tag = tag)

StanzaInit ==
    flow = "none" /\ stanza = Node("none", NoAttrs, <<>>) /\ meant = <<>> /\ read = <<>>

-----------------------------------------------------------------------------
(* Offers and accepts.                                                     *)

Enc(d, key) == Leaf("enc", [type |-> "pkmsg"], -1, 1, <<d, key>>)

\* CreateParticipantNodes: a node for each device that could be encrypted for.
Participants(encrypted, key) ==
    [i \in 1..Len(encrypted) |-> Node("to", [jid |-> encrypted[i]], <<Enc(encrypted[i], key)>>)]

Plain(tags) == [i \in 1..Len(tags) |-> Node(tags[i], NoAttrs, <<>>)]

When(cond, tags) == IF cond THEN tags ELSE <<>>

callWrap(inner) == Node("call", [to |-> "peer"], <<inner>>)

BuildOfferStanza(m) ==
    callWrap(Node("offer", [callId |-> m.id, creator |-> m.creator],
        Plain(When(m.token, <<"privacy">>) \o <<"audio", "audio">> \o When(m.video, <<"video">>)
              \o <<"net", "capability">>)
        \o <<Node("destination", NoAttrs, Participants(m.encrypted, m.key)),
             Node("encopt", NoAttrs, <<>>)>>
        \o Plain(When(m.identity, <<"device-identity">>))))

\* extractEncFromParticipant: the first enc, itself or inside a participant.
extractEncFromParticipant(nodes) ==
    LET encs(n) == IF n.tag = "enc" THEN <<n>> ELSE Tagged(n.kids, "enc")
    IN FlattenSeq([i \in 1..Len(nodes) |-> encs(nodes[i])])

\* An accept is not built when the caller's device could not be encrypted for.
BuildAcceptStanza(m) ==
    callWrap(Node("accept", [callId |-> m.id, creator |-> m.creator],
        Plain(<<"audio">> \o When(m.video, <<"video">>) \o <<"net">>)
        \o <<extractEncFromParticipant(Participants(m.encrypted, m.key))[1]>>
        \o Plain(<<"encopt">> \o When(m.identity, <<"device-identity">>))))

ExtractNodeInfo(node) ==
    LET inner == node.kids[1]
    IN [tag |-> inner.tag, id |-> AttrString(inner, "callId"), inner |-> inner]

\* Mutant: only a key directly in the stanza is found.
findEncNode_Direct(inner) ==
    SelectSeq(inner.kids, LAMBDA c : c.tag = "enc" /\ HasAttr(c, "type"))

\* The first enc of the stanza, else the first of its destinations.
findEncNode(inner) ==
    LET typed(nodes) == SelectSeq(nodes, LAMBDA c : c.tag = "enc" /\ HasAttr(c, "type"))
        tos == FlattenSeq([i \in 1..Len(Tagged(inner.kids, "destination")) |->
                    Tagged(Tagged(inner.kids, "destination")[i].kids, "to")])
    IN typed(inner.kids) \o FlattenSeq([i \in 1..Len(tos) |-> typed(tos[i].kids)])

\* DecryptCallKeyInNode on device d: the key, "" when there is none, "error" when it is
\* not for this device.
DecryptCallKeyInNode(inner, d) ==
    LET encs == findEncNode(inner)
    IN IF encs = <<>> THEN ""
       ELSE IF encs[1].bytes.of[1] = d THEN encs[1].bytes.of[2] ELSE "error"

OfferHasVideo(inner) == Tagged(inner.kids, "video") # <<>>

Understood(node, d) ==
    LET info == ExtractNodeInfo(node)
    IN [tag |-> info.tag, id |-> info.id,
        creator |-> attrStringOr(info.inner, "creator", "peer"),
        video |-> OfferHasVideo(info.inner), key |-> DecryptCallKeyInNode(info.inner, d)]

\* What the server gives device d of a stanza: of a destination, its own part.
ForDevice(node, d) ==
    LET own(n) == IF n.tag # "destination" THEN n
                  ELSE [n EXCEPT !.kids = SelectSeq(@, LAMBDA t : t.attrs.jid = d)]
        inner == node.kids[1]
    IN [node EXCEPT !.kids = <<[inner EXCEPT !.kids = [i \in DOMAIN @ |-> own(@[i])]]>>]

\* Devices whose sessions work, in the order of the device list.
Sessions == {SelectSeq(Devices, LAMBDA d : d \in S) : S \in SUBSET Range(Devices)}

Say(f, m, node) ==
    /\ flow' = f
    /\ stanza' = node /\ meant' = <<m>>
    /\ UNCHANGED read

Offer(m) == Say("offer", m, BuildOfferStanza(m))
Accept(m) == m.encrypted # <<>> /\ Say("accept", m, BuildAcceptStanza(m))

Ring(d) ==
    /\ flow = "offer" /\ read = <<>>
    /\ read' = <<[device |-> d, got |-> Understood(ForDevice(stanza, d), d)]>>
    /\ UNCHANGED <<flow, stanza, meant>>

Answered ==
    /\ flow = "accept" /\ read = <<>>
    /\ read' = <<[device |-> "caller", got |-> Understood(stanza, "caller")]>>
    /\ UNCHANGED <<flow, stanza, meant>>

-----------------------------------------------------------------------------
(* Relays in acks, offers and transports (relayack.go).                    *)

LastOf(s) == IF s = <<>> THEN "" ELSE Last(s)

\* The bytes of the last token with an id.
Token(parts, tag, id) ==
    LET named == SelectSeq(parts, LAMBDA p : p.tag = tag /\ attrStringOr(p, "id", "0") = id)
    IN IF named = <<>> THEN "" ELSE Last(named).bytes.of

\* Endpoints come from addresses of six bytes only.
Endpoint(parts, te2) ==
    LET token == attrStringOr(te2, "token_id", "0")
        auth == AttrString(te2, "auth_token_id")
        key == Tagged(parts, "key")
    IN [addr |-> te2.bytes.of, token |-> Token(parts, "token", token),
        auth |-> IF auth = "" THEN "" ELSE Token(parts, "auth_token", auth),
        authId |-> IF auth = "" THEN token ELSE auth,
        key |-> IF key = <<>> THEN "" ELSE Last(key).bytes.of,
        rtt |-> te2.num]

Dedup(s) ==
    LET new(i) == s[i] # "" /\ ~\E k \in 1..i - 1 : s[k] = s[i]
        keep == SelectSeq([i \in 1..Len(s) |-> i], LAMBDA i : new(i))
    IN [i \in 1..Len(keep) |-> s[keep[i]]]

Jids(nodes, tag) ==
    LET with == SelectSeq(nodes, LAMBDA n : n.tag = tag /\ HasAttr(n, "jid"))
    IN [i \in 1..Len(with) |-> with[i].attrs.jid]

Sooner(a, b) == a.rtt # -1 /\ (b.rtt = -1 \/ a.rtt < b.rtt)

\* sort.SliceStable with Sooner: those before i are sooner, or as soon and before it.
sortRelaysByRtt(s) ==
    LET before(k, i) == Sooner(s[k], s[i]) \/ (~Sooner(s[i], s[k]) /\ k < i)
        earlier(i) == {k \in 1..Len(s) : k # i /\ before(k, i)}
        place(i) == Cardinality(earlier(i)) + 1
    IN [n \in 1..Len(s) |-> s[CHOOSE i \in 1..Len(s) : place(i) = n]]

\* A key of the hop by itself or, longer, in another encoding of the same length.
HbhKey(parts) ==
    LET good == SelectSeq(parts, LAMBDA p : p.tag = "hbh_key" /\ p.bytes.len \in {30, 40})
    IN IF good = <<>> THEN "" ELSE Last(good).bytes.of

\* parseRelayBlock for each relay child, and the devices of the users.
ParseRelayFromAck(node) ==
    LET block(c) == LET te2s == SelectSeq(c.kids, LAMBDA p : p.tag = "te2" /\ p.bytes.len = 6)
                    IN [i \in 1..Len(te2s) |-> Endpoint(c.kids, te2s[i])]
        people(c) == IF c.tag = "user" THEN Jids(c.kids, "device")
                     ELSE IF c.tag = "relay" THEN Jids(c.kids, "participant") ELSE <<>>
        relays == Tagged(node.kids, "relay")
        hbh == SelectSeq([i \in 1..Len(relays) |-> HbhKey(relays[i].kids)], LAMBDA k : k # "")
        pids == SelectSeq(relays, LAMBDA r : HasAttr(r, "self_pid"))
    IN [relays |-> sortRelaysByRtt(FlattenSeq([i \in 1..Len(relays) |-> block(relays[i])])),
        people |-> Dedup(FlattenSeq([i \in 1..Len(node.kids) |-> people(node.kids[i])])),
        hbh |-> LastOf(hbh),
        pid |-> IF pids = <<>> THEN "" ELSE Last(pids).attrs["self_pid"],
        uuid |-> IF relays = <<>> THEN "" ELSE AttrString(Last(relays), "uuid")]

Ack(users, parts) ==
    LET node == Node("ack", NoAttrs,
                     users \o <<Node("relay", [uuid |-> "u", self_pid |-> "1"], parts)>>)
    IN Say("relays", [users |-> users, parts |-> parts], node)

ReadAck ==
    /\ flow = "relays" /\ read = <<>>
    /\ read' = <<ParseRelayFromAck(stanza)>>
    /\ UNCHANGED <<flow, stanza, meant>>

-----------------------------------------------------------------------------
(* Latency probes: a callee echoes each with what it says.                 *)

DecodeLatency(v) == IF v < LatencyBase THEN 0 ELSE v - LatencyBase

\* One stanza for an entry with a name.
BuildRelayLatencyStanza(name, latency, address) ==
    Leaf("te", [relay_name |-> name], LatencyBase + latency, 6, address)

HandleCallRelayLatency(inner) ==
    LET tes == SelectSeq(inner, LAMBDA te : te.tag = "te" /\ HasAttr(te, "relay_name"))
    IN [i \in 1..Len(tes) |->
        BuildRelayLatencyStanza(tes[i].attrs.relay_name, DecodeLatency(tes[i].num),
                                tes[i].bytes.of)]

Probe(tes) == Say("probe", tes, Node("relaylatency", NoAttrs, tes))

Echo ==
    /\ flow = "probe" /\ read = <<>>
    /\ read' = <<HandleCallRelayLatency(stanza.kids)>>
    /\ UNCHANGED <<flow, stanza, meant>>

Probes ==
    {Leaf("te", [relay_name |-> name], l, 6, name) :
        l \in Latencies, name \in {"", "r1", "r2"}}

Sent ==
    \/ \E video, token, identity \in BOOLEAN, encrypted \in Sessions :
            Offer([id |-> "c", creator |-> "caller", key |-> "k", video |-> video,
                   token |-> token, identity |-> identity, encrypted |-> encrypted])
    \/ \E video, identity \in BOOLEAN, encrypted \in {<<>>, <<"caller">>} :
            Accept([id |-> "c", creator |-> "caller", key |-> "k", video |-> video,
                    identity |-> identity, encrypted |-> encrypted])
    \/ \E n \in 0..MaxParts, u \in {<<>>} \cup {<<x>> : x \in Users} :
            \E parts \in [1..n -> RelayParts] : Ack(u, parts)
    \/ \E n \in 1..2 : \E tes \in [1..n -> Probes] : Probe(tes)

StanzaNext ==
    \/ flow = "none" /\ Sent
    \/ \E d \in Range(Devices) : Ring(d)
    \/ Answered \/ ReadAck \/ Echo

-----------------------------------------------------------------------------
(* Properties.                                                             *)

OfferUnderstood ==
    (flow \in {"offer", "accept"} /\ read # <<>>) =>
        /\ read[1].got.tag = flow /\ read[1].got.id = meant[1].id
        /\ read[1].got.creator = meant[1].creator /\ read[1].got.video = meant[1].video
        /\ read[1].got.key =
                IF read[1].device \in Range(meant[1].encrypted) THEN meant[1].key ELSE ""

TheToken(tag, id) ==
    LET is(i) == /\ meant[1].parts[i].tag = tag
                 /\ attrStringOr(meant[1].parts[i], "id", "0") = id
    IN {i \in DOMAIN meant[1].parts : is(i) /\ \A k \in DOMAIN meant[1].parts : is(k) => k <= i}

RelaysUnderstood ==
    /\ (flow = "relays" /\ read # <<>>) =>
        LET te2s == SelectSeq(meant[1].parts, LAMBDA p : p.tag = "te2" /\ p.bytes.len = 6)
            once == IsInjective([i \in DOMAIN te2s |-> te2s[i].bytes.of])
            at(e) == CHOOSE i \in DOMAIN te2s : te2s[i].bytes.of = e.addr
        IN /\ Len(read[1].relays) = Len(te2s)
           /\ \A i \in DOMAIN read[1].relays :
                LET e == read[1].relays[i]
                    t == te2s[at(e)]
                    tokens == TheToken("token", attrStringOr(t, "token_id", "0"))
                IN /\ tokens = {} => e.token = ""
                   /\ \A k \in tokens : e.token = meant[1].parts[k].bytes.of
                   /\ \A k \in DOMAIN read[1].relays : k > i =>
                        LET f == read[1].relays[k]
                        IN /\ e.rtt = -1 => f.rtt = -1
                           /\ (e.rtt # -1 /\ f.rtt # -1) => e.rtt <= f.rtt
                           /\ (e.rtt = f.rtt /\ once) => at(e) <= at(f)
           /\ IsInjective(read[1].people)
    /\ (flow = "probe" /\ read # <<>>) =>
        LET named == SelectSeq(meant[1], LAMBDA te : te.attrs.relay_name # "")
        IN /\ Len(read[1]) = Len(named)
           /\ \A i \in DOMAIN named :
                /\ read[1][i].attrs.relay_name = named[i].attrs.relay_name
                /\ read[1][i].bytes = named[i].bytes
                /\ named[i].num >= LatencyBase => read[1][i].num = named[i].num

\* Stanzas say what was meant.  A device that the offer was encrypted for finds its own
\* key in it, another one an answer that says there is none, and both find the kind of the
\* call, its id and its creator; the caller finds the callee's key in the accept
\* (BuildOfferStanza, BuildAcceptStanza, findEncNode, DecryptCallKeyInNode, OfferHasVideo).
\* The relays of an ack: each usable address once, with the token its id names, wherever
\* in the block the token is; measured ones first and by their time, the others after
\* them, those alike in their order; and every participant once.  The echo of a probe
\* has its name, its address and its time (parseRelayBlock, sortRelaysByRtt,
\* HandleCallRelayLatency, DecodeLatency).
StanzasUnderstood == OfferUnderstood /\ RelaysUnderstood
=============================================================================
