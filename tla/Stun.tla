-------------------------------- MODULE Stun --------------------------------
(***************************************************************************)
(* The STUN messages between the client and a relay: what stun.go and      *)
(* subscriptions.go of internal/voip/transport write for sendRegistration  *)
(* and what ParseStunResponse reads.  A message is a sequence of bytes; a  *)
(* number of several bytes is in the first of them, so that a read at a    *)
(* wrong place does not find it.  A digest stands for what it was computed *)
(* from.  The relay, which is not in the repository, checks a message the  *)
(* way RFC 5389 says and reads the protobuf subscriptions.                 *)
(***************************************************************************)
EXTENDS Integers, Sequences, SequencesExt

CONSTANTS
    VarBase,   \* values of the payload of a varint byte: 128 in the code
    Streams,   \* lists of SSRCs the client may have, 0 for none
    Blobs,     \* lengths of the usernames and tokens
    MaxReply   \* attributes of an answer, a bound

VARIABLES
    stunStep,  \* "idle", "sent" or "read"
    message,   \* the message: type, attributes (type and data), key, fingerprint, and
               \* the SSRCs it is to name
    bytes,     \* the bytes on the wire
    info       \* what the receiver makes of them

stunVars == <<stunStep, message, bytes, info>>

MagicCookie == 554869826   \* 0x2112a442
IntegrityType == 8
FingerprintType == 32808   \* 0x8028
BindingRequest == 1
AllocateRequest == 3
Ping == 2049               \* 0x0801
Pong == 2050
NoKey == "none"
Unread == [read |-> FALSE]

NoMessage == [type |-> 0, attrs |-> <<>>, key |-> NoKey, finger |-> FALSE, names |-> <<>>]

StunInit ==
    /\ stunStep = "idle" /\ bytes = <<>> /\ info = Unread
    /\ message = NoMessage

-----------------------------------------------------------------------------
(* Writing.                                                                *)

Zeros(n) == [i \in 1..n |-> <<0>>]
Field(v, n) == <<<<v>>>> \o Zeros(n - 1)

\* Mutant: attributes follow each other without padding.
encodeAttribute_Unpadded(attr) == Field(attr[1], 2) \o Field(Len(attr[2]), 2) \o attr[2]

encodeAttribute(attr) ==
    Field(attr[1], 2) \o Field(Len(attr[2]), 2) \o attr[2]
    \o Zeros((4 - (Len(attr[2]) % 4)) % 4)

Header(type, length) == Field(type, 2) \o Field(length, 2) \o Field(MagicCookie, 4) \o Zeros(12)

Digest(key, input, n) == <<<<key, input>>>> \o Zeros(n - 1)

\* The integrity covers the message as if it ended with itself, the fingerprint likewise.
buildStunMessage(m) ==
    LET plain == FlattenSeq([i \in 1..Len(m.attrs) |-> encodeAttribute(m.attrs[i])])
        signed == IF m.key = NoKey THEN plain
                  ELSE plain \o encodeAttribute(<<IntegrityType,
                        Digest(m.key, Header(m.type, Len(plain) + 24) \o plain, 20)>>)
        full == IF ~m.finger THEN signed
                ELSE signed \o encodeAttribute(<<FingerprintType,
                        Digest("crc", Header(m.type, Len(signed) + 8) \o signed, 4)>>)
    IN Header(m.type, Len(full)) \o full

\* The low digit first; every digit but the last is marked as followed by another.
encodeVarint(value) ==
    LET digits[v \in 0..value] ==
            IF v >= VarBase THEN <<<<v % VarBase, TRUE>>>> \o digits[v \div VarBase]
                            ELSE <<<<v, FALSE>>>>
    IN digits[value]

VarintField(field, value) == encodeVarint(field * 8) \o encodeVarint(value)

LengthDelimited(field, data) == encodeVarint(field * 8 + 2) \o encodeVarint(Len(data)) \o data

BuildSenderSubscriptions(ssrc) ==
    LengthDelimited(1, VarintField(3, ssrc) \o VarintField(5, 0) \o VarintField(6, 0))

Named(list) == SelectSeq(list, LAMBDA s : s # 0)

BuildSSRCSubscriptionList(self, peer, selfPid, peerPid) ==
    LET entry(pid, ssrc) == LengthDelimited(1,
            VarintField(1, pid) \o VarintField(2, 1) \o VarintField(3, ssrc))
        entries(list, pid) ==
            FlattenSeq([i \in 1..Len(Named(list)) |-> entry(pid, Named(list)[i])])
    IN entries(self, selfPid) \o entries(peer, peerPid)

Data(n) == [i \in 1..n |-> <<i>>]

\* The address of the relay, combined with the cookie.
encodeXorRelayedAddress(relay) ==
    <<<<0>>, <<1>>, <<"port", relay>>, <<0>>, <<"ip", relay>>>> \o Zeros(3)

Send(m) ==
    /\ stunStep = "idle" /\ stunStep' = "sent"
    /\ message' = m /\ bytes' = buildStunMessage(m)
    /\ UNCHANGED info

\* A key of length zero is not nil: the message is signed with it.
BuildAllocateForRelay(token, self, peer, key, relay) ==
    Send([type |-> AllocateRequest, key |-> key, finger |-> FALSE,
          names |-> Named(self \o peer),
          attrs |-> <<<<16384, Data(token)>>,
                      <<16420, BuildSSRCSubscriptionList(self, peer, 0, 0)>>>>
                    \o IF relay = "" THEN <<>> ELSE <<<<22, encodeXorRelayedAddress(relay)>>>>])

BuildBindingRequestWithSubs(user, key, ssrc, ice, finger) ==
    Send([type |-> BindingRequest, key |-> IF key = "" THEN NoKey ELSE key, finger |-> finger,
          names |-> <<ssrc>>,
          attrs |-> (IF user = 0 THEN <<>> ELSE <<<<6, Data(user)>>>>)
                    \o <<<<36, Data(4)>>>>
                    \o (IF ice THEN <<<<32810, Data(8)>>>> ELSE <<>>)
                    \o <<<<16384, BuildSenderSubscriptions(ssrc)>>>>])

BuildWhatsAppPing == Send([NoMessage EXCEPT !.type = Ping])

-----------------------------------------------------------------------------
(* Reading.                                                                *)

Number(data, at) == data[at + 1][1]

Classes == <<"request", "indication", "success", "error">>

\* Attributes from an offset on: type, data, and where it begins.
Attributes(data, length) ==
    LET from[at \in 20..Len(data) + 4] ==
            IF at + 4 > 20 + length \/ at + 4 > Len(data) THEN <<>>
            ELSE LET n == Number(data, at + 2)
                     end == at + 4 + n
                 IN IF end > Len(data) THEN <<>>
                    ELSE <<[type |-> Number(data, at), data |-> SubSeq(data, at + 5, end),
                            at |-> at]>> \o from[end + ((4 - (n % 4)) % 4)]
    IN from[20]

\* A ping or its answer may come without the cookie.
ParseStunResponse(data) ==
    IF Len(data) < 20 THEN Unread
    ELSE IF Number(data, 4) # MagicCookie
    THEN IF Number(data, 0) \in {Ping, Pong}
         THEN [read |-> TRUE, raw |-> Number(data, 0), class |-> "indication", attrs |-> <<>>,
               error |-> 0, conn |-> <<>>]
         ELSE Unread
    ELSE LET raw == Number(data, 0)
             attrs == Attributes(data, Number(data, 2))
             class == Classes[2 * ((raw \div 256) % 2) + ((raw \div 16) % 2) + 1]
             errors == SelectSeq(attrs, LAMBDA a : a.type = 9 /\ Len(a.data) >= 4)
             conns == SelectSeq(attrs, LAMBDA a :
                            a.type = 16435 /\ class = "success" /\ Len(a.data) = 8)
         IN [read |-> TRUE, raw |-> raw, class |-> class,
             attrs |-> attrs,
             error |-> IF errors = <<>> THEN 0
                       ELSE Last(errors).data[3][1] * 100 + Last(errors).data[4][1],
             conn |-> IF conns = <<>> THEN <<>> ELSE Last(conns).data]

\* A message arrives whole or cut short.
Arrive(cut) ==
    /\ stunStep = "sent" /\ stunStep' = "read"
    /\ cut <= Len(bytes)
    /\ bytes' = SubSeq(bytes, 1, cut)
    /\ info' = ParseStunResponse(bytes')
    /\ UNCHANGED message

\* The relay answers: success or error of the two methods, with an error code, the
\* connection's id or a long name among its attributes.
Answers == {<<9, <<<<0>>, <<0>>, <<4>>, <<37>>>>>>, <<9, Data(3)>>,
            <<9, <<<<0>>, <<0>>, <<5>>, <<0>>, <<1>>>>>>,
            <<16435, Data(8)>>, <<16435, Data(6)>>, <<32802, Data(5)>>}

Answer(type, attrs) == Send([NoMessage EXCEPT !.type = type, !.attrs = attrs])

AnswerPing ==
    /\ stunStep = "idle" /\ stunStep' = "sent"
    /\ message' = [message EXCEPT !.type = Pong]
    /\ bytes' = Field(Pong, 2) \o Zeros(18)
    /\ UNCHANGED info

Again ==
    /\ stunStep = "read" /\ stunStep' = "idle"
    /\ bytes' = <<>> /\ info' = Unread /\ message' = NoMessage

StunNext ==
    \/ \E token \in Blobs, self, peer \in Streams, key \in {"", "k"}, relay \in {"", "r"} :
            BuildAllocateForRelay(token, self, peer, key, relay)
    \/ \E user \in Blobs, key \in {"", "k"}, list \in Streams, ice, finger \in BOOLEAN :
            \E i \in DOMAIN list : list[i] # 0
                /\ BuildBindingRequestWithSubs(user, key, list[i], ice, finger)
    \/ BuildWhatsAppPing
    \/ \E type \in {257, 259, 273, 275, 2050}, n \in 0..MaxReply :
            \E attrs \in [1..n -> Answers] : Answer(type, attrs)
    \/ AnswerPing
    \/ \E cut \in 0..Len(bytes) : Arrive(cut)
    \/ Again

-----------------------------------------------------------------------------
(* The relay.                                                              *)

\* A digest is right when it was computed from the message up to it, with the length that
\* ends with the digest's attribute.
Verified(data, a, key, length) ==
    a.data[1] = <<key, SubSeq(data, 1, 2) \o Field(a.at - 20 + length, 2)
                       \o SubSeq(data, 5, a.at)>>

Varint(data, at) ==
    LET from[i \in at..Len(data)] ==
            IF data[i][2] THEN LET rest == from[i + 1]
                               IN [v |-> data[i][1] + VarBase * rest.v, next |-> rest.next]
            ELSE [v |-> data[i][1], next |-> i + 1]
    IN from[at]

\* The fields of a protobuf message: number and value, or the bytes of a nested message.
Fields(data) ==
    LET from[at \in 1..Len(data) + 1] ==
            IF at > Len(data) THEN <<>>
            ELSE LET tag == Varint(data, at)
                     v == Varint(data, tag.next)
                 IN IF tag.v % 8 = 2
                    THEN <<[field |-> tag.v \div 8, value |-> 0,
                            nested |-> SubSeq(data, v.next, v.next + v.v - 1)]>>
                         \o from[v.next + v.v]
                    ELSE <<[field |-> tag.v \div 8, value |-> v.v, nested |-> <<>>]>>
                         \o from[v.next]
    IN from[1]

\* The SSRCs named in a subscription attribute.
Subscribed(data) ==
    LET entries == Fields(data)
        ssrc(e) == SelectSeq(Fields(e.nested), LAMBDA f : f.field = 3)[1].value
    IN [i \in 1..Len(entries) |-> ssrc(entries[i])]

-----------------------------------------------------------------------------
(* Properties.                                                             *)

Whole == Len(bytes) = Len(buildStunMessage(message))

Given(attrs) == [i \in 1..Len(attrs) |-> <<attrs[i].type, attrs[i].data>>]

MessagesRead ==
    (stunStep = "read" /\ Len(bytes) >= 20) =>
        LET got == Given(info.attrs)
            n == Len(message.attrs)
        IN /\ info.raw = message.type
           /\ Len(got) <= n => IsPrefix(got, message.attrs)
           /\ Whole => IsPrefix(message.attrs, got)
           /\ \A i \in 1..Len(info.attrs) :
                LET a == info.attrs[i] IN
                /\ a.type = IntegrityType => Verified(bytes, a, message.key, 24)
                /\ a.type = FingerprintType => Verified(bytes, a, "crc", 8)
           /\ Whole => Len(got) = n + (IF message.key = NoKey THEN 0 ELSE 1)
                                    + (IF message.finger THEN 1 ELSE 0)
           /\ info.conn # <<>> => info.class = "success"
           /\ (Whole /\ \E i \in 1..n : message.attrs[i][1] = 9 /\ Len(message.attrs[i][2]) >= 4)
                => info.error \in {437, 500}

StreamsNamed ==
    (stunStep = "read" /\ Whole /\ message.type \in {BindingRequest, AllocateRequest}) =>
        LET type == IF message.type = BindingRequest THEN 16384 ELSE 16420
            of == SelectSeq(info.attrs, LAMBDA a : a.type = type)
        IN Len(of) = 1 /\ Subscribed(of[1].data) = message.names

\* What was put in a message is what the other side reads, in order and with its length,
\* whatever the lengths of the attributes before it (encodeAttribute, ParseStunResponse);
\* integrity and fingerprint are the last attributes and verify (buildStunMessage); a
\* message cut short gives the attributes before the cut and nothing else; an error code
\* and a connection's id are found among the others.  A whole allocate names the streams
\* the client has, in order and without the missing ones, a binding the one it subscribes
\* to: the relay forwards what it can read here (BuildSSRCSubscriptionList,
\* BuildSenderSubscriptions, encodeVarint).
StunUnderstood == MessagesRead /\ StreamsNamed
=============================================================================
