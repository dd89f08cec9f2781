----------------------------- MODULE SrtpStream -----------------------------
(***************************************************************************)
(* One SRTP stream: the sender's RtpSession and SrtpContext, a network that*)
(* loses, repeats and reorders packets without limit, and the receiver's   *)
(* SrtpContext (internal/voip/media/srtp.go, rtp.go).                      *)
(***************************************************************************)
EXTENDS SrtpContext, FiniteSets

CONSTANT MaxPackets      \* bound on the packets sent

ASSUME PacketsAssumption == MaxPackets \in Nat

VARIABLES
    seq,        \* RtpSession.sequenceNumber
    sender,     \* the sender's context
    sent,       \* packets sent so far
    wire,       \* packets that may arrive, again and again
    receiver,   \* the receiver's context
    accepted    \* packets Unprotect has returned

vars == <<seq, sender, sent, wire, receiver, accepted>>

Packet == [seq : 0..(SeqRange - 1), roc : 0..(RocMod - 1)]

IndexOf(p) == PacketIndex(p.roc, p.seq)

TypeOK ==
    /\ seq \in 0..(SeqRange - 1)
    /\ sender \in Context
    /\ sent \in Nat
    /\ wire \subseteq Packet
    /\ receiver \in Context
    /\ accepted \subseteq wire

\* The first sequence number is random.
Init ==
    /\ seq \in 0..(SeqRange - 1)
    /\ sender = NewSrtpContext
    /\ sent = 0
    /\ wire = {}
    /\ receiver = NewSrtpContext
    /\ accepted = {}

\* CreatePacketWithDuration and Protect.
Send ==
    /\ sent < MaxPackets
    /\ sender' = UpdateRoc(sender, seq)
    /\ wire' = wire \cup {[seq |-> seq, roc |-> UpdateRoc(sender, seq).roc]}
    /\ seq' = IF seq = SeqRange - 1 THEN 0 ELSE seq + 1
    /\ sent' = sent + 1
    /\ UNCHANGED <<receiver, accepted>>

\* A packet arrives, perhaps not for the first time.
Receive(p) ==
    /\ receiver' = Unprotect(receiver, p)
    /\ accepted' = IF Accepts(receiver, p) THEN accepted \cup {p} ELSE accepted
    /\ UNCHANGED <<seq, sender, sent, wire>>

Next == Send \/ \E p \in wire : Receive(p)

Spec == Init /\ [][Next]_vars

-----------------------------------------------------------------------------
(* Properties.                                                             *)

\* No packet is accepted a second time, however late or often it is repeated.
NoReplay == \A p \in accepted : ~Accepts(receiver, p)

\* The rollover counter and last sequence number that estimates start from are those
\* of the newest packet accepted, and the replay window hangs on the same packet.
PositionIsNewest ==
    receiver.initialized =>
        /\ \E p \in accepted : p.roc = receiver.roc /\ p.seq = receiver.lastSeq
        /\ receiver.replayHighest = PacketIndex(receiver.roc, receiver.lastSeq)
        /\ \A p \in accepted : IndexOf(p) <= receiver.replayHighest

\* A packet that comes for the first time is accepted when it is not too old for the
\* replay window and less than half the sequence space from the newest one, on
\* whichever side of a wrap; the first packet of all when it is from before a wrap.
FreshIsAccepted ==
    \A p \in wire \ accepted :
        (IF receiver.initialized
         THEN /\ receiver.replayHighest - IndexOf(p) < ReplayWindowSize
              /\ receiver.replayHighest - IndexOf(p) < Half
              /\ IndexOf(p) - receiver.replayHighest < Half
         ELSE p.roc = 0)
        => Accepts(receiver, p)

\* No two packets are encrypted under the same index, the counter of the key stream,
\* as long as the rollover counter itself does not wrap.
IndexesDiffer == sent < (RocMod - 1) * SeqRange => Cardinality(wire) = sent
=============================================================================
