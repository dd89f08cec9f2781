---------------------------- MODULE MediaReceive ----------------------------
(***************************************************************************)
(* CallManager.onRelayData for RTP packets: the lock on one SSRC, the ring *)
(* that drops copies, decryption and the hand-over to the extensions       *)
(* (internal/voip/call/callmanager_media.go, engine/srtpmanager.go).       *)
(*                                                                         *)
(* Every relay has a goroutine that delivers its packets; each may bring   *)
(* any packet the peer has sent, in any order.                             *)
(***************************************************************************)
EXTENDS SrtpContext, FiniteSets

CONSTANTS
    Ssrcs,            \* streams the relays deliver
    NoSsrc,           \* rxLockedSsrc = 0
    Video,            \* the streams with the video payload type, the others are audio
    Undecodable,      \* streams we have no key for
    Announced,        \* peerSsrcs as the offer ack has them
    PerStream,        \* packets of a stream considered, a bound
    RingLen,          \* len(rxDedupRing)
    Threads,          \* relay goroutines inside onRelayData
    FailoverSilence,  \* rxFailoverSilence, in ticks
    MaxNow            \* bound on the clock

ASSUME MediaAssumption ==
    /\ NoSsrc \notin Ssrcs
    /\ Video \subseteq Ssrcs /\ Undecodable \subseteq Ssrcs
    /\ RingLen \in Nat \ {0} /\ PerStream \in Nat
    /\ FailoverSilence \in Nat /\ MaxNow \in Nat

VARIABLES
    now,         \* time.Now, in ticks
    srtp,        \* m.srtp
    contexts,    \* SrtpManager.recv
    locked,      \* rxLockedSsrc
    lockedLast,  \* rxLockedLastNs
    ring,        \* rxDedupRing
    ringIdx,     \* rxDedupIdx
    ringFilled,  \* rxDedupFilled
    dedup,       \* rxDedup
    peerSsrcs,   \* m.peerSsrcs
    actualPeerSet,
    thread,      \* the goroutines
    handled      \* packets handed to an extension

ringVars == <<ring, ringIdx, ringFilled, dedup>>
receiveVars == <<now, srtp, contexts, locked, lockedLast, ring, ringIdx, ringFilled, dedup,
                 peerSsrcs, actualPeerSet, thread, handled>>

\* Sequence number and rollover counter say where in its stream a packet is.
Packets ==
    {p \in [ssrc : Ssrcs, seq : 0..(SeqRange - 1), roc : 0..(RocMod - 1)] :
        PacketIndex(p.roc, p.seq) < PerStream}

\* A tag made with a key we do not have agrees under no rollover counter.
OnWire(p) ==
    [seq |-> p.seq, roc |-> IF p.ssrc \in Undecodable THEN RocMod ELSE p.roc]

\* dkey
Key(p) == <<p.ssrc, p.seq>>

NoKey == <<NoSsrc, 0>>

Keys == {Key(p) : p \in Packets}

\* at   "idle", before Unprotect, before the commit of the lock
\* seen nowNs, when the packet came
\* try  failoverTry
Idle == [at |-> "idle"]

Busy == [at : {"decrypt", "commit"}, p : Packets, seen : 0..MaxNow, try : BOOLEAN]

ReceiveTypeOK ==
    /\ now \in 0..MaxNow
    /\ srtp \in {"none", "up", "closed"}
    /\ contexts \in [Ssrcs -> Context]
    /\ locked \in Ssrcs \cup {NoSsrc} /\ lockedLast \in 0..MaxNow
    /\ ring \in [0..(RingLen - 1) -> Keys \cup {NoKey}]
    /\ ringIdx \in 0..(RingLen - 1) /\ ringFilled \in BOOLEAN
    /\ dedup \subseteq Keys
    /\ peerSsrcs \subseteq Ssrcs /\ actualPeerSet \in BOOLEAN
    /\ thread \in [Threads -> Busy \cup {Idle}]
    /\ handled \subseteq Packets

ReceiveInit ==
    /\ now = 0
    /\ srtp = "none"
    /\ contexts = [s \in Ssrcs |-> NewSrtpContext]
    /\ locked = NoSsrc /\ lockedLast = 0
    /\ ring = [i \in 0..(RingLen - 1) |-> NoKey]
    /\ ringIdx = 0 /\ ringFilled = FALSE /\ dedup = {}
    /\ peerSsrcs = Announced /\ actualPeerSet = FALSE
    /\ thread = [t \in Threads |-> Idle]
    /\ handled = {}

Tick ==
    /\ now < MaxNow
    /\ now' = now + 1
    /\ UNCHANGED <<srtp, contexts, locked, lockedLast, ringVars, peerSsrcs, actualPeerSet,
                   thread, handled>>

\* initSrtpKeysLocked makes a new manager.  Of the calls it gets in a call's life only
\* the first is considered; a later one would start the contexts anew.
SetupSrtp ==
    /\ srtp = "none"
    /\ srtp' = "up"
    /\ contexts' = [s \in Ssrcs |-> NewSrtpContext]
    /\ UNCHANGED <<now, locked, lockedLast, ringVars, peerSsrcs, actualPeerSet, thread,
                   handled>>

\* cleanupMedia: the ring itself keeps its entries.  SrtpManager.Close forgets the
\* contexts; a goroutine that still holds the manager starts new ones.
CleanupMedia ==
    /\ srtp # "closed"
    /\ srtp' = "closed"
    /\ contexts' = [s \in Ssrcs |-> NewSrtpContext]
    /\ locked' = NoSsrc /\ lockedLast' = 0
    /\ ringIdx' = 0 /\ ringFilled' = FALSE /\ dedup' = {}
    /\ actualPeerSet' = FALSE
    /\ UNCHANGED <<now, ring, peerSsrcs, thread, handled>>

\* Another stream has the lock.
OtherHolds(p) == locked # NoSsrc /\ p.ssrc # locked

\* It has been silent for so long that this one may try.
Silent == now - lockedLast > FailoverSilence

\* (C1): dropped because of its SSRC, which changes nothing.
Refused(p) == OtherHolds(p) /\ ~Silent

\* (B): a copy.  It counts as a sign of life of its stream.
Touch(p) == lockedLast' = IF p.ssrc = locked THEN now ELSE lockedLast

DropCopy(p) ==
    /\ ~Refused(p)
    /\ Key(p) \in dedup
    /\ Touch(p)
    /\ UNCHANGED <<now, srtp, contexts, locked, ringVars, peerSsrcs, actualPeerSet, thread,
                   handled>>

\* The key takes the place of the oldest one.
Remember(k) ==
    /\ dedup' = (IF ringFilled THEN dedup \ {ring[ringIdx]} ELSE dedup) \cup {k}
    /\ ring' = [ring EXCEPT ![ringIdx] = k]
    /\ ringIdx' = IF ringIdx + 1 = RingLen THEN 0 ELSE ringIdx + 1
    /\ ringFilled' = (ringFilled \/ ringIdx + 1 = RingLen)

\* The first critical section lets the packet through.
Arrive(t, p) ==
    /\ thread[t] = Idle
    /\ ~Refused(p)
    /\ Key(p) \notin dedup
    /\ Touch(p)
    /\ Remember(Key(p))
    /\ IF p.ssrc \notin Video /\ ~actualPeerSet
       THEN /\ actualPeerSet' = TRUE
            /\ peerSsrcs' = IF p.ssrc \in peerSsrcs THEN peerSsrcs ELSE {p.ssrc}
       ELSE UNCHANGED <<actualPeerSet, peerSsrcs>>
    /\ thread' = IF srtp = "up"
                 THEN [thread EXCEPT ![t] = [at |-> "decrypt", p |-> p, seen |-> now,
                                             try |-> OtherHolds(p)]]
                 ELSE thread
    /\ UNCHANGED <<now, srtp, contexts, locked, handled>>

Decodes(p) == Accepts(contexts[p.ssrc], OnWire(p))

\* SrtpManager.Unprotect, under its own lock.
Decrypt(t) ==
    /\ thread[t].at = "decrypt"
    /\ LET p == thread[t].p IN
       IF Decodes(p)
       THEN /\ contexts' = [contexts EXCEPT ![p.ssrc] = Unprotect(contexts[p.ssrc], OnWire(p))]
            /\ thread' = [thread EXCEPT ![t].at = "commit"]
       ELSE /\ thread' = [thread EXCEPT ![t] = Idle]
            /\ UNCHANGED contexts
    /\ UNCHANGED <<now, srtp, locked, lockedLast, ringVars, peerSsrcs, actualPeerSet, handled>>

\* Mutant: silence is not looked at again.
MayLock_NoRecheck(w) == locked = NoSsrc \/ w.try

\* (C2): nobody holds the lock, or the holder is still silent.
MayLock(w) ==
    \/ locked = NoSsrc
    \/ w.try /\ w.p.ssrc # locked /\ w.seen - lockedLast > FailoverSilence

\* rxLockedSsrc is read once without m.mu before MayLock is asked under it; what was
\* read may be the SSRC that cleanupMedia has cleared since.
StaleRead(w) == srtp = "closed" /\ ~w.try

\* The commit of the lock, NoteRTP and the extension's handler.
Commit(t) ==
    /\ thread[t].at = "commit"
    /\ \/ /\ MayLock(thread[t])
          /\ locked' = thread[t].p.ssrc /\ lockedLast' = thread[t].seen
       \/ /\ ~MayLock(thread[t]) \/ StaleRead(thread[t])
          /\ UNCHANGED <<locked, lockedLast>>
    /\ handled' = handled \cup {thread[t].p}
    /\ thread' = [thread EXCEPT ![t] = Idle]
    /\ UNCHANGED <<now, srtp, contexts, ringVars, peerSsrcs, actualPeerSet>>

ReceiveNext ==
    \/ Tick \/ SetupSrtp \/ CleanupMedia
    \/ \E p \in Packets : DropCopy(p) \/ \E t \in Threads : Arrive(t, p)
    \/ \E t \in Threads : Decrypt(t) \/ Commit(t)

ReceiveSpec == ReceiveInit /\ [][ReceiveNext]_receiveVars

-----------------------------------------------------------------------------
(* Properties.                                                             *)

Committing == {t \in Threads : thread[t].at = "commit"}

\* While the call lasts, and keeps its keys, no packet reaches an extension twice,
\* however many relays bring copies of it and however late they come: also one the ring
\* has forgotten.
HandledOnce ==
    srtp = "up" =>
        /\ \A t \in Committing : thread[t].p \notin handled
        /\ \A t, u \in Committing : t # u => thread[t].p # thread[u].p

\* The lock is not taken from a stream that was heard of while the packet that takes
\* it was being decrypted.
LockNotStolen ==
    [][locked # NoSsrc /\ locked' # locked /\ srtp' # "closed"
        => Silent]_receiveVars

\* A video packet of the peer that has not come before is not refused because of the
\* audio the peer sends at the same time.
VideoNotRefused ==
    \A p \in Packets : p.ssrc \in Video /\ p \notin handled => ~Refused(p)
=============================================================================
