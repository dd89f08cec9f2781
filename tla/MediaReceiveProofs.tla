------------------------- MODULE MediaReceiveProofs -------------------------
(***************************************************************************)
(* SRTP streams with sequence numbers, rollover counters and replay windows*)
(* of any size, the reception of media packets from any number of relays   *)
(* and streams, with dedup rings of any size, and the frames of audio      *)
(* packets of any length.                                                  *)
(***************************************************************************)
EXTENDS SrtpStream, MediaReceive, MlowPacket, FiniteSetTheorems, SequenceTheorems, TLAPS

-----------------------------------------------------------------------------
(* The estimate of the rollover counter.                                   *)

\* The packet index is a natural number.
LEMMA IndexType ==
    ASSUME NEW roc \in Nat, NEW s \in Nat
    PROVE  PacketIndex(roc, s) \in Nat
BY SrtpAssumption DEF PacketIndex, SeqRange

\* Two positions less than half the sequence space apart are in the same cycle of
\* the sequence number or in neighbouring ones.
LEMMA NearCycles ==
    ASSUME NEW v \in Nat, NEW w \in Nat,
           NEW s \in 0..(SeqRange - 1), NEW t \in 0..(SeqRange - 1),
           PacketIndex(v, s) - PacketIndex(w, t) < Half,
           PacketIndex(w, t) - PacketIndex(v, s) < Half
    PROVE  \/ v = w
           \/ v = w + 1 /\ t - s > Half
           \/ v = w - 1 /\ s - t > Half
<1> DEFINE S == 2 * Half
<1>1. S \in Nat /\ Half \in Nat /\ Half > 0 /\ S = Half + Half
  BY SrtpAssumption
<1>2. s \in 0..(S - 1) /\ t \in 0..(S - 1)
  BY DEF SeqRange
<1>3. PacketIndex(v, s) = v * S + s /\ PacketIndex(w, t) = w * S + t
  BY Zenon DEF PacketIndex, SeqRange
<1>4. CASE v >= w + 2
  <2>1. v * S >= (w + 2) * S
    BY <1>1, <1>4
  <2>2. (w + 2) * S = w * S + S + S
    BY <1>1
  <2>3. v * S \in Nat /\ w * S \in Nat
    BY <1>1
  <2> HIDE DEF S
  <2> QED
    BY <1>1, <1>2, <1>3, <2>1, <2>2, <2>3
<1>5. CASE w >= v + 2
  <2>1. w * S >= (v + 2) * S
    BY <1>1, <1>5
  <2>2. (v + 2) * S = v * S + S + S
    BY <1>1
  <2>3. v * S \in Nat /\ w * S \in Nat
    BY <1>1
  <2> HIDE DEF S
  <2> QED
    BY <1>1, <1>2, <1>3, <2>1, <2>2, <2>3
<1>6. CASE v = w + 1
  <2>1. v * S = w * S + S /\ w * S \in Nat
    BY <1>1, <1>6
  <2> HIDE DEF S
  <2> QED
    BY <1>1, <1>2, <1>3, <1>6, <2>1
<1>7. CASE w = v + 1
  <2>1. w * S = v * S + S /\ v * S \in Nat
    BY <1>1, <1>7
  <2> HIDE DEF S
  <2> QED
    BY <1>1, <1>2, <1>3, <1>7, <2>1
<1> QED
  BY <1>4, <1>5, <1>6, <1>7

\* estimateRoc finds the rollover counter of every packet less than half the
\* sequence space before or after the receiver's position, across wraps.
THEOREM EstimateIsRight ==
    ASSUME NEW c \in Context, c.initialized = TRUE,
           NEW v \in 0..(RocMod - 1), NEW s \in 0..(SeqRange - 1),
           PacketIndex(v, s) - PacketIndex(c.roc, c.lastSeq) < Half,
           PacketIndex(c.roc, c.lastSeq) - PacketIndex(v, s) < Half
    PROVE  EstimateRoc(c, s) = v
<1>1. /\ c.roc \in 0..(RocMod - 1) /\ c.lastSeq \in 0..(SeqRange - 1)
      /\ RocMod \in Nat /\ Half \in Nat
  BY SrtpAssumption DEF Context
<1>2. \/ v = c.roc
      \/ v = c.roc + 1 /\ c.lastSeq - s > Half
      \/ v = c.roc - 1 /\ s - c.lastSeq > Half
  BY <1>1, NearCycles
<1>3. CASE v = c.roc
  <2>1. ~(s - c.lastSeq > Half) /\ ~(c.lastSeq - s > Half)
    <3> DEFINE base == v * SeqRange
    <3>1. base \in Nat /\ SeqRange \in Nat
      BY <1>1 DEF SeqRange
    <3>2. PacketIndex(v, s) = base + s /\ PacketIndex(c.roc, c.lastSeq) = base + c.lastSeq
      BY <1>3, Zenon DEF PacketIndex
    <3> HIDE DEF base
    <3> QED
      BY <1>1, <3>1, <3>2
  <2> QED
    BY <1>3, <2>1 DEF EstimateRoc
<1>4. CASE v = c.roc + 1 /\ c.lastSeq - s > Half
  <2>1. c.lastSeq >= Half /\ ~(c.lastSeq < Half) /\ Plus1(c.roc) = v
    BY <1>1, <1>4 DEF Plus1
  <2> QED
    BY <1>4, <2>1 DEF EstimateRoc
<1>5. CASE v = c.roc - 1 /\ s - c.lastSeq > Half
  <2>1. c.lastSeq < Half /\ ~(c.lastSeq >= Half) /\ Minus1(c.roc) = v
    BY <1>1, <1>5 DEF Minus1, SeqRange
  <2> QED
    BY <1>5, <2>1 DEF EstimateRoc
<1> QED
  BY <1>2, <1>3, <1>4, <1>5

-----------------------------------------------------------------------------
(* The replay window.                                                      *)

\* The window knows the packets of these indexes: none is newer than the newest it has
\* seen, and those that are not too old are in it.
Knows(c, indexes) ==
    /\ indexes # {} => c.replaySeen = TRUE
    /\ \A i \in indexes :
        /\ i <= c.replayHighest
        /\ c.replayHighest - i < ReplayWindowSize => c.replayHighest - i \in c.replayWindow

\* Packets have natural indexes.
LEMMA PacketFacts ==
    ASSUME NEW p \in Packet
    PROVE  IndexOf(p) \in Nat /\ p.roc \in 0..(RocMod - 1) /\ p.seq \in 0..(SeqRange - 1)
<1>1. p.roc \in 0..(RocMod - 1) /\ p.seq \in 0..(SeqRange - 1)
  BY DEF Packet
<1>2. RocMod \in Nat /\ SeqRange \in Nat
  BY SrtpAssumption DEF SeqRange
<1>3. p.roc \in Nat /\ p.seq \in Nat
  BY <1>1, <1>2
<1> QED
  BY <1>1, <1>3, IndexType DEF IndexOf

\* commitRoc does not touch the replay window.
LEMMA CommitKeepsWindow ==
    ASSUME NEW c \in Context, NEW v, NEW s
    PROVE  /\ CommitRoc(c, v, s).replayHighest = c.replayHighest
           /\ CommitRoc(c, v, s).replayWindow = c.replayWindow
           /\ CommitRoc(c, v, s).replaySeen = c.replaySeen
           /\ DOMAIN CommitRoc(c, v, s) = DOMAIN c
BY DEF CommitRoc, Context

\* The context stays a context.
LEMMA UnprotectType ==
    ASSUME NEW c \in Context, NEW p \in Packet
    PROVE  Unprotect(c, p) \in Context
<1> DEFINE d == CommitRoc(c, p.roc, p.seq)
           i == PacketIndex(p.roc, p.seq)
<1>1. p.roc \in 0..(RocMod - 1) /\ p.seq \in 0..(SeqRange - 1) /\ i \in Nat
  BY PacketFacts DEF IndexOf
<1>2. d \in Context
  BY <1>1 DEF CommitRoc, Context
<1>3. 0 \in 0..(ReplayWindowSize - 1)
  BY SrtpAssumption
<1>4. ASSUME Accepts(c, p) PROVE Unprotect(c, p) \in Context
  <2>1. d.replayHighest = c.replayHighest /\ d.replayWindow = c.replayWindow
          /\ d.replaySeen = c.replaySeen
    BY CommitKeepsWindow
  <2>2. Unprotect(c, p) = ReplayUpdate(d, i)
    BY <1>4 DEF Unprotect
  <2>3. ReplayCheck(c, i)
    BY <1>4 DEF Accepts
  <2> HIDE DEF d, i
  <2>4. CASE ~d.replaySeen \/ i > d.replayHighest
    <3>1. ReplayUpdate(d, i) \in
            {[d EXCEPT !.replaySeen = TRUE, !.replayHighest = i, !.replayWindow = {0}],
             [d EXCEPT !.replayHighest = i,
                       !.replayWindow = Shift(@, i - d.replayHighest) \cup {0}]}
      BY <2>4 DEF ReplayUpdate
    <3>2. Shift(d.replayWindow, i - d.replayHighest) \cup {0}
            \in SUBSET (0..(ReplayWindowSize - 1))
      BY <1>3 DEF Shift
    <3>3. [d EXCEPT !.replaySeen = TRUE, !.replayHighest = i, !.replayWindow = {0}]
            \in Context
      BY <1>1, <1>2, <1>3 DEF Context
    <3>4. \A w \in SUBSET (0..(ReplayWindowSize - 1)) :
            [d EXCEPT !.replayHighest = i, !.replayWindow = w] \in Context
      BY <1>1, <1>2 DEF Context
    <3> QED
      BY <2>2, <3>1, <3>2, <3>3, <3>4
  <2>5. CASE d.replaySeen /\ ~(i > d.replayHighest)
    <3>1. ReplayUpdate(d, i)
            = [d EXCEPT !.replayWindow = @ \cup {d.replayHighest - i}]
      BY <2>5 DEF ReplayUpdate
    <3>2. d.replayHighest - i \in 0..(ReplayWindowSize - 1)
      BY <1>1, <1>2, <2>1, <2>3, <2>5, SrtpAssumption DEF ReplayCheck, Context
    <3> QED
      BY <1>2, <2>2, <3>1, <3>2 DEF Context
  <2> QED
    BY <2>4, <2>5
<1> QED
  BY <1>4 DEF Unprotect

\* Type correctness, for sizes of any kind.
LEMMA StreamType == Spec => []TypeOK
<1>1. Init => TypeOK
  BY SrtpAssumption DEF Init, TypeOK, Context, NewSrtpContext, SeqRange
<1>2. TypeOK /\ [Next]_vars => TypeOK'
  <2> SUFFICES ASSUME TypeOK, [Next]_vars PROVE TypeOK'
    OBVIOUS
  <2>1. CASE Send
    <3>1. UpdateRoc(sender, seq) \in Context
      <4>1. sender \in Context /\ seq \in 0..(SeqRange - 1)
        BY DEF TypeOK
      <4>2. sender.roc \in 0..(RocMod - 1) /\ Plus1(sender.roc) \in 0..(RocMod - 1)
        BY <4>1, SrtpAssumption DEF Context, Plus1
      <4>3. \A r \in 0..(RocMod - 1) :
              [sender EXCEPT !.roc = r, !.lastSeq = seq, !.initialized = TRUE] \in Context
        BY <4>1 DEF Context
      <4> QED
        BY <4>2, <4>3 DEF UpdateRoc
    <3>2. UpdateRoc(sender, seq).roc \in 0..(RocMod - 1)
      BY <3>1 DEF Context
    <3>3. [seq |-> seq, roc |-> UpdateRoc(sender, seq).roc] \in Packet
      BY <3>2 DEF Packet, TypeOK
    <3>4. seq' \in 0..(SeqRange - 1) /\ sent' \in Nat
      BY <2>1, SrtpAssumption DEF TypeOK, Send, SeqRange
    <3> QED
      BY <2>1, <3>1, <3>3, <3>4 DEF TypeOK, Send
  <2>2. ASSUME NEW p \in wire, Receive(p) PROVE TypeOK'
    <3>1. Unprotect(receiver, p) \in Context
      BY UnprotectType DEF TypeOK
    <3> QED
      BY <2>2, <3>1 DEF TypeOK, Receive
  <2>3. CASE UNCHANGED vars
    BY <2>3 DEF TypeOK, vars
  <2> QED
    BY <2>1, <2>2, <2>3 DEF Next
<1> QED
  BY <1>1, <1>2, PTL DEF Spec

\* Unprotect returns no packet the window knows,
LEMMA WindowRefuses ==
    ASSUME NEW c \in Context, NEW p \in Packet, NEW indexes \in SUBSET Nat,
           Knows(c, indexes), Accepts(c, p)
    PROVE  IndexOf(p) \notin indexes
<1> SUFFICES ASSUME IndexOf(p) \in indexes PROVE FALSE
  OBVIOUS
<1>1. ReplayCheck(c, IndexOf(p))
  BY DEF Accepts, IndexOf
<1>2. /\ c.replaySeen = TRUE /\ c.replayHighest \in Nat /\ IndexOf(p) \in Nat
      /\ IndexOf(p) <= c.replayHighest
  BY DEF Knows, Context
<1>3. c.replayHighest - IndexOf(p) < ReplayWindowSize
        /\ c.replayHighest - IndexOf(p) \notin c.replayWindow
  BY <1>1, <1>2 DEF ReplayCheck
<1> QED
  BY <1>3 DEF Knows

\* and the window knows the packet it returns, and still the ones before.
LEMMA WindowLearns ==
    ASSUME NEW c \in Context, NEW p \in Packet, NEW indexes \in SUBSET Nat,
           Knows(c, indexes), Accepts(c, p)
    PROVE  Knows(Unprotect(c, p), indexes \cup {IndexOf(p)})
<1> DEFINE d == CommitRoc(c, p.roc, p.seq)
           i == IndexOf(p)
           e == Unprotect(c, p)
           high == c.replayHighest
<1>1. /\ d.replayHighest = high
      /\ d.replayWindow = c.replayWindow
      /\ d.replaySeen = c.replaySeen
      /\ DOMAIN d = DOMAIN c
  BY CommitKeepsWindow
<1>2. i \in Nat /\ high \in Nat /\ c.replaySeen \in BOOLEAN
  BY PacketFacts DEF Context
<1>3. e = ReplayUpdate(d, i)
  BY DEF Unprotect, IndexOf
<1>4. ReplayCheck(c, i)
  BY DEF Accepts, IndexOf
<1>5. DOMAIN c = {"roc", "lastSeq", "initialized", "replayHighest", "replayWindow",
                  "replaySeen"}
  BY DEF Context
<1> HIDE DEF d, i, e
<1>6. CASE ~c.replaySeen
  <2>1. indexes = {}
    BY <1>6 DEF Knows
  <2>2. e.replayHighest = i /\ e.replayWindow = {0} /\ e.replaySeen = TRUE
    BY <1>1, <1>3, <1>5, <1>6 DEF ReplayUpdate
  <2> QED
    BY <1>2, <2>1, <2>2 DEF Knows, i, e
<1>7. CASE c.replaySeen /\ i > high
  <2>1. /\ e.replayHighest = i
        /\ e.replayWindow = Shift(c.replayWindow, i - high) \cup {0}
        /\ e.replaySeen = TRUE
    BY <1>1, <1>2, <1>3, <1>5, <1>7 DEF ReplayUpdate
  <2>2. ASSUME NEW j \in indexes
        PROVE  /\ j <= i
               /\ i - j < ReplayWindowSize => i - j \in e.replayWindow
    <3>1. /\ j \in Nat /\ j <= high
          /\ high - j < ReplayWindowSize => high - j \in c.replayWindow
      BY DEF Knows
    <3>2. (i - j) - (i - high) = high - j
      BY <1>2, <3>1
    <3>3. ASSUME i - j < ReplayWindowSize
          PROVE  i - j \in e.replayWindow
      <4>1. high - j \in c.replayWindow
        BY <1>2, <1>7, <3>1, <3>3, SrtpAssumption
      <4>2. i - j \in 0..(ReplayWindowSize - 1)
        BY <1>2, <1>7, <3>1, <3>3, SrtpAssumption
      <4> QED
        BY <2>1, <3>2, <4>1, <4>2 DEF Shift
    <3> QED
      BY <1>2, <1>7, <3>1, <3>3
  <2> QED
    BY <1>2, <2>1, <2>2 DEF Knows, i, e
<1>8. CASE c.replaySeen /\ ~(i > high)
  <2>1. /\ e.replayHighest = high
        /\ e.replayWindow = c.replayWindow \cup {high - i}
        /\ e.replaySeen = TRUE
    BY <1>1, <1>2, <1>3, <1>5, <1>8 DEF ReplayUpdate
  <2>2. i <= high
    BY <1>2, <1>8
  <2> QED
    BY <1>2, <2>1, <2>2 DEF Knows, i, e
<1> QED
  BY <1>6, <1>7, <1>8

\* The receiver's window knows every packet it has let through.
WindowInv == Knows(receiver, {IndexOf(p) : p \in accepted})

\* No packet is let through twice: replayCheck and replayUpdate, whatever the order
\* and number of arrivals, for a replay window of any size.
THEOREM ReplaysAreRefused == Spec => []NoReplay
<1>1. Init => WindowInv
  BY DEF Init, WindowInv, Knows
<1>2. TypeOK /\ WindowInv /\ [Next]_vars => WindowInv'
  <2> SUFFICES ASSUME TypeOK, WindowInv, [Next]_vars PROVE WindowInv'
    OBVIOUS
  <2>1. CASE Send \/ UNCHANGED vars
    BY <2>1 DEF Send, vars, WindowInv
  <2>2. ASSUME NEW p \in wire, Receive(p) PROVE WindowInv'
    <3>1. CASE ~Accepts(receiver, p)
      BY <2>2, <3>1 DEF Receive, Unprotect, WindowInv
    <3>2. CASE Accepts(receiver, p)
      <4>1. {IndexOf(q) : q \in accepted} \in SUBSET Nat
        BY PacketFacts DEF TypeOK
      <4>2. Knows(Unprotect(receiver, p), {IndexOf(q) : q \in accepted} \cup {IndexOf(p)})
        BY <3>2, <4>1, WindowLearns DEF TypeOK, WindowInv
      <4>3. {IndexOf(q) : q \in accepted} \cup {IndexOf(p)}
              = {IndexOf(q) : q \in accepted \cup {p}}
        OBVIOUS
      <4>4. receiver' = Unprotect(receiver, p) /\ accepted' = accepted \cup {p}
        BY <2>2, <3>2 DEF Receive
      <4> QED
        BY <4>2, <4>3, <4>4, Zenon DEF WindowInv
    <3> QED
      BY <3>1, <3>2
  <2> QED
    BY <2>1, <2>2 DEF Next
<1>3. TypeOK /\ WindowInv => NoReplay
  <2> SUFFICES ASSUME TypeOK, WindowInv, NEW p \in accepted, Accepts(receiver, p)
               PROVE  FALSE
    BY DEF NoReplay
  <2>1. {IndexOf(q) : q \in accepted} \in SUBSET Nat
    BY PacketFacts DEF TypeOK
  <2> QED
    BY <2>1, WindowRefuses DEF TypeOK, WindowInv
<1> QED
  BY <1>1, <1>2, <1>3, StreamType, PTL DEF Spec

-----------------------------------------------------------------------------
(* The sender's indexes.                                                   *)

\* Where the sender is: the index of the packet it sent last.
Position(c) == PacketIndex(c.roc, c.lastSeq)

\* As long as the rollover counter cannot have wrapped, every packet has a larger index than
\* the ones before; the first sequence number is the only head start it has.
IndexInv ==
    sent < (RocMod - 1) * SeqRange =>
        /\ IsFiniteSet(wire) /\ Cardinality(wire) = sent
        /\ sent = 0 => sender.initialized = FALSE /\ sender.roc = 0
        /\ sent > 0 =>
            /\ sender.initialized = TRUE
            /\ seq = IF sender.lastSeq = SeqRange - 1 THEN 0 ELSE sender.lastSeq + 1
            /\ Position(sender) <= sent + SeqRange - 2
            /\ \A p \in wire : IndexOf(p) <= Position(sender)

\* What updateRoc does with the next sequence number: the index grows by one, also across
\* a wrap.
LEMMA NextIndex ==
    ASSUME NEW c \in Context, c.initialized = TRUE, NEW s \in 0..(SeqRange - 1),
           s = IF c.lastSeq = SeqRange - 1 THEN 0 ELSE c.lastSeq + 1,
           Position(c) < (RocMod - 1) * SeqRange + SeqRange - 1
    PROVE  /\ UpdateRoc(c, s).lastSeq = s /\ UpdateRoc(c, s).initialized = TRUE
           /\ Position(UpdateRoc(c, s)) = Position(c) + 1
<1>1. /\ Half \in Nat /\ Half > 1 /\ RocMod \in Nat /\ RocMod > 1
      /\ SeqRange \in Nat /\ SeqRange = Half + Half
  BY SrtpAssumption DEF SeqRange
<1>2. c.roc \in 0..(RocMod - 1) /\ c.lastSeq \in 0..(SeqRange - 1)
  BY DEF Context
<1>3. /\ UpdateRoc(c, s).lastSeq = s /\ UpdateRoc(c, s).initialized = TRUE
      /\ UpdateRoc(c, s).roc = IF s - c.lastSeq < -Half THEN Plus1(c.roc) ELSE c.roc
  BY DEF UpdateRoc, Context
<1>4. CASE c.lastSeq # SeqRange - 1
  <2>1. ~(s - c.lastSeq < -Half) /\ s = c.lastSeq + 1
    BY <1>1, <1>2, <1>4
  <2>2. c.roc * SeqRange \in Nat
    BY <1>1, <1>2
  <2>3. UpdateRoc(c, s).roc = c.roc
    BY <1>3, <2>1
  <2> QED
    BY <1>2, <1>3, <2>1, <2>2, <2>3 DEF Position, PacketIndex
<1>5. CASE c.lastSeq = SeqRange - 1
  <2>1. s = 0 /\ s - c.lastSeq < -Half
    BY <1>1, <1>5
  <2>2. c.roc # RocMod - 1
    <3> DEFINE top == (RocMod - 1) * SeqRange
    <3>1. top \in Nat
      BY <1>1
    <3>2. c.roc = RocMod - 1 => Position(c) = top + (SeqRange - 1)
      BY <1>5, Zenon DEF Position, PacketIndex
    <3>3. Position(c) < top + SeqRange - 1
      OBVIOUS
    <3> HIDE DEF top
    <3> QED
      BY <1>1, <3>1, <3>2, <3>3
  <2>3. UpdateRoc(c, s).roc = c.roc + 1
    BY <1>2, <1>3, <2>1, <2>2 DEF Plus1
  <2>4. (c.roc + 1) * SeqRange = c.roc * SeqRange + SeqRange /\ c.roc * SeqRange \in Nat
    BY <1>1, <1>2
  <2> QED
    BY <1>1, <1>3, <1>5, <2>1, <2>3, <2>4 DEF Position, PacketIndex
<1> QED
  BY <1>3, <1>4, <1>5

\* Protect adds a packet with an index of its own.
LEMMA SendIndex ==
    ASSUME TypeOK, TypeOK', IndexInv, Send
    PROVE  IndexInv'
<1> DEFINE top == (RocMod - 1) * SeqRange
           c == UpdateRoc(sender, seq)
           p == [seq |-> seq, roc |-> c.roc]
<1> SUFFICES ASSUME sent + 1 < top
             PROVE  /\ IsFiniteSet(wire') /\ Cardinality(wire') = sent + 1
                    /\ sender'.initialized = TRUE
                    /\ seq' = IF sender'.lastSeq = SeqRange - 1 THEN 0 ELSE sender'.lastSeq + 1
                    /\ Position(sender') <= (sent + 1) + SeqRange - 2
                    /\ \A q \in wire' : IndexOf(q) <= Position(sender')
  <2>1. sent' = sent + 1 /\ sent \in Nat
    BY DEF Send, TypeOK
  <2>2. sent' # 0 /\ sent' > 0
    BY <2>1
  <2> QED
    BY <2>1, <2>2 DEF IndexInv
<1>1. /\ Half \in Nat /\ Half > 1 /\ RocMod \in Nat /\ RocMod > 1
      /\ SeqRange \in Nat /\ SeqRange > 1 /\ top \in Nat
  BY SrtpAssumption DEF SeqRange
<1>2. /\ sender' = c /\ wire' = wire \cup {p} /\ c \in Context /\ sender \in Context
      /\ seq' = IF seq = SeqRange - 1 THEN 0 ELSE seq + 1
      /\ sent \in Nat /\ seq \in 0..(SeqRange - 1) /\ wire \subseteq Packet /\ p \in wire'
      /\ wire' \subseteq Packet
  BY DEF Send, TypeOK
<1>3. IndexOf(p) = PacketIndex(c.roc, seq)
  BY DEF IndexOf
<1> HIDE DEF top
<1>4. sent < top
  BY <1>1, <1>2
<1>5. IsFiniteSet(wire) /\ Cardinality(wire) = sent
  BY <1>4 DEF IndexInv, top
<1>6. /\ c.initialized = TRUE /\ c.lastSeq = seq
      /\ Position(c) <= (sent + 1) + SeqRange - 2
      /\ \A q \in wire : IndexOf(q) < Position(c)
  <2>1. CASE sent = 0
    <3>1. sender.initialized = FALSE /\ sender.roc = 0
      BY <1>4, <2>1 DEF IndexInv, top
    <3>2. c.roc = 0 /\ c.lastSeq = seq /\ c.initialized = TRUE
      BY <1>2, <3>1 DEF UpdateRoc, Context
    <3>3. Position(c) = seq
      BY <1>1, <1>2, <3>2 DEF Position, PacketIndex
    <3>4. wire = {}
      BY <1>5, <2>1, FS_EmptySet
    <3> QED
      BY <1>1, <1>2, <2>1, <3>2, <3>3, <3>4
  <2>2. CASE sent > 0
    <3>1. /\ sender.initialized = TRUE
          /\ seq = IF sender.lastSeq = SeqRange - 1 THEN 0 ELSE sender.lastSeq + 1
          /\ Position(sender) <= sent + SeqRange - 2
          /\ \A q \in wire : IndexOf(q) <= Position(sender)
      BY <1>4, <2>2 DEF IndexInv, top
    <3>2. Position(sender) \in Nat
      <4>1. sender.roc \in Nat /\ sender.lastSeq \in Nat
        BY <1>1, <1>2 DEF Context
      <4> QED
        BY <4>1, IndexType DEF Position
    <3>3. Position(sender) < top + SeqRange - 1
      BY <1>1, <1>2, <1>4, <3>1, <3>2
    <3>4. c.lastSeq = seq /\ c.initialized = TRUE /\ Position(c) = Position(sender) + 1
      BY <1>2, <3>1, <3>3, NextIndex DEF top
    <3>5. \A q \in wire : IndexOf(q) \in Nat
      BY <1>2, PacketFacts
    <3> QED
      BY <1>1, <1>2, <3>1, <3>2, <3>4, <3>5
  <2>3. sent = 0 \/ sent > 0
    BY <1>2
  <2> HIDE DEF c
  <2> QED
    BY <2>1, <2>2, <2>3
<1>7. IndexOf(p) = Position(c)
  BY <1>3, <1>6 DEF Position
<1>8. \A q \in wire' : IndexOf(q) \in Nat
  BY <1>2, PacketFacts
<1>9. p \notin wire
  BY <1>2, <1>6, <1>7, <1>8
<1>10. IsFiniteSet(wire') /\ Cardinality(wire') = sent + 1
  BY <1>2, <1>5, <1>9, FS_AddElement
<1> HIDE DEF c, p
<1>11. \A q \in wire' : IndexOf(q) <= Position(c)
  BY <1>2, <1>6, <1>7, <1>8
<1> QED
  BY <1>2, <1>6, <1>10, <1>11

LEMMA IndexInduction == Spec => [](TypeOK /\ IndexInv)
<1>1. Init => IndexInv
  <2> SUFFICES ASSUME Init PROVE IndexInv
    OBVIOUS
  <2>1. IsFiniteSet(wire) /\ Cardinality(wire) = 0
    BY FS_EmptySet DEF Init
  <2> QED
    BY <2>1 DEF Init, IndexInv, NewSrtpContext
<1>2. TypeOK /\ TypeOK' /\ IndexInv /\ [Next]_vars => IndexInv'
  <2> SUFFICES ASSUME TypeOK, TypeOK', IndexInv, [Next]_vars PROVE IndexInv'
    OBVIOUS
  <2>1. ASSUME UNCHANGED <<seq, sender, sent, wire>> PROVE IndexInv'
    BY <2>1 DEF IndexInv, Position, IndexOf, PacketIndex
  <2> QED
    BY <2>1, SendIndex DEF Next, Receive, vars
<1> QED
  BY <1>1, <1>2, StreamType, PTL DEF Spec

\* No two packets are protected under the same index, and so under the same key stream,
\* until the rollover counter itself could wrap: for every width of the sequence number and
\* of the counter and every first sequence number.
THEOREM IndexesAreFresh == Spec => []IndexesDiffer
<1>1. IndexInv => IndexesDiffer
  BY DEF IndexInv, IndexesDiffer
<1> QED
  BY <1>1, IndexInduction, PTL

-----------------------------------------------------------------------------
(* The receiver takes what is new.                                         *)

\* The receiver estimates from the newest packet it has accepted, and each bit of the
\* replay window stands for a packet that was.
ReceiverInv ==
    /\ sent <= MaxPackets
    /\ receiver.replaySeen = receiver.initialized
    /\ receiver.initialized = FALSE => receiver.roc = 0
    /\ receiver.roc < RocMod - 1
    /\ receiver.initialized = TRUE => receiver.replayHighest = Position(receiver)
    /\ \A d \in receiver.replayWindow :
        \E q \in accepted : IndexOf(q) = receiver.replayHighest - d

\* The stream is too short for the rollover counter to reach its last value.
ShortStream == MaxPackets <= (RocMod - 2) * SeqRange

\* The order of indexes is that of the counters first.
LEMMA RocOrder ==
    ASSUME NEW v \in Nat, NEW w \in Nat, v < w,
           NEW s \in 0..(SeqRange - 1), NEW t \in 0..(SeqRange - 1)
    PROVE  PacketIndex(v, s) < PacketIndex(w, t)
<1>1. SeqRange \in Nat
  BY SrtpAssumption DEF SeqRange
<1>2. v * SeqRange \in Nat /\ w * SeqRange \in Nat /\ (v + 1) * SeqRange = v * SeqRange + SeqRange
  BY <1>1
<1>3. (v + 1) * SeqRange <= w * SeqRange
  BY <1>1
<1> QED
  BY <1>1, <1>2, <1>3 DEF PacketIndex

\* Packets with the same index are the same packet.
LEMMA IndexInjective ==
    ASSUME NEW p \in Packet, NEW q \in Packet, IndexOf(p) = IndexOf(q)
    PROVE  p = q
<1>1. /\ p.roc \in Nat /\ p.seq \in 0..(SeqRange - 1)
      /\ q.roc \in Nat /\ q.seq \in 0..(SeqRange - 1)
  BY PacketFacts, SrtpAssumption
<1>2. PacketIndex(p.roc, p.seq) = PacketIndex(q.roc, q.seq)
  BY DEF IndexOf
<1>3. PacketIndex(p.roc, p.seq) \in Nat /\ PacketIndex(q.roc, q.seq) \in Nat
  BY PacketFacts DEF IndexOf
<1>4. p.roc = q.roc
  <2>1. ~(p.roc < q.roc)
    BY <1>1, <1>2, <1>3, RocOrder
  <2>2. ~(q.roc < p.roc)
    BY <1>1, <1>2, <1>3, RocOrder
  <2> QED
    BY <1>1, <2>1, <2>2
<1>5. p.seq = q.seq
  <2> DEFINE base == p.roc * SeqRange
  <2>1. base \in Nat
    BY <1>1, SrtpAssumption DEF SeqRange
  <2>2. base + p.seq = base + q.seq
    BY <1>2, <1>4, Zenon DEF PacketIndex
  <2> HIDE DEF base
  <2> QED
    BY <1>1, <2>1, <2>2, SrtpAssumption DEF SeqRange
<1> QED
  BY <1>4, <1>5 DEF Packet

\* Every packet on the wire is from before the counter's last value.
LEMMA LowRoc ==
    ASSUME TypeOK, IndexInv, ShortStream, sent <= MaxPackets, NEW p \in wire
    PROVE  p.roc < RocMod - 1
<1> DEFINE below == (RocMod - 2) * SeqRange
           top == (RocMod - 1) * SeqRange
<1>1. /\ RocMod \in Nat /\ RocMod > 1 /\ SeqRange \in Nat /\ SeqRange > 1
      /\ sent \in Nat /\ MaxPackets \in Nat /\ p \in Packet
  BY SrtpAssumption, PacketsAssumption DEF SeqRange, TypeOK
<1>2. below \in Nat /\ top \in Nat /\ top = below + SeqRange
  <2>1. RocMod - 2 \in Nat
    BY <1>1
  <2>2. ((RocMod - 2) + 1) * SeqRange = (RocMod - 2) * SeqRange + SeqRange
    BY <1>1, <2>1
  <2>3. (RocMod - 2) + 1 = RocMod - 1
    BY <1>1
  <2> QED
    BY <1>1, <2>1, <2>2, <2>3
<1>3. sent <= below
  BY <1>1, <1>2 DEF ShortStream
<1> HIDE DEF below, top
<1>4. sent < top
  BY <1>1, <1>2, <1>3
<1>5. sent > 0
  <2>1. IsFiniteSet(wire) /\ Cardinality(wire) = sent
    BY <1>4 DEF IndexInv, top
  <2>2. Cardinality(wire) # 0
    BY <2>1, FS_EmptySet
  <2> QED
    BY <1>1, <2>1, <2>2
<1>6. IndexOf(p) <= Position(sender) /\ Position(sender) <= sent + SeqRange - 2
  BY <1>4, <1>5 DEF IndexInv, top
<1>7. Position(sender) \in Nat /\ IndexOf(p) \in Nat
  <2>1. sender.roc \in Nat /\ sender.lastSeq \in Nat
    BY <1>1 DEF TypeOK, Context
  <2> QED
    BY <1>1, <2>1, IndexType, PacketFacts DEF Position
<1>8. IndexOf(p) < top
  BY <1>1, <1>2, <1>3, <1>6, <1>7
<1>9. p.roc \in 0..(RocMod - 1) /\ p.seq \in 0..(SeqRange - 1)
  BY <1>1, PacketFacts
<1>10. p.roc # RocMod - 1
  <2>1. p.roc = RocMod - 1 => IndexOf(p) = top + p.seq
    BY Zenon DEF IndexOf, PacketIndex, top
  <2> QED
    BY <1>1, <1>2, <1>7, <1>8, <1>9, <2>1
<1> QED
  BY <1>1, <1>9, <1>10

\* The receiver's position after Unprotect has returned a packet.
LEMMA AcceptMoves ==
    ASSUME NEW c \in Context, NEW p \in Packet, Accepts(c, p),
           p.roc < RocMod - 1, c.roc < RocMod - 1, c.replaySeen = c.initialized,
           c.initialized = FALSE => c.roc = 0,
           c.initialized = TRUE => c.replayHighest = Position(c)
    PROVE  LET e == Unprotect(c, p) IN
           /\ e.initialized = TRUE /\ e.replaySeen = TRUE /\ e.roc \in {c.roc, p.roc}
           /\ e.replayHighest = Position(e)
           /\ \A d \in e.replayWindow :
                \/ e.replayHighest - d = IndexOf(p)
                \/ \E b \in c.replayWindow : e.replayHighest - d = c.replayHighest - b
<1> DEFINE d == CommitRoc(c, p.roc, p.seq)
           i == IndexOf(p)
           e == Unprotect(c, p)
<1>1. /\ RocMod \in Nat /\ RocMod > 1 /\ SeqRange \in Nat /\ SeqRange > 1
      /\ c.roc \in 0..(RocMod - 1) /\ c.lastSeq \in 0..(SeqRange - 1)
      /\ c.initialized \in BOOLEAN /\ c.replayHighest \in Nat
      /\ c.replayWindow \subseteq 0..(ReplayWindowSize - 1) /\ ReplayWindowSize \in Nat
      /\ p.roc \in 0..(RocMod - 1) /\ p.seq \in 0..(SeqRange - 1) /\ i \in Nat
  BY SrtpAssumption, PacketFacts DEF SeqRange, Context
<1>2. e = ReplayUpdate(d, i)
  BY DEF Unprotect, IndexOf
<1>3. /\ d.replayHighest = c.replayHighest /\ d.replayWindow = c.replayWindow
      /\ d.replaySeen = c.replaySeen /\ DOMAIN d = DOMAIN c
  BY CommitKeepsWindow
<1>4. DOMAIN c = {"roc", "lastSeq", "initialized", "replayHighest", "replayWindow",
                  "replaySeen"}
  BY DEF Context
<1>5. EstimateRoc(c, p.seq) = p.roc
  BY DEF Accepts
<1>6. /\ e.roc = d.roc /\ e.lastSeq = d.lastSeq /\ e.initialized = d.initialized
      /\ e.replaySeen = TRUE
  <2> HIDE DEF d, i, e
  <2> QED
    BY <1>2, <1>3, <1>4 DEF ReplayUpdate
<1>61. ASSUME ~c.replaySeen
       PROVE  e.replayHighest = i /\ e.replayWindow = {0}
  <2> HIDE DEF d, i, e
  <2> QED
    BY <1>2, <1>3, <1>4, <1>61 DEF ReplayUpdate
<1>62. ASSUME c.replaySeen, i > c.replayHighest
       PROVE  /\ e.replayHighest = i
              /\ e.replayWindow = Shift(c.replayWindow, i - c.replayHighest) \cup {0}
  <2> HIDE DEF d, i, e
  <2> QED
    BY <1>2, <1>3, <1>4, <1>62 DEF ReplayUpdate
<1>63. ASSUME c.replaySeen, ~(i > c.replayHighest)
       PROVE  /\ e.replayHighest = c.replayHighest
              /\ e.replayWindow = c.replayWindow \cup {c.replayHighest - i}
  <2> HIDE DEF d, i, e
  <2> QED
    BY <1>2, <1>3, <1>4, <1>63 DEF ReplayUpdate
<1>7. \A x \in e.replayWindow :
        \/ e.replayHighest - x = i
        \/ \E b \in c.replayWindow : e.replayHighest - x = c.replayHighest - b
  <2> HIDE DEF d, i, e
  <2>1. CASE ~c.replaySeen
    BY <1>1, <1>61, <2>1
  <2>2. CASE c.replaySeen /\ i > c.replayHighest
    <3> SUFFICES ASSUME NEW x \in e.replayWindow
                 PROVE  \/ e.replayHighest - x = i
                        \/ \E b \in c.replayWindow : e.replayHighest - x = c.replayHighest - b
      OBVIOUS
    <3>0. /\ e.replayHighest = i
          /\ e.replayWindow = Shift(c.replayWindow, i - c.replayHighest) \cup {0}
      BY <1>62, <2>2
    <3>1. x = 0 \/ (x \in 0..(ReplayWindowSize - 1) /\ x - (i - c.replayHighest) \in c.replayWindow)
      BY <3>0 DEF Shift
    <3>2. CASE x = 0
      BY <1>1, <3>0, <3>2
    <3>3. CASE x \in 0..(ReplayWindowSize - 1) /\ x - (i - c.replayHighest) \in c.replayWindow
      <4>1. e.replayHighest - x = c.replayHighest - (x - (i - c.replayHighest))
        BY <1>1, <3>0, <3>3
      <4> QED
        BY <3>3, <4>1
    <3> QED
      BY <3>1, <3>2, <3>3
  <2>3. CASE c.replaySeen /\ ~(i > c.replayHighest)
    <3>0. /\ e.replayHighest = c.replayHighest
          /\ e.replayWindow = c.replayWindow \cup {c.replayHighest - i}
      BY <1>63, <2>3
    <3> QED
      BY <1>1, <3>0
  <2> QED
    BY <2>1, <2>2, <2>3
<1>8. e.initialized = TRUE /\ e.replaySeen = TRUE /\ e.roc \in {c.roc, p.roc}
        /\ e.replayHighest = Position(e)
  <2>1. CASE c.initialized = FALSE
    <3>1. d.roc = c.roc /\ d.lastSeq = p.seq /\ d.initialized = TRUE
      BY <2>1 DEF CommitRoc, Context
    <3>2. p.roc = c.roc
      BY <1>5, <2>1 DEF EstimateRoc
    <3> HIDE DEF d, e
    <3> QED
      BY <1>6, <1>61, <2>1, <3>1, <3>2 DEF Position, IndexOf
  <2>2. CASE c.initialized = TRUE /\ p.roc = c.roc
    <3>1. /\ d.roc = c.roc /\ d.initialized = TRUE
          /\ d.lastSeq = IF p.seq > c.lastSeq THEN p.seq ELSE c.lastSeq
      <4>1. CASE p.seq > c.lastSeq
        <5>1. d = [c EXCEPT !.lastSeq = p.seq]
          BY <2>2, <4>1 DEF CommitRoc
        <5> HIDE DEF d
        <5> QED
          BY <1>4, <2>2, <4>1, <5>1
      <4>2. CASE ~(p.seq > c.lastSeq)
        <5>0. p.roc # Plus1(c.roc)
          BY <1>1, <2>2 DEF Plus1
        <5>1. d.roc = c.roc /\ d.initialized = TRUE /\ d.lastSeq = c.lastSeq
          BY <1>4, <2>2, <4>2, <5>0 DEF CommitRoc
        <5> HIDE DEF d
        <5> QED
          BY <4>2, <5>1
      <4> QED
        BY <4>1, <4>2
    <3>2. i > c.replayHighest <=> p.seq > c.lastSeq
      <4> DEFINE base == c.roc * SeqRange
      <4>1. base \in Nat
        BY <1>1
      <4>2. i = base + p.seq /\ c.replayHighest = base + c.lastSeq
        BY <2>2, Zenon DEF IndexOf, Position, PacketIndex
      <4> HIDE DEF base, i
      <4> QED
        BY <1>1, <4>1, <4>2
    <3> HIDE DEF d, e
    <3>3. CASE p.seq > c.lastSeq
      BY <1>6, <1>62, <2>2, <3>1, <3>2, <3>3 DEF Position, IndexOf
    <3>4. CASE ~(p.seq > c.lastSeq)
      <4> HIDE DEF i
      <4> QED
        BY <1>6, <1>63, <2>2, <3>1, <3>2, <3>4 DEF Position
    <3> QED
      BY <3>3, <3>4
  <2>3. CASE c.initialized = TRUE /\ p.roc # c.roc /\ p.roc = Plus1(c.roc)
    <3>1. p.roc = c.roc + 1
      BY <1>1, <2>3 DEF Plus1
    <3>2. d.roc = p.roc /\ d.initialized = TRUE /\ d.lastSeq = p.seq
      BY <2>3 DEF CommitRoc, Context
    <3>3. i > c.replayHighest
      <4>1. PacketIndex(c.roc, c.lastSeq) < PacketIndex(p.roc, p.seq)
        BY <1>1, <3>1, RocOrder
      <4>2. c.replayHighest < i
        BY <2>3, <4>1 DEF Position, IndexOf
      <4> HIDE DEF i
      <4> QED
        BY <1>1, <4>2
    <3> HIDE DEF d, e
    <3> QED
      BY <1>6, <1>62, <2>3, <3>2, <3>3 DEF Position, IndexOf
  <2>4. CASE c.initialized = TRUE /\ p.roc # c.roc /\ p.roc # Plus1(c.roc)
    <3>1. p.roc = Minus1(c.roc)
      BY <1>5, <2>4 DEF EstimateRoc
    <3>2. p.roc = c.roc - 1
      BY <1>1, <3>1 DEF Minus1
    <3>3. d = c
      BY <2>4 DEF CommitRoc
    <3>4. ~(i > c.replayHighest)
      <4>1. PacketIndex(p.roc, p.seq) < PacketIndex(c.roc, c.lastSeq)
        BY <1>1, <3>2, RocOrder
      <4>2. i < c.replayHighest
        BY <2>4, <4>1 DEF Position, IndexOf
      <4> HIDE DEF i
      <4> QED
        BY <1>1, <4>2
    <3> HIDE DEF d, e, i
    <3> QED
      BY <1>6, <1>63, <2>4, <3>3, <3>4 DEF Position
  <2> QED
    BY <1>1, <2>1, <2>2, <2>3, <2>4
<1> QED
  BY <1>7, <1>8

\* ReceiverInv is inductive.
LEMMA ReceiverStep ==
    ASSUME ShortStream, TypeOK, IndexInv, ReceiverInv, [Next]_vars
    PROVE  ReceiverInv'
<1>1. CASE Send
  <2>1. sent' <= MaxPackets
    BY <1>1, PacketsAssumption DEF Send, TypeOK
  <2> QED
    BY <1>1, <2>1 DEF Send, ReceiverInv, Position
<1>2. CASE UNCHANGED vars
  BY <1>2 DEF vars, ReceiverInv, Position
<1>3. ASSUME NEW p \in wire, Receive(p) PROVE ReceiverInv'
  <2>1. CASE ~Accepts(receiver, p)
    BY <1>3, <2>1 DEF Receive, Unprotect, ReceiverInv, Position
  <2>2. CASE Accepts(receiver, p)
    <3>1. /\ receiver \in Context /\ p \in Packet /\ accepted \subseteq Packet
          /\ sent <= MaxPackets
      BY DEF TypeOK, ReceiverInv
    <3>2. p.roc < RocMod - 1
      BY <3>1, LowRoc
    <3>3. /\ receiver' = Unprotect(receiver, p) /\ accepted' = accepted \cup {p}
          /\ sent' = sent
      BY <1>3, <2>2 DEF Receive
    <3>4. /\ receiver'.initialized = TRUE /\ receiver'.replaySeen = TRUE
          /\ receiver'.roc \in {receiver.roc, p.roc}
          /\ receiver'.replayHighest = Position(receiver')
          /\ \A x \in receiver'.replayWindow :
              \/ receiver'.replayHighest - x = IndexOf(p)
              \/ \E b \in receiver.replayWindow :
                    receiver'.replayHighest - x = receiver.replayHighest - b
      <4>1. /\ receiver.roc < RocMod - 1 /\ receiver.replaySeen = receiver.initialized
            /\ receiver.initialized = FALSE => receiver.roc = 0
            /\ receiver.initialized = TRUE => receiver.replayHighest = Position(receiver)
        BY DEF ReceiverInv
      <4>2. LET e == Unprotect(receiver, p) IN
            /\ e.initialized = TRUE /\ e.replaySeen = TRUE /\ e.roc \in {receiver.roc, p.roc}
            /\ e.replayHighest = Position(e)
            /\ \A x \in e.replayWindow :
                \/ e.replayHighest - x = IndexOf(p)
                \/ \E b \in receiver.replayWindow :
                      e.replayHighest - x = receiver.replayHighest - b
        BY <2>2, <3>1, <3>2, <4>1, AcceptMoves
      <4> QED
        BY <3>3, <4>2
    <3>5. \A x \in receiver'.replayWindow :
            \E q \in accepted' : IndexOf(q) = receiver'.replayHighest - x
      BY <3>3, <3>4 DEF ReceiverInv
    <3>6. receiver'.roc < RocMod - 1
      BY <3>2, <3>4 DEF ReceiverInv
    <3>7. (receiver.replayHighest)' = (Position(receiver))'
      BY <3>4 DEF Position
    <3> QED
      BY <3>1, <3>3, <3>4, <3>5, <3>6, <3>7 DEF ReceiverInv
  <2> QED
    BY <2>1, <2>2
<1> QED
  BY <1>1, <1>2, <1>3 DEF Next

\* A packet that comes for the first time is accepted when it is near enough to the newest
\* one accepted: Unprotect refuses no genuine packet inside its window, across wraps of the
\* sequence number, for sequence numbers, counters and windows of any size, as long as the
\* stream is too short for the rollover counter to reach its last value.
THEOREM NewPacketsAccepted ==
    ASSUME ShortStream
    PROVE  Spec => []FreshIsAccepted
<1>1. Init => ReceiverInv
  BY SrtpAssumption, PacketsAssumption DEF Init, ReceiverInv, NewSrtpContext
<1>2. TypeOK /\ IndexInv /\ ReceiverInv => FreshIsAccepted
  <2> SUFFICES ASSUME TypeOK, IndexInv, ReceiverInv, NEW p \in wire \ accepted,
                      IF receiver.initialized
                      THEN /\ receiver.replayHighest - IndexOf(p) < ReplayWindowSize
                           /\ receiver.replayHighest - IndexOf(p) < Half
                           /\ IndexOf(p) - receiver.replayHighest < Half
                      ELSE p.roc = 0
               PROVE  Accepts(receiver, p)
    BY DEF FreshIsAccepted
  <2>1. /\ receiver \in Context /\ p \in Packet /\ accepted \subseteq Packet
        /\ receiver.initialized \in BOOLEAN /\ receiver.replayHighest \in Nat
        /\ receiver.replaySeen = receiver.initialized
    BY DEF TypeOK, ReceiverInv, Context
  <2>2. /\ IndexOf(p) \in Nat /\ p.roc \in 0..(RocMod - 1) /\ p.seq \in 0..(SeqRange - 1)
    BY <2>1, PacketFacts
  <2>3. CASE receiver.initialized = FALSE
    <3>1. EstimateRoc(receiver, p.seq) = receiver.roc
      BY <2>3 DEF EstimateRoc
    <3>2. receiver.roc = 0 /\ p.roc = 0
      BY <2>3 DEF ReceiverInv
    <3> QED
      BY <2>1, <2>3, <3>1, <3>2 DEF Accepts, ReplayCheck
  <2>4. CASE receiver.initialized = TRUE
    <3>1. receiver.replayHighest = PacketIndex(receiver.roc, receiver.lastSeq)
      BY <2>4 DEF ReceiverInv, Position
    <3>2. /\ receiver.replayHighest - IndexOf(p) < ReplayWindowSize
          /\ receiver.replayHighest - IndexOf(p) < Half
          /\ IndexOf(p) - receiver.replayHighest < Half
      BY <2>4
    <3>3. EstimateRoc(receiver, p.seq) = p.roc
      <4>1. /\ PacketIndex(p.roc, p.seq) - PacketIndex(receiver.roc, receiver.lastSeq) < Half
            /\ PacketIndex(receiver.roc, receiver.lastSeq) - PacketIndex(p.roc, p.seq) < Half
        BY <3>1, <3>2, Zenon DEF IndexOf
      <4> QED
        BY <2>1, <2>2, <2>4, <4>1, EstimateIsRight
    <3>4. receiver.replayHighest - IndexOf(p) \notin receiver.replayWindow
      <4> SUFFICES ASSUME receiver.replayHighest - IndexOf(p) \in receiver.replayWindow
                   PROVE  FALSE
        OBVIOUS
      <4>1. PICK q \in accepted :
              IndexOf(q) = receiver.replayHighest - (receiver.replayHighest - IndexOf(p))
        BY DEF ReceiverInv
      <4>2. IndexOf(q) = IndexOf(p)
        BY <2>1, <2>2, <4>1
      <4> QED
        BY <2>1, <4>2, IndexInjective
    <3>5. ReplayCheck(receiver, IndexOf(p))
      BY <3>2, <3>4 DEF ReplayCheck
    <3>6. ReplayCheck(receiver, PacketIndex(EstimateRoc(receiver, p.seq), p.seq))
      BY <3>3, <3>5, Zenon DEF IndexOf
    <3> QED
      BY <3>3, <3>6 DEF Accepts
  <2> QED
    BY <2>1, <2>3, <2>4
<1> QED
  BY <1>1, <1>2, ReceiverStep, IndexInduction, PTL DEF Spec

-----------------------------------------------------------------------------
(* Types.                                                                  *)

\* A goroutine that has a packet.
Working == [at : {"decrypt", "commit"}, p : Packets, seen : Nat, try : BOOLEAN]

\* The clock, and the goroutines: the packet each has was heard of in the past.
ThreadInv ==
    /\ now \in Nat /\ lockedLast \in Nat
    /\ handled \subseteq Packets
    /\ contexts \in [Ssrcs -> Context]
    /\ thread \in [Threads -> Working \cup {Idle}]
    /\ \A t \in Threads : thread[t] # Idle => thread[t].seen <= now
    /\ srtp = "none" => \A t \in Threads : thread[t] = Idle

LEMMA NewContext == NewSrtpContext \in Context
BY SrtpAssumption DEF Context, NewSrtpContext, SeqRange

\* A packet Unprotect returns is one of a stream we have the key of.
LEMMA DecodableIsGenuine ==
    ASSUME NEW c \in Context, NEW p \in Packets, Accepts(c, OnWire(p))
    PROVE  OnWire(p) \in Packet /\ IndexOf(OnWire(p)) = IndexOf(p)
<1>1. p.seq \in 0..(SeqRange - 1) /\ p.roc \in 0..(RocMod - 1) /\ RocMod \in Nat
  BY SrtpAssumption DEF Packets
<1>2. EstimateRoc(c, p.seq) \in 0..(RocMod - 1)
  <2>1. c.roc \in 0..(RocMod - 1)
    BY DEF Context
  <2>2. Plus1(c.roc) \in 0..(RocMod - 1) /\ Minus1(c.roc) \in 0..(RocMod - 1)
    BY <1>1, <2>1 DEF Plus1, Minus1
  <2> QED
    BY <2>1, <2>2 DEF EstimateRoc
<1>3. OnWire(p).seq = p.seq /\ OnWire(p).roc = EstimateRoc(c, p.seq)
  BY DEF OnWire, Accepts
<1>4. p.ssrc \notin Undecodable
  BY <1>1, <1>2, <1>3 DEF OnWire
<1>5. OnWire(p) = [seq |-> p.seq, roc |-> p.roc]
  BY <1>4 DEF OnWire
<1> QED
  BY <1>1, <1>5 DEF Packet, IndexOf

LEMMA ThreadNext == ThreadInv /\ [ReceiveNext]_receiveVars => ThreadInv'
<1> SUFFICES ASSUME ThreadInv, [ReceiveNext]_receiveVars PROVE ThreadInv'
  OBVIOUS
<1>1. CASE Tick
  <2>1. now' = now + 1 /\ UNCHANGED <<srtp, lockedLast, handled, contexts, thread>>
    BY <1>1 DEF Tick
  <2>2. ASSUME NEW t \in Threads, thread[t] # Idle PROVE thread[t].seen <= now + 1
    <3>1. thread[t] \in Working /\ thread[t].seen <= now /\ now \in Nat
      BY <2>2 DEF ThreadInv
    <3> QED
      BY <3>1 DEF Working
  <2> QED
    BY <2>1, <2>2 DEF ThreadInv
<1>2. CASE SetupSrtp \/ CleanupMedia
  BY <1>2, NewContext DEF ThreadInv, SetupSrtp, CleanupMedia
<1>3. ASSUME NEW p \in Packets, DropCopy(p) PROVE ThreadInv'
  BY <1>3 DEF ThreadInv, DropCopy, Touch
<1>4. ASSUME NEW p \in Packets, NEW t \in Threads, Arrive(t, p) PROVE ThreadInv'
  BY <1>4 DEF ThreadInv, Working, Arrive, Touch, OtherHolds
<1>5. ASSUME NEW t \in Threads, Decrypt(t) PROVE ThreadInv'
  <2>1. thread[t] # Idle /\ UNCHANGED <<now, srtp, lockedLast, handled>>
    BY <1>5 DEF Decrypt, Idle
  <2>2. thread[t] \in Working /\ thread[t].p \in Packets /\ thread[t].p.ssrc \in Ssrcs
    BY <2>1 DEF ThreadInv, Working, Packets
  <2>3. CASE Decodes(thread[t].p)
    <3>1. /\ contexts' = [contexts EXCEPT ![thread[t].p.ssrc] =
                             Unprotect(contexts[thread[t].p.ssrc], OnWire(thread[t].p))]
          /\ thread' = [thread EXCEPT ![t] = [thread[t] EXCEPT !.at = "commit"]]
      BY <1>5, <2>3 DEF Decrypt
    <3>2. Unprotect(contexts[thread[t].p.ssrc], OnWire(thread[t].p)) \in Context
      BY <2>2, <2>3, DecodableIsGenuine, UnprotectType DEF ThreadInv, Decodes
    <3>3. /\ [thread[t] EXCEPT !.at = "commit"] \in Working
          /\ [thread[t] EXCEPT !.at = "commit"].seen = thread[t].seen
      BY <2>2 DEF Working
    <3> QED
      BY <2>1, <2>2, <3>1, <3>2, <3>3 DEF ThreadInv
  <2>4. CASE ~Decodes(thread[t].p)
    BY <1>5, <2>1, <2>4 DEF ThreadInv, Decrypt
  <2> QED
    BY <2>3, <2>4
<1>6. ASSUME NEW t \in Threads, Commit(t) PROVE ThreadInv'
  BY <1>6 DEF ThreadInv, Working, Commit, Idle
<1>7. CASE UNCHANGED receiveVars
  BY <1>7 DEF ThreadInv, receiveVars
<1> QED
  BY <1>1, <1>2, <1>3, <1>4, <1>5, <1>6, <1>7 DEF ReceiveNext

-----------------------------------------------------------------------------
(* Each packet once.                                                       *)

\* The packets of a stream that Unprotect has returned.
Taken(s) == {p \in handled \cup {thread[t].p : t \in Committing} : p.ssrc = s}

\* While the keys last, the replay window of each stream knows what was taken, in whichever
\* goroutine's hands it still is; before there are keys, nothing is.
TakenInv ==
    /\ srtp = "none" => handled = {}
    /\ srtp = "up" => \A s \in Ssrcs : Knows(contexts[s], {IndexOf(p) : p \in Taken(s)})
    /\ HandledOnce

\* Steps that leave alone what was taken.
LEMMA TakenKept ==
    ASSUME TakenInv, UNCHANGED <<srtp, contexts, handled, Committing>>,
           \A t \in Committing : thread'[t].p = thread[t].p
    PROVE  TakenInv'
<1>1. \A s : Taken(s)' = Taken(s)
  BY DEF Taken
<1>2. HandledOnce'
  BY DEF TakenInv, HandledOnce
<1>3. ASSUME srtp' = "up", NEW s \in Ssrcs
      PROVE  Knows(contexts[s], {IndexOf(p) : p \in Taken(s)})'
  <2>1. Knows(contexts[s], {IndexOf(p) : p \in Taken(s)})
    BY <1>3 DEF TakenInv
  <2> QED
    BY <1>1, <2>1, Zenon
<1> QED
  BY <1>2, <1>3 DEF TakenInv

LEMMA TakenIndexes ==
    ASSUME ThreadInv, NEW s
    PROVE  {IndexOf(p) : p \in Taken(s)} \in SUBSET Nat
<1>1. \A t \in Committing : thread[t].p \in Packets
  BY DEF ThreadInv, Committing, Idle, Working
<1>2. ASSUME NEW p \in Packets PROVE IndexOf(p) \in Nat
  <2>1. p.roc \in 0..(RocMod - 1) /\ p.seq \in 0..(SeqRange - 1)
    BY DEF Packets
  <2>2. RocMod \in Nat /\ SeqRange \in Nat
    BY SrtpAssumption DEF SeqRange
  <2>3. p.roc \in Nat /\ p.seq \in Nat
    BY <2>1, <2>2
  <2> QED
    BY <2>3, IndexType DEF IndexOf
<1>3. Taken(s) \subseteq Packets
  BY <1>1 DEF Taken, ThreadInv
<1> QED
  BY <1>2, <1>3

\* Unprotect returns a packet.
LEMMA DecryptTakes ==
    ASSUME ThreadInv, TakenInv, NEW t \in Threads, Decrypt(t)
    PROVE  TakenInv'
<1>1. /\ thread[t].at = "decrypt" /\ t \notin Committing
      /\ UNCHANGED <<srtp, handled>>
  BY DEF Decrypt, Committing
<1>2. thread[t] \in Working
  BY <1>1 DEF ThreadInv, Idle
<1>3. PICK p \in Packets : p = thread[t].p
  BY <1>2 DEF Working
<1>4. CASE ~Decodes(p)
  <2>1. thread' = [thread EXCEPT ![t] = Idle] /\ UNCHANGED contexts
    BY <1>3, <1>4 DEF Decrypt
  <2>2. Committing' = Committing /\ \A u \in Committing : thread'[u] = thread[u]
    BY <1>1, <2>1 DEF Committing, Idle, ThreadInv
  <2> QED
    BY <1>1, <2>1, <2>2, TakenKept
<1>5. CASE Decodes(p)
  <2>1. /\ contexts' = [contexts EXCEPT ![p.ssrc] = Unprotect(contexts[p.ssrc], OnWire(p))]
        /\ thread' = [thread EXCEPT ![t] = [thread[t] EXCEPT !.at = "commit"]]
    BY <1>3, <1>5 DEF Decrypt
  <2>2. [thread[t] EXCEPT !.at = "commit"].at = "commit"
          /\ [thread[t] EXCEPT !.at = "commit"].p = p
    BY <1>2, <1>3 DEF Working
  <2>3. /\ Committing' = Committing \cup {t}
        /\ thread'[t].p = p /\ \A u \in Committing : thread'[u] = thread[u]
    BY <1>1, <2>1, <2>2 DEF Committing, ThreadInv
  <2>4. srtp # "none"
    BY <1>1 DEF ThreadInv, Idle
  <2>5. SUFFICES ASSUME srtp = "up"
                 PROVE  /\ \A s \in Ssrcs : Knows(contexts'[s], {IndexOf(q) : q \in Taken(s)'})
                        /\ HandledOnce'
    BY <1>1, <2>4 DEF TakenInv, HandledOnce
  <2>6. p.ssrc \in Ssrcs /\ contexts[p.ssrc] \in Context
    BY DEF ThreadInv, Packets
  <2>7. OnWire(p) \in Packet /\ IndexOf(OnWire(p)) = IndexOf(p)
    BY <1>5, <2>6, DecodableIsGenuine DEF Decodes
  <2>8. PICK known \in SUBSET Nat : known = {IndexOf(q) : q \in Taken(p.ssrc)}
    BY TakenIndexes
  <2>9. Knows(contexts[p.ssrc], known)
    BY <2>5, <2>6, <2>8 DEF TakenInv
  <2>10. IndexOf(p) \notin known
    BY <1>5, <2>6, <2>7, <2>9, WindowRefuses DEF Decodes
  <2>11. p \notin handled /\ \A u \in Committing : thread[u].p # p
    BY <2>8, <2>10 DEF Taken
  <2>12. HandledOnce'
    BY <1>1, <2>3, <2>5, <2>11 DEF TakenInv, HandledOnce
  <2>13. Knows(contexts'[p.ssrc], known \cup {IndexOf(p)})
    <3>1. Knows(Unprotect(contexts[p.ssrc], OnWire(p)), known \cup {IndexOf(p)})
      BY <1>5, <2>6, <2>7, <2>9, WindowLearns DEF Decodes
    <3> QED
      BY <2>1, <2>6, <3>1 DEF ThreadInv
  <2>14. Taken(p.ssrc)' = Taken(p.ssrc) \cup {p}
    BY <1>1, <2>3 DEF Taken
  <2>15. ASSUME NEW s \in Ssrcs, s # p.ssrc
         PROVE  contexts'[s] = contexts[s] /\ Taken(s)' = Taken(s)
    BY <1>1, <2>1, <2>3, <2>15 DEF Taken, ThreadInv
  <2>16. {IndexOf(q) : q \in Taken(p.ssrc)'} = known \cup {IndexOf(p)}
    BY <2>8, <2>14
  <2>17. Knows(contexts'[p.ssrc], {IndexOf(q) : q \in Taken(p.ssrc)'})
    BY <2>13, <2>16, Zenon
  <2>18. ASSUME NEW s \in Ssrcs PROVE Knows(contexts'[s], {IndexOf(q) : q \in Taken(s)'})
    <3>1. CASE s = p.ssrc
      BY <2>17, <3>1
    <3>2. CASE s # p.ssrc
      <4>1. Knows(contexts[s], {IndexOf(q) : q \in Taken(s)})
        BY <2>5 DEF TakenInv
      <4> QED
        BY <2>15, <3>2, <4>1, Zenon
    <3> QED
      BY <3>1, <3>2
  <2> QED
    BY <2>12, <2>18
<1> QED
  BY <1>4, <1>5

LEMMA TakenNext == ThreadInv /\ TakenInv /\ [ReceiveNext]_receiveVars => TakenInv'
<1> SUFFICES ASSUME ThreadInv, TakenInv, [ReceiveNext]_receiveVars PROVE TakenInv'
  OBVIOUS
<1>1. ASSUME UNCHANGED <<srtp, contexts, handled, thread>> PROVE TakenInv'
  BY <1>1, TakenKept DEF Committing
<1>2. CASE SetupSrtp
  <2>1. handled = {} /\ \A t \in Threads : thread[t] = Idle
    BY <1>2 DEF SetupSrtp, ThreadInv, TakenInv
  <2>2. srtp' = "up" /\ UNCHANGED <<handled, thread>>
    BY <1>2 DEF SetupSrtp
  <2>3. Committing' = {} /\ \A s : Taken(s)' = {}
    BY <2>1, <2>2 DEF Committing, Taken, Idle
  <2>4. \A s : Knows(contexts'[s], {})
    BY DEF Knows
  <2>5. \A s : {IndexOf(p) : p \in Taken(s)'} = {}
    BY <2>3
  <2>6. \A s : Knows(contexts'[s], {IndexOf(p) : p \in Taken(s)'})
    BY <2>4, <2>5, Zenon
  <2> QED
    BY <2>2, <2>3, <2>6 DEF TakenInv, HandledOnce
<1>3. CASE CleanupMedia
  BY <1>3 DEF CleanupMedia, TakenInv, HandledOnce
<1>4. ASSUME NEW p \in Packets, NEW t \in Threads, Arrive(t, p) PROVE TakenInv'
  <2>1. UNCHANGED <<srtp, contexts, handled>> /\ thread[t] = Idle
    BY <1>4 DEF Arrive
  <2>2. CASE srtp # "up"
    BY <1>1, <1>4, <2>1, <2>2 DEF Arrive
  <2>3. CASE srtp = "up"
    <3>1. PICK w : w.at = "decrypt" /\ thread' = [thread EXCEPT ![t] = w]
      <4>1. thread' = [thread EXCEPT ![t] = [at |-> "decrypt", p |-> p, seen |-> now,
                                             try |-> OtherHolds(p)]]
        BY <1>4, <2>3 DEF Arrive
      <4>2. [at |-> "decrypt", p |-> p, seen |-> now, try |-> OtherHolds(p)].at = "decrypt"
        OBVIOUS
      <4> QED
        BY <4>1, <4>2
    <3>2. Committing' = Committing /\ \A u \in Committing : thread'[u] = thread[u]
      BY <2>1, <3>1 DEF Committing, Idle, ThreadInv
    <3> QED
      BY <2>1, <3>2, TakenKept
  <2> QED
    BY <2>2, <2>3
<1>5. ASSUME NEW t \in Threads, Commit(t) PROVE TakenInv'
  <2>1. /\ t \in Committing /\ UNCHANGED <<srtp, contexts>>
        /\ handled' = handled \cup {thread[t].p}
        /\ thread' = [thread EXCEPT ![t] = Idle]
    BY <1>5 DEF Commit, Committing
  <2>2. Committing' = Committing \ {t} /\ \A u \in Committing \ {t} : thread'[u] = thread[u]
    BY <2>1 DEF Committing, Idle, ThreadInv
  <2>3. \A s : Taken(s)' = Taken(s)
    BY <2>1, <2>2 DEF Taken
  <2>4. HandledOnce'
    BY <2>1, <2>2 DEF TakenInv, HandledOnce
  <2>5. srtp # "none"
    BY <2>1 DEF ThreadInv, Committing, Idle
  <2>6. ASSUME srtp = "up", NEW s \in Ssrcs
        PROVE  Knows(contexts'[s], {IndexOf(p) : p \in Taken(s)'})
    <3>1. Knows(contexts[s], {IndexOf(p) : p \in Taken(s)})
      BY <2>6 DEF TakenInv
    <3> QED
      BY <2>1, <2>3, <3>1, Zenon
  <2> QED
    BY <2>1, <2>4, <2>5, <2>6 DEF TakenInv
<1>6. CASE Tick \/ \E p \in Packets : DropCopy(p)
  BY <1>1, <1>6 DEF Tick, DropCopy
<1>7. CASE UNCHANGED receiveVars
  BY <1>1, <1>7 DEF receiveVars
<1> QED
  BY <1>2, <1>3, <1>4, <1>5, <1>6, <1>7, DecryptTakes DEF ReceiveNext

LEMMA ReceiveInduction == ReceiveSpec => [](ThreadInv /\ TakenInv)
<1>1. ReceiveInit => ThreadInv /\ TakenInv
  <2> SUFFICES ASSUME ReceiveInit PROVE ThreadInv /\ TakenInv
    OBVIOUS
  <2>1. ThreadInv
    BY NewContext DEF ReceiveInit, ThreadInv
  <2>2. Committing = {}
    BY DEF ReceiveInit, Committing, Idle
  <2>3. TakenInv
    BY <2>2 DEF ReceiveInit, TakenInv, HandledOnce
  <2> QED
    BY <2>1, <2>3
<1> QED
  BY <1>1, ThreadNext, TakenNext, PTL DEF ReceiveSpec

\* While the call keeps its keys no packet is handed to an extension twice, also one whose
\* key the dedup ring has forgotten, for any number of relays that bring copies: the replay
\* windows of the streams and the order of decryption and hand-over see to it
\* (CallManager.onRelayData, SrtpManager.Unprotect).
THEOREM PacketsHandledOnce == ReceiveSpec => []HandledOnce
<1>1. TakenInv => HandledOnce
  BY DEF TakenInv
<1> QED
  BY <1>1, ReceiveInduction, PTL

\* The lock on a stream goes to another one only if the holder is silent at that moment,
\* however long ago the packet that takes it came: the second look at rxLockedLastNs in
\* onRelayData is enough, for any number of relays.
THEOREM LockStays == ReceiveSpec => LockNotStolen
<1>1. ASSUME ThreadInv, [ReceiveNext]_receiveVars, locked # NoSsrc, locked' # locked,
             srtp' # "closed"
      PROVE  Silent
  <2>1. PICK t \in Threads : Commit(t)
    BY <1>1 DEF ReceiveNext, receiveVars, Tick, SetupSrtp, CleanupMedia, DropCopy, Arrive,
       Decrypt
  <2>2. thread[t] \in Working /\ thread[t].seen <= now
    BY <2>1, <1>1 DEF Commit, ThreadInv, Idle
  <2>3. thread[t].seen - lockedLast > FailoverSilence
    BY <1>1, <2>1 DEF Commit, MayLock
  <2> QED
    BY <1>1, <2>2, <2>3, MediaAssumption DEF Silent, ThreadInv, Working
<1> QED
  BY <1>1, ReceiveInduction, PTL DEF LockNotStolen, ReceiveSpec

-----------------------------------------------------------------------------
(* The frames of audio packets: where the peer lays them and where the      *)
(* readers look for them.                                                  *)

Octet == 0..255

\* A frame of the peer: a TOC byte and at most 254 others.
Bytes == {f \in Seq(Octet) : Len(f) > 0 /\ Len(f) <= 255}

\* The steps of the reader, and the reader.
Steps == {"idle", "whole", "opus", "split", "headers", "blocks", "done", "failed"}

ScanType ==
    [step : Steps, cur : Nat \ {0}, rem : Nat, sizes : Seq(Octet), frames : Seq(Seq(Octet))]

PacketTyped ==
    /\ payload \in Seq(Octet)
    /\ carried \in Seq(Bytes)
    /\ laid \in Seq(Nat) /\ Len(laid) <= Len(carried)
    /\ format \in {"none", "bare", "container", "red"}
    /\ scan \in ScanType

\* Nothing is read of a packet that is not complete.
PacketFresh ==
    /\ format = "none" => carried = <<>> /\ laid = <<>> /\ scan.step = "idle"
    /\ scan.step = "idle" => scan = NothingRead /\ played = <<>>
    /\ scan.step # "idle" => Complete

\* The bytes of frame j are in the payload behind laid[j], as far as the payload goes.
InPlace(j) ==
    \A i \in 1..Len(carried[j]) :
        laid[j] + i <= Len(payload) => payload[laid[j] + i] = carried[j][i]

\* A bare frame is the payload, and comes out as decodeFrame or the other decoder says,
\* unless it was taken for a container.
BareSound ==
    format = "bare" =>
        /\ Len(carried) = 1 /\ carried[1] = payload /\ Len(laid) = 1
        /\ scan.step \in {"idle", "split", "whole", "opus", "done"}
        /\ scan.step = "split" => played = <<>>
        /\ scan.step = "whole" => played = <<decodeFrame(payload)>>
        /\ scan.step = "opus" =>
            /\ IsStandardOpusFrame(payload[1])
            /\ \E k \in {"opus", "silence"} :
                    played = <<[kind |-> k, ms |-> ParseSmplTOC(payload[1]).ms]>>

\* The byte with the length of a frame of a container: the last one has none.
Gap(j) == IF j < Len(carried) THEN 1 ELSE 0

\* Where the frames of a container are and where their lengths.
ContainerLaid ==
    format = "container" =>
        /\ Len(carried) \in 2..MaxContained
        /\ Len(payload) >= 2 /\ payload[1] = 146 /\ payload[2] = Len(carried)
        /\ Len(laid) = 0 => Len(payload) = 2
        /\ Len(laid) > 0 =>
            /\ laid[1] = 3
            /\ Len(payload) = laid[Len(laid)] + Len(carried[Len(laid)])
        /\ \A j \in 1..Len(laid) :
            /\ InPlace(j) /\ laid[j] > 2 /\ laid[j] + Len(carried[j]) <= Len(payload)
            /\ j < Len(carried) => payload[laid[j]] = Len(carried[j])
            /\ j < Len(laid) => laid[j + 1] = laid[j] + Len(carried[j]) + Gap(j + 1)

\* The scanner has found the frames it has passed, and stands at the next one.
ContainerRead ==
    format = "container" =>
        /\ scan.step \in {"idle", "split", "done"}
        /\ scan.step = "split" =>
            LET f == Len(scan.frames) + 1 IN
            /\ f <= Len(carried) /\ scan.rem = Len(carried) + 1 - f /\ played = <<>>
            /\ scan.cur = laid[f] + 1 - Gap(f)
            /\ \A j \in 1..f - 1 : scan.frames[j] = carried[j]
        /\ scan.step = "done" => played = [i \in 1..Len(carried) |-> decodeFrame(carried[i])]

\* Where the headers and the blocks of a packet with redundancy are, as far as it was not
\* cut: the blocks follow each other in the order of the headers.
RedLaid ==
    format = "red" =>
        LET n == Len(carried) IN
        /\ n >= 2 /\ n <= 128 /\ played = <<>>
        /\ \A j \in 1..n - 1 :
            /\ 2 * j - 1 <= Len(payload) => payload[2 * j - 1] = 128 + j
            /\ 2 * j <= Len(payload) => payload[2 * j] = Len(carried[j])
        /\ 2 * n - 1 <= Len(payload) => payload[2 * n - 1] = 0
        /\ Len(laid) = 0 => Len(payload) = 2 * n - 1
        /\ Len(laid) > 0 => laid[1] = 2 * n - 1
        /\ Len(laid) \in 1..n - 1 => Len(payload) = laid[Len(laid)] + Len(carried[Len(laid)])
        /\ Len(laid) = n => Len(payload) <= MainEnds
        /\ \A j \in 1..Len(laid) :
            /\ InPlace(j) /\ laid[j] >= 2 * n - 1 /\ laid[j] <= laid[Len(laid)]
            /\ j < Len(laid) => laid[j + 1] = laid[j] + Len(carried[j])

\* The sizes read are those of the blocks, and what is left is what they leave.
RedRead ==
    format = "red" =>
        LET n == Len(carried)
            f == Len(scan.frames) + 1
            h == Len(scan.sizes) + 1
        IN
        /\ scan.step \in {"idle", "headers", "blocks", "done", "failed"}
        /\ scan.step \in {"headers", "blocks"} => \A j \in 1..h - 1 : scan.sizes[j] = Len(carried[j])
        /\ scan.step = "headers" =>
            /\ h <= n /\ f = 1 /\ scan.cur = 2 * h - 1
            /\ scan.rem = Len(payload) - 2 * (h - 1) - (laid[h] - laid[1])
        /\ scan.step = "blocks" =>
            /\ h = n /\ f <= n /\ scan.cur = laid[f] + 1
            /\ scan.rem = Len(payload) - MainBegins /\ Len(payload) > MainBegins
            /\ \A j \in 1..f - 1 : scan.frames[j] = carried[j]
        /\ scan.step = "done" =>
            /\ Len(payload) > MainBegins
            /\ Len(payload) = MainEnds => scan.frames = carried
        /\ scan.step = "failed" => Len(payload) < MainEnds

\* The inductive invariant.
PacketInv ==
    /\ PacketTyped /\ PacketFresh /\ BareSound
    /\ ContainerLaid /\ ContainerRead /\ RedLaid /\ RedRead

-----------------------------------------------------------------------------
(* Bytes, frames and the first byte of a frame.                            *)

\* A number is a byte exactly when it is at most 255.
LEMMA OctetIs == \A x \in Nat : x \in Octet <=> x <= 255
BY DEF Octet

\* A byte is a number.
LEMMA OctetNat == \A x \in Octet : x \in Nat
BY DEF Octet

\* The bytes of a frame that are in place are what a slice of the payload returns.
LEMMA Extract ==
    ASSUME NEW p \in Seq(Octet), NEW c \in Seq(Octet), NEW a \in Nat, a + Len(c) <= Len(p),
           \A i \in 1..Len(c) : p[a + i] = c[i]
    PROVE  SubSeq(p, a + 1, a + Len(c)) = c
<1> DEFINE e == a + Len(c)
           s == SubSeq(p, a + 1, e)
<1>1. e \in Int /\ a + 1 \in Int /\ Len(c) = e - (a + 1) + 1 /\ Len(c) \in Nat
    OBVIOUS
<1>2. \A i \in a + 1..e : p[i] \in Octet
    <2> TAKE i \in a + 1..e
    <2>1. i \in 1..Len(p)
        OBVIOUS
    <2> QED BY <2>1, ElementOfSeq
<1> HIDE DEF e
<1>3. /\ s \in Seq(Octet)
      /\ Len(s) = IF a + 1 <= e THEN e - (a + 1) + 1 ELSE 0
      /\ \A i \in 1..e - (a + 1) + 1 : s[i] = p[a + 1 + i - 1]
    BY <1>1, <1>2, SubSeqProperties
<1> HIDE DEF s
<1>4. Len(s) = Len(c)
    BY <1>1, <1>3
<1>5. \A i \in 1..Len(c) : s[i] = c[i]
    <2> TAKE i \in 1..Len(c)
    <2>1. a + 1 + i - 1 = a + i /\ i \in 1..e - (a + 1) + 1
        BY <1>1
    <2> QED BY <2>1, <1>3
<1>6. s = c
    BY <1>3, <1>4, <1>5, SeqEqual
<1> QED BY <1>6 DEF s, e

\* A frame has a TOC byte, and its length fits a byte.
LEMMA BytesOf ==
    ASSUME NEW f \in Bytes
    PROVE  f \in Seq(Octet) /\ Len(f) \in Nat /\ Len(f) > 0 /\ Len(f) <= 255 /\ f # <<>> /\ f[1] \in Octet
<1>1. f \in Seq(Octet) /\ Len(f) \in Nat /\ Len(f) > 0 /\ Len(f) <= 255
    BY DEF Bytes
<1>2. f # <<>>
    BY <1>1, EmptySeq
<1>3. f[1] \in Octet
    <2>1. 1 \in 1..Len(f)
        BY <1>1
    <2> QED BY <1>1, <2>1, ElementOfSeq
<1> QED BY <1>1, <1>2, <1>3

\* The frames of the peer are frames.
LEMMA FramesAreBytes == ASSUME NEW f \in Frames PROVE f \in Bytes
<1>1. f \in Seq(Octet) /\ Len(f) \in 1..255
    BY PacketAssumption DEF Octet
<1>2. Len(f) \in Nat
    BY <1>1
<1>3. \A n \in 1..255 : n > 0 /\ n <= 255
    OBVIOUS
<1> QED BY <1>1, <1>2, <1>3 DEF Bytes

\* A TOC byte alone is a frame.
LEMMA ByteIsBytes == ASSUME NEW b \in Octet PROVE <<b>> \in Bytes
BY DEF Bytes

\* What ParseSmplTOC returns: a standard Opus frame is never active.
LEMMA TocTyped ==
    ASSUME NEW b
    PROVE  LET t == ParseSmplTOC(b)
           IN t.active \in BOOLEAN /\ t.low \in BOOLEAN /\ t.opus \in BOOLEAN
              /\ (t.opus => ~t.active)
<1>1. CASE IsStandardOpusFrame(b)
    BY <1>1, SMT DEF ParseSmplTOC
<1>2. CASE ~IsStandardOpusFrame(b)
    BY <1>2, SMT DEF ParseSmplTOC, Bit
<1> QED BY <1>1, <1>2

\* decodeFrame gives a frame its own time, and audio exactly when it is active audio of
\* 60 ms at 16 kHz and the high rate.
LEMMA DecodeFrameSays ==
    ASSUME NEW f \in Bytes
    PROVE  LET t == ParseSmplTOC(f[1])
               whole == t.active /\ t.ms = 60 /\ t.rate = 16000 /\ ~t.low
           IN /\ decodeFrame(f).ms = t.ms
              /\ (decodeFrame(f).kind = "active") = whole
              /\ decodeFrame(f).kind # "opus"
<1> DEFINE t == ParseSmplTOC(f[1])
           whole == t.active /\ t.ms = 60 /\ t.rate = 16000 /\ ~t.low
           out == t.opus \/ ~t.active \/ t.rate # 16000 \/ t.low \/ t.ms # 60
<1>1. f # <<>>
    BY BytesOf
<1>2. /\ out => decodeFrame(f).kind = "silence" /\ decodeFrame(f).ms = t.ms
      /\ ~out => decodeFrame(f).kind = "active" /\ decodeFrame(f).ms = 60
    BY <1>1, SMT DEF decodeFrame
<1>3. t.active \in BOOLEAN /\ t.low \in BOOLEAN /\ t.opus \in BOOLEAN /\ (t.opus => ~t.active)
    BY TocTyped
<1>4. out = ~whole
    BY <1>3
<1>5. CASE out
    BY <1>2, <1>4, <1>5
<1>6. CASE ~out
    BY <1>2, <1>4, <1>6
<1> QED BY <1>5, <1>6

-----------------------------------------------------------------------------
(* The peer writes a packet.                                               *)

\* Before the first packet nothing is written or read.
LEMMA PacketInitSound == PacketInit => PacketInv
<1> SUFFICES ASSUME PacketInit PROVE PacketInv
    OBVIOUS
<1>1. payload = <<>> /\ carried = <<>> /\ laid = <<>> /\ format = "none" /\ scan = NothingRead /\ played = <<>>
    BY DEF PacketInit
<1>2. PacketTyped
    BY <1>1 DEF PacketTyped, ScanType, NothingRead, Steps
<1>3. PacketFresh
    BY <1>1 DEF PacketFresh, NothingRead
<1> QED BY <1>1, <1>2, <1>3 DEF PacketInv, BareSound, ContainerLaid, ContainerRead, RedLaid, RedRead

\* The invariant says what was played and what was split.
LEMMA PacketSays == PacketInv => EachFramePlayed
<1> SUFFICES ASSUME PacketInv PROVE EachFramePlayed
    OBVIOUS
<1> USE DEF PacketInv
<1>t. PacketTyped /\ Len(carried) \in Nat /\ \A i \in 1..Len(carried) : carried[i] \in Bytes
    BY DEF PacketTyped
<1>1. ASSUME played # <<>>, ~Ambiguous, NEW i \in 1..Len(carried)
      PROVE  /\ Len(played) = Len(carried)
             /\ LET toc == ParseSmplTOC(carried[i][1])
                    whole == toc.active /\ toc.ms = 60 /\ toc.rate = 16000 /\ ~toc.low
                IN /\ played[i].ms = toc.ms
                   /\ (played[i].kind = "active") = whole
                   /\ played[i].kind = "opus" => toc.opus /\ format = "bare"
    <2> DEFINE toc == ParseSmplTOC(carried[i][1])
               whole == toc.active /\ toc.ms = 60 /\ toc.rate = 16000 /\ ~toc.low
    <2>1. format \in {"bare", "container"}
        <3>1. format = "none" => scan.step = "idle"
            BY DEF PacketFresh
        <3>2. scan.step # "idle"
            BY <1>1 DEF PacketFresh
        <3>3. format # "red"
            BY <1>1 DEF RedLaid
        <3> QED BY <3>1, <3>2, <3>3, <1>t DEF PacketTyped
    <2>2. ASSUME Len(played) = Len(carried), played[i] = decodeFrame(carried[i])
          PROVE  /\ played[i].ms = toc.ms
                 /\ (played[i].kind = "active") = whole
                 /\ played[i].kind = "opus" => toc.opus /\ format = "bare"
        <3> HIDE DEF PacketInv
        <3> QED BY <2>2, <1>t, DecodeFrameSays
    <2>3. CASE format = "container"
        <3>1. scan.step = "done"
            BY <2>3, <1>1 DEF ContainerRead, PacketFresh
        <3>2. played = [k \in 1..Len(carried) |-> decodeFrame(carried[k])]
            BY <2>3, <3>1 DEF ContainerRead
        <3>3. Len(played) = Len(carried) /\ played[i] = decodeFrame(carried[i])
            BY <3>2, <1>t
        <3> QED BY <3>3, <2>2
    <2>4. CASE format = "bare"
        <3>1. scan.step \in {"whole", "opus"} /\ Len(carried) = 1 /\ carried[1] = payload /\ i = 1
            <4>1. scan.step # "idle" /\ scan.step # "split" /\ scan.step # "done"
                BY <2>4, <1>1 DEF BareSound, PacketFresh, Ambiguous
            <4>2. /\ Len(carried) = 1 /\ carried[1] = payload
                  /\ scan.step \in {"idle", "split", "whole", "opus", "done"}
                BY <2>4 DEF BareSound
            <4>3. i = 1
                BY <4>2, <1>1
            <4> QED BY <4>1, <4>2, <4>3
        <3>2. CASE scan.step = "whole"
            <4>1. played = <<decodeFrame(carried[1])>>
                BY <2>4, <3>2, <3>1 DEF BareSound
            <4>2. Len(played) = Len(carried) /\ played[i] = decodeFrame(carried[i])
                BY <4>1, <3>1
            <4> QED BY <4>2, <2>2
        <3>3. CASE scan.step = "opus"
            <4>1. IsStandardOpusFrame(carried[1][1])
                BY <2>4, <3>3, <3>1 DEF BareSound
            <4>2. PICK k \in {"opus", "silence"} :
                    played = <<[kind |-> k, ms |-> ParseSmplTOC(carried[1][1]).ms]>>
                BY <2>4, <3>3, <3>1 DEF BareSound
            <4>3. Len(played) = Len(carried) /\ played[i].kind = k /\ played[i].ms = toc.ms
                BY <4>2, <3>1
            <4>4. toc.opus /\ ~toc.active
                BY <4>1, <3>1 DEF ParseSmplTOC
            <4> QED BY <4>3, <4>4, <2>4
        <3> QED BY <3>1, <3>2, <3>3
    <2> QED BY <2>1, <2>3, <2>4
<1>2. played # <<>> => Len(carried) > 0
    <2>1. format = "none" => played = <<>>
        BY DEF PacketFresh
    <2>2. format = "red" => played = <<>>
        BY DEF RedLaid
    <2> QED BY <1>t, <2>1, <2>2 DEF PacketTyped, BareSound, ContainerLaid
<1>3. ASSUME format = "red", scan.step \in {"done", "failed"}
      PROVE  /\ Len(payload) = MainEnds => scan.step = "done" /\ scan.frames = carried
             /\ Len(payload) <= MainBegins => scan.step = "failed"
    <2>1. Len(laid) = Len(carried) /\ Len(carried) >= 2
        BY <1>3 DEF PacketFresh, Complete, RedLaid
    <2>2. MainBegins \in Nat /\ MainEnds \in Nat /\ Len(payload) \in Nat /\ MainBegins < MainEnds
        <3> HIDE DEF PacketInv
        <3> DEFINE n == Len(carried)
        <3>1. laid[n] \in Nat /\ n \in 1..Len(carried) /\ Len(payload) \in Nat
            BY <2>1, <1>t, ElementOfSeq DEF PacketTyped
        <3>2. Len(carried[n]) \in Nat /\ Len(carried[n]) > 0
            BY <3>1, <1>t, BytesOf
        <3> HIDE DEF n
        <3>3. MainBegins = laid[n] /\ MainEnds = MainBegins + Len(carried[n])
            BY DEF MainBegins, MainEnds, n
        <3> QED BY ONLY <3>1, <3>2, <3>3
    <2> HIDE DEF PacketInv
    <2>3. RedRead
        BY DEF PacketInv
    <2>4. /\ scan.step = "done" => /\ Len(payload) > MainBegins
                                   /\ Len(payload) = MainEnds => scan.frames = carried
          /\ scan.step = "failed" => Len(payload) < MainEnds
        BY <1>3, <2>3 DEF RedRead
    <2>5. CASE scan.step = "done"
        <3>1. Len(payload) > MainBegins /\ (Len(payload) = MainEnds => scan.frames = carried)
            BY ONLY <2>4, <2>5
        <3>2. ~(Len(payload) <= MainBegins)
            BY ONLY <3>1, <2>2
        <3> QED BY ONLY <3>1, <3>2, <2>5
    <2>6. CASE scan.step = "failed"
        <3>1. Len(payload) < MainEnds
            BY ONLY <2>4, <2>6
        <3>2. Len(payload) # MainEnds
            BY ONLY <3>1, <2>2
        <3> QED BY ONLY <3>2, <2>6
    <2> QED BY <1>3, <2>5, <2>6
<1> QED BY <1>1, <1>2, <1>3, <1>t DEF EachFramePlayed

\* A bare frame is its own payload.
LEMMA BareOK ==
    ASSUME PacketInv, NEW f \in Bytes, Bare(f)
    PROVE  PacketInv'
<1>1. /\ format = "none" /\ format' = "bare" /\ payload' = f /\ carried' = <<f>> /\ laid' = <<0>>
      /\ scan' = scan /\ played' = played
    BY DEF Bare, Start
<1>2. scan = NothingRead /\ played = <<>> /\ PacketTyped
    BY <1>1 DEF PacketInv, PacketFresh
<1>3. PacketTyped'
    <2>1. f \in Seq(Octet) /\ <<f>> \in Seq(Bytes) /\ <<0>> \in Seq(Nat)
        BY BytesOf
    <2>2. Len(laid') <= Len(carried')
        BY <1>1
    <2>3. scan' \in ScanType
        BY <1>1, <1>2 DEF PacketTyped
    <2> QED BY <1>1, <2>1, <2>2, <2>3 DEF PacketTyped
<1>4. scan'.step = "idle"
    BY <1>1, <1>2 DEF NothingRead
<1>5. PacketFresh'
    BY <1>1, <1>2, <1>4 DEF PacketFresh, NothingRead
<1>6. BareSound'
    BY <1>1, <1>4 DEF BareSound
<1> QED BY <1>1, <1>3, <1>5, <1>6 DEF PacketInv, ContainerLaid, ContainerRead, RedLaid, RedRead

\* The frames of a packet are a sequence of frames whose number fits the formats.
LEMMA FewFrames ==
    ASSUME NEW n \in 2..PerPacket, NEW fs \in [1..n -> Frames]
    PROVE  fs \in Seq(Bytes) /\ Len(fs) = n /\ n \in 2..MaxContained /\ n <= 128 /\ n <= 255
<1>1. n \in Nat /\ n >= 2 /\ n <= MaxContained /\ n <= 128 /\ n <= 255 /\ MaxContained \in Nat
    BY PacketAssumption
<1>2. \A i \in 1..n : fs[i] \in Bytes
    BY FramesAreBytes
<1>3. fs \in Seq(Bytes) /\ Len(fs) = n
    BY <1>1, <1>2, IsASeq
<1> QED BY <1>1, <1>3

\* The beginning of a container.
LEMMA ContainerOK ==
    ASSUME PacketInv, NEW n \in 2..PerPacket, NEW fs \in [1..n -> Frames], Container(fs)
    PROVE  PacketInv'
<1>f. fs \in Seq(Bytes) /\ Len(fs) = n /\ n \in 2..MaxContained /\ n <= 128 /\ n <= 255
    BY FewFrames
<1>1. /\ format = "none" /\ format' = "container" /\ payload' = <<146, n>> /\ carried' = fs
      /\ laid' = laid /\ scan' = scan /\ played' = played
    BY <1>f DEF Container, Start
<1>2. scan = NothingRead /\ played = <<>> /\ laid = <<>> /\ PacketTyped
    BY <1>1 DEF PacketInv, PacketFresh
<1>3. PacketTyped'
    <2>1. <<146, n>> \in Seq(Octet)
        <3>1. 146 \in Octet /\ n \in Octet
            BY <1>f DEF Octet
        <3> QED BY <3>1
    <2>2. Len(laid') <= Len(carried') /\ laid' \in Seq(Nat)
        BY <1>1, <1>2, <1>f
    <2>3. scan' \in ScanType
        BY <1>1, <1>2 DEF PacketTyped
    <2> QED BY <1>1, <1>f, <2>1, <2>2, <2>3 DEF PacketTyped
<1>4. scan'.step = "idle"
    BY <1>1, <1>2 DEF NothingRead
<1>5. PacketFresh'
    BY <1>1, <1>2, <1>4 DEF PacketFresh, NothingRead
<1>6. ContainerRead'
    BY <1>1, <1>4 DEF ContainerRead
<1>7. ContainerLaid'
    <2>1. Len(laid') = 0 /\ Len(payload') = 2 /\ payload'[1] = 146 /\ payload'[2] = Len(carried')
        BY <1>1, <1>2, <1>f
    <2>2. Len(carried') \in 2..MaxContained
        BY <1>1, <1>f
    <2>3. \A j \in 1..Len(laid') : FALSE
        BY <2>1
    <2> QED BY <2>1, <2>2, <2>3 DEF ContainerLaid
<1> QED BY <1>1, <1>3, <1>5, <1>6, <1>7 DEF PacketInv, BareSound, RedLaid, RedRead

\* The headers of a packet with redundancy, byte by byte.
LEMMA HeadersAre ==
    ASSUME NEW fs \in Seq(Bytes), Len(fs) >= 2, Len(fs) <= 128
    PROVE  /\ Headers(fs) \in Seq(Octet) /\ Len(Headers(fs)) = 2 * Len(fs) - 1
           /\ \A j \in 1..Len(fs) - 1 :
                Headers(fs)[2 * j - 1] = 128 + j /\ Headers(fs)[2 * j] = Len(fs[j])
           /\ Headers(fs)[2 * Len(fs) - 1] = 0
<1> DEFINE n == Len(fs)
           h == Headers(fs)
<1>1. n \in Nat /\ n >= 2 /\ n <= 128 /\ \A j \in 1..n : fs[j] \in Bytes
    BY ElementOfSeq
<1>2. h = [i \in 1..2 * n - 1 |->
             IF i = 2 * n - 1 THEN 0
             ELSE IF i % 2 = 1 THEN 128 + (i + 1) \div 2 ELSE Len(fs[i \div 2])]
    BY DEF Headers
<1> HIDE DEF n, h
<1>3. h[2 * n - 1] = 0
    BY <1>1, <1>2
<1>4. ASSUME NEW j \in 1..n - 1
      PROVE  h[2 * j - 1] = 128 + j /\ h[2 * j] = Len(fs[j])
    <2>1. /\ 2 * j - 1 \in 1..2 * n - 1 /\ 2 * j - 1 # 2 * n - 1
          /\ (2 * j - 1) % 2 = 1 /\ ((2 * j - 1) + 1) \div 2 = j
        BY <1>1
    <2>2. /\ 2 * j \in 1..2 * n - 1 /\ 2 * j # 2 * n - 1
          /\ (2 * j) % 2 = 0 /\ (2 * j) \div 2 = j
        BY <1>1
    <2>3. h[2 * j - 1] = 128 + j
        BY <2>1, <1>2
    <2>4. h[2 * j] = Len(fs[j])
        BY <2>2, <1>2
    <2> QED BY <2>3, <2>4
<1>5. ASSUME NEW i \in 1..2 * n - 1
      PROVE  h[i] \in Octet
    <2>1. CASE i = 2 * n - 1
        BY <2>1, <1>3 DEF Octet
    <2>2. CASE i # 2 * n - 1 /\ i % 2 = 1
        <3>1. PICK j \in 1..n - 1 : i = 2 * j - 1
            <4>1. (i + 1) \div 2 \in 1..n - 1 /\ i = 2 * ((i + 1) \div 2) - 1
                BY <2>2, <1>1
            <4> QED BY <4>1
        <3>2. h[i] = 128 + j /\ 128 + j \in Octet
            <4>1. h[i] = 128 + j
                BY <3>1, <1>4
            <4>2. 128 + j \in Nat /\ 128 + j <= 255
                BY <1>1
            <4> QED BY <4>1, <4>2, OctetIs
        <3> QED BY <3>2
    <2>3. CASE i # 2 * n - 1 /\ i % 2 # 1
        <3>1. PICK j \in 1..n - 1 : i = 2 * j
            <4>1. i \div 2 \in 1..n - 1 /\ i = 2 * (i \div 2)
                BY <2>3, <1>1
            <4> QED BY <4>1
        <3>2. h[i] = Len(fs[j])
            BY <3>1, <1>4
        <3>3. fs[j] \in Bytes
            BY <1>1
        <3>4. Len(fs[j]) \in Nat /\ Len(fs[j]) <= 255
            BY <3>3, BytesOf
        <3> QED BY <3>2, <3>4, OctetIs
    <2> QED BY <2>1, <2>2, <2>3
<1>6. h \in Seq(Octet) /\ Len(h) = 2 * n - 1
    <2>1. 2 * n - 1 \in Nat
        BY <1>1
    <2>2. h \in [1..2 * n - 1 -> Octet]
        BY <1>2, <1>5
    <2> QED BY <2>1, <2>2
<1> QED BY <1>3, <1>4, <1>6 DEF n, h

\* The beginning of a packet with redundancy.
LEMMA RedundantOK ==
    ASSUME PacketInv, NEW n \in 2..PerPacket, NEW fs \in [1..n -> Frames], Redundant(fs)
    PROVE  PacketInv'
<1>f. fs \in Seq(Bytes) /\ Len(fs) = n /\ n \in 2..MaxContained /\ n <= 128
    BY FewFrames
<1>1. /\ format = "none" /\ format' = "red" /\ payload' = Headers(fs) /\ carried' = fs
      /\ laid' = laid /\ scan' = scan /\ played' = played
    BY <1>f DEF Redundant, Start
<1>2. scan = NothingRead /\ played = <<>> /\ laid = <<>> /\ PacketTyped
    BY <1>1 DEF PacketInv, PacketFresh
<1>h. /\ payload' \in Seq(Octet) /\ Len(payload') = 2 * n - 1
      /\ \A j \in 1..n - 1 : payload'[2 * j - 1] = 128 + j /\ payload'[2 * j] = Len(carried'[j])
      /\ payload'[2 * n - 1] = 0
    <2>1. Len(fs) >= 2 /\ Len(fs) <= 128
        BY <1>f
    <2>2. /\ Headers(fs) \in Seq(Octet) /\ Len(Headers(fs)) = 2 * Len(fs) - 1
          /\ \A j \in 1..Len(fs) - 1 :
                Headers(fs)[2 * j - 1] = 128 + j /\ Headers(fs)[2 * j] = Len(fs[j])
          /\ Headers(fs)[2 * Len(fs) - 1] = 0
        BY <1>f, <2>1, HeadersAre
    <2> QED BY <1>1, <1>f, <2>2
<1>3. PacketTyped'
    <2>2. Len(laid') <= Len(carried') /\ laid' \in Seq(Nat)
        BY <1>1, <1>2, <1>f
    <2>3. scan' \in ScanType
        BY <1>1, <1>2 DEF PacketTyped
    <2> QED BY <1>1, <1>f, <1>h, <2>2, <2>3 DEF PacketTyped
<1>4. scan'.step = "idle"
    BY <1>1, <1>2 DEF NothingRead
<1>5. PacketFresh'
    BY <1>1, <1>2, <1>4 DEF PacketFresh, NothingRead
<1>6. RedRead'
    BY <1>1, <1>4 DEF RedRead
<1>7. RedLaid'
    <2>1. Len(laid') = 0 /\ Len(carried') = n /\ n >= 2 /\ played' = <<>> /\ n \in Nat
        BY <1>1, <1>2, <1>f
    <2>2. \A j \in 1..Len(laid') : FALSE
        BY <2>1
    <2>3. Len(laid') \notin 1..n - 1 /\ Len(laid') # n
        BY <2>1
    <2> QED BY <2>1, <2>2, <2>3, <1>h, <1>f DEF RedLaid
<1> QED BY <1>1, <1>3, <1>5, <1>6, <1>7 DEF PacketInv, BareSound, ContainerLaid, ContainerRead

\* Where the bytes are after a frame, and perhaps its length, is appended.
LEMMA Grown ==
    ASSUME NEW p \in Seq(Octet), NEW z \in Seq(Octet), NEW c \in Seq(Octet), NEW q,
           q = (p \o z) \o c
    PROVE  /\ q \in Seq(Octet) /\ Len(q) = Len(p) + Len(z) + Len(c)
           /\ \A i \in 1..Len(p) : q[i] = p[i]
           /\ Len(z) = 1 => q[Len(p) + 1] = z[1]
           /\ \A i \in 1..Len(c) : q[Len(p) + Len(z) + i] = c[i]
<1> DEFINE r == p \o z
           l == Len(p)
           m == Len(z)
           o == Len(c)
<1>1. l \in Nat /\ m \in Nat /\ o \in Nat
    OBVIOUS
<1>2. r \in Seq(Octet) /\ Len(r) = l + m /\ \A i \in 1..l + m : r[i] = IF i <= l THEN p[i] ELSE z[i - l]
    BY ConcatProperties
<1> HIDE DEF r
<1>3. q \in Seq(Octet) /\ Len(q) = Len(r) + o
      /\ \A i \in 1..Len(r) + o : q[i] = IF i <= Len(r) THEN r[i] ELSE c[i - Len(r)]
    BY <1>2, ConcatProperties DEF r
<1> HIDE DEF l, m, o
<1>4. \A i \in 1..l : q[i] = p[i]
    BY ONLY <1>1, <1>2, <1>3
<1>5. m = 1 => q[l + 1] = z[1]
    BY ONLY <1>1, <1>2, <1>3
<1>6. \A i \in 1..o : q[l + m + i] = c[i]
    <2> TAKE i \in 1..o
    <2>1. l + m + i \in 1..Len(r) + o /\ ~(l + m + i <= Len(r)) /\ (l + m + i) - Len(r) = i
        BY ONLY <1>1, <1>2
    <2> QED BY <2>1, <1>3
<1> QED BY <1>2, <1>3, <1>4, <1>5, <1>6 DEF l, m, o

\* What PutFrame changes.
LEMMA PutFrameIs ==
    ASSUME PacketInv, PutFrame
    PROVE  /\ format \in {"container", "red"} /\ format' = format /\ carried' = carried
           /\ scan' = scan /\ scan = NothingRead /\ played' = played /\ played = <<>>
           /\ Len(laid) + 1 <= Len(carried)
           /\ LET k == Len(laid) + 1
                  c == carried[k]
                  z == IF format = "container" /\ k < Len(carried) THEN 1 ELSE 0
                  l == Len(payload)
              IN /\ c \in Bytes
                 /\ payload' \in Seq(Octet) /\ Len(payload') = l + z + Len(c)
                 /\ \A i \in 1..l : payload'[i] = payload[i]
                 /\ z = 1 => payload'[l + 1] = Len(c)
                 /\ \A i \in 1..Len(c) : payload'[l + z + i] = c[i]
                 /\ laid' \in Seq(Nat) /\ Len(laid') = k /\ laid'[k] = l + z
                 /\ \A j \in 1..Len(laid) : laid'[j] = laid[j]
<1> DEFINE k == Len(laid) + 1
           c == carried[k]
           size == IF format = "container" /\ k < Len(carried) THEN <<Len(c)>> ELSE <<>>
           z == IF format = "container" /\ k < Len(carried) THEN 1 ELSE 0
           l == Len(payload)
<1>1. /\ k <= Len(carried) /\ payload' = (payload \o size) \o c
      /\ laid' = Append(laid, Len(payload) + Len(size))
      /\ format' = format /\ carried' = carried /\ scan' = scan /\ played' = played
    BY DEF PutFrame
<1>2. PacketTyped /\ Len(laid) \in Nat /\ Len(carried) \in Nat /\ l \in Nat
    BY DEF PacketInv, PacketTyped
<1>3. format \in {"container", "red"}
    <2>1. format # "none"
        BY <1>1, <1>2 DEF PacketInv, PacketFresh
    <2>2. format # "bare"
        BY <1>1, <1>2 DEF PacketInv, BareSound
    <2> QED BY <2>1, <2>2, <1>2 DEF PacketTyped
<1>4. scan = NothingRead /\ played = <<>>
    BY <1>1, <1>2 DEF PacketInv, PacketFresh, Complete
<1>5. c \in Bytes
    BY <1>1, <1>2, ElementOfSeq DEF PacketTyped
<1>6. c \in Seq(Octet) /\ Len(c) \in Nat /\ Len(c) \in Octet
    BY <1>5, BytesOf, OctetIs
<1>7. size \in Seq(Octet) /\ Len(size) = z /\ (z = 1 => size[1] = Len(c)) /\ z \in Nat
    <2> HIDE DEF c
    <2> QED BY <1>6
<1>8. /\ payload' \in Seq(Octet) /\ Len(payload') = l + z + Len(c)
      /\ \A i \in 1..l : payload'[i] = payload[i]
      /\ z = 1 => payload'[l + 1] = Len(c)
      /\ \A i \in 1..Len(c) : payload'[l + z + i] = c[i]
    <2>1. payload \in Seq(Octet)
        BY <1>2 DEF PacketTyped
    <2>2. payload' = (payload \o size) \o c
        BY <1>1
    <2>3. size \in Seq(Octet) /\ c \in Seq(Octet)
        BY <1>6, <1>7
    <2> HIDE DEF c, size, z, l
    <2>4. /\ payload' \in Seq(Octet) /\ Len(payload') = Len(payload) + Len(size) + Len(c)
          /\ \A i \in 1..Len(payload) : payload'[i] = payload[i]
          /\ Len(size) = 1 => payload'[Len(payload) + 1] = size[1]
          /\ \A i \in 1..Len(c) : payload'[Len(payload) + Len(size) + i] = c[i]
        BY ONLY <2>1, <2>2, <2>3, Grown
    <2> QED BY <2>4, <1>7 DEF l
<1>9. laid' \in Seq(Nat) /\ Len(laid') = k /\ laid'[k] = l + z /\ \A j \in 1..Len(laid) : laid'[j] = laid[j]
    <2>1. laid \in Seq(Nat) /\ l + z \in Nat /\ laid' = Append(laid, l + z)
        BY <1>1, <1>2, <1>7 DEF PacketTyped
    <2> HIDE DEF z, l
    <2> QED BY <2>1, AppendProperties
<1> QED BY <1>1, <1>3, <1>4, <1>5, <1>8, <1>9

\* The frames that are in the payload stay in place when the next one is put behind them.
LEMMA PutFrameOK == PacketInv /\ PutFrame => PacketInv'
<1> SUFFICES ASSUME PacketInv, PutFrame PROVE PacketInv'
    OBVIOUS
<1>0. PICK k \in Nat : k = Len(laid) + 1
    BY DEF PacketInv, PacketTyped
<1> DEFINE n == Len(carried)
           c == carried[k]
           z == IF format = "container" /\ k < Len(carried) THEN 1 ELSE 0
           l == Len(payload)
<1>1. /\ format \in {"container", "red"} /\ format' = format /\ carried' = carried
      /\ scan' = scan /\ scan = NothingRead /\ played' = played /\ played = <<>>
      /\ k <= n
    BY <1>0, PutFrameIs
<1>2. /\ c \in Bytes
      /\ payload' \in Seq(Octet) /\ Len(payload') = l + z + Len(c)
      /\ \A i \in 1..l : payload'[i] = payload[i]
      /\ z = 1 => payload'[l + 1] = Len(c)
      /\ \A i \in 1..Len(c) : payload'[l + z + i] = c[i]
      /\ laid' \in Seq(Nat) /\ Len(laid') = k /\ laid'[k] = l + z
      /\ \A j \in 1..Len(laid) : laid'[j] = laid[j]
    BY <1>0, PutFrameIs
<1>3. PacketTyped /\ Len(laid) \in Nat /\ n \in Nat /\ l \in Nat /\ k = Len(laid) + 1 /\ z \in {0, 1}
    BY <1>0 DEF PacketInv, PacketTyped
<1>4. \A j \in 1..Len(laid) : laid[j] \in Nat /\ carried[j] \in Bytes
    BY <1>1, <1>3, ElementOfSeq DEF PacketTyped
<1>5. Len(c) \in Nat /\ Len(c) > 0 /\ \A j \in 1..Len(laid) : Len(carried[j]) \in Nat /\ Len(carried[j]) > 0
    BY <1>2, <1>4, BytesOf
<1>t. PacketTyped'
    BY <1>1, <1>2, <1>3 DEF PacketTyped
<1>i. scan'.step = "idle"
    BY <1>1 DEF NothingRead
<1>f. PacketFresh'
    <2>1. scan' = NothingRead /\ played' = <<>> /\ format' # "none"
        BY <1>1
    <2> QED BY <2>1, <1>i DEF PacketFresh, NothingRead
<1>6. InPlace(k)'
    <2>1. carried'[k] = c /\ laid'[k] = l + z
        BY <1>1, <1>2
    <2> QED BY <2>1, <1>2 DEF InPlace
<1>7. CASE format = "container"
    <2>1. /\ n \in 2..MaxContained
          /\ l >= 2 /\ payload[1] = 146 /\ payload[2] = n
          /\ Len(laid) = 0 => l = 2
          /\ Len(laid) > 0 =>
            /\ laid[1] = 3
            /\ l = laid[Len(laid)] + Len(carried[Len(laid)])
        BY <1>7 DEF PacketInv, ContainerLaid
    <2>2. \A j \in 1..Len(laid) :
            /\ InPlace(j) /\ laid[j] > 2 /\ laid[j] + Len(carried[j]) <= l
            /\ j < n => payload[laid[j]] = Len(carried[j])
            /\ j < Len(laid) => laid[j + 1] = laid[j] + Len(carried[j]) + Gap(j + 1)
        BY <1>7 DEF PacketInv, ContainerLaid
    <2>3. z = Gap(k) /\ (z = 1 <=> k < n)
        BY <1>7, <1>3 DEF Gap
    <2>4. laid'[1] = 3
        <3>1. CASE Len(laid) = 0
            <4>1. l = 2 /\ k = 1 /\ z = 1
                BY <3>1, <2>1, <2>3, <1>3
            <4> QED BY <4>1, <1>2
        <3>2. CASE Len(laid) > 0
            <4>1. 1 \in 1..Len(laid)
                BY <3>2, <1>3
            <4>2. laid'[1] = laid[1]
                BY <4>1, <1>2
            <4> QED BY <3>2, <4>2, <2>1
        <3> QED BY <3>1, <3>2, <1>3
    <2>5. Len(payload') = laid'[Len(laid')] + Len(carried'[Len(laid')]) /\ Len(laid') > 0
        BY <1>1, <1>2, <1>3
    <2>6. Len(payload') >= 2 /\ payload'[1] = 146 /\ payload'[2] = Len(carried')
        <3>1. 1 \in 1..l /\ 2 \in 1..l
            BY <2>1, <1>3
        <3>2. payload'[1] = 146 /\ payload'[2] = Len(carried')
            BY <3>1, <1>1, <1>2, <2>1
        <3> HIDE DEF l, z, c
        <3> QED BY <3>2, <1>2, <1>3, <1>5, <2>1
    <2>7. ASSUME NEW j \in 1..Len(laid)
          PROVE  /\ InPlace(j)' /\ laid'[j] > 2 /\ laid'[j] + Len(carried'[j]) <= Len(payload')
                 /\ j < n => payload'[laid'[j]] = Len(carried'[j])
        <3>1. laid'[j] = laid[j] /\ carried'[j] = carried[j] /\ laid[j] \in Nat /\ Len(carried[j]) \in Nat
            BY <1>1, <1>2, <1>4, <1>5
        <3>2. InPlace(j) /\ laid[j] > 2 /\ laid[j] + Len(carried[j]) <= l
              /\ (j < n => payload[laid[j]] = Len(carried[j]))
            BY <2>2
        <3>3. laid[j] \in 1..l /\ payload'[laid[j]] = payload[laid[j]]
            <4>1. laid[j] \in 1..l
                BY <3>1, <3>2, <1>3
            <4> QED BY <4>1, <1>2
        <3>4. ASSUME NEW i \in 1..Len(carried[j])
              PROVE  payload'[laid[j] + i] = carried[j][i]
            <4>1. laid[j] + i \in 1..l
                BY <3>1, <3>2, <1>3
            <4>2. payload[laid[j] + i] = carried[j][i]
                BY <3>2, <4>1 DEF InPlace
            <4> QED BY <4>1, <4>2, <1>2
        <3>5. InPlace(j)'
            BY <3>1, <3>4 DEF InPlace
        <3>6. l <= Len(payload') /\ Len(payload') \in Nat
            <4> HIDE DEF l, z, c
            <4> QED BY ONLY <1>2, <1>3, <1>5
        <3>7. laid'[j] > 2 /\ laid'[j] + Len(carried'[j]) <= Len(payload')
            <4> HIDE DEF l
            <4> QED BY ONLY <3>1, <3>2, <3>6, <1>3
        <3> QED BY <3>1, <3>2, <3>3, <3>5, <3>7
    <2>8. /\ laid'[k] > 2 /\ laid'[k] + Len(carried'[k]) <= Len(payload')
          /\ k < n => payload'[laid'[k]] = Len(carried'[k])
        <3>1. l + z > 2
            <4>1. CASE Len(laid) = 0
                <5>1. z = 1
                    BY <4>1, <2>1, <2>3, <1>3
                <5> HIDE DEF l, z
                <5> QED BY <5>1, <2>1, <1>3
            <4>2. CASE Len(laid) > 0
                <5>1. Len(laid) \in 1..Len(laid)
                    BY <4>2, <1>3
                <5>2. laid[Len(laid)] > 2 /\ laid[Len(laid)] \in Nat /\ Len(carried[Len(laid)]) \in Nat
                    BY <5>1, <2>2, <1>4, <1>5
                <5>3. l = laid[Len(laid)] + Len(carried[Len(laid)])
                    BY <4>2, <2>1
                <5> HIDE DEF l, z
                <5> QED BY ONLY <5>2, <5>3, <1>3
            <4> QED BY <4>1, <4>2, <1>3
        <3>2. laid'[k] = l + z /\ carried'[k] = c
            BY <1>1, <1>2
        <3>3. laid'[k] + Len(carried'[k]) <= Len(payload')
            <4> HIDE DEF l, z, c
            <4> QED BY ONLY <3>2, <1>2, <1>3, <1>5
        <3>4. k < n => payload'[laid'[k]] = Len(carried'[k])
            BY <3>2, <2>3, <1>2
        <3> QED BY <3>1, <3>2, <3>3, <3>4
    <2>9. ASSUME NEW j \in 1..Len(laid), j < k
          PROVE  laid'[j + 1] = laid'[j] + Len(carried'[j]) + Gap(j + 1)'
        <3>1. laid'[j] = laid[j] /\ carried'[j] = carried[j] /\ Gap(j + 1)' = Gap(j + 1)
            BY <1>1, <1>2 DEF Gap
        <3>2. CASE j < Len(laid)
            <4>1. laid'[j + 1] = laid[j + 1]
                BY <3>2, <1>2, <1>3
            <4> QED BY <4>1, <3>1, <3>2, <2>2
        <3>3. CASE j = Len(laid)
            <4>1. j + 1 = k /\ l = laid[j] + Len(carried[j]) /\ laid'[j + 1] = l + z
                BY <3>3, <2>1, <1>2, <1>3
            <4> QED BY <4>1, <3>1, <2>3
        <3> QED BY <3>2, <3>3, <1>3
    <2>10. ContainerLaid'
        <3>1. \A j \in 1..Len(laid') :
                /\ InPlace(j)' /\ laid'[j] > 2 /\ laid'[j] + Len(carried'[j]) <= Len(payload')
                /\ j < Len(carried') => payload'[laid'[j]] = Len(carried'[j])
                /\ j < Len(laid') => laid'[j + 1] = laid'[j] + Len(carried'[j]) + Gap(j + 1)'
            <4> TAKE j \in 1..Len(laid')
            <4>1. Len(laid') = k /\ Len(carried') = n /\ (j = k \/ j \in 1..Len(laid))
                BY <1>1, <1>2, <1>3
            <4>2. CASE j = k
                <5>1. ~(j < Len(laid'))
                    BY <4>1, <4>2, <1>3
                <5> QED BY <4>1, <4>2, <5>1, <2>8, <1>6
            <4>3. CASE j \in 1..Len(laid)
                BY <4>1, <4>3, <2>7, <2>9
            <4> QED BY <4>1, <4>2, <4>3
        <3>2. Len(carried') \in 2..MaxContained /\ Len(laid') # 0
            BY <1>1, <1>2, <1>3, <2>1
        <3> QED BY <3>1, <3>2, <2>4, <2>5, <2>6 DEF ContainerLaid
    <2>11. ContainerRead'
        BY <1>i DEF ContainerRead
    <2> QED BY <1>1, <1>7, <1>t, <1>f, <2>10, <2>11 DEF PacketInv, BareSound, RedLaid, RedRead
<1>8. CASE format = "red"
    <2>z. z = 0
        BY <1>8
    <2>1. /\ n >= 2 /\ n <= 128
          /\ 2 * n - 1 <= l => payload[2 * n - 1] = 0
          /\ Len(laid) = 0 => l = 2 * n - 1
          /\ Len(laid) > 0 => laid[1] = 2 * n - 1
          /\ Len(laid) \in 1..n - 1 => l = laid[Len(laid)] + Len(carried[Len(laid)])
        BY <1>8 DEF PacketInv, RedLaid
    <2>2. \A j \in 1..Len(laid) :
            /\ InPlace(j) /\ laid[j] >= 2 * n - 1 /\ laid[j] <= laid[Len(laid)]
            /\ j < Len(laid) => laid[j + 1] = laid[j] + Len(carried[j])
        BY <1>8 DEF PacketInv, RedLaid
    <2>3. \A j \in 1..n - 1 :
            /\ 2 * j - 1 <= l => payload[2 * j - 1] = 128 + j
            /\ 2 * j <= l => payload[2 * j] = Len(carried[j])
        BY <1>8 DEF PacketInv, RedLaid
    <2>4. /\ l >= 2 * n - 1
          /\ \A j \in 1..Len(laid) :
                /\ laid[j] <= l
                /\ j < Len(laid) => laid[j] + Len(carried[j]) <= l
                /\ j = Len(laid) => laid[j] + Len(carried[j]) = l
        <3>1. CASE Len(laid) = 0
            BY <3>1, <2>1, <1>3
        <3>2. CASE Len(laid) > 0
            <4> DEFINE m == Len(laid)
            <4>1. m \in 1..n - 1 /\ m \in 1..m /\ 1 \in 1..m
                BY <3>2, <1>1, <1>3
            <4>2. l = laid[m] + Len(carried[m]) /\ laid[1] = 2 * n - 1 /\ laid[1] <= laid[m]
                BY <4>1, <3>2, <2>1, <2>2
            <4>3. laid[m] \in Nat /\ Len(carried[m]) \in Nat
                BY <4>1, <1>4, <1>5
            <4>4. ASSUME NEW j \in 1..m
                  PROVE  /\ laid[j] <= l
                         /\ j < m => laid[j] + Len(carried[j]) <= l
                         /\ j = m => laid[j] + Len(carried[j]) = l
                <5>1. laid[j] <= laid[m] /\ laid[j] \in Nat
                    BY <2>2, <1>4
                <5>2. j < m => laid[j] + Len(carried[j]) <= laid[m]
                    <6>1. SUFFICES ASSUME j < m PROVE laid[j] + Len(carried[j]) <= laid[m]
                        OBVIOUS
                    <6>2. j + 1 \in 1..m /\ laid[j + 1] = laid[j] + Len(carried[j])
                        BY <6>1, <2>2, <1>3
                    <6> QED BY <6>2, <2>2
                <5>3. Len(carried[j]) \in Nat
                    BY <1>5
                <5> HIDE DEF l, m
                <5>4. j = m => laid[j] + Len(carried[j]) = l
                    BY <4>2
                <5> QED BY ONLY <5>1, <5>2, <5>3, <5>4, <4>2, <4>3, <1>3
            <4>5. laid[1] \in Nat
                BY <4>1, <1>4
            <4>6. l >= 2 * n - 1
                <5> HIDE DEF l, n, m
                <5> QED BY ONLY <4>2, <4>3, <4>5, <1>3
            <4> QED BY <4>4, <4>6
        <3> QED BY <3>1, <3>2, <1>3
    <2>5. laid'[k] = l /\ carried'[k] = c /\ Len(payload') = l + Len(c) /\ Len(laid') = k
        <3>1. laid'[k] = l + z /\ Len(payload') = l + z + Len(c) /\ Len(laid') = k /\ carried'[k] = c
            BY <1>1, <1>2
        <3> HIDE DEF l, z, c
        <3> QED BY <3>1, <2>z, <1>3, <1>5
    <2>6. ASSUME NEW j \in 1..Len(laid)
          PROVE  /\ InPlace(j)' /\ laid'[j] >= 2 * n - 1 /\ laid'[j] <= laid'[k]
                 /\ laid'[j + 1] = laid'[j] + Len(carried'[j])
        <3>1. laid'[j] = laid[j] /\ carried'[j] = carried[j] /\ laid[j] \in Nat /\ Len(carried[j]) \in Nat
            BY <1>1, <1>2, <1>4, <1>5
        <3>2. laid[j] <= l /\ laid[j] + Len(carried[j]) <= l
            BY <2>4, <1>3
        <3>6. laid'[j] >= 2 * n - 1
            BY <3>1, <2>2
        <3>3. ASSUME NEW i \in 1..Len(carried[j])
              PROVE  payload'[laid[j] + i] = carried[j][i]
            <4>1. laid[j] + i \in 1..l
                BY <3>1, <3>2, <1>3
            <4>2. payload[laid[j] + i] = carried[j][i]
                BY <2>2, <4>1 DEF InPlace
            <4> QED BY <4>1, <4>2, <1>2
        <3>4. InPlace(j)'
            BY <3>1, <3>3 DEF InPlace
        <3>5. laid'[j + 1] = laid'[j] + Len(carried'[j])
            <4>1. CASE j < Len(laid)
                <5>1. laid'[j + 1] = laid[j + 1]
                    BY <4>1, <1>2, <1>3
                <5>2. laid[j + 1] = laid[j] + Len(carried[j])
                    BY <4>1, <2>2
                <5> QED BY <5>1, <5>2, <3>1
            <4>2. CASE j = Len(laid)
                <5>1. j + 1 = k /\ laid[j] + Len(carried[j]) = l
                    BY <4>2, <2>4, <1>3
                <5> QED BY <5>1, <3>1, <2>5
            <4> QED BY <4>1, <4>2, <1>3
        <3> QED BY <3>1, <3>2, <3>4, <3>5, <3>6, <2>5
    <2>7. laid'[1] = 2 * n - 1
        <3>1. CASE Len(laid) = 0
            BY <3>1, <2>1, <2>5, <1>3
        <3>2. CASE Len(laid) > 0
            <4>1. 1 \in 1..Len(laid)
                BY <3>2, <1>3
            <4>2. laid'[1] = laid[1]
                BY <4>1, <1>2
            <4> QED BY <3>2, <4>2, <2>1
        <3> QED BY <3>1, <3>2, <1>3
    <2>8. /\ \A j \in 1..n - 1 : payload'[2 * j - 1] = 128 + j /\ payload'[2 * j] = Len(carried'[j])
          /\ payload'[2 * n - 1] = 0
        <3>1. ASSUME NEW j \in 1..n - 1
              PROVE  payload'[2 * j - 1] = 128 + j /\ payload'[2 * j] = Len(carried'[j])
            <4>1. 2 * j - 1 \in 1..l /\ 2 * j \in 1..l /\ 2 * j - 1 <= l /\ 2 * j <= l
                <5> HIDE DEF l, n
                <5> QED BY ONLY <2>4, <1>3, j \in 1..n - 1
            <4>2. payload[2 * j - 1] = 128 + j /\ payload[2 * j] = Len(carried[j])
                BY <4>1, <2>3
            <4> QED BY <4>1, <4>2, <1>1, <1>2
        <3>2. 2 * n - 1 \in 1..l /\ payload[2 * n - 1] = 0
            BY <2>1, <2>4, <1>3
        <3> QED BY <3>1, <3>2, <1>2
    <2>9. RedLaid'
        <3>1. Len(carried') = n /\ played' = <<>> /\ Len(laid') = k /\ k > 0
            BY <1>1, <1>3, <2>5
        <3>2. Len(payload') = laid'[Len(laid')] + Len(carried'[Len(laid')]) /\ Len(payload') \in Nat
            <4> HIDE DEF l, c
            <4> QED BY <2>5, <1>3, <1>5
        <3>3. Len(laid') = n => Len(payload') <= MainEnds'
            BY <3>1, <3>2 DEF MainEnds, MainBegins
        <3>4. \A j \in 1..Len(laid') :
                /\ InPlace(j)' /\ laid'[j] >= 2 * n - 1 /\ laid'[j] <= laid'[Len(laid')]
                /\ j < Len(laid') => laid'[j + 1] = laid'[j] + Len(carried'[j])
            <4> TAKE j \in 1..Len(laid')
            <4>1. j = k \/ j \in 1..Len(laid)
                BY <3>1, <1>3
            <4>2. CASE j = k
                <5>1. ~(j < Len(laid')) /\ laid'[j] <= laid'[Len(laid')] /\ laid'[j] >= 2 * n - 1
                    BY <4>2, <3>1, <2>4, <2>5, <1>3
                <5> QED BY <4>2, <5>1, <1>6
            <4>3. CASE j \in 1..Len(laid)
                BY <4>3, <3>1, <2>6
            <4> QED BY <4>1, <4>2, <4>3
        <3> QED BY <3>1, <3>2, <3>3, <3>4, <2>1, <2>7, <2>8 DEF RedLaid
    <2>10. RedRead'
        BY <1>i DEF RedRead
    <2> QED BY <1>1, <1>8, <1>t, <1>f, <2>9, <2>10 DEF PacketInv, BareSound, ContainerLaid, ContainerRead
<1> QED BY <1>1, <1>7, <1>8

\* The bytes that are left of a packet that is cut are still in place.
LEMMA CutOK == ASSUME PacketInv, NEW m \in 0..Len(payload), Cut(m) PROVE PacketInv'
<1>1. /\ format = "red" /\ Len(laid) = Len(carried) /\ scan.step = "idle"
      /\ payload' = SubSeq(payload, 1, m)
      /\ carried' = carried /\ laid' = laid /\ format' = format /\ scan' = scan /\ played' = played
    BY DEF Cut, Complete
<1>2. PacketTyped /\ Len(payload) \in Nat /\ m \in Nat /\ payload \in Seq(Octet)
    BY DEF PacketInv, PacketTyped
<1>3. /\ payload' \in Seq(Octet) /\ Len(payload') = m
      /\ \A i \in 1..m : payload'[i] = payload[i]
    BY <1>1, <1>2
<1>4. m <= Len(payload)
    OBVIOUS
<1>t. PacketTyped'
    BY <1>1, <1>2, <1>3 DEF PacketTyped
<1>f. PacketFresh'
    BY <1>1 DEF PacketInv, PacketFresh, Complete
<1>5. RedRead'
    BY <1>1 DEF RedRead
<1>6. RedLaid'
    <2> DEFINE n == Len(carried)
    <2>1. /\ n >= 2 /\ n <= 128 /\ played = <<>> /\ n \in Nat
          /\ 2 * n - 1 <= Len(payload) => payload[2 * n - 1] = 0
          /\ laid[1] = 2 * n - 1
          /\ Len(payload) <= MainEnds
        <3>1. n \in Nat
            BY <1>2 DEF PacketTyped
        <3> QED BY <1>1, <3>1 DEF PacketInv, RedLaid
    <2>2. \A j \in 1..n :
            /\ InPlace(j) /\ laid[j] >= 2 * n - 1 /\ laid[j] <= laid[n]
            /\ j < n => laid[j + 1] = laid[j] + Len(carried[j])
        BY <1>1 DEF PacketInv, RedLaid
    <2>3. \A j \in 1..n - 1 :
            /\ 2 * j - 1 <= Len(payload) => payload[2 * j - 1] = 128 + j
            /\ 2 * j <= Len(payload) => payload[2 * j] = Len(carried[j])
        BY <1>1 DEF PacketInv, RedLaid
    <2>4. \A j \in 1..n - 1 :
            /\ 2 * j - 1 <= m => payload'[2 * j - 1] = 128 + j
            /\ 2 * j <= m => payload'[2 * j] = Len(carried[j])
        <3> TAKE j \in 1..n - 1
        <3>1. 2 * j - 1 \in Nat \ {0} /\ 2 * j \in Nat \ {0}
            BY <2>1
        <3>2. 2 * j - 1 <= m => 2 * j - 1 \in 1..m /\ 2 * j - 1 <= Len(payload)
            BY <3>1, <1>2
        <3>3. 2 * j <= m => 2 * j \in 1..m /\ 2 * j <= Len(payload)
            BY <3>1, <1>2
        <3> QED BY <3>2, <3>3, <2>3, <1>3
    <2>5. 2 * n - 1 <= m => payload'[2 * n - 1] = 0
        <3>1. 2 * n - 1 <= m => 2 * n - 1 \in 1..m /\ 2 * n - 1 <= Len(payload)
            BY <2>1, <1>2
        <3> QED BY <3>1, <2>1, <1>3
    <2>6. \A j \in 1..n : InPlace(j)'
        <3> TAKE j \in 1..n
        <3>1. InPlace(j) /\ laid[j] \in Nat
            BY <2>2, <1>1, <1>2, ElementOfSeq DEF PacketTyped
        <3>2. ASSUME NEW i \in 1..Len(carried[j]), laid[j] + i <= m
              PROVE  payload'[laid[j] + i] = carried[j][i]
            <4>0. Len(carried[j]) \in Nat
                BY <1>2, ElementOfSeq, BytesOf DEF PacketTyped
            <4>1. laid[j] + i \in 1..m /\ laid[j] + i <= Len(payload)
                BY <3>1, <3>2, <1>2, <4>0
            <4> QED BY <4>1, <3>1, <1>3 DEF InPlace
        <3> QED BY <3>2, <1>1, <1>3 DEF InPlace
    <2>7. m <= MainEnds /\ MainEnds' = MainEnds /\ MainEnds \in Int
        <3>1. MainEnds \in Int
            <4>1. n \in 1..n
                BY <2>1
            <4>2. laid[n] \in Nat /\ carried[n] \in Bytes
                BY <4>1, <1>1, <1>2, ElementOfSeq DEF PacketTyped
            <4>3. Len(carried[n]) \in Nat
                BY <4>2, BytesOf
            <4> QED BY <4>2, <4>3 DEF MainEnds, MainBegins
        <3>2. m <= MainEnds
            BY ONLY <3>1, <2>1, <1>2, <1>4
        <3>3. MainEnds' = MainEnds
            BY <1>1 DEF MainEnds, MainBegins
        <3> QED BY <3>1, <3>2, <3>3
    <2>8. Len(carried') = n /\ Len(laid') = n /\ n # 0 /\ n \notin 1..n - 1 /\ n > 0
        BY <1>1, <2>1
    <2> QED BY <1>1, <1>3, <2>1, <2>2, <2>4, <2>5, <2>6, <2>7, <2>8 DEF RedLaid
<1> QED BY <1>1, <1>5, <1>6, <1>t, <1>f DEF PacketInv, BareSound, ContainerLaid, ContainerRead

-----------------------------------------------------------------------------
(* The readers.                                                            *)

\* The fields of the reader.
LEMMA ScanFields ==
    ASSUME PacketTyped
    PROVE  /\ scan.step \in Steps /\ scan.cur \in Nat /\ scan.cur > 0 /\ scan.rem \in Nat
           /\ scan.sizes \in Seq(Octet) /\ scan.frames \in Seq(Seq(Octet))
           /\ scan = [step |-> scan.step, cur |-> scan.cur, rem |-> scan.rem,
                      sizes |-> scan.sizes, frames |-> scan.frames]
BY DEF PacketTyped, ScanType

\* A reader made of its fields.
LEMMA ScanMade ==
    ASSUME NEW s, NEW st \in Steps, NEW c \in Nat, c > 0, NEW r \in Nat, NEW z \in Seq(Octet),
           NEW f \in Seq(Seq(Octet)),
           s = [step |-> st, cur |-> c, rem |-> r, sizes |-> z, frames |-> f]
    PROVE  /\ s \in ScanType /\ s.step = st /\ s.cur = c /\ s.rem = r /\ s.sizes = z
           /\ s.frames = f
BY DEF ScanType

\* A reader that begins.
LEMMA BegunMade ==
    ASSUME NEW x \in ScanType, NEW st, NEW c, NEW r, NEW s,
           s = [x EXCEPT !.step = st, !.cur = c, !.rem = r]
    PROVE  s = [step |-> st, cur |-> c, rem |-> r, sizes |-> x.sizes, frames |-> x.frames]
BY DEF ScanType

\* The reader of a container after a frame.
LEMMA FoundMade ==
    ASSUME NEW x \in ScanType, NEW c, NEW f, NEW s,
           s = [x EXCEPT !.cur = c, !.rem = @ - 1, !.frames = Append(@, f)]
    PROVE  s = [step |-> x.step, cur |-> c, rem |-> x.rem - 1, sizes |-> x.sizes,
                frames |-> Append(x.frames, f)]
BY DEF ScanType

\* The reader of a container after the last frame.
LEMMA DoneMade ==
    ASSUME NEW x \in ScanType, NEW st, NEW f, NEW s, s = [x EXCEPT !.step = st, !.frames = f]
    PROVE  s = [step |-> st, cur |-> x.cur, rem |-> x.rem, sizes |-> x.sizes, frames |-> f]
BY DEF ScanType

\* The reader of a packet with redundancy after a header.
LEMMA SizeMade ==
    ASSUME NEW x \in ScanType, NEW c, NEW r, NEW z, NEW s,
           s = [x EXCEPT !.cur = c, !.rem = r, !.sizes = Append(@, z)]
    PROVE  s = [step |-> x.step, cur |-> c, rem |-> r, sizes |-> Append(x.sizes, z),
                frames |-> x.frames]
BY DEF ScanType

\* The reader of a packet with redundancy after a block.
LEMMA BlockMade ==
    ASSUME NEW x \in ScanType, NEW main \in BOOLEAN, NEW z, NEW f, NEW s,
           s = [x EXCEPT !.step = IF main THEN "done" ELSE @, !.cur = @ + z, !.frames = Append(@, f)]
    PROVE  s = [step |-> IF main THEN "done" ELSE x.step, cur |-> x.cur + z, rem |-> x.rem,
                sizes |-> x.sizes, frames |-> Append(x.frames, f)]
BY DEF ScanType

\* A reader that only changes its step.
LEMMA StepMade ==
    ASSUME PacketTyped, NEW s, NEW st \in Steps, s = [scan EXCEPT !.step = st]
    PROVE  /\ s \in ScanType /\ s.step = st /\ s.cur = scan.cur /\ s.rem = scan.rem
           /\ s.sizes = scan.sizes /\ s.frames = scan.frames
BY DEF PacketTyped, ScanType

\* A slice of the payload is a sequence of bytes.
LEMMA Slice ==
    ASSUME NEW p \in Seq(Octet), NEW a \in Nat, a > 0, NEW b \in Nat, b <= Len(p)
    PROVE  SubSeq(p, a, b) \in Seq(Octet)
<1>1. \A i \in a..b : p[i] \in Octet
    <2> TAKE i \in a..b
    <2>1. i \in 1..Len(p)
        OBVIOUS
    <2> QED BY <2>1, ElementOfSeq
<1>2. a \in Int /\ b \in Int
    OBVIOUS
<1> QED BY <1>1, <1>2, SubSeqProperties

\* Whatever a bare payload is taken for, the invariant says no more than what came out.
LEMMA BareDecodes ==
    ASSUME PacketInv, format = "bare", UNCHANGED <<payload, carried, laid, format>>,
           \/ scan.step \in {"idle", "split"} /\ DecodeWhole
           \/ IsStandardOpusFrame(payload[1]) /\ DecodeOpus
           \/ scan' \in ScanType /\ scan'.step = "split" /\ played' = <<>>
           \/ scan' \in ScanType /\ scan'.step = "done"
    PROVE  PacketInv'
<1>1. /\ format' = "bare" /\ payload' = payload /\ carried' = carried /\ laid' = laid
      /\ PacketTyped
    BY DEF PacketInv
<1>2. Len(carried) = 1 /\ carried[1] = payload /\ Len(laid) = 1
    BY DEF PacketInv, BareSound
<1>3. /\ scan' \in ScanType /\ scan'.step \in {"split", "whole", "opus", "done"}
      /\ scan'.step = "split" => played' = <<>>
      /\ scan'.step = "whole" => played' = <<decodeFrame(payload)>>
      /\ scan'.step = "opus" =>
            /\ IsStandardOpusFrame(payload[1])
            /\ \E k \in {"opus", "silence"} :
                    played' = <<[kind |-> k, ms |-> ParseSmplTOC(payload[1]).ms]>>
    <2>1. CASE DecodeWhole
        <3>1. scan' \in ScanType /\ scan'.step = "whole"
            <4>1. scan' = [scan EXCEPT !.step = "whole"]
                BY <2>1 DEF DecodeWhole
            <4>2. "whole" \in Steps
                BY DEF Steps
            <4> QED BY <1>1, <4>1, <4>2, StepMade
        <3> QED BY <2>1, <3>1 DEF DecodeWhole
    <2>2. CASE IsStandardOpusFrame(payload[1]) /\ DecodeOpus
        <3>1. scan' \in ScanType /\ scan'.step = "opus"
            <4>1. scan' = [scan EXCEPT !.step = "opus"]
                BY <2>2 DEF DecodeOpus
            <4>2. "opus" \in Steps
                BY DEF Steps
            <4> QED BY <1>1, <4>1, <4>2, StepMade
        <3> QED BY <2>2, <3>1 DEF DecodeOpus
    <2>3. CASE scan' \in ScanType /\ scan'.step = "split" /\ played' = <<>>
        BY <2>3
    <2>4. CASE scan' \in ScanType /\ scan'.step = "done"
        BY <2>4
    <2> QED BY <2>1, <2>2, <2>3, <2>4
<1>4. PacketTyped'
    BY <1>1, <1>3 DEF PacketTyped
<1>5. PacketFresh'
    BY <1>1, <1>2, <1>3 DEF PacketFresh, Complete
<1>6. BareSound'
    BY <1>1, <1>2, <1>3 DEF BareSound
<1> QED BY <1>1, <1>4, <1>5, <1>6 DEF PacketInv, ContainerLaid, ContainerRead, RedLaid, RedRead

\* DecodePayload sees a container for what it is, and begins with its first frame.
LEMMA DecodeOK == PacketInv /\ DecodePayload => PacketInv'
<1> SUFFICES ASSUME PacketInv, DecodePayload PROVE PacketInv'
    OBVIOUS
<1>1. /\ Len(laid) = Len(carried) /\ format \in {"bare", "container"} /\ scan.step = "idle"
      /\ payload' = payload /\ carried' = carried /\ laid' = laid /\ format' = format
    BY DEF DecodePayload, Complete
<1>2. scan = NothingRead /\ played = <<>> /\ PacketTyped
    BY <1>1 DEF PacketInv, PacketFresh
<1> DEFINE opus == payload # <<>> /\ IsStandardOpusFrame(payload[1])
           short == Len(payload) < 3 \/ payload[1] # 146 \/ payload[2] \notin 2..MaxContained
           s == [scan EXCEPT !.step = "split", !.cur = 3, !.rem = payload[2]]
<1>3. /\ opus => DecodeOpus
      /\ ~opus /\ short => DecodeWhole
      /\ ~opus /\ ~short => scan' = s /\ played' = played
    BY DEF DecodePayload
<1>4. ASSUME ~short
      PROVE  s \in ScanType /\ s.step = "split" /\ s.cur = 3 /\ s.rem = payload[2] /\ s.frames = <<>>
    <2>1. payload[2] \in Nat
        BY <1>4, PacketAssumption
    <2>2. s = [step |-> "split", cur |-> 3, rem |-> payload[2], sizes |-> scan.sizes,
               frames |-> scan.frames]
        <3>1. scan \in ScanType
            BY <1>2 DEF PacketTyped
        <3>2. PICK st, c, r : st = "split" /\ c = 3 /\ r = payload[2]
            OBVIOUS
        <3>3. s = [scan EXCEPT !.step = st, !.cur = c, !.rem = r]
            BY <3>2, Zenon
        <3>4. s = [step |-> st, cur |-> c, rem |-> r, sizes |-> scan.sizes, frames |-> scan.frames]
            <4> HIDE DEF s
            <4> QED BY ONLY <3>1, <3>3, BegunMade
        <3> QED BY <3>2, <3>4, Zenon
    <2>3. /\ "split" \in Steps /\ 3 \in Nat /\ 3 > 0
          /\ scan.sizes \in Seq(Octet) /\ scan.frames \in Seq(Seq(Octet))
        BY <1>2, ScanFields DEF Steps
    <2>4. scan.frames = <<>>
        BY <1>2 DEF NothingRead
    <2> DEFINE r == payload[2]
               z == scan.sizes
               f == scan.frames
    <2> HIDE DEF s, r, z, f
    <2>5. /\ s \in ScanType /\ s.step = "split" /\ s.cur = 3 /\ s.rem = r /\ s.frames = f
        BY <2>1, <2>2, <2>3, ScanMade DEF r, z, f
    <2> QED BY <2>5, <2>4 DEF r, f
<1>5. CASE format = "bare"
    <2>1. \/ scan.step \in {"idle", "split"} /\ DecodeWhole
          \/ IsStandardOpusFrame(payload[1]) /\ DecodeOpus
          \/ scan' \in ScanType /\ scan'.step = "split" /\ played' = <<>>
        BY <1>1, <1>2, <1>3, <1>4
    <2> QED BY <1>5, <1>1, <2>1, BareDecodes
<1>6. CASE format = "container"
    <2>1. /\ Len(carried) \in 2..MaxContained
          /\ Len(payload) >= 2 /\ payload[1] = 146 /\ payload[2] = Len(carried)
          /\ laid[1] = 3 /\ laid[1] + Len(carried[1]) <= Len(payload) /\ Len(carried) \in Nat
        <3>1. Len(carried) \in 2..MaxContained /\ Len(carried) \in Nat
            BY <1>6, <1>2 DEF PacketInv, ContainerLaid, PacketTyped
        <3>2. Len(laid) > 0 /\ 1 \in 1..Len(laid)
            BY <3>1, <1>1
        <3> QED BY <1>6, <3>1, <3>2 DEF PacketInv, ContainerLaid
    <2>2. ~opus /\ ~short
        <3>1. Len(payload) \in Nat /\ Len(carried[1]) \in Nat
            BY <2>1, <1>2, ElementOfSeq, BytesOf DEF PacketTyped
        <3>2. ~(Len(payload) < 3)
            BY <3>1, <2>1
        <3>3. ~IsStandardOpusFrame(payload[1])
            BY <2>1 DEF IsStandardOpusFrame
        <3> QED BY <3>2, <3>3, <2>1
    <2>3. scan' \in ScanType /\ scan'.step = "split" /\ scan'.cur = 3 /\ scan'.rem = Len(carried)
          /\ scan'.frames = <<>> /\ played' = <<>>
        BY <2>1, <2>2, <1>2, <1>3, <1>4
    <2>4. PacketTyped'
        BY <1>1, <1>2, <2>3 DEF PacketTyped
    <2>5. PacketFresh'
        BY <1>1, <1>6, <2>3 DEF PacketFresh, Complete
    <2>6. ContainerLaid'
        BY <1>1, <1>6 DEF PacketInv, ContainerLaid, InPlace, Gap
    <2>7. ContainerRead'
        <3>1. Len(scan'.frames) + 1 = 1 /\ Gap(1)' = 1 /\ carried' = carried /\ laid'[1] = 3
            BY <2>1, <2>3, <1>1 DEF Gap
        <3>2. \A j \in 1..1 - 1 : FALSE
            OBVIOUS
        <3> QED BY <3>1, <3>2, <2>1, <2>3 DEF ContainerRead
    <2> QED BY <1>1, <1>6, <2>4, <2>5, <2>6, <2>7 DEF PacketInv, BareSound, RedLaid, RedRead
<1> QED BY <1>1, <1>5, <1>6

\* What a turn of splitContainer does: it gives up, finds a frame or finds the last one.
LEMMA SplitIs ==
    ASSUME PacketInv, splitContainer
    PROVE  /\ scan.step = "split" /\ Complete
           /\ payload' = payload /\ carried' = carried /\ laid' = laid /\ format' = format
           /\ LET off == scan.cur
                  m == payload[off]
              IN \/ /\ off > Len(payload) \/ (scan.rem > 1 /\ off + m > Len(payload))
                    /\ DecodeWhole
                 \/ /\ off <= Len(payload) /\ scan.rem > 1 /\ off + m <= Len(payload)
                    /\ m \in Octet /\ m \in Nat
                    /\ scan' \in ScanType /\ scan'.step = "split" /\ scan'.cur = off + m + 1
                    /\ scan'.rem = scan.rem - 1 /\ played' = played
                    /\ scan'.frames = Append(scan.frames, SubSeq(payload, off + 1, off + m))
                    /\ SubSeq(payload, off + 1, off + m) \in Seq(Octet)
                 \/ /\ off <= Len(payload) /\ scan.rem = 1
                    /\ scan' \in ScanType /\ scan'.step = "done"
                    /\ LET frames == Append(scan.frames, SubSeq(payload, off, Len(payload)))
                       IN played' = [i \in 1..Len(frames) |-> decodeFrame(frames[i])]
<1> DEFINE off == scan.cur
           m == payload[off]
           frames == Append(scan.frames, SubSeq(payload, off, Len(payload)))
           bad == off > Len(payload) \/ (scan.rem > 1 /\ off + m > Len(payload))
           more == SubSeq(payload, off + 1, off + m)
           s == [scan EXCEPT !.cur = off + m + 1, !.rem = @ - 1, !.frames = Append(@, more)]
           e == [scan EXCEPT !.step = "done", !.frames = frames]
<1>1. /\ scan.step = "split" /\ payload' = payload /\ carried' = carried /\ laid' = laid
      /\ format' = format
    BY DEF splitContainer
<1>2. PacketTyped /\ Complete
    BY <1>1 DEF PacketInv, PacketFresh
<1>3. /\ off \in Nat /\ off > 0 /\ scan.rem \in Nat
      /\ scan.sizes \in Seq(Octet) /\ scan.frames \in Seq(Seq(Octet)) /\ scan.step \in Steps
      /\ payload \in Seq(Octet) /\ Len(payload) \in Nat
    BY <1>2, ScanFields DEF PacketTyped
<1>4. /\ bad => DecodeWhole
      /\ ~bad => \/ scan.rem > 1 /\ scan' = s /\ played' = played
                 \/ scan.rem = 1 /\ scan' = e /\ played' = [i \in 1..Len(frames) |-> decodeFrame(frames[i])]
    BY DEF splitContainer, NextFrame
<1>5. off <= Len(payload) => m \in Octet /\ m \in Nat
    <2>1. off <= Len(payload) => off \in 1..Len(payload)
        BY <1>3
    <2> QED BY <2>1, <1>3, ElementOfSeq, OctetNat
<1>6. CASE ~bad /\ scan.rem > 1 /\ scan' = s /\ played' = played
    <2>1. off <= Len(payload) /\ m \in Nat /\ off + m <= Len(payload) /\ m \in Octet
        <3>1. off <= Len(payload)
            BY <1>6, <1>3
        <3>2. m \in Nat /\ m \in Octet
            BY <3>1, <1>5
        <3> HIDE DEF off, m
        <3> QED BY <3>1, <3>2, <1>6, <1>3
    <2>2. more \in Seq(Octet)
        <3> HIDE DEF off, m
        <3>1. off + 1 \in Nat /\ off + 1 > 0 /\ off + m \in Nat /\ off + m <= Len(payload)
            BY ONLY <2>1, <1>3
        <3> QED BY <1>3, <3>1, Slice
    <2> DEFINE c == off + m + 1
               r == scan.rem - 1
               f == Append(scan.frames, more)
    <2>3. s = [step |-> scan.step, cur |-> c, rem |-> r, sizes |-> scan.sizes, frames |-> f]
        <3>1. scan \in ScanType
            BY <1>2 DEF PacketTyped
        <3> HIDE DEF more
        <3> QED BY <3>1, FoundMade
    <2>4. c \in Nat /\ c > 0 /\ r \in Nat
        <3> HIDE DEF off, m
        <3> QED BY <1>3, <2>1, <1>6
    <2>5. f \in Seq(Seq(Octet))
        <3> HIDE DEF more
        <3> QED BY <2>2, <1>3, AppendProperties
    <2>6. /\ scan' \in ScanType /\ scan'.step = "split" /\ scan'.cur = c /\ scan'.rem = r
          /\ scan'.frames = f
        <3>1. scan' = s
            BY <1>6
        <3> HIDE DEF s, c, r, f
        <3> QED BY <1>1, <1>3, <2>3, <2>4, <2>5, <3>1, ScanMade
    <2> QED BY <1>1, <1>2, <1>6, <2>1, <2>2, <2>6
<1>7. CASE ~bad /\ scan.rem = 1 /\ scan' = e /\ played' = [i \in 1..Len(frames) |-> decodeFrame(frames[i])]
    <2>1. off <= Len(payload)
        BY <1>7, <1>3
    <2>2. frames \in Seq(Seq(Octet))
        <3>1. SubSeq(payload, off, Len(payload)) \in Seq(Octet)
            BY <1>3, Slice
        <3> QED BY <3>1, <1>3, AppendProperties
    <2>3. e = [step |-> "done", cur |-> scan.cur, rem |-> scan.rem, sizes |-> scan.sizes, frames |-> frames]
        <3>1. scan \in ScanType
            BY <1>2 DEF PacketTyped
        <3> HIDE DEF frames
        <3> QED BY <3>1, DoneMade
    <2>4. "done" \in Steps /\ scan' = e
        BY <1>7 DEF Steps
    <2>5. scan' \in ScanType /\ scan'.step = "done"
        <3> HIDE DEF e, frames
        <3> QED BY <1>3, <2>2, <2>3, <2>4, ScanMade
    <2> QED BY <1>1, <1>2, <1>7, <2>1, <2>5
<1> QED BY <1>1, <1>2, <1>4, <1>6, <1>7

\* The frames found are those sent, as far as they go, and one more.
LEMMA FramesGrow ==
    ASSUME NEW f \in Seq(Seq(Octet)), NEW c \in Seq(Octet), NEW l \in Seq(Bytes),
           Len(f) < Len(l), c = l[Len(f) + 1], \A j \in 1..Len(f) : f[j] = l[j]
    PROVE  LET g == Append(f, c)
           IN g \in Seq(Seq(Octet)) /\ Len(g) = Len(f) + 1 /\ \A j \in 1..Len(f) + 1 : g[j] = l[j]
<1> DEFINE g == Append(f, c)
<1>1. /\ g \in Seq(Seq(Octet)) /\ Len(g) = Len(f) + 1 /\ g[Len(f) + 1] = c /\ Len(f) \in Nat
      /\ \A j \in 1..Len(f) : g[j] = f[j]
    BY AppendProperties
<1> HIDE DEF g
<1>2. ASSUME NEW j \in 1..Len(f) + 1
      PROVE  g[j] = l[j]
    <2>1. j \in 1..Len(f) \/ j = Len(f) + 1
        BY <1>1
    <2> QED BY <2>1, <1>1
<1> QED BY <1>1, <1>2 DEF g

\* Frames that are the same one by one are the same sequence.
LEMMA WholeFrames ==
    ASSUME NEW f \in Seq(Seq(Octet)), NEW l \in Seq(Bytes), Len(f) = Len(l),
           \A j \in 1..Len(l) : f[j] = l[j]
    PROVE  f = l
<1>1. l \in Seq(Seq(Octet))
    <2>1. \A j \in 1..Len(l) : l[j] \in Seq(Octet)
        BY ElementOfSeq, BytesOf
    <2>2. Len(l) \in Nat /\ l \in [1..Len(l) -> Seq(Octet)]
        BY <2>1
    <2>3. \A T : \A m \in Nat : \A g \in [1..m -> T] : g \in Seq(T)
        OBVIOUS
    <2> QED BY <2>2, <2>3, Zenon
<1> QED BY <1>1, SeqEqual

\* splitContainer never gives up on a container: its position is always that of the next
\* frame, or of the length before it.
LEMMA SplitContainerOK == PacketInv /\ splitContainer => PacketInv'
<1> SUFFICES ASSUME PacketInv, splitContainer PROVE PacketInv'
    OBVIOUS
<1> DEFINE off == scan.cur
           m == payload[off]
           n == Len(carried)
           frames == Append(scan.frames, SubSeq(payload, off, Len(payload)))
           more == SubSeq(payload, off + 1, off + m)
           Stays == /\ off > Len(payload) \/ (scan.rem > 1 /\ off + m > Len(payload))
                    /\ DecodeWhole
           Goes == /\ off <= Len(payload) /\ scan.rem > 1 /\ off + m <= Len(payload)
                   /\ m \in Octet /\ m \in Nat
                   /\ scan' \in ScanType /\ scan'.step = "split" /\ scan'.cur = off + m + 1
                   /\ scan'.rem = scan.rem - 1 /\ played' = played
                   /\ scan'.frames = Append(scan.frames, more) /\ more \in Seq(Octet)
           Ends == /\ off <= Len(payload) /\ scan.rem = 1
                   /\ scan' \in ScanType /\ scan'.step = "done"
                   /\ played' = [i \in 1..Len(frames) |-> decodeFrame(frames[i])]
<1>1. /\ scan.step = "split" /\ payload' = payload /\ carried' = carried /\ laid' = laid
      /\ format' = format /\ Complete
    BY SplitIs
<1>2. Stays \/ Goes \/ Ends
    BY SplitIs
<1> HIDE DEF Stays, Goes, Ends
<1>3. PacketTyped /\ format \in {"bare", "container"}
    <2>1. PacketTyped /\ format # "none" /\ format # "red"
        BY <1>1 DEF PacketInv, PacketFresh, RedRead
    <2> QED BY <2>1 DEF PacketTyped
<1>4. CASE format = "bare"
    <2>1. played = <<>>
        BY <1>1, <1>4 DEF PacketInv, BareSound
    <2>2. \/ scan.step \in {"idle", "split"} /\ DecodeWhole
          \/ scan' \in ScanType /\ scan'.step = "split" /\ played' = <<>>
          \/ scan' \in ScanType /\ scan'.step = "done"
        BY <1>1, <1>2, <2>1 DEF Stays, Goes, Ends
    <2> QED BY <1>1, <1>4, <2>2, BareDecodes
<1>5. CASE format = "container"
    <2>0. PICK k \in Nat : k = Len(scan.frames) + 1
        BY <1>3, ScanFields
    <2>1. /\ k <= n /\ scan.rem = n + 1 - k /\ played = <<>>
          /\ off = laid[k] + 1 - Gap(k)
          /\ \A j \in 1..k - 1 : scan.frames[j] = carried[j]
        BY <1>1, <1>5, <2>0 DEF PacketInv, ContainerRead
    <2>2. /\ n \in Nat /\ Len(laid) = n /\ k \in 1..n /\ k \in 1..Len(laid) /\ k > 0
          /\ scan.frames \in Seq(Seq(Octet)) /\ Len(scan.frames) = k - 1
          /\ carried \in Seq(Bytes) /\ payload \in Seq(Octet) /\ Len(payload) \in Nat
        BY <1>1, <1>3, <2>0, <2>1, ScanFields DEF PacketTyped, Complete
    <2>3. laid[k] \in Nat /\ carried[k] \in Bytes
        BY <2>2, <1>3, ElementOfSeq DEF PacketTyped
    <2>4. carried[k] \in Seq(Octet) /\ Len(carried[k]) \in Nat /\ Len(carried[k]) > 0
        BY <2>3, BytesOf
    <2>5. /\ InPlace(k) /\ laid[k] > 2 /\ laid[k] + Len(carried[k]) <= Len(payload)
          /\ k < n => payload[laid[k]] = Len(carried[k])
          /\ k < n => laid[k + 1] = laid[k] + Len(carried[k]) + Gap(k + 1)
        BY <1>5, <2>2 DEF PacketInv, ContainerLaid
    <2>6. Len(laid) > 0 /\ Len(payload) = laid[n] + Len(carried[n])
        BY <1>5, <2>2 DEF PacketInv, ContainerLaid
    <2>7. SubSeq(payload, laid[k] + 1, laid[k] + Len(carried[k])) = carried[k]
        <3>1. \A i \in 1..Len(carried[k]) : payload[laid[k] + i] = carried[k][i]
            <4> TAKE i \in 1..Len(carried[k])
            <4>1. laid[k] + i <= Len(payload)
                BY <2>2, <2>3, <2>4, <2>5
            <4> QED BY <4>1, <2>5 DEF InPlace
        <3> QED BY <2>2, <2>3, <2>4, <2>5, <3>1, Extract
    <2>l. ContainerLaid'
        BY <1>1, <1>5 DEF PacketInv, ContainerLaid, InPlace, Gap
    <2>8. CASE k < n
        <3>1. off = laid[k] /\ m = Len(carried[k]) /\ scan.rem > 1
            <4>1. Gap(k) = 1
                BY <2>8 DEF Gap
            <4>2. off = laid[k]
                BY <4>1, <2>1, <2>3
            <4>3. m = Len(carried[k])
                BY <4>2, <2>5, <2>8
            <4>4. scan.rem > 1
                BY <2>1, <2>2, <2>8
            <4> QED BY <4>2, <4>3, <4>4
        <3>2. off <= Len(payload) /\ off + m <= Len(payload) /\ scan.rem # 1
            BY <3>1, <2>2, <2>3, <2>4, <2>5
        <3>3. ~Stays /\ ~Ends
            <4>1. ~(off > Len(payload)) /\ ~(off + m > Len(payload))
                BY <3>1, <3>2, <2>2, <2>3, <2>4
            <4> QED BY <4>1, <3>2 DEF Stays, Ends
        <3>4. Goes /\ more = carried[k]
            BY <1>2, <3>1, <3>3, <2>7
        <3>5. /\ scan' \in ScanType /\ scan'.step = "split" /\ scan'.cur = laid[k] + Len(carried[k]) + 1
              /\ scan'.rem = n - k /\ played' = <<>>
              /\ scan'.frames = Append(scan.frames, carried[k])
            <4>1. /\ scan' \in ScanType /\ scan'.step = "split" /\ scan'.cur = off + m + 1
                  /\ scan'.rem = scan.rem - 1 /\ played' = played
                  /\ scan'.frames = Append(scan.frames, more)
                BY <3>4 DEF Goes
            <4>2. scan.rem - 1 = n - k
                BY <2>1, <2>2
            <4> QED BY <4>1, <4>2, <3>1, <3>4, <2>1
        <3>6. Len(scan'.frames) = k /\ \A j \in 1..k : scan'.frames[j] = carried[j]
            <4>1. /\ Len(scan.frames) < Len(carried) /\ carried[k] = carried[Len(scan.frames) + 1]
                  /\ \A j \in 1..Len(scan.frames) : scan.frames[j] = carried[j]
                BY <2>1, <2>2, <2>0
            <4>2. LET g == Append(scan.frames, carried[k])
                  IN Len(g) = Len(scan.frames) + 1 /\ \A j \in 1..Len(scan.frames) + 1 : g[j] = carried[j]
                BY <4>1, <2>2, <2>4, FramesGrow
            <4> QED BY <4>2, <3>5, <2>0
        <3>7. scan'.cur = laid[k + 1] + 1 - Gap(k + 1)
            <4>1. Gap(k + 1) \in {0, 1}
                BY DEF Gap
            <4>2. laid[k + 1] = laid[k] + Len(carried[k]) + Gap(k + 1)
                BY <2>5, <2>8
            <4> QED BY <4>1, <4>2, <3>5, <2>3, <2>4
        <3>8. ContainerRead'
            <4>1. /\ Len(scan'.frames) + 1 = k + 1 /\ Gap(k + 1)' = Gap(k + 1) /\ Len(carried') = n
                  /\ (k + 1) - 1 = k /\ n + 1 - (k + 1) = n - k /\ k + 1 <= n
                BY <3>6, <1>1, <2>2, <2>8 DEF Gap
            <4>2. /\ k + 1 <= Len(carried') /\ scan'.rem = Len(carried') + 1 - (k + 1) /\ played' = <<>>
                  /\ scan'.cur = laid'[k + 1] + 1 - Gap(k + 1)'
                  /\ \A j \in 1..(k + 1) - 1 : scan'.frames[j] = carried'[j]
                BY <4>1, <3>5, <3>6, <3>7, <1>1
            <4> QED BY <4>1, <4>2, <3>5 DEF ContainerRead
        <3>9. PacketTyped' /\ PacketFresh'
            BY <1>1, <1>3, <1>5, <3>5 DEF PacketTyped, PacketFresh, Complete
        <3> QED BY <1>1, <1>5, <2>l, <3>8, <3>9 DEF PacketInv, BareSound, RedLaid, RedRead
    <2>9. CASE k = n
        <3>1. off = laid[n] + 1 /\ scan.rem = 1
            <4>1. Gap(k) = 0
                BY <2>9, <2>2 DEF Gap
            <4> QED BY <4>1, <2>1, <2>2, <2>3, <2>9
        <3>2. ~Stays /\ ~Goes
            <4>1. ~(off > Len(payload))
                BY <3>1, <2>2, <2>3, <2>4, <2>6, <2>9
            <4> QED BY <4>1, <3>1 DEF Stays, Goes
        <3>3. Ends /\ frames = Append(scan.frames, carried[n])
            BY <1>2, <3>1, <3>2, <2>6, <2>7, <2>9
        <3>4. /\ scan' \in ScanType /\ scan'.step = "done"
              /\ played' = [i \in 1..Len(frames) |-> decodeFrame(frames[i])]
            BY <3>3 DEF Ends
        <3>5. frames = carried
            <4>1. /\ Len(scan.frames) < Len(carried) /\ carried[n] = carried[Len(scan.frames) + 1]
                  /\ \A j \in 1..Len(scan.frames) : scan.frames[j] = carried[j]
                  /\ Len(scan.frames) + 1 = n
                BY <2>1, <2>2, <2>0, <2>9
            <4>2. LET g == Append(scan.frames, carried[n])
                  IN g \in Seq(Seq(Octet)) /\ Len(g) = Len(scan.frames) + 1
                     /\ \A j \in 1..Len(scan.frames) + 1 : g[j] = carried[j]
                BY <4>1, <2>2, <2>4, <2>9, FramesGrow
            <4>3. /\ frames \in Seq(Seq(Octet)) /\ Len(frames) = Len(carried)
                  /\ \A j \in 1..Len(carried) : frames[j] = carried[j]
                BY <4>1, <4>2, <3>3
            <4> HIDE DEF frames
            <4> QED BY <4>3, <2>2, WholeFrames
        <3>6. played' = [i \in 1..Len(carried') |-> decodeFrame(carried'[i])]
            BY <3>4, <3>5, <1>1
        <3>7. ContainerRead'
            BY <3>4, <3>6 DEF ContainerRead
        <3>9. PacketTyped' /\ PacketFresh'
            BY <1>1, <1>3, <1>5, <3>4 DEF PacketTyped, PacketFresh, Complete
        <3> QED BY <1>1, <1>5, <2>l, <3>7, <3>9 DEF PacketInv, BareSound, RedLaid, RedRead
    <2> QED BY <2>2, <2>8, <2>9
<1> QED BY <1>3, <1>4, <1>5

\* What the invariant says of a complete packet with redundancy.
LEMMA RedFacts ==
    ASSUME PacketInv, format = "red", Complete
    PROVE  LET n == Len(carried)
               L == Len(payload)
           IN /\ n \in Nat /\ n >= 2 /\ L \in Nat /\ Len(laid) = n /\ played = <<>>
              /\ MainBegins \in Nat /\ MainBegins = laid[n] /\ L <= MainEnds
              /\ MainEnds = laid[n] + Len(carried[n]) /\ MainEnds \in Nat
              /\ laid[1] = 2 * n - 1
              /\ \A j \in 1..n :
                    /\ laid[j] \in Nat /\ carried[j] \in Bytes
                    /\ Len(carried[j]) \in Nat /\ Len(carried[j]) > 0 /\ Len(carried[j]) \in Octet
                    /\ InPlace(j) /\ laid[j] >= 2 * n - 1 /\ laid[j] <= laid[n]
                    /\ j < n => laid[j + 1] = laid[j] + Len(carried[j])
              /\ \A j \in 1..n - 1 :
                    /\ 2 * j - 1 <= L => payload[2 * j - 1] = 128 + j
                    /\ 2 * j <= L => payload[2 * j] = Len(carried[j])
              /\ 2 * n - 1 <= L => payload[2 * n - 1] = 0
<1> DEFINE n == Len(carried)
           L == Len(payload)
<1>1. PacketTyped /\ n \in Nat /\ L \in Nat /\ Len(laid) = n
    BY DEF PacketInv, PacketTyped, Complete
<1>2. n >= 2 /\ played = <<>>
    BY DEF PacketInv, RedLaid
<1>3. \A j \in 1..n : /\ laid[j] \in Nat /\ carried[j] \in Bytes
                      /\ Len(carried[j]) \in Nat /\ Len(carried[j]) > 0 /\ Len(carried[j]) \in Octet
    <2> TAKE j \in 1..n
    <2>1. laid[j] \in Nat /\ carried[j] \in Bytes
        BY <1>1, ElementOfSeq DEF PacketTyped
    <2> QED BY <2>1, BytesOf, OctetIs
<1>4. laid[1] = 2 * n - 1
    BY <1>1, <1>2 DEF PacketInv, RedLaid
<1>5. /\ \A j \in 1..n : /\ InPlace(j) /\ laid[j] >= 2 * n - 1 /\ laid[j] <= laid[n]
                         /\ j < n => laid[j + 1] = laid[j] + Len(carried[j])
      /\ L <= MainEnds
    BY <1>1 DEF PacketInv, RedLaid
<1>6. /\ \A j \in 1..n - 1 :
            /\ 2 * j - 1 <= L => payload[2 * j - 1] = 128 + j
            /\ 2 * j <= L => payload[2 * j] = Len(carried[j])
      /\ 2 * n - 1 <= L => payload[2 * n - 1] = 0
    BY DEF PacketInv, RedLaid
<1>7. /\ MainBegins \in Nat /\ MainBegins = laid[n]
      /\ MainEnds = laid[n] + Len(carried[n]) /\ MainEnds \in Nat
    <2>1. n \in 1..n
        BY <1>1, <1>2
    <2>2. laid[n] \in Nat /\ Len(carried[n]) \in Nat
        BY <2>1, <1>3
    <2> QED BY <2>2 DEF MainBegins, MainEnds
<1> QED BY <1>1, <1>2, <1>3, <1>4, <1>5, <1>6, <1>7

\* A step that only moves the reader keeps the layout.
LEMMA RedStep ==
    ASSUME PacketInv, format = "red", Complete, scan' \in ScanType, scan'.step # "idle", RedRead',
           UNCHANGED <<payload, carried, laid, format, played>>
    PROVE  PacketInv'
<1>1. /\ payload' = payload /\ carried' = carried /\ laid' = laid /\ format' = "red"
      /\ played' = played /\ PacketTyped
    BY DEF PacketInv
<1>2. PacketTyped'
    BY <1>1 DEF PacketTyped
<1>3. PacketFresh'
    BY <1>1 DEF PacketFresh, Complete
<1>4. RedLaid'
    BY <1>1 DEF PacketInv, RedLaid, InPlace, MainEnds, MainBegins
<1> QED BY <1>1, <1>2, <1>3, <1>4 DEF PacketInv, BareSound, ContainerLaid, ContainerRead

\* DepackSplitRed begins with the first header.
LEMMA DepackSplitRedOK == PacketInv /\ DepackSplitRed => PacketInv'
<1> SUFFICES ASSUME PacketInv, DepackSplitRed PROVE PacketInv'
    OBVIOUS
<1>1. /\ Complete /\ format = "red" /\ scan.step = "idle"
      /\ scan' = [scan EXCEPT !.step = "headers", !.rem = Len(payload)]
      /\ UNCHANGED <<payload, carried, laid, format, played>>
    BY DEF DepackSplitRed
<1>2. scan = NothingRead /\ scan \in ScanType /\ Len(payload) \in Nat
    BY <1>1 DEF PacketInv, PacketFresh, PacketTyped
<1>3. /\ scan' \in ScanType /\ scan'.step = "headers" /\ scan'.rem = Len(payload) /\ scan'.cur = scan.cur
      /\ scan'.sizes = scan.sizes /\ scan'.frames = scan.frames
    <2>1. \A x \in ScanType : \A r \in Nat : LET s == [x EXCEPT !.step = "headers", !.rem = r] IN
            s \in ScanType /\ s.step = "headers" /\ s.rem = r /\ s.cur = x.cur
            /\ s.sizes = x.sizes /\ s.frames = x.frames
        BY DEF ScanType, Steps
    <2> QED BY <1>1, <1>2, <2>1, Zenon
<1>4. scan.cur = 1 /\ scan.sizes = <<>> /\ scan.frames = <<>>
    BY <1>2 DEF NothingRead
<1>5. Len(scan'.sizes) + 1 = 1 /\ Len(scan'.frames) + 1 = 1
    BY <1>3, <1>4
<1>6. RedRead'
    <2>1. Len(carried) \in Nat /\ Len(carried) >= 2 /\ laid[1] \in Nat
        <3>1. Len(carried) \in Nat /\ Len(carried) >= 2 /\ \A j \in 1..Len(carried) : laid[j] \in Nat
            BY <1>1, RedFacts
        <3> QED BY <3>1
    <2>2. Len(payload) = Len(payload) - 2 * (1 - 1) - (laid[1] - laid[1])
        BY <2>1, <1>2
    <2>3. /\ 1 <= Len(carried') /\ scan'.cur = 2 * 1 - 1
          /\ scan'.rem = Len(payload') - 2 * (1 - 1) - (laid'[1] - laid'[1])
        BY <1>1, <1>3, <1>4, <2>1, <2>2
    <2>4. \A j \in 1..1 - 1 : FALSE
        OBVIOUS
    <2> QED BY <1>3, <1>5, <2>3, <2>4 DEF RedRead
<1> QED BY <1>1, <1>3, <1>6, RedStep

\* How much the sizes of the headers leave: of a whole packet always more than the next
\* header asks for.
LEMMA HeadersLeft ==
    ASSUME NEW n \in Nat, NEW h \in Nat, NEW l \in Nat, NEW rem \in Nat, NEW a \in Nat,
           NEW b \in Nat, NEW d \in Nat, NEW e \in Nat,
           h > 0, h <= n, b = 2 * n - 1, b <= a, a <= d, e > 0,
           rem = l - 2 * (h - 1) - (a - b)
    PROVE  /\ l = d + e => rem > 1 /\ 2 * h - 1 <= l
           /\ l = d + e /\ h < n => 2 * h <= l /\ rem > 2
           /\ \A z \in Nat : l = d + e /\ h < n /\ a + z <= d => z + 2 < rem
           /\ rem > 1 => 2 * h <= l /\ 2 * h - 1 <= l
           /\ h = n => rem - 1 = l - a
           /\ \A z \in Nat : rem - z - 2 = l - 2 * ((h + 1) - 1) - ((a + z) - b)
OBVIOUS

\* The loop over the headers stops at the marker with the size of each block, and fails
\* only if the packet was cut before its main frame ends.
LEMMA ReadHeaderOK == PacketInv /\ ReadHeader => PacketInv'
<1> SUFFICES ASSUME PacketInv, ReadHeader PROVE PacketInv'
    OBVIOUS
<1> DEFINE cur == scan.cur
           rem == scan.rem
           n == Len(carried)
           L == Len(payload)
           fails == [scan EXCEPT !.step = "failed"]
           ends == [scan EXCEPT !.step = "blocks", !.cur = cur + 1, !.rem = rem - 1]
           goes == [scan EXCEPT !.cur = cur + 2, !.rem = rem - payload[cur + 1] - 2,
                                !.sizes = Append(@, payload[cur + 1])]
<1>1. /\ scan.step = "headers" /\ UNCHANGED <<payload, carried, laid, format, played>>
      /\ scan' = IF TooShort(cur, rem) THEN fails ELSE IF payload[cur] < 128 THEN ends ELSE goes
    BY DEF ReadHeader
<1>2. PacketTyped /\ Complete /\ format = "red" /\ scan \in ScanType
    <2>1. PacketTyped /\ Complete /\ scan \in ScanType
        BY <1>1 DEF PacketInv, PacketFresh, PacketTyped
    <2>2. format # "bare" /\ format # "container" /\ format # "none"
        BY <1>1 DEF PacketInv, PacketFresh, BareSound, ContainerRead
    <2> QED BY <2>1, <2>2 DEF PacketTyped
<1>3. /\ cur \in Nat /\ cur > 0 /\ rem \in Nat
      /\ scan.sizes \in Seq(Octet) /\ scan.frames \in Seq(Seq(Octet))
    BY <1>2, ScanFields
<1>h. PICK h \in Nat : h = Len(scan.sizes) + 1
    BY <1>3
<1>4. /\ h <= n /\ Len(scan.frames) + 1 = 1 /\ cur = 2 * h - 1
      /\ rem = L - 2 * (h - 1) - (laid[h] - laid[1])
      /\ \A j \in 1..h - 1 : scan.sizes[j] = Len(carried[j])
    BY <1>1, <1>2, <1>h DEF PacketInv, RedRead
<1>5. /\ n \in Nat /\ n >= 2 /\ L \in Nat /\ Len(laid) = n /\ played = <<>>
      /\ MainBegins \in Nat /\ MainBegins = laid[n] /\ L <= MainEnds
      /\ MainEnds = laid[n] + Len(carried[n]) /\ MainEnds \in Nat
      /\ laid[1] = 2 * n - 1
    BY <1>2, RedFacts
<1>6. \A j \in 1..n :
        /\ laid[j] \in Nat
        /\ Len(carried[j]) \in Nat /\ Len(carried[j]) > 0 /\ Len(carried[j]) \in Octet
        /\ laid[j] <= laid[n] /\ laid[j] >= 2 * n - 1
        /\ j < n => laid[j + 1] = laid[j] + Len(carried[j])
    BY <1>2, RedFacts
<1>7. /\ \A j \in 1..n - 1 :
            /\ 2 * j - 1 <= L => payload[2 * j - 1] = 128 + j
            /\ 2 * j <= L => payload[2 * j] = Len(carried[j])
      /\ 2 * n - 1 <= L => payload[2 * n - 1] = 0
    BY <1>2, RedFacts
<1>8. /\ h \in 1..n /\ h > 0 /\ laid[h] \in Nat /\ Len(carried[h]) \in Nat /\ laid[h] <= laid[n]
      /\ laid[n] \in Nat /\ Len(carried[n]) \in Nat /\ Len(carried[n]) > 0 /\ laid[1] \in Nat
      /\ h < n => laid[h + 1] = laid[h] + Len(carried[h])
      /\ laid[1] <= laid[h]
    <2>1. h \in 1..n /\ n \in 1..n /\ h > 0 /\ 1 \in 1..n
        <3>1. h = Len(scan.sizes) + 1 /\ Len(scan.sizes) \in Nat /\ h <= n
            BY <1>h, <1>3, <1>4
        <3>2. n \in Nat /\ n >= 2
            BY <1>5
        <3> HIDE DEF n
        <3> QED BY <3>1, <3>2
    <2>2. laid[1] <= laid[h]
        BY <2>1, <1>5, <1>6
    <2> QED BY <2>1, <2>2, <1>6
<1>a. LET a == laid[h]
          b == laid[1]
          e == Len(carried[n])
      IN /\ L = MainEnds => rem > 1 /\ 2 * h - 1 <= L
         /\ L = MainEnds /\ h < n => 2 * h <= L /\ rem > 2
         /\ \A z \in Nat : L = MainEnds /\ h < n /\ a + z <= laid[n] => z + 2 < rem
         /\ rem > 1 => 2 * h <= L /\ 2 * h - 1 <= L
         /\ h = n => rem - 1 = L - a
         /\ \A z \in Nat : rem - z - 2 = L - 2 * ((h + 1) - 1) - ((a + z) - b)
    <2> DEFINE a == laid[h]
               b == laid[1]
               d == laid[n]
               e == Len(carried[n])
    <2>1. /\ n \in Nat /\ h \in Nat /\ L \in Nat /\ rem \in Nat /\ a \in Nat /\ b \in Nat /\ d \in Nat
          /\ e \in Nat /\ h > 0 /\ h <= n /\ b = 2 * n - 1 /\ b <= a /\ a <= d /\ e > 0
          /\ rem = L - 2 * (h - 1) - (a - b) /\ MainEnds = d + e
        BY <1>3, <1>4, <1>5, <1>8
    <2> HIDE DEF a, b, d, e, n, L, rem
    <2>2. /\ L = d + e => rem > 1 /\ 2 * h - 1 <= L
          /\ L = d + e /\ h < n => 2 * h <= L /\ rem > 2
          /\ \A z \in Nat : L = d + e /\ h < n /\ a + z <= d => z + 2 < rem
          /\ rem > 1 => 2 * h <= L /\ 2 * h - 1 <= L
          /\ h = n => rem - 1 = L - a
          /\ \A z \in Nat : rem - z - 2 = L - 2 * ((h + 1) - 1) - ((a + z) - b)
        BY ONLY <2>1, HeadersLeft
    <2> QED BY <2>1, <2>2 DEF a, b, d, e
<1>u. /\ payload' = payload /\ carried' = carried /\ laid' = laid /\ format' = format
      /\ MainBegins' = MainBegins /\ MainEnds' = MainEnds
    BY <1>1 DEF MainBegins, MainEnds
<1>9. CASE TooShort(cur, rem)
    <2>1. scan' \in ScanType /\ scan'.step = "failed"
        <3>1. scan' = [scan EXCEPT !.step = "failed"]
            BY <1>1, <1>9
        <3>2. "failed" \in Steps
            BY DEF Steps
        <3> QED BY <1>2, <3>1, <3>2, StepMade
    <2>2. L < MainEnds
        <3>1. SUFFICES ASSUME L = MainEnds PROVE FALSE
            BY <1>5
        <3>2. rem > 1
            BY <3>1, <1>a
        <3>3. CASE h = n
            <4>1. 2 * n - 1 <= L /\ cur = 2 * n - 1
                BY <3>1, <3>3, <1>4, <1>a
            <4>2. payload[cur] = 0
                BY <4>1, <1>7
            <4>3. ~(payload[cur] >= 128)
                BY <4>2
            <4> QED BY <4>3, <3>2, <1>9, <1>3 DEF TooShort
        <3>4. CASE h < n
            <4>1. 2 * h <= L /\ cur + 1 = 2 * h
                <5>1. 2 * h <= L
                    BY <3>1, <3>4, <1>a
                <5>2. cur + 1 = 2 * h
                    BY <1>4
                <5> QED BY <5>1, <5>2
            <4>2. payload[cur + 1] = Len(carried[h])
                <5>1. h \in 1..n - 1
                    BY <3>4, <1>5, <1>8
                <5> QED BY <5>1, <4>1, <1>7
            <4>3. laid[h] + Len(carried[h]) <= laid[n]
                <5>1. h + 1 \in 1..n /\ laid[h + 1] = laid[h] + Len(carried[h])
                    BY <3>4, <1>5, <1>8
                <5> QED BY <5>1, <1>6
            <4>4. rem > 2 /\ Len(carried[h]) + 2 < rem
                BY <3>1, <3>4, <4>3, <1>8, <1>a
            <4>5. rem # 2 /\ ~(payload[cur + 1] + 2 >= rem)
                <5> HIDE DEF rem
                <5> QED BY <4>2, <4>4, <1>3, <1>8
            <4> QED BY <4>5, <3>2, <1>9, <1>3 DEF TooShort
        <3> QED BY <3>3, <3>4, <1>5, <1>8
    <2>3. RedRead'
        BY <2>1, <2>2, <1>u DEF RedRead
    <2> QED BY <1>1, <1>2, <2>1, <2>3, RedStep
<1>10. CASE ~TooShort(cur, rem)
    <2>1. rem > 1 /\ (payload[cur] >= 128 => rem # 2 /\ ~(payload[cur + 1] + 2 >= rem))
        <3>1. ~(rem <= 1)
            BY <1>10 DEF TooShort
        <3>2. payload[cur] >= 128 => rem # 2 /\ ~(payload[cur + 1] + 2 >= rem)
            BY <1>10 DEF TooShort
        <3> QED BY <3>1, <3>2, <1>3
    <2>2. 2 * h <= L /\ 2 * h - 1 <= L /\ cur + 1 = 2 * h
        <3>1. 2 * h <= L /\ 2 * h - 1 <= L
            BY <2>1, <1>a
        <3>2. cur + 1 = 2 * h
            BY <1>4
        <3> QED BY <3>1, <3>2
    <2>3. CASE h = n
        <3>1. payload[cur] = 0 /\ payload[cur] < 128
            BY <2>2, <2>3, <1>4, <1>7
        <3>2. scan' = ends
            BY <1>1, <1>10, <3>1
        <3>3. ends = [step |-> "blocks", cur |-> cur + 1, rem |-> rem - 1, sizes |-> scan.sizes,
                      frames |-> scan.frames]
            <4>1. PICK st, c, r : st = "blocks" /\ c = cur + 1 /\ r = rem - 1
                OBVIOUS
            <4>2. ends = [scan EXCEPT !.step = st, !.cur = c, !.rem = r]
                BY <4>1, Zenon
            <4>3. ends = [step |-> st, cur |-> c, rem |-> r, sizes |-> scan.sizes, frames |-> scan.frames]
                <5> HIDE DEF ends
                <5> QED BY ONLY <1>2, <4>2, BegunMade
            <4> QED BY <4>1, <4>3, Zenon
        <3>4. /\ scan' \in ScanType /\ scan'.step = "blocks" /\ scan'.cur = cur + 1
              /\ scan'.rem = rem - 1 /\ scan'.sizes = scan.sizes /\ scan'.frames = scan.frames
            <4>1. "blocks" \in Steps /\ cur + 1 \in Nat /\ cur + 1 > 0 /\ rem - 1 \in Nat
                BY <1>3, <2>1 DEF Steps
            <4> DEFINE c == cur + 1
                       r == rem - 1
            <4>2. scan' = [step |-> "blocks", cur |-> c, rem |-> r, sizes |-> scan.sizes,
                           frames |-> scan.frames]
                BY <3>2, <3>3
            <4>3. c \in Nat /\ c > 0 /\ r \in Nat
                BY <4>1
            <4> HIDE DEF c, r
            <4>4. /\ scan' \in ScanType /\ scan'.step = "blocks" /\ scan'.cur = c
                  /\ scan'.rem = r /\ scan'.sizes = scan.sizes /\ scan'.frames = scan.frames
                BY <4>1, <4>2, <4>3, <1>3, ScanMade
            <4> QED BY <4>4 DEF c, r
        <3>5. scan'.cur = laid[1] + 1 /\ scan'.rem = L - MainBegins /\ L > MainBegins
            <4>1. rem - 1 = L - laid[n] /\ cur + 1 = laid[1] + 1
                <5>1. rem - 1 = L - laid[n]
                    BY <2>3, <1>a
                <5>2. cur = 2 * n - 1 /\ laid[1] = 2 * n - 1
                    BY <2>3, <1>4, <1>5
                <5> QED BY <5>1, <5>2
            <4>2. L > MainBegins
                <5> HIDE DEF L, n, rem, cur
                <5> QED BY ONLY <4>1, <2>1, <1>3, <1>5, <1>8
            <4> QED BY <4>1, <4>2, <3>4, <1>5
        <3>6. RedRead'
            <4>1. Len(scan'.sizes) + 1 = n /\ Len(scan'.frames) + 1 = 1 /\ Len(carried') = n /\ 1 <= n
                <5>1. Len(scan'.sizes) + 1 = n /\ Len(scan'.frames) + 1 = 1 /\ Len(carried') = n
                    BY <3>4, <2>3, <1>4, <1>h, <1>u
                <5>2. 1 <= n
                    BY <1>5
                <5> QED BY <5>1, <5>2
            <4>2. \A j \in 1..n - 1 : scan'.sizes[j] = Len(carried'[j])
                BY <3>4, <2>3, <1>4, <1>u
            <4>3. \A j \in 1..1 - 1 : FALSE
                OBVIOUS
            <4>4. /\ scan'.cur = laid'[1] + 1 /\ scan'.rem = Len(payload') - MainBegins'
                  /\ Len(payload') > MainBegins'
                BY <3>5, <1>u
            <4> QED BY <3>4, <4>1, <4>2, <4>3, <4>4 DEF RedRead
        <3> QED BY <1>1, <1>2, <3>4, <3>6, RedStep
    <2>4. CASE h < n
        <3>1. payload[cur] = 128 + h /\ payload[cur + 1] = Len(carried[h]) /\ h \in 1..n - 1
            <4>1. h \in 1..n - 1 /\ cur = 2 * h - 1
                BY <2>4, <1>4, <1>5, <1>8
            <4> QED BY <4>1, <2>2, <1>7
        <3>2. ~(payload[cur] < 128) /\ payload[cur] >= 128
            BY <3>1, <1>8
        <3> DEFINE z == Len(carried[h])
                   c == cur + 2
                   r == rem - z - 2
        <3>3. z + 2 < rem /\ z \in Nat /\ z \in Octet
            <4>1. ~(z + 2 >= rem) /\ z \in Nat /\ z \in Octet
                BY <3>1, <3>2, <2>1, <1>6, <1>8
            <4> HIDE DEF z
            <4> QED BY <4>1, <1>3
        <3>4. scan' = [scan EXCEPT !.cur = c, !.rem = r, !.sizes = Append(@, z)]
            BY <1>1, <1>10, <3>1, <3>2
        <3>5. c \in Nat /\ c > 0 /\ r \in Nat /\ r > 0
            <4> HIDE DEF z
            <4> QED BY <3>3, <1>3
        <3>6. scan' = [step |-> scan.step, cur |-> c, rem |-> r, sizes |-> Append(scan.sizes, z),
                       frames |-> scan.frames]
            <4> HIDE DEF c, r, z
            <4> QED BY <3>4, <1>2, SizeMade
        <3>7. Append(scan.sizes, z) \in Seq(Octet) /\ Len(Append(scan.sizes, z)) = h
              /\ Append(scan.sizes, z)[h] = z /\ \A j \in 1..h - 1 : Append(scan.sizes, z)[j] = scan.sizes[j]
            <4> HIDE DEF z
            <4>1. Append(scan.sizes, z) \in Seq(Octet) /\ Len(Append(scan.sizes, z)) = Len(scan.sizes) + 1
                  /\ Append(scan.sizes, z)[Len(scan.sizes) + 1] = z
                  /\ \A j \in 1..Len(scan.sizes) : Append(scan.sizes, z)[j] = scan.sizes[j]
                BY <3>3, <1>3, AppendProperties
            <4>2. Len(scan.sizes) = h - 1
                BY <1>h, <1>3
            <4> QED BY <4>1, <4>2, <1>h
        <3>8. /\ scan' \in ScanType /\ scan'.step = "headers" /\ scan'.cur = c
              /\ scan'.rem = r /\ scan'.sizes = Append(scan.sizes, z) /\ scan'.frames = scan.frames
            <4> DEFINE zs == Append(scan.sizes, z)
            <4>1. "headers" \in Steps /\ zs \in Seq(Octet)
                BY <3>7 DEF Steps
            <4>2. scan' = [step |-> "headers", cur |-> c, rem |-> r, sizes |-> zs, frames |-> scan.frames]
                BY <3>6, <1>1
            <4> HIDE DEF c, r, zs
            <4>3. /\ scan' \in ScanType /\ scan'.step = "headers" /\ scan'.cur = c
                  /\ scan'.rem = r /\ scan'.sizes = zs /\ scan'.frames = scan.frames
                BY <4>1, <4>2, <3>5, <1>3, ScanMade
            <4> QED BY <4>3 DEF zs
        <3>9. /\ c = 2 * (h + 1) - 1
              /\ r = L - 2 * ((h + 1) - 1) - (laid[h + 1] - laid[1])
            <4>1. laid[h + 1] = laid[h] + z
                BY <2>4, <1>8
            <4>2. z \in Nat
                BY <3>3
            <4>3. c = cur + 2 /\ r = rem - z - 2
                OBVIOUS
            <4>4. r = L - 2 * ((h + 1) - 1) - ((laid[h] + z) - laid[1])
                <5> HIDE DEF L, n, rem, cur, z, c, r
                <5> QED BY <4>2, <4>3, <1>a
            <4>5. c = 2 * (h + 1) - 1
                <5> HIDE DEF c, cur
                <5> QED BY <4>3, <1>4
            <4> QED BY <4>1, <4>4, <4>5
        <3>10. RedRead'
            <4>1. /\ Len(scan'.sizes) + 1 = h + 1 /\ Len(scan'.frames) + 1 = 1 /\ Len(carried') = n
                  /\ h + 1 <= n /\ (h + 1) - 1 = h
                <5>1. h + 1 <= n /\ (h + 1) - 1 = h
                    BY <2>4, <1>5, <1>8
                <5> QED BY <5>1, <3>7, <3>8, <1>4, <1>u
            <4>2. \A j \in 1..(h + 1) - 1 : scan'.sizes[j] = Len(carried'[j])
                <5> TAKE j \in 1..(h + 1) - 1
                <5>1. j = h \/ j \in 1..h - 1
                    BY <1>8
                <5>2. CASE j = h
                    BY <5>2, <3>7, <3>8, <1>u
                <5>3. CASE j \in 1..h - 1
                    BY <5>3, <3>7, <3>8, <1>u, <1>4
                <5> QED BY <5>1, <5>2, <5>3
            <4>3. /\ scan'.cur = 2 * (h + 1) - 1
                  /\ scan'.rem = Len(payload') - 2 * ((h + 1) - 1) - (laid'[h + 1] - laid'[1])
                BY <3>8, <3>9, <1>u
            <4> QED BY <3>8, <4>1, <4>2, <4>3 DEF RedRead
        <3> QED BY <1>1, <1>2, <3>8, <3>10, RedStep
    <2> QED BY <2>3, <2>4, <1>5, <1>8
<1> QED BY <1>9, <1>10

\* The loop over the blocks cuts them where they begin and end.
LEMMA ReadBlockOK == PacketInv /\ ReadBlock => PacketInv'
<1> SUFFICES ASSUME PacketInv, ReadBlock PROVE PacketInv'
    OBVIOUS
<1> DEFINE n == Len(carried)
           L == Len(payload)
<1>1. scan.step = "blocks" /\ UNCHANGED <<payload, carried, laid, format, played>>
    BY DEF ReadBlock
<1>2. PacketTyped /\ Complete /\ format = "red" /\ scan \in ScanType
    <2>1. PacketTyped /\ Complete /\ scan \in ScanType
        BY <1>1 DEF PacketInv, PacketFresh, PacketTyped
    <2>2. format # "bare" /\ format # "container" /\ format # "none"
        BY <1>1 DEF PacketInv, PacketFresh, BareSound, ContainerRead
    <2> QED BY <2>1, <2>2 DEF PacketTyped
<1>3. /\ scan.cur \in Nat /\ scan.cur > 0 /\ scan.rem \in Nat
      /\ scan.sizes \in Seq(Octet) /\ scan.frames \in Seq(Seq(Octet))
    BY <1>2, ScanFields
<1>k. PICK k \in Nat : k = Len(scan.frames) + 1
    BY <1>3
<1>4. /\ Len(scan.sizes) + 1 = n /\ k <= n /\ scan.cur = laid[k] + 1
      /\ scan.rem = L - MainBegins /\ L > MainBegins
      /\ \A j \in 1..k - 1 : scan.frames[j] = carried[j]
      /\ \A j \in 1..n - 1 : scan.sizes[j] = Len(carried[j])
    BY <1>1, <1>2, <1>k DEF PacketInv, RedRead
<1>5. /\ n \in Nat /\ n >= 2 /\ L \in Nat /\ Len(laid) = n /\ played = <<>>
      /\ MainBegins \in Nat /\ MainBegins = laid[n] /\ L <= MainEnds
      /\ MainEnds = laid[n] + Len(carried[n]) /\ MainEnds \in Nat
    BY <1>2, RedFacts
<1>6. \A j \in 1..n :
        /\ laid[j] \in Nat /\ carried[j] \in Bytes
        /\ Len(carried[j]) \in Nat /\ Len(carried[j]) > 0
        /\ InPlace(j) /\ laid[j] <= laid[n]
        /\ j < n => laid[j + 1] = laid[j] + Len(carried[j])
    BY <1>2, RedFacts
<1>u. /\ payload' = payload /\ carried' = carried /\ laid' = laid /\ format' = format
      /\ MainBegins' = MainBegins /\ MainEnds' = MainEnds
    BY <1>1 DEF MainBegins, MainEnds
<1>7. /\ k \in 1..n /\ k > 0 /\ laid[k] \in Nat /\ carried[k] \in Bytes /\ Len(carried[k]) \in Nat
      /\ InPlace(k) /\ carried \in Seq(Bytes) /\ payload \in Seq(Octet) /\ Len(scan.frames) = k - 1
      /\ carried[k] \in Seq(Octet)
    <2>1. k \in 1..n /\ k > 0 /\ Len(scan.frames) = k - 1
        <3>1. k <= n
            BY <1>4
        <3>2. Len(scan.frames) \in Nat
            BY <1>3
        <3>3. k = Len(scan.frames) + 1 /\ n \in Nat
            BY <1>k, <1>5
        <3> HIDE DEF n
        <3> QED BY <3>1, <3>2, <3>3
    <2>2. carried \in Seq(Bytes) /\ payload \in Seq(Octet)
        BY <1>2 DEF PacketTyped
    <2> QED BY <2>1, <2>2, <1>6, BytesOf
<1>8. ASSUME laid[k] + Len(carried[k]) <= L
      PROVE  SubSeq(payload, laid[k] + 1, laid[k] + Len(carried[k])) = carried[k]
    <2>1. \A i \in 1..Len(carried[k]) : payload[laid[k] + i] = carried[k][i]
        <3> TAKE i \in 1..Len(carried[k])
        <3>1. laid[k] + i <= Len(payload)
            BY <1>5, <1>7, <1>8
        <3> QED BY <3>1, <1>7 DEF InPlace
    <2> QED BY <1>7, <1>8, <2>1, Extract
<1> DEFINE main == k > Len(scan.sizes)
           size == IF main THEN scan.rem ELSE scan.sizes[k]
           block == SubSeq(payload, scan.cur, scan.cur + size - 1)
<1>9. scan' = [scan EXCEPT !.step = IF main THEN "done" ELSE @, !.cur = @ + size,
                           !.frames = Append(@, block)]
    BY <1>k DEF ReadBlock
<1>10. main \in BOOLEAN /\ (main <=> k = n)
    BY <1>3, <1>4, <1>5, <1>7
<1>11. scan' = [step |-> IF main THEN "done" ELSE scan.step, cur |-> scan.cur + size, rem |-> scan.rem,
                sizes |-> scan.sizes, frames |-> Append(scan.frames, block)]
    <2> HIDE DEF main, size, block
    <2> QED BY <1>9, <1>10, <1>2, BlockMade
<1>12. ASSUME size \in Nat, block \in Seq(Octet)
       PROVE  /\ scan' \in ScanType /\ scan'.step = (IF main THEN "done" ELSE "blocks")
              /\ scan'.cur = scan.cur + size /\ scan'.rem = scan.rem /\ scan'.sizes = scan.sizes
              /\ scan'.frames = Append(scan.frames, block)
    <2> DEFINE st == IF main THEN "done" ELSE "blocks"
               c == scan.cur + size
               f == Append(scan.frames, block)
    <2> HIDE DEF main, size, block
    <2>1. st \in Steps
        BY <1>10 DEF Steps
    <2>2. c \in Nat /\ c > 0
        BY <1>12, <1>3
    <2>3. f \in Seq(Seq(Octet))
        BY <1>12, <1>3, AppendProperties
    <2>4. scan' = [step |-> st, cur |-> c, rem |-> scan.rem, sizes |-> scan.sizes, frames |-> f]
        BY <1>11, <1>1
    <2> HIDE DEF st, c, f
    <2>5. /\ scan' \in ScanType /\ scan'.step = st /\ scan'.cur = c /\ scan'.rem = scan.rem
          /\ scan'.sizes = scan.sizes /\ scan'.frames = f
        BY <2>1, <2>2, <2>3, <2>4, <1>3, ScanMade
    <2> QED BY <2>5 DEF st, c, f
<1>13. CASE k < n
    <2>1. ~main /\ size = Len(carried[k]) /\ size \in Nat
        <3>1. ~main
            BY <1>10, <1>13, <1>5, <1>7
        <3>2. k \in 1..n - 1
            BY <1>13, <1>5, <1>7
        <3> QED BY <3>1, <3>2, <1>4, <1>7
    <2>2. laid[k + 1] = laid[k] + Len(carried[k]) /\ laid[k + 1] <= laid[n] /\ laid[k + 1] \in Nat
          /\ k + 1 \in 1..n
        <3>1. k + 1 \in 1..n
            BY <1>13, <1>5, <1>7
        <3> QED BY <3>1, <1>13, <1>6, <1>7
    <2>3. block = carried[k]
        <3>1. laid[k] + Len(carried[k]) <= L
            <4> HIDE DEF L, n
            <4>1. laid[n] \in Nat
                BY <1>5
            <4> QED BY ONLY <4>1, <2>2, <1>4, <1>5, <1>7
        <3>2. scan.cur + size - 1 = laid[k] + Len(carried[k])
            <4>1. scan.cur = laid[k] + 1 /\ laid[k] \in Nat
                BY <1>4, <1>7
            <4>2. size = Len(carried[k]) /\ size \in Nat
                BY <2>1
            <4> HIDE DEF size
            <4> QED BY ONLY <4>1, <4>2
        <3> QED BY <3>1, <3>2, <1>8, <1>4
    <2>4. /\ scan' \in ScanType /\ scan'.step = "blocks" /\ scan'.cur = scan.cur + Len(carried[k])
          /\ scan'.rem = scan.rem /\ scan'.sizes = scan.sizes
          /\ scan'.frames = Append(scan.frames, carried[k])
        <3>1. block \in Seq(Octet)
            BY <2>3, <1>7
        <3> HIDE DEF main, size, block
        <3> QED BY <2>1, <2>3, <3>1, <1>12
    <2>5. scan'.cur = laid[k + 1] + 1
        BY <2>2, <2>4, <1>4, <1>7
    <2>6. Len(scan'.frames) = k /\ \A j \in 1..k : scan'.frames[j] = carried[j]
        <3>1. /\ Len(scan.frames) < Len(carried) /\ carried[k] = carried[Len(scan.frames) + 1]
              /\ \A j \in 1..Len(scan.frames) : scan.frames[j] = carried[j]
            BY <1>k, <1>4, <1>5, <1>7
        <3>2. LET g == Append(scan.frames, carried[k])
              IN Len(g) = Len(scan.frames) + 1 /\ \A j \in 1..Len(scan.frames) + 1 : g[j] = carried[j]
            BY <3>1, <1>3, <1>7, FramesGrow
        <3> QED BY <3>2, <2>4, <1>k
    <2>7. RedRead'
        <3>1. /\ Len(scan'.frames) + 1 = k + 1 /\ Len(scan'.sizes) + 1 = n /\ Len(carried') = n
              /\ (k + 1) - 1 = k /\ k + 1 <= n
            BY <2>2, <2>4, <2>6, <1>4, <1>7, <1>u
        <3>2. /\ scan'.cur = laid'[k + 1] + 1 /\ scan'.rem = Len(payload') - MainBegins'
              /\ Len(payload') > MainBegins'
              /\ \A j \in 1..(k + 1) - 1 : scan'.frames[j] = carried'[j]
              /\ \A j \in 1..n - 1 : scan'.sizes[j] = Len(carried'[j])
            BY <3>1, <2>4, <2>5, <2>6, <1>4, <1>u
        <3> QED BY <3>1, <3>2, <2>4 DEF RedRead
    <2> QED BY <1>1, <1>2, <2>4, <2>7, RedStep
<1>14. CASE k = n
    <2>1. main /\ size = L - laid[n] /\ size \in Nat /\ scan.cur + size - 1 = L
        <3>1. main
            BY <1>10, <1>14
        <3>2. size = L - laid[n]
            BY <3>1, <1>4, <1>5
        <3>3. laid[n] \in Nat /\ laid[k] = laid[n]
            BY <1>5, <1>14
        <3> HIDE DEF L, n, size
        <3>4. size \in Nat /\ scan.cur + size - 1 = L
            <4>1. scan.cur = laid[n] + 1 /\ L > laid[n] /\ L \in Nat
                BY <3>3, <1>4, <1>5
            <4> QED BY ONLY <4>1, <3>2, <3>3
        <3> QED BY <3>1, <3>2, <3>4
    <2>2. block = SubSeq(payload, laid[n] + 1, L) /\ block \in Seq(Octet)
        <3>1. block = SubSeq(payload, laid[n] + 1, L)
            BY <2>1, <1>4, <1>14
        <3>2. laid[n] + 1 \in Nat /\ laid[n] + 1 > 0
            BY <1>5
        <3>3. L \in Nat /\ L <= Len(payload) /\ payload \in Seq(Octet)
            BY <1>5, <1>7
        <3>4. SubSeq(payload, laid[n] + 1, L) \in Seq(Octet)
            <4> HIDE DEF L, n
            <4> QED BY ONLY <3>2, <3>3, Slice
        <3> QED BY <3>1, <3>4
    <2>3. /\ scan' \in ScanType /\ scan'.step = "done"
          /\ scan'.frames = Append(scan.frames, block)
        <3> HIDE DEF main, size, block
        <3> QED BY <2>1, <2>2, <1>12
    <2>4. L = MainEnds => scan'.frames = carried
        <3> SUFFICES ASSUME L = MainEnds PROVE scan'.frames = carried
            OBVIOUS
        <3>1. block = carried[n]
            BY <2>2, <1>5, <1>8, <1>14
        <3>2. /\ Len(scan.frames) < Len(carried) /\ carried[n] = carried[Len(scan.frames) + 1]
              /\ \A j \in 1..Len(scan.frames) : scan.frames[j] = carried[j]
              /\ Len(scan.frames) + 1 = n
            BY <1>k, <1>4, <1>5, <1>7, <1>14
        <3>3. carried[n] \in Seq(Octet)
            BY <1>7, <1>14
        <3>4. LET g == Append(scan.frames, carried[n])
              IN g \in Seq(Seq(Octet)) /\ Len(g) = Len(scan.frames) + 1
                 /\ \A j \in 1..Len(scan.frames) + 1 : g[j] = carried[j]
            BY <3>2, <3>3, <1>3, <1>7, FramesGrow
        <3>5. scan'.frames \in Seq(Seq(Octet)) /\ Len(scan'.frames) = Len(carried)
              /\ \A j \in 1..Len(carried) : scan'.frames[j] = carried[j]
            BY <2>3, <3>1, <3>2, <3>4
        <3> QED BY <3>5, <1>7, WholeFrames
    <2>5. RedRead'
        BY <2>3, <2>4, <1>4, <1>u DEF RedRead
    <2> QED BY <1>1, <1>2, <2>3, <2>5, RedStep
<1> QED BY <1>13, <1>14, <1>5, <1>7

\* Each frame of a packet is played once, in its place and for its own time, also the
\* frames of a container, and the blocks of a packet with redundancy come out as they went
\* in, for any frames of at most 255 bytes and any number of them the formats hold
\* (MlowDecoder.Decode, splitContainer, decodeFrame, fallbackCodec.Decode, DepackSplitRed).
THEOREM FramesArePlayed == PacketSpec => []EachFramePlayed
<1>1. PacketInit => PacketInv
    BY PacketInitSound
<1>2. PacketInv /\ [PacketNext]_packetVars => PacketInv'
    <2> SUFFICES ASSUME PacketInv, [PacketNext]_packetVars PROVE PacketInv'
        OBVIOUS
    <2>1. ASSUME NEW f \in Frames \cup {<<b>> : b \in 0..255}, Bare(f) PROVE PacketInv'
        <3>1. f \in Bytes
            BY FramesAreBytes, ByteIsBytes DEF Octet
        <3> QED BY <2>1, <3>1, BareOK
    <2>2. ASSUME NEW n \in 2..PerPacket, NEW fs \in [1..n -> Frames], Container(fs) \/ Redundant(fs)
          PROVE  PacketInv'
        BY <2>2, ContainerOK, RedundantOK
    <2>3. ASSUME NEW n \in 0..Len(payload), Cut(n) PROVE PacketInv'
        BY <2>3, CutOK
    <2>4. CASE UNCHANGED packetVars
        BY <2>4 DEF packetVars, PacketInv, PacketTyped, PacketFresh, Complete, BareSound,
            ContainerLaid, ContainerRead, RedLaid, RedRead, InPlace, Gap, MainBegins, MainEnds
    <2>5. CASE PutFrame \/ DecodePayload \/ splitContainer \/ DepackSplitRed \/ ReadHeader \/ ReadBlock
        BY <2>5, PutFrameOK, DecodeOK, SplitContainerOK, DepackSplitRedOK, ReadHeaderOK, ReadBlockOK
    <2> QED BY <2>1, <2>2, <2>3, <2>4, <2>5 DEF PacketNext
<1> QED BY <1>1, <1>2, PacketSays, PTL DEF PacketSpec
=============================================================================
