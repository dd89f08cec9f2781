---------------------------- MODULE MediaProofs -----------------------------
(***************************************************************************)
(* RTCP reports with clocks and counters of any size, recordings with      *)
(* frames, buffers and chunks of any size, and H.264 frames of any number  *)
(* and length of units, cut into payloads of any size.                     *)
(***************************************************************************)
EXTENDS RtcpReports, Recording, VideoFrames, SequenceTheorems, TLAPS

-----------------------------------------------------------------------------
(* RTCP reports.                                                           *)

\* A quotient is below what its dividend is below.
LEMMA DivBound ==
    ASSUME NEW a \in Nat, NEW b \in Nat \ {0}, NEW k \in Nat, a < k * b
    PROVE  a \div b \in Nat /\ a \div b < k
OBVIOUS

\* The fraction lost fits in 8 bits when something was received of what was expected.
LEMMA FractionFits ==
    ASSUME NEW e \in Int, NEW r \in Int, e > 0 => r > 0
    PROVE  Fraction(e, r) \in 0..255
<1>1. CASE e > 0 /\ e > r
  <2>1. (e - r) * 256 \in Nat /\ e \in Nat \ {0} /\ (e - r) * 256 < 256 * e
    BY <1>1
  <2>2. ((e - r) * 256) \div e \in Nat /\ ((e - r) * 256) \div e < 256
    BY <2>1, DivBound
  <2> QED
    BY <1>1, <2>2 DEF Fraction
<1> QED
  BY <1>1 DEF Fraction

\* The remainder, and the quotient as a number of its own.
LEMMA ModIs ==
    ASSUME NEW c \in Nat, NEW m \in Nat \ {0}
    PROVE  \E q \in Nat : c % m = c - q * m /\ c % m \in 0..(m - 1)
<1>1. c % m \in 0..(m - 1)
  OBVIOUS
<1>2. c \div m \in Nat
  OBVIOUS
<1>3. c % m = c - (c \div m) * m
  OBVIOUS
<1> QED
  BY <1>1, <1>2, <1>3

\* Between two times the remainders grow by no more than the times.
LEMMA ModGrows ==
    ASSUME NEW t \in Nat, NEW c \in Nat, t <= c, NEW m \in Nat \ {0}
    PROVE  (c % m) - (t % m) <= c - t
<1>1. PICK p \in Nat : c % m = c - p * m /\ c % m \in 0..(m - 1)
  BY ModIs
<1>2. PICK q \in Nat : t % m = t - q * m /\ t % m \in 0..(m - 1)
  BY ModIs
<1>3. CASE q > p
  <2>1. q = p + (q - p) /\ q - p \in Nat /\ q - p >= 1
    BY <1>3
  <2>2. q * m >= p * m + m
    BY <2>1
  <2> QED
    BY <1>1, <1>2, <2>2
<1>4. CASE q <= p
  <2>1. p = q + (p - q) /\ p - q \in Nat
    BY <1>4
  <2>2. (p - q) * m \in Nat
    BY <2>1
  <2>3. p * m = q * m + (p - q) * m
    BY <2>1
  <2> DEFINE x == p * m
             y == q * m
             u == c % m
             v == t % m
  <2>4. x \in Int /\ y \in Int /\ y <= x
    BY <2>2, <2>3
  <2>5. u \in Int /\ v \in Int
    BY <1>1, <1>2
  <2>6. u = c - x /\ v = t - y
    BY <1>1, <1>2
  <2> HIDE DEF x, y, u, v
  <2>7. u - v <= c - t
    BY <2>4, <2>5, <2>6
  <2> QED
    BY <2>7 DEF u, v
<1> QED
  BY <1>3, <1>4

\* A small number is its own remainder.
LEMMA ModSmall ==
    ASSUME NEW x \in Nat, NEW m \in Nat \ {0}, x < m
    PROVE  x % m = x
OBVIOUS

-----------------------------------------------------------------------------
RtcpType ==
    /\ newest \in Nat /\ first \in Nat
    /\ stats \in [init : BOOLEAN, base : Nat, max : Nat, cycles : Nat, received : Nat,
                  expectPrev : Int, recvPrev : Nat]
    /\ clock \in Nat /\ reports \in SUBSET (0..clock)

\* Since the last report either a packet has been counted, or nothing has changed.
CountedOrSame(r) ==
    \/ r.received > r.recvPrev
    \/ r.received = r.recvPrev /\ Expected(r) = r.expectPrev

\* The inductive invariant of the reports.
RtcpInv == RtcpType /\ CountedOrSame(stats) /\ ReportsMakeSense

\* Init, and one lemma for each action.
LEMMA RtcpInitInv == RtcpInit => RtcpInv
BY DEF RtcpInit, RtcpInv, RtcpType, CountedOrSame, ReportsMakeSense, NewStats, Expected

\* OnPacket: what is expected grows by at least nothing, what is received by one.
LEMMA ArrivalInv ==
    ASSUME RtcpInv, NEW i \in 1..MaxArrivals, Arrival(i)
    PROVE  RtcpInv'
<1>1. MaxArrivals \in Nat /\ SeqSpace \in Nat \ {0}
  BY RtcpAssumption
<1>2. i % SeqSpace \in Nat
  BY <1>1
<1>3. /\ stats' \in [init : BOOLEAN, base : Nat, max : Nat, cycles : Nat, received : Nat,
                     expectPrev : Int, recvPrev : Nat]
      /\ stats'.received = stats.received + 1
      /\ stats'.recvPrev = stats.recvPrev
  <2>1. \A q \in Nat : 
          /\ NoteRTP(stats, q) \in [init : BOOLEAN, base : Nat, max : Nat, cycles : Nat,
                                    received : Nat, expectPrev : Int, recvPrev : Nat]
          /\ NoteRTP(stats, q).received = stats.received + 1
          /\ NoteRTP(stats, q).recvPrev = stats.recvPrev
    <3> TAKE q \in Nat
    <3>1. CASE ~stats.init
      <4>1. NoteRTP(stats, q) = 
                [init |-> TRUE, base |-> q, max |-> q, cycles |-> stats.cycles,
                 received |-> stats.received + 1, expectPrev |-> stats.expectPrev,
                 recvPrev |-> stats.recvPrev]
        BY <3>1 DEF RtcpInv, RtcpType, NoteRTP
      <4> QED
        BY <4>1 DEF RtcpInv, RtcpType
    <3>2. CASE stats.init /\ q < stats.max /\ stats.max - q < SeqSpace \div 2
      BY <3>2 DEF RtcpInv, RtcpType, NoteRTP
    <3>3. CASE stats.init /\ ~(q < stats.max /\ stats.max - q < SeqSpace \div 2)
      <4> DEFINE cycles == IF q < stats.max THEN stats.cycles + SeqSpace ELSE stats.cycles
      <4>1. NoteRTP(stats, q) = 
                [init |-> stats.init, base |-> stats.base, max |-> q, cycles |-> cycles,
                 received |-> stats.received + 1, expectPrev |-> stats.expectPrev,
                 recvPrev |-> stats.recvPrev]
        BY <3>3 DEF RtcpInv, RtcpType, NoteRTP
      <4>2. cycles \in Nat
        BY <1>1 DEF RtcpInv, RtcpType
      <4> HIDE DEF cycles
      <4> QED
        BY <4>1, <4>2 DEF RtcpInv, RtcpType
    <3> QED
      BY <3>1, <3>2, <3>3 DEF RtcpInv, RtcpType
  <2> QED
    BY <1>2, <2>1 DEF Arrival
<1>4. newest' \in Nat /\ first' \in Nat
  BY <1>1 DEF Arrival, RtcpInv, RtcpType
<1>5. CountedOrSame(stats)'
  BY <1>3 DEF RtcpInv, RtcpType, CountedOrSame
<1> QED
  BY <1>3, <1>4, <1>5 DEF Arrival, RtcpInv, RtcpType, ReportsMakeSense

\* A block, and what taking it leaves behind.
LEMMA BlockFits ==
    ASSUME NEW r \in [init : BOOLEAN, base : Nat, max : Nat, cycles : Nat, received : Nat,
                      expectPrev : Int, recvPrev : Nat],
           CountedOrSame(r)
    PROVE  /\ Block(r).fraction \in 0..255
           /\ Reported(r) \in [init : BOOLEAN, base : Nat, max : Nat, cycles : Nat,
                               received : Nat, expectPrev : Int, recvPrev : Nat]
           /\ CountedOrSame(Reported(r))
<1>1. Expected(r) \in Int
  BY DEF Expected, ExtHigh
<1>2. Expected(r) - r.expectPrev > 0 => r.received - r.recvPrev > 0
  BY <1>1 DEF CountedOrSame
<1>3. Block(r).fraction \in 0..255
  <2>1. Expected(r) - r.expectPrev \in Int /\ r.received - r.recvPrev \in Int
    BY <1>1
  <2>2. Fraction(Expected(r) - r.expectPrev, r.received - r.recvPrev) \in 0..255
    BY <1>2, <2>1, FractionFits
  <2> QED
    BY <2>2 DEF Block
<1>4. Expected(Reported(r)) = Expected(r)
  BY DEF Expected, ExtHigh, Reported
<1>5. CountedOrSame(Reported(r))
  BY <1>1, <1>4 DEF CountedOrSame, Reported
<1> QED
  BY <1>1, <1>3, <1>5 DEF Reported

\* emitRtcpSR: the block is made of the counters, which are then remembered.
LEMMA EmitInv ==
    ASSUME RtcpInv, emitRtcpSR
    PROVE  RtcpInv'
<1> DEFINE once == Reported(stats)
           twice == Reported(once)
<1>1. Block(stats).fraction \in 0..255 /\ CountedOrSame(once)
      /\ once \in [init : BOOLEAN, base : Nat, max : Nat, cycles : Nat,
                   received : Nat, expectPrev : Int, recvPrev : Nat]
  BY BlockFits DEF RtcpInv, RtcpType
<1>2. Block(once).fraction \in 0..255 /\ CountedOrSame(twice)
      /\ twice \in [init : BOOLEAN, base : Nat, max : Nat, cycles : Nat,
                    received : Nat, expectPrev : Int, recvPrev : Nat]
  BY <1>1, BlockFits
<1> HIDE DEF once, twice
<1>3. PICK video \in BOOLEAN :
        /\ blocks' = IF video THEN <<Block(stats), Block(once)>> ELSE <<Block(stats)>>
        /\ stats' = IF video THEN twice ELSE once
  BY DEF emitRtcpSR, once, twice
<1>4. \A j \in DOMAIN blocks' : blocks'[j].fraction \in 0..255
  BY <1>1, <1>2, <1>3
<1>5. /\ CountedOrSame(stats')
      /\ stats' \in [init : BOOLEAN, base : Nat, max : Nat, cycles : Nat,
                     received : Nat, expectPrev : Int, recvPrev : Nat]
  BY <1>1, <1>2, <1>3
<1>6. reports' \in SUBSET (0..clock)
  BY DEF emitRtcpSR, RtcpInv, RtcpType
<1>7. UNCHANGED <<newest, first, clock, rtt>>
  BY DEF emitRtcpSR
<1> QED
  BY <1>4, <1>5, <1>6, <1>7 DEF RtcpInv, RtcpType, ReportsMakeSense, CountedOrSame, Expected, ExtHigh

\* Time only goes on.
LEMMA TimeInv ==
    ASSUME RtcpInv, TimePasses
    PROVE  RtcpInv'
BY DEF TimePasses, RtcpInv, RtcpType, ReportsMakeSense, CountedOrSame, Expected, ExtHigh

\* The difference of two remainders that Usable lets through does not wrap.
LEMMA PeerReportInv ==
    ASSUME RtcpInv, NEW t \in 0..MaxTime, NEW d \in 0..MaxTime, NotePeerReportBlock(t, d)
    PROVE  RtcpInv'
<1> DEFINE a == clock % TimeMod
           lsr == t % TimeMod
<1>1. TimeMod \in Nat \ {0} /\ clock \in Nat /\ MaxTime \in Nat /\ t \in Nat /\ d \in Nat
      /\ t <= clock
  BY RtcpAssumption DEF RtcpInv, RtcpType, NotePeerReportBlock
<1>2. a \in 0..(TimeMod - 1) /\ lsr \in 0..(TimeMod - 1)
  BY <1>1, ModIs
<1>3. a - lsr <= clock - t
  BY <1>1, ModGrows
<1>4. a >= lsr /\ a - lsr >= d /\ rtt' = [rtt |-> (a - lsr - d) % TimeMod, elapsed |-> clock - t]
  BY DEF NotePeerReportBlock, Usable
<1> HIDE DEF a, lsr
<1>5. a - lsr - d \in Nat /\ a - lsr - d < TimeMod
  BY <1>1, <1>2, <1>4
<1>6. (a - lsr - d) % TimeMod = a - lsr - d
  BY <1>1, <1>5, ModSmall
<1>7. rtt'.rtt <= rtt'.elapsed
  BY <1>1, <1>2, <1>3, <1>4, <1>6
<1> QED
  BY <1>7 DEF NotePeerReportBlock, RtcpInv, RtcpType, ReportsMakeSense, CountedOrSame, Expected, ExtHigh

\* Whatever the relays delay, repeat and lose, and however large the counters and times
\* are, a report block's fraction fits its 8 bits and a round-trip time is not longer than
\* the time since our report (ReportBlock, NotePeerReportBlock).
THEOREM ReportsAreTrue == RtcpSpec => []ReportsMakeSense
<1>1. RtcpInit => RtcpInv
  BY RtcpInitInv
<1>2. RtcpInv /\ [CountNext \/ RttNext]_rtcpVars => RtcpInv'
  <2> SUFFICES ASSUME RtcpInv, [CountNext \/ RttNext]_rtcpVars
               PROVE  RtcpInv'
    OBVIOUS
  <2>1. CASE emitRtcpSR
    BY <2>1, EmitInv
  <2>2. CASE \E i \in 1..MaxArrivals : Arrival(i)
    BY <2>2, ArrivalInv
  <2>3. CASE TimePasses
    BY <2>3, TimeInv
  <2>4. CASE \E t \in 0..MaxTime, d \in 0..MaxTime : NotePeerReportBlock(t, d)
    BY <2>4, PeerReportInv
  <2>5. CASE UNCHANGED rtcpVars
    BY <2>5 DEF rtcpVars, RtcpInv, RtcpType, ReportsMakeSense, CountedOrSame, Expected, ExtHigh
  <2> QED
    BY <2>1, <2>2, <2>3, <2>4, <2>5 DEF CountNext, RttNext
<1>3. RtcpInv => ReportsMakeSense
  BY DEF RtcpInv
<1> QED
  BY <1>1, <1>2, <1>3, PTL DEF RtcpSpec

-----------------------------------------------------------------------------
(* Recordings.                                                             *)

\* The types of the recorders, of the mixed samples and of the file.
Steps == {"open", "taken", "stopped", "drained", "closed"}
RecorderType ==
    [buf : [Legs -> Seq(Nat)], fed : [Legs -> Nat], lost : [Legs -> SUBSET Nat],
     offset : Nat, step : Steps, failed : BOOLEAN, alone : BOOLEAN]

MixType == [peer : Nat, op : Nat]

\* The samples a leg has in its buffer.
Waiting(buf) == {buf[i] : i \in 1..Len(buf)}

\* What a leg has: written in order, then waiting in order, then lost, and nothing else.
LegSound(data, leg, buf, fed, lost) ==
    /\ Written(data, leg) \cup Waiting(buf) = (1..fed) \ lost
    /\ lost \subseteq 1..fed
    /\ InOrder(data, leg)
    /\ \A i, j \in 1..Len(buf) : i < j => buf[i] < buf[j]
    /\ \A n \in Written(data, leg), i \in 1..Len(buf) : n < buf[i]

\* A recorder that has the file for itself: everything it took is in the file, in a
\* buffer or was dropped, and its header and its buffers agree with its step.
RecorderSound(r, w) ==
    /\ Len(w.data) = r.offset
    /\ r.step \in {"drained", "closed"} => \A leg \in Legs : r.buf[leg] = <<>>
    /\ r.step = "closed" => w.header = r.offset
    /\ \A leg \in Legs : LegSound(w.data, leg, r.buf[leg], r.fed[leg], r.lost[leg])

\* The last recorder is sound when the ones before it were closed when it was opened.
LastSound ==
    LET n == Len(recorders) IN
    n > 0 /\ recorders[n].alone =>
        /\ \A q \in 1..n - 1 : recorders[q].step = "closed"
        /\ ~recorders[n].failed => RecorderSound(recorders[n], wav)

RecordingType ==
    /\ recorders \in Seq(RecorderType)
    /\ current \in {0, Len(recorders)}
    /\ wav \in [data : Seq(MixType), header : Nat]

\* The inductive invariant of the recordings.
RecordingInv == RecordingType /\ LastSound

\* The numbers of the samples that come.
LEMMA NumbersAre ==
    ASSUME NEW a \in Nat, NEW n \in Nat
    PROVE  /\ Numbers(a + 1, a + n) \in Seq(Nat)
           /\ Len(Numbers(a + 1, a + n)) = n
           /\ \A i \in 1..n : Numbers(a + 1, a + n)[i] = a + i
<1>1. Numbers(a + 1, a + n) = [i \in 1..n |-> a + i]
  BY DEF Numbers
<1> QED
  BY <1>1

\* New samples are later than all others.
LEMMA AppendSound ==
    ASSUME NEW data \in Seq(MixType), NEW leg \in Legs, NEW buf \in Seq(Nat), NEW fed \in Nat,
           NEW lost \in SUBSET Nat, NEW n \in Nat, LegSound(data, leg, buf, fed, lost)
    PROVE  /\ buf \o Numbers(fed + 1, fed + n) \in Seq(Nat)
           /\ LegSound(data, leg, buf \o Numbers(fed + 1, fed + n), fed + n, lost)
<1> DEFINE new == Numbers(fed + 1, fed + n)
           all == buf \o new
<1>1. new \in Seq(Nat) /\ Len(new) = n /\ \A i \in 1..n : new[i] = fed + i
  BY NumbersAre
<1> HIDE DEF new
<1>2. /\ all \in Seq(Nat) /\ Len(all) = Len(buf) + n
      /\ \A i \in 1..Len(buf) : all[i] = buf[i]
      /\ \A i \in 1..n : all[Len(buf) + i] = fed + i
  <2>1. all \in Seq(Nat) /\ Len(all) = Len(buf) + n
    <3>1. all \in Seq(Nat) /\ Len(all) = Len(buf) + Len(new)
      BY <1>1, ConcatProperties
    <3> QED
      BY <1>1, <3>1
  <2>2. \A i \in 1..Len(buf) : all[i] = buf[i]
    BY <1>1
  <2>3. ASSUME NEW i \in 1..n
        PROVE  all[Len(buf) + i] = fed + i
    <3>1. Len(buf) + i \in 1..(Len(buf) + Len(new)) /\ Len(buf) + i > Len(buf)
      BY <1>1
    <3>2. all[Len(buf) + i] = new[Len(buf) + i - Len(buf)]
      BY <1>1, <3>1
    <3>3. Len(buf) + i - Len(buf) = i
      OBVIOUS
    <3> QED
      BY <1>1, <3>2, <3>3
  <2> QED
    BY <2>1, <2>2, <2>3
<1> HIDE DEF all
<1>3. \A i \in 1..Len(buf) : buf[i] \in 1..fed
  BY DEF LegSound, Waiting
<1>4. Waiting(all) = Waiting(buf) \cup ((fed + 1)..(fed + n))
  <2>1. \A x : x \in Waiting(all) => x \in Waiting(buf) \cup ((fed + 1)..(fed + n))
    <3> SUFFICES ASSUME NEW i \in 1..Len(all)
                 PROVE  all[i] \in Waiting(buf) \cup ((fed + 1)..(fed + n))
      BY DEF Waiting
    <3>1. CASE i \in 1..Len(buf)
      BY <1>2, <3>1 DEF Waiting
    <3>2. CASE i \notin 1..Len(buf)
      <4>1. i - Len(buf) \in 1..n /\ i = Len(buf) + (i - Len(buf))
        BY <1>2, <3>2
      <4>2. all[i] = fed + (i - Len(buf))
        BY <1>2, <4>1
      <4> QED
        BY <4>1, <4>2
    <3> QED
      BY <3>1, <3>2
  <2>2. \A x : x \in Waiting(buf) => x \in Waiting(all)
    BY <1>2 DEF Waiting
  <2>3. \A x \in (fed + 1)..(fed + n) : x \in Waiting(all)
    <3> TAKE x \in (fed + 1)..(fed + n)
    <3>1. x - fed \in 1..n /\ Len(buf) + (x - fed) \in 1..Len(all)
      BY <1>2
    <3>2. all[Len(buf) + (x - fed)] = fed + (x - fed)
      BY <1>2, <3>1
    <3>3. fed + (x - fed) = x
      OBVIOUS
    <3> QED
      BY <3>1, <3>2, <3>3 DEF Waiting
  <2> QED
    BY <2>1, <2>2, <2>3
<1>5. Written(data, leg) \subseteq 1..fed
  BY DEF LegSound
<1>6. Written(data, leg) \cup Waiting(all) = (1..(fed + n)) \ lost
  <2>1. Written(data, leg) \cup Waiting(buf) = (1..fed) \ lost /\ lost \subseteq 1..fed
    BY DEF LegSound
  <2>2. 1..(fed + n) = (1..fed) \cup ((fed + 1)..(fed + n))
    OBVIOUS
  <2>3. \A x \in lost : x \notin (fed + 1)..(fed + n)
    BY <2>1
  <2> QED
    BY <1>4, <2>1, <2>2, <2>3
<1>7. \A i \in 1..Len(all) : all[i] > fed \/ (i <= Len(buf) /\ all[i] = buf[i])
  <2> TAKE i \in 1..Len(all)
  <2>1. CASE i \in 1..Len(buf)
    BY <1>2, <2>1
  <2>2. CASE i \notin 1..Len(buf)
    <3>1. i - Len(buf) \in 1..n /\ i = Len(buf) + (i - Len(buf))
      BY <1>2, <2>2
    <3>2. all[i] = fed + (i - Len(buf))
      BY <1>2, <3>1
    <3> QED
      BY <3>1, <3>2
  <2> QED
    BY <2>1, <2>2
<1>8. \A i, j \in 1..Len(all) : i < j => all[i] < all[j]
  <2> SUFFICES ASSUME NEW i \in 1..Len(all), NEW j \in 1..Len(all), i < j
               PROVE  all[i] < all[j]
    OBVIOUS
  <2>1. CASE j \in 1..Len(buf)
    <3>1. i \in 1..Len(buf) /\ all[i] = buf[i] /\ all[j] = buf[j]
      BY <1>2, <2>1
    <3> QED
      BY <2>1, <3>1 DEF LegSound
  <2>2. CASE j \notin 1..Len(buf)
    <3>1. j - Len(buf) \in 1..n /\ j = Len(buf) + (j - Len(buf)) /\ all[j] = fed + (j - Len(buf))
      <4>1. j - Len(buf) \in 1..n /\ j = Len(buf) + (j - Len(buf))
        BY <1>2, <2>2
      <4> QED
        BY <1>2, <4>1
    <3>2. CASE i \in 1..Len(buf)
      <4>1. all[i] \in 1..fed
        BY <1>2, <1>3, <3>2
      <4> QED
        BY <3>1, <4>1
    <3>3. CASE i \notin 1..Len(buf)
      <4>1. i - Len(buf) \in 1..n /\ i = Len(buf) + (i - Len(buf))
        BY <1>2, <3>3
      <4>2. all[i] = fed + (i - Len(buf))
        BY <1>2, <4>1
      <4> QED
        BY <1>2, <3>1, <4>1, <4>2
    <3> QED
      BY <3>2, <3>3
  <2> QED
    BY <2>1, <2>2
<1>9. \A x \in Written(data, leg), i \in 1..Len(all) : x < all[i]
  <2> SUFFICES ASSUME NEW x \in Written(data, leg), NEW i \in 1..Len(all)
               PROVE  x < all[i]
    OBVIOUS
  <2>1. x \in 1..fed /\ all[i] \in Nat
    BY <1>2, <1>5
  <2>2. CASE all[i] > fed
    BY <2>1, <2>2
  <2>3. CASE i <= Len(buf) /\ all[i] = buf[i]
    BY <2>3 DEF LegSound
  <2> QED
    BY <1>7, <2>2, <2>3
<1>10. LegSound(data, leg, all, fed + n, lost)
  <2>1. lost \subseteq 1..(fed + n) /\ InOrder(data, leg)
    BY DEF LegSound
  <2> QED
    BY <1>6, <1>8, <1>9, <2>1 DEF LegSound
<1> QED
  BY <1>2, <1>10 DEF all, new

\* A buffer without its first k samples.
LEMMA Suffix ==
    ASSUME NEW buf \in Seq(Nat), NEW k \in 0..Len(buf),
           \A i, j \in 1..Len(buf) : i < j => buf[i] < buf[j],
           NEW rest, rest = SubSeq(buf, k + 1, Len(buf))
    PROVE  /\ rest \in Seq(Nat) /\ Len(rest) = Len(buf) - k
           /\ \A i \in 1..Len(rest) : k + i \in 1..Len(buf) /\ rest[i] = buf[k + i]
           /\ Waiting(buf) = {buf[i] : i \in 1..k} \cup Waiting(rest)
           /\ \A i \in 1..k, j \in 1..Len(rest) : buf[i] < rest[j]
           /\ \A i, j \in 1..Len(rest) : i < j => rest[i] < rest[j]
<1>1. rest \in Seq(Nat) /\ Len(rest) = Len(buf) - k
  OBVIOUS
<1>2. ASSUME NEW i \in 1..Len(rest)
      PROVE  k + i \in 1..Len(buf) /\ rest[i] = buf[k + i]
  <2>1. i \in 1..(Len(buf) - k) /\ k + i \in 1..Len(buf)
    BY <1>1
  <2>2. rest[i] = buf[k + 1 + i - 1] /\ k + 1 + i - 1 = k + i
    BY <2>1
  <2> QED
    BY <2>1, <2>2
<1>3. Waiting(buf) = {buf[i] : i \in 1..k} \cup Waiting(rest)
  <2>1. ASSUME NEW i \in 1..Len(buf)
        PROVE  buf[i] \in {buf[j] : j \in 1..k} \cup Waiting(rest)
    <3>1. CASE i > k
      <4>1. i - k \in 1..Len(rest) /\ i = k + (i - k)
        BY <1>1, <3>1
      <4>2. rest[i - k] = buf[i]
        BY <1>2, <4>1
      <4> QED
        BY <4>1, <4>2 DEF Waiting
    <3> QED
      BY <3>1
  <2>2. {buf[i] : i \in 1..k} \subseteq Waiting(buf)
    BY DEF Waiting
  <2>3. ASSUME NEW i \in 1..Len(rest)
        PROVE  rest[i] \in Waiting(buf)
    BY <1>2 DEF Waiting
  <2> QED
    BY <2>1, <2>2, <2>3 DEF Waiting
<1>4. ASSUME NEW i \in 1..k, NEW j \in 1..Len(rest)
      PROVE  buf[i] < rest[j]
  <2>1. k + j \in 1..Len(buf) /\ rest[j] = buf[k + j] /\ i \in 1..Len(buf) /\ i < k + j
    BY <1>1, <1>2
  <2> QED
    BY <2>1
<1>5. ASSUME NEW i \in 1..Len(rest), NEW j \in 1..Len(rest), i < j
      PROVE  rest[i] < rest[j]
  <2>1. /\ k + i \in 1..Len(buf) /\ rest[i] = buf[k + i]
        /\ k + j \in 1..Len(buf) /\ rest[j] = buf[k + j]
        /\ k + i < k + j
    BY <1>1, <1>2, <1>5
  <2> QED
    BY <2>1
<1> QED
  BY <1>1, <1>2, <1>3, <1>4, <1>5

\* The oldest samples of a buffer are dropped.
LEMMA DropSound ==
    ASSUME NEW data \in Seq(MixType), NEW leg \in Legs, NEW all \in Seq(Nat), NEW fed \in Nat,
           NEW lost \in SUBSET Nat, NEW k \in 0..Len(all), LegSound(data, leg, all, fed, lost)
    PROVE  LegSound(data, leg, SubSeq(all, k + 1, Len(all)), fed,
                    lost \cup {all[i] : i \in 1..k})
<1> DEFINE rest == SubSeq(all, k + 1, Len(all))
           gone == {all[i] : i \in 1..k}
<1>1. /\ rest \in Seq(Nat) /\ Len(rest) = Len(all) - k
      /\ \A i \in 1..Len(rest) : k + i \in 1..Len(all) /\ rest[i] = all[k + i]
      /\ Waiting(all) = gone \cup Waiting(rest)
      /\ \A i \in 1..k, j \in 1..Len(rest) : all[i] < rest[j]
      /\ \A i, j \in 1..Len(rest) : i < j => rest[i] < rest[j]
  BY Suffix DEF LegSound
<1> HIDE DEF rest
<1>2. Waiting(all) = gone \cup Waiting(rest)
  BY <1>1
<1>3. \A x \in gone, y \in Waiting(rest) : x < y
  BY <1>1 DEF Waiting
<1>4. \A x \in gone, y \in Written(data, leg) : y < x
  BY DEF LegSound
<1>5. gone \in SUBSET (1..fed) /\ Written(data, leg) \subseteq Nat /\ Waiting(rest) \subseteq Nat
  BY <1>2 DEF LegSound
<1> HIDE DEF gone
<1>6. Written(data, leg) \cup Waiting(rest) = (1..fed) \ (lost \cup gone)
  <2>1. \A x \in gone : x \notin Written(data, leg) /\ x \notin Waiting(rest)
    BY <1>3, <1>4, <1>5
  <2>2. Written(data, leg) \cup (gone \cup Waiting(rest)) = (1..fed) \ lost
    BY <1>2 DEF LegSound
  <2> QED
    BY <2>1, <2>2
<1>7. ASSUME NEW x \in Written(data, leg), NEW i \in 1..Len(rest)
      PROVE  x < rest[i]
  <2>1. k + i \in 1..Len(all) /\ rest[i] = all[k + i]
    BY <1>1
  <2> QED
    BY <2>1 DEF LegSound
<1> QED
  BY <1>1, <1>5, <1>6, <1>7 DEF LegSound, rest, gone

\* The first samples of a buffer are written, with silence after them where the other leg
\* has more.
LEMMA TakeSound ==
    ASSUME NEW data \in Seq(MixType), NEW more \in Seq(MixType), NEW leg \in Legs,
           NEW buf \in Seq(Nat), NEW fed \in Nat, NEW lost \in SUBSET Nat,
           NEW k \in 0..Len(buf), LegSound(data, leg, buf, fed, lost),
           Len(more) >= Len(data) + k,
           \A i \in 1..Len(data) : more[i] = data[i],
           \A i \in 1..k : more[Len(data) + i][leg] = buf[i],
           \A i \in (Len(data) + k + 1)..Len(more) : more[i][leg] = 0
    PROVE  LegSound(more, leg, SubSeq(buf, k + 1, Len(buf)), fed, lost)
<1> DEFINE rest == SubSeq(buf, k + 1, Len(buf))
           taken == {buf[i] : i \in 1..k}
<1>1. /\ rest \in Seq(Nat) /\ Len(rest) = Len(buf) - k
      /\ \A i \in 1..Len(rest) : k + i \in 1..Len(buf) /\ rest[i] = buf[k + i]
      /\ Waiting(buf) = taken \cup Waiting(rest)
      /\ \A i \in 1..k, j \in 1..Len(rest) : buf[i] < rest[j]
      /\ \A i, j \in 1..Len(rest) : i < j => rest[i] < rest[j]
  BY Suffix DEF LegSound
<1> HIDE DEF rest
<1>2. Waiting(buf) = taken \cup Waiting(rest)
  BY <1>1
<1>3. \A i \in 1..Len(buf) : buf[i] \in Nat /\ buf[i] # 0
  BY DEF LegSound, Waiting
<1>4. \A i \in 1..Len(more) :
        \/ i \in 1..Len(data) /\ more[i][leg] = data[i][leg]
        \/ i - Len(data) \in 1..k /\ more[i][leg] = buf[i - Len(data)]
        \/ more[i][leg] = 0
  <2> TAKE i \in 1..Len(more)
  <2>1. CASE i \in 1..Len(data)
    BY <2>1
  <2>2. CASE i \in (Len(data) + 1)..(Len(data) + k)
    <3>1. i - Len(data) \in 1..k /\ i = Len(data) + (i - Len(data))
      BY <2>2
    <3> QED
      BY <3>1
  <2>3. CASE i > Len(data) + k
    BY <2>3
  <2> QED
    BY <2>1, <2>2, <2>3
<1>5. Written(more, leg) = Written(data, leg) \cup taken
  <2>1. \A x : x \in Written(more, leg) => x \in Written(data, leg) \cup taken
    BY <1>4 DEF Written
  <2>2. \A x : x \in Written(data, leg) => x \in Written(more, leg)
    <3> SUFFICES ASSUME NEW i \in 1..Len(data), data[i][leg] # 0
                 PROVE  data[i][leg] \in Written(more, leg)
      BY DEF Written
    <3> QED
      BY DEF Written
  <2>3. taken \subseteq Written(more, leg)
    <3> SUFFICES ASSUME NEW i \in 1..k
                 PROVE  buf[i] \in Written(more, leg)
      OBVIOUS
    <3>1. Len(data) + i \in 1..Len(more) /\ more[Len(data) + i][leg] = buf[i]
      OBVIOUS
    <3> QED
      BY <1>3, <3>1 DEF Written
  <2> QED
    BY <2>1, <2>2, <2>3
<1>6. Written(more, leg) \cup Waiting(rest) = (1..fed) \ lost
  BY <1>2, <1>5 DEF LegSound
<1>7. InOrder(more, leg)
  <2> SUFFICES ASSUME NEW i \in 1..Len(more), NEW j \in 1..Len(more), i < j,
                      more[i][leg] # 0, more[j][leg] # 0
               PROVE  more[i][leg] < more[j][leg]
    BY DEF InOrder
  <2>1. CASE j \in 1..Len(data)
    BY <2>1 DEF LegSound, InOrder
  <2>2. CASE j - Len(data) \in 1..k /\ more[j][leg] = buf[j - Len(data)]
    <3>1. CASE i \in 1..Len(data)
      <4>1. more[i][leg] \in Written(data, leg)
        BY <3>1 DEF Written
      <4> QED
        BY <2>2, <4>1 DEF LegSound
    <3>2. CASE i - Len(data) \in 1..k /\ more[i][leg] = buf[i - Len(data)]
      <4>1. /\ i - Len(data) \in 1..Len(buf) /\ j - Len(data) \in 1..Len(buf)
            /\ i - Len(data) < j - Len(data)
        <5>1. i \in Int /\ j \in Int /\ Len(data) \in Int /\ k <= Len(buf) /\ Len(buf) \in Int
          OBVIOUS
        <5>2. i - Len(data) \in 1..k /\ j - Len(data) \in 1..k /\ k \in Int /\ i < j
          BY <2>2, <3>2
        <5> DEFINE n == Len(data)
                   m == Len(buf)
        <5> HIDE DEF n, m
        <5>3. i - n \in 1..m /\ j - n \in 1..m /\ i - n < j - n
          BY ONLY <5>1, <5>2 DEF n, m
        <5> QED
          BY ONLY <5>3 DEF n, m
      <4> QED
        BY <2>2, <3>2, <4>1 DEF LegSound
    <3> QED
      BY <1>4, <3>1, <3>2
  <2> QED
    BY <1>4, <2>1, <2>2
<1>8. ASSUME NEW x \in Written(more, leg), NEW i \in 1..Len(rest)
      PROVE  x < rest[i]
  <2>1. CASE x \in taken
    BY <1>1, <2>1
  <2>2. CASE x \in Written(data, leg)
    <3>1. k + i \in 1..Len(buf) /\ rest[i] = buf[k + i]
      BY <1>1
    <3> QED
      BY <2>2, <3>1 DEF LegSound
  <2> QED
    BY <1>5, <2>1, <2>2
<1> QED
  BY <1>1, <1>6, <1>7, <1>8 DEF LegSound, rest

\* What a step of one recorder has to show.
LEMMA RecorderStep ==
    ASSUME RecordingInv, NEW r \in 1..Len(recorders), NEW rec \in RecorderType,
           recorders' = [recorders EXCEPT ![r] = rec],
           r = Len(recorders) \/ recorders[r].step # "closed",
           rec.alone = recorders[r].alone,
           wav' \in [data : Seq(MixType), header : Nat],
           current' \in {0, Len(recorders)},
           (r = Len(recorders) /\ ~rec.failed
              /\ (~recorders[r].failed => RecorderSound(recorders[r], wav)))
                => RecorderSound(rec, wav')
    PROVE  RecordingInv'
<1>1. /\ recorders' \in Seq(RecorderType) /\ Len(recorders') = Len(recorders)
      /\ recorders'[r] = rec
      /\ \A q \in 1..Len(recorders) : q # r => recorders'[q] = recorders[q]
  BY ExceptSeq DEF RecordingInv, RecordingType
<1>2. RecordingType'
  BY <1>1 DEF RecordingType
<1>3. LastSound'
  <2> DEFINE n == Len(recorders)
  <2> SUFFICES ASSUME recorders'[n].alone, n > 0
               PROVE  /\ \A q \in 1..n - 1 : recorders'[q].step = "closed"
                      /\ ~recorders'[n].failed => RecorderSound(recorders'[n], wav')
    BY <1>1 DEF LastSound
  <2>1. n \in Nat /\ n \in 1..n
    BY DEF RecordingInv, RecordingType
  <2>2. recorders[n].alone
    BY <1>1, <2>1
  <2>3. /\ \A q \in 1..n - 1 : recorders[q].step = "closed"
        /\ ~recorders[n].failed => RecorderSound(recorders[n], wav)
    BY <2>2 DEF RecordingInv, LastSound
  <2>4. r = n
    BY <2>1, <2>3
  <2>5. \A q \in 1..n - 1 : q # r /\ q \in 1..n
    BY <2>1, <2>4
  <2> QED
    BY <1>1, <2>3, <2>4, <2>5
<1> QED
  BY <1>2, <1>3 DEF RecordingInv

\* A new recorder is sound.
LEMMA EmptySound ==
    ASSUME NEW leg \in Legs
    PROVE  LegSound(<<>>, leg, <<>>, 0, {})
BY DEF LegSound, Written, Waiting, InOrder

\* startRecording.
LEMMA StartInv ==
    ASSUME RecordingInv, startRecordingWav
    PROVE  RecordingInv'
<1> DEFINE rec == NewWavRecorder
           n == Len(recorders) + 1
<1>1. rec \in RecorderType
  BY DEF NewWavRecorder, RecorderType, Steps
<1>2. /\ rec.alone <=> \A q \in DOMAIN recorders : recorders[q].step = "closed"
      /\ rec.offset = 0 /\ rec.step = "open"
      /\ \A leg \in Legs : rec.buf[leg] = <<>> /\ rec.fed[leg] = 0 /\ rec.lost[leg] = {}
  BY DEF NewWavRecorder
<1> HIDE DEF rec
<1>3. recorders' = Append(recorders, rec) /\ recorders \in Seq(RecorderType)
  BY DEF startRecordingWav, rec, RecordingInv, RecordingType
<1>4. /\ recorders' \in Seq(RecorderType) /\ Len(recorders') = n /\ recorders'[n] = rec
      /\ \A q \in 1..n - 1 : recorders'[q] = recorders[q]
      /\ DOMAIN recorders = 1..n - 1
  BY <1>1, <1>3
<1>5. wav' = [data |-> <<>>, header |-> 0] /\ current' = n
  BY <1>4 DEF startRecordingWav
<1>6. RecorderSound(rec, wav')
  BY <1>2, <1>5, EmptySound DEF RecorderSound
<1>7. LastSound'
  BY <1>2, <1>4, <1>6 DEF LastSound
<1>8. RecordingType'
  BY <1>4, <1>5 DEF RecordingType
<1> QED
  BY <1>7, <1>8 DEF RecordingInv

\* Steps that only go on with the closing of a recorder.
LEMMA StopInv ==
    ASSUME RecordingInv, StopRecording
    PROVE  RecordingInv'
<1> DEFINE r == current
           rec == [recorders[r] EXCEPT !.step = "taken"]
<1>1. r \in 1..Len(recorders) /\ r = Len(recorders) /\ recorders \in Seq(RecorderType)
  BY DEF StopRecording, RecordingInv, RecordingType
<1>2. recorders[r] \in RecorderType
  BY <1>1
<1>3. rec \in RecorderType /\ rec.alone = recorders[r].alone /\ rec.failed = recorders[r].failed
  BY <1>2 DEF RecorderType, Steps
<1>4. recorders' = [recorders EXCEPT ![r] = rec] /\ current' = 0 /\ wav' = wav
  BY DEF StopRecording
<1>5. RecorderSound(recorders[r], wav) => RecorderSound(rec, wav)
  BY <1>2 DEF RecorderSound, RecorderType
<1> HIDE DEF rec, r
<1> QED
  BY <1>1, <1>3, <1>4, <1>5, RecorderStep DEF RecordingInv, RecordingType

\* Close: no more samples are taken.
LEMMA MarkInv ==
    ASSUME RecordingInv, NEW r \in DOMAIN recorders, CloseMark(r)
    PROVE  RecordingInv'
<1> DEFINE rec == [recorders[r] EXCEPT !.step = "stopped"]
<1>1. r \in 1..Len(recorders) /\ recorders \in Seq(RecorderType) /\ recorders[r].step # "closed"
  BY DEF CloseMark, RecordingInv, RecordingType
<1>2. recorders[r] \in RecorderType
  BY <1>1
<1>3. rec \in RecorderType /\ rec.alone = recorders[r].alone /\ rec.failed = recorders[r].failed
  BY <1>2 DEF RecorderType, Steps
<1>4. recorders' = [recorders EXCEPT ![r] = rec] /\ current' = current /\ wav' = wav
  BY DEF CloseMark
<1>5. RecorderSound(recorders[r], wav) => RecorderSound(rec, wav)
  BY <1>2 DEF RecorderSound, RecorderType
<1> HIDE DEF rec
<1> QED
  BY <1>1, <1>3, <1>4, <1>5, RecorderStep DEF RecordingInv, RecordingType

\* The end of drain, when no leg has a sample left.
LEMMA DrainInv ==
    ASSUME RecordingInv, NEW r \in DOMAIN recorders, drain(r)
    PROVE  RecordingInv'
<1> DEFINE rec == [recorders[r] EXCEPT !.step = "drained"]
<1>1. r \in 1..Len(recorders) /\ recorders \in Seq(RecorderType) /\ recorders[r].step # "closed"
  BY DEF drain, RecordingInv, RecordingType
<1>2. recorders[r] \in RecorderType
  BY <1>1
<1>3. rec \in RecorderType /\ rec.alone = recorders[r].alone /\ rec.failed = recorders[r].failed
  BY <1>2 DEF RecorderType, Steps
<1>4. recorders' = [recorders EXCEPT ![r] = rec] /\ current' = current /\ wav' = wav
  BY DEF drain
<1>5. RecorderSound(recorders[r], wav) => RecorderSound(rec, wav)
  BY <1>2 DEF RecorderSound, RecorderType, drain, Drained, Legs
<1> HIDE DEF rec
<1> QED
  BY <1>1, <1>3, <1>4, <1>5, RecorderStep DEF RecordingInv, RecordingType

\* Close writes the header.
LEMMA FinishInv ==
    ASSUME RecordingInv, NEW r \in DOMAIN recorders, CloseFinish(r)
    PROVE  RecordingInv'
<1> DEFINE rec == [recorders[r] EXCEPT !.step = "closed"]
<1>1. r \in 1..Len(recorders) /\ recorders \in Seq(RecorderType) /\ recorders[r].step # "closed"
  BY DEF CloseFinish, RecordingInv, RecordingType
<1>2. recorders[r] \in RecorderType
  BY <1>1
<1>3. rec \in RecorderType /\ rec.alone = recorders[r].alone /\ rec.failed = recorders[r].failed
  BY <1>2 DEF RecorderType, Steps
<1>4. /\ recorders' = [recorders EXCEPT ![r] = rec] /\ current' = current
      /\ wav' = IF recorders[r].failed THEN wav ELSE [wav EXCEPT !.header = recorders[r].offset]
  BY DEF CloseFinish
<1>5. wav' \in [data : Seq(MixType), header : Nat]
  BY <1>2, <1>4 DEF RecordingInv, RecordingType, RecorderType
<1>6. (~recorders[r].failed /\ RecorderSound(recorders[r], wav)) => RecorderSound(rec, wav')
  BY <1>2, <1>4 DEF RecorderSound, RecorderType, CloseFinish, RecordingInv, RecordingType
<1> HIDE DEF rec
<1> QED
  BY <1>1, <1>3, <1>4, <1>5, <1>6, RecorderStep DEF RecordingInv, RecordingType

\* feed: samples that do not fit in the buffer are dropped, and counted as lost.
LEMMA FeedInv ==
    ASSUME RecordingInv, NEW r \in DOMAIN recorders, NEW leg \in Legs, NEW n \in Chunks,
           feed(r, leg, n)
    PROVE  RecordingInv'
<1> DEFINE old == recorders[r]
           fed == old.fed[leg]
           all == old.buf[leg] \o Numbers(fed + 1, fed + n)
           k == IF Len(all) > MaxBuffered THEN Len(all) - MaxBuffered ELSE 0
           kept == SubSeq(all, k + 1, Len(all))
           gone == {all[i] : i \in 1..k}
           rec == [old EXCEPT !.buf[leg] = kept, !.fed[leg] = @ + n,
                              !.lost[leg] = @ \cup gone]
<1>1. /\ r \in 1..Len(recorders) /\ recorders \in Seq(RecorderType)
      /\ old.step \in {"open", "taken"} /\ n \in Nat /\ MaxBuffered \in Nat
  <2>1. r \in 1..Len(recorders) /\ recorders \in Seq(RecorderType)
    BY DEF RecordingInv, RecordingType
  <2>2. old.step \in {"open", "taken"}
    BY DEF feed
  <2>3. n \in Nat /\ MaxBuffered \in Nat
    BY RecordingAssumption
  <2> QED
    BY <2>1, <2>2, <2>3
<1>2. old \in RecorderType /\ fed \in Nat /\ old.buf[leg] \in Seq(Nat) /\ old.lost[leg] \in SUBSET Nat
  <2>1. old \in RecorderType
    BY <1>1, ElementOfSeq
  <2> QED
    BY <2>1 DEF RecorderType
<1>3. all \in Seq(Nat)
  BY <1>1, <1>2, NumbersAre, ConcatProperties
<1>4. recorders' = [recorders EXCEPT ![r] = rec] /\ current' = current /\ wav' = wav
  <2>1. recorders' = [recorders EXCEPT
            ![r].buf[leg] = kept, ![r].fed[leg] = @ + n, ![r].lost[leg] = @ \cup gone]
    BY DEF feed
  <2>2. current' = current /\ wav' = wav
    BY DEF feed
  <2> QED
    BY <2>1, <2>2
<1> HIDE DEF all
<1>5. k \in 0..Len(all)
  BY <1>1, <1>3
<1> HIDE DEF k
<1>6. kept \in Seq(Nat) /\ gone \in SUBSET Nat
  BY <1>3, <1>5
<1> HIDE DEF kept, gone
<1>7. rec \in RecorderType /\ rec.alone = old.alone /\ rec.failed = old.failed
      /\ rec.step = old.step /\ rec.offset = old.offset
      /\ rec.buf = [old.buf EXCEPT ![leg] = kept]
      /\ rec.fed = [old.fed EXCEPT ![leg] = fed + n]
      /\ rec.lost = [old.lost EXCEPT ![leg] = old.lost[leg] \cup gone]
  <2> DEFINE b == [old.buf EXCEPT ![leg] = kept]
             f == [old.fed EXCEPT ![leg] = fed + n]
             o == [old.lost EXCEPT ![leg] = old.lost[leg] \cup gone]
  <2>1. /\ old.buf \in [Legs -> Seq(Nat)] /\ old.fed \in [Legs -> Nat]
        /\ old.lost \in [Legs -> SUBSET Nat]
    BY <1>2 DEF RecorderType
  <2>2. b \in [Legs -> Seq(Nat)]
    BY <1>6, <2>1
  <2>3. f \in [Legs -> Nat]
    BY <1>1, <2>1
  <2>4. o \in [Legs -> SUBSET Nat]
    BY <1>6, <2>1
  <2>5. rec = [old EXCEPT !.buf = b, !.fed = f, !.lost = o]
    BY <1>2 DEF RecorderType
  <2> HIDE DEF rec, b, f, o
  <2>6. rec \in RecorderType /\ rec.alone = old.alone /\ rec.failed = old.failed
        /\ rec.step = old.step /\ rec.offset = old.offset
        /\ rec.buf = b /\ rec.fed = f /\ rec.lost = o
    BY <1>2, <2>2, <2>3, <2>4, <2>5 DEF RecorderType
  <2> QED
    BY <2>6 DEF b, f, o
<1> HIDE DEF rec
<1>8. ASSUME RecorderSound(old, wav)
      PROVE  RecorderSound(rec, wav)
  <2>1. wav.data \in Seq(MixType)
    BY DEF RecordingInv, RecordingType
  <2>2. LegSound(wav.data, leg, old.buf[leg], fed, old.lost[leg])
    BY <1>8 DEF RecorderSound
  <2>3. LegSound(wav.data, leg, all, fed + n, old.lost[leg])
    BY <1>1, <1>2, <2>1, <2>2, AppendSound DEF all
  <2>4. LegSound(wav.data, leg, kept, fed + n, old.lost[leg] \cup gone)
    <3>1. fed + n \in Nat
      BY <1>1, <1>2
    <3> QED
      BY <1>2, <1>3, <1>5, <2>1, <2>3, <3>1, DropSound DEF kept, gone
  <2>5. \A l \in Legs : LegSound(wav.data, l, rec.buf[l], rec.fed[l], rec.lost[l])
    <3> TAKE l \in Legs
    <3>1. CASE l = leg
      BY <1>2, <1>7, <2>4, <3>1 DEF RecorderType
    <3>2. CASE l # leg
      <4>1. rec.buf[l] = old.buf[l] /\ rec.fed[l] = old.fed[l] /\ rec.lost[l] = old.lost[l]
        BY <1>2, <1>7, <3>2 DEF RecorderType
      <4> QED
        BY <1>8, <4>1 DEF RecorderSound
    <3> QED
      BY <3>1, <3>2
  <2> QED
    BY <1>1, <1>7, <1>8, <2>5 DEF RecorderSound
<1> QED
  BY <1>1, <1>4, <1>7, <1>8, RecorderStep DEF RecordingInv, RecordingType

\* A frame: what it takes of each leg, and where it leaves the file.
LEMMA TakenIs ==
    ASSUME NEW buf \in Seq(Nat), NEW k, k = Len(Taken(buf))
    PROVE  /\ k \in 0..Len(buf) /\ Taken(buf) \in Seq(Nat)
           /\ \A i \in 1..k : Taken(buf)[i] = buf[i]
           /\ Left(buf) = SubSeq(buf, k + 1, Len(buf))
<1> DEFINE m == IF Len(buf) < FrameSamples THEN Len(buf) ELSE FrameSamples
<1>1. m \in 0..Len(buf)
  BY RecordingAssumption
<1> HIDE DEF m
<1>2. Taken(buf) = SubSeq(buf, 1, m)
  BY DEF Taken, m
<1>3. Taken(buf) \in Seq(Nat) /\ Len(Taken(buf)) = m /\ \A i \in 1..m : Taken(buf)[i] = buf[i]
  BY <1>1, <1>2
<1> QED
  BY <1>1, <1>3 DEF Left

\* What a frame holds of a leg.
LEMMA MixIs ==
    ASSUME NEW peer \in Seq(Nat), NEW op \in Seq(Nat)
    PROVE  /\ Mix(peer, op) \in Seq(MixType)
           /\ Len(Mix(peer, op)) >= Len(peer) /\ Len(Mix(peer, op)) >= Len(op)
           /\ \A i \in 1..Len(Mix(peer, op)) :
                /\ Mix(peer, op)[i].peer = IF i <= Len(peer) THEN peer[i] ELSE 0
                /\ Mix(peer, op)[i].op = IF i <= Len(op) THEN op[i] ELSE 0
<1> DEFINE n == IF Len(peer) > Len(op) THEN Len(peer) ELSE Len(op)
           e(i) == [peer |-> IF i <= Len(peer) THEN peer[i] ELSE 0,
                    op |-> IF i <= Len(op) THEN op[i] ELSE 0]
<1>1. n \in Nat /\ n >= Len(peer) /\ n >= Len(op)
  OBVIOUS
<1>2. \A i \in 1..n : e(i) \in MixType
  BY DEF MixType
<1> HIDE DEF n
<1>3. Mix(peer, op) = [i \in 1..n |-> e(i)]
  BY DEF Mix, n
<1>4. Mix(peer, op) \in Seq(MixType) /\ Len(Mix(peer, op)) = n
  BY <1>1, <1>2, <1>3
<1> QED
  BY <1>1, <1>3, <1>4

\* Writing at the end of the file appends.
LEMMA WriteAtIs ==
    ASSUME NEW data \in Seq(MixType), NEW offset \in Nat, NEW s \in Seq(MixType)
    PROVE  /\ WriteAt(data, offset, s) \in Seq(MixType)
           /\ offset = Len(data) =>
                /\ Len(WriteAt(data, offset, s)) = Len(data) + Len(s)
                /\ \A i \in 1..Len(data) : WriteAt(data, offset, s)[i] = data[i]
                /\ \A i \in 1..Len(s) : WriteAt(data, offset, s)[Len(data) + i] = s[i]
<1> DEFINE n == IF Len(data) > offset + Len(s) THEN Len(data) ELSE offset + Len(s)
           e(i) == IF i > offset /\ i <= offset + Len(s) THEN s[i - offset]
                   ELSE IF i <= Len(data) THEN data[i] ELSE Gap
<1>1. n \in Nat
  OBVIOUS
<1>2. \A i \in 1..n : e(i) \in MixType
  <2> TAKE i \in 1..n
  <2>1. CASE i > offset /\ i <= offset + Len(s)
    <3>1. i - offset \in 1..Len(s)
      BY <1>1, <2>1
    <3> QED
      BY <2>1, <3>1
  <2>2. CASE ~(i > offset /\ i <= offset + Len(s))
    <3>1. Gap \in MixType
      BY DEF Gap, MixType
    <3>2. i <= Len(data) => data[i] \in MixType
      BY <1>1
    <3> QED
      BY <2>2, <3>1, <3>2
  <2> QED
    BY <2>1, <2>2
<1>3. WriteAt(data, offset, s) = [i \in 1..n |-> e(i)]
  BY DEF WriteAt
<1>4. offset = Len(data) => n = Len(data) + Len(s)
  OBVIOUS
<1> HIDE DEF n
<1>5. WriteAt(data, offset, s) \in Seq(MixType) /\ Len(WriteAt(data, offset, s)) = n
  BY <1>1, <1>2, <1>3
<1>6. ASSUME offset = Len(data), NEW i \in 1..Len(data)
      PROVE  WriteAt(data, offset, s)[i] = data[i]
  <2>1. i \in 1..n /\ ~(i > offset)
    BY <1>4, <1>6
  <2> QED
    BY <1>3, <2>1
<1>7. ASSUME offset = Len(data), NEW i \in 1..Len(s)
      PROVE  WriteAt(data, offset, s)[Len(data) + i] = s[i]
  <2>1. Len(data) + i \in 1..n /\ Len(data) + i > offset /\ Len(data) + i <= offset + Len(s)
    BY <1>4, <1>7
  <2>2. Len(data) + i - offset = i
    BY <1>7
  <2> QED
    BY <1>3, <2>1, <2>2
<1> QED
  BY <1>4, <1>5, <1>6, <1>7

\* tick: a frame of both legs goes from the buffers to the end of the file.
LEMMA TickInv ==
    ASSUME RecordingInv, NEW r \in DOMAIN recorders, tick(r)
    PROVE  RecordingInv'
<1> DEFINE old == recorders[r]
           left == [l \in Legs |-> Left(old.buf[l])]
           peer == Taken(old.buf.peer)
           op == Taken(old.buf.op)
           mix == Mix(peer, op)
           more == WriteAt(wav.data, old.offset, mix)
<1>1. /\ r \in 1..Len(recorders) /\ recorders \in Seq(RecorderType)
      /\ old.step \in {"open", "taken", "stopped"} /\ current' = current
      /\ wav \in [data : Seq(MixType), header : Nat]
  BY DEF tick, RecordingInv, RecordingType
<1>2. old \in RecorderType /\ old.offset \in Nat /\ \A l \in Legs : old.buf[l] \in Seq(Nat)
  <2>1. old \in RecorderType
    BY <1>1, ElementOfSeq
  <2> QED
    BY <2>1 DEF RecorderType
<1>3. left \in [Legs -> Seq(Nat)]
  <2>1. ASSUME NEW l \in Legs
        PROVE  Left(old.buf[l]) \in Seq(Nat)
    <3> DEFINE buf == old.buf[l]
               k == Len(Taken(buf))
    <3>1. buf \in Seq(Nat)
      BY <1>2
    <3> HIDE DEF buf
    <3>2. k \in 0..Len(buf) /\ Left(buf) = SubSeq(buf, k + 1, Len(buf))
      BY <3>1, TakenIs
    <3> HIDE DEF k
    <3>3. SubSeq(buf, k + 1, Len(buf)) \in Seq(Nat)
      BY <3>1, <3>2
    <3> QED
      BY <3>2, <3>3 DEF buf
  <2> QED
    BY <2>1
<1>4. peer \in Seq(Nat) /\ op \in Seq(Nat)
  BY <1>2, TakenIs DEF Legs
<1>5. PICK ok \in BOOLEAN :
        IF old.failed \/ ~ok
        THEN /\ recorders' = [recorders EXCEPT ![r].buf = left, ![r].failed = TRUE]
             /\ wav' = wav
        ELSE /\ recorders' = [recorders EXCEPT ![r].buf = left, ![r].offset = @ + Len(mix)]
             /\ wav' = [wav EXCEPT !.data = more]
  BY DEF tick, Write
<1> HIDE DEF left, peer, op
<1>6. /\ mix \in Seq(MixType) /\ Len(mix) >= Len(peer) /\ Len(mix) >= Len(op)
      /\ \A i \in 1..Len(mix) :
            /\ mix[i].peer = IF i <= Len(peer) THEN peer[i] ELSE 0
            /\ mix[i].op = IF i <= Len(op) THEN op[i] ELSE 0
  BY <1>4, MixIs
<1> HIDE DEF mix
<1>7. /\ more \in Seq(MixType)
      /\ old.offset = Len(wav.data) =>
            /\ Len(more) = Len(wav.data) + Len(mix)
            /\ \A i \in 1..Len(wav.data) : more[i] = wav.data[i]
            /\ \A i \in 1..Len(mix) : more[Len(wav.data) + i] = mix[i]
  BY <1>1, <1>2, <1>6, WriteAtIs
<1> HIDE DEF more
<1>8. CASE old.failed \/ ~ok
  <2> DEFINE rec == [old EXCEPT !.buf = left, !.failed = TRUE]
  <2>1. rec \in RecorderType /\ rec.alone = old.alone /\ rec.failed
    BY <1>2, <1>3 DEF RecorderType
  <2>2. recorders' = [recorders EXCEPT ![r] = rec]
    BY <1>5, <1>8
  <2>3. wav' = wav
    BY <1>5, <1>8
  <2> HIDE DEF rec
  <2> QED
    BY <1>1, <2>1, <2>2, <2>3, RecorderStep DEF RecordingInv, RecordingType
<1>9. CASE ~(old.failed \/ ~ok)
  <2> DEFINE rec == [old EXCEPT !.buf = left, !.offset = @ + Len(mix)]
  <2>1. /\ rec \in RecorderType /\ rec.alone = old.alone /\ rec.failed = old.failed
        /\ rec.step = old.step /\ rec.fed = old.fed /\ rec.lost = old.lost
        /\ rec.buf = left /\ rec.offset = old.offset + Len(mix)
    <3>1. old.offset + Len(mix) \in Nat
      BY <1>2, <1>6
    <3> QED
      BY <1>2, <1>3, <3>1 DEF RecorderType
  <2>2. recorders' = [recorders EXCEPT ![r] = rec]
    BY <1>5, <1>9
  <2>3. wav' = [wav EXCEPT !.data = more]
    BY <1>5, <1>9
  <2>4. wav' \in [data : Seq(MixType), header : Nat] /\ wav'.data = more
    BY <1>1, <1>7, <2>3
  <2> HIDE DEF rec
  <2>5. ASSUME RecorderSound(old, wav)
        PROVE  RecorderSound(rec, wav')
    <3>1. old.offset = Len(wav.data)
      BY <2>5 DEF RecorderSound
    <3>2. /\ Len(more) = Len(wav.data) + Len(mix)
          /\ \A i \in 1..Len(wav.data) : more[i] = wav.data[i]
          /\ \A i \in 1..Len(mix) : more[Len(wav.data) + i] = mix[i]
      BY <1>7, <3>1
    <3>3. ASSUME NEW l \in Legs
          PROVE  LegSound(more, l, left[l], old.fed[l], old.lost[l])
      <4> DEFINE buf == old.buf[l]
                 k == Len(Taken(buf))
      <4>1. buf \in Seq(Nat) /\ old.fed[l] \in Nat /\ old.lost[l] \in SUBSET Nat
        BY <1>2 DEF RecorderType
      <4>2. /\ k \in 0..Len(buf) /\ \A i \in 1..k : Taken(buf)[i] = buf[i]
            /\ Left(buf) = SubSeq(buf, k + 1, Len(buf))
        BY <4>1, TakenIs
      <4>3. LegSound(wav.data, l, buf, old.fed[l], old.lost[l])
        BY <2>5 DEF RecorderSound
      <4>4. k <= Len(mix) /\ \A i \in 1..Len(mix) : mix[i][l] = IF i <= k THEN Taken(buf)[i] ELSE 0
        <5>1. CASE l = "peer"
          <6>1. k = Len(peer) /\ Taken(buf) = peer
            BY <5>1 DEF peer
          <6> QED
            BY <1>6, <5>1, <6>1
        <5>2. CASE l = "op"
          <6>1. k = Len(op) /\ Taken(buf) = op
            BY <5>2 DEF op
          <6> QED
            BY <1>6, <5>2, <6>1
        <5> QED
          BY <5>1, <5>2 DEF Legs
      <4> HIDE DEF buf, k
      <4>5. wav.data \in Seq(MixType) /\ Len(mix) \in Nat /\ Len(wav.data) \in Nat
        <5>1. wav.data \in Seq(MixType)
          BY <1>1
        <5> QED
          BY <1>6, <5>1
      <4>6. Len(more) >= Len(wav.data) + k
        BY <3>2, <4>2, <4>4, <4>5
      <4>7. ASSUME NEW i \in 1..k
            PROVE  more[Len(wav.data) + i][l] = buf[i]
        <5>1. i \in 1..Len(mix) /\ i <= k
          BY <4>2, <4>4, <4>5
        <5>2. more[Len(wav.data) + i] = mix[i]
          BY <3>2, <5>1
        <5> QED
          BY <4>2, <4>4, <5>1, <5>2
      <4>8. ASSUME NEW i \in (Len(wav.data) + k + 1)..Len(more)
            PROVE  more[i][l] = 0
        <5>1. /\ i - Len(wav.data) \in 1..Len(mix) /\ i - Len(wav.data) > k
              /\ i = Len(wav.data) + (i - Len(wav.data))
          BY <3>2, <4>2, <4>5
        <5>2. more[i] = mix[i - Len(wav.data)]
          BY <3>2, <5>1
        <5>3. ~(i - Len(wav.data) <= k)
          BY <4>2, <4>5, <5>1
        <5> QED
          BY <4>4, <5>1, <5>2, <5>3
      <4>9. LegSound(more, l, SubSeq(buf, k + 1, Len(buf)), old.fed[l], old.lost[l])
        BY <1>7, <3>2, <4>1, <4>2, <4>3, <4>5, <4>6, <4>7, <4>8, TakeSound
      <4> QED
        BY <4>2, <4>9 DEF left, buf
    <3>4. Len(more) = rec.offset
      BY <2>1, <3>1, <3>2
    <3> QED
      BY <1>1, <2>1, <2>4, <3>3, <3>4 DEF RecorderSound
  <2> QED
    BY <1>1, <1>9, <2>1, <2>2, <2>4, <2>5, RecorderStep DEF RecordingInv, RecordingType
<1> QED
  BY <1>8, <1>9

\* The invariant holds at first and is kept by each step.
LEMMA RecordingInitInv == RecordingInit => RecordingInv
BY DEF RecordingInit, RecordingInv, RecordingType, LastSound

LEMMA RecordingNextInv == RecordingInv /\ [RecordingNext]_recordingVars => RecordingInv'
<1> SUFFICES ASSUME RecordingInv, [RecordingNext]_recordingVars
             PROVE  RecordingInv'
  OBVIOUS
<1>1. CASE startRecordingWav
  BY <1>1, StartInv
<1>2. CASE StopRecording
  BY <1>2, StopInv
<1>3. ASSUME NEW r \in DOMAIN recorders, NEW leg \in Legs, NEW n \in Chunks, feed(r, leg, n)
      PROVE  RecordingInv'
  BY <1>3, FeedInv
<1>4. ASSUME NEW r \in DOMAIN recorders,
             tick(r) \/ CloseMark(r) \/ drain(r) \/ CloseFinish(r)
      PROVE  RecordingInv'
  BY <1>4, TickInv, MarkInv, DrainInv, FinishInv
<1>5. CASE UNCHANGED recordingVars
  BY <1>5 DEF recordingVars, RecordingInv, RecordingType, LastSound
<1> QED
  BY <1>1, <1>2, <1>3, <1>4, <1>5 DEF RecordingNext

\* Nothing is left in the buffers of a closed recorder, so the file has it all.
LEMMA SoundIsComplete == RecordingInv => RecordingComplete
<1> SUFFICES ASSUME RecordingInv, recorders # <<>>,
                    recorders[Len(recorders)].step = "closed", recorders[Len(recorders)].alone,
                    ~recorders[Len(recorders)].failed
             PROVE  LET r == recorders[Len(recorders)]
                    IN /\ wav.header = Len(wav.data)
                       /\ \A leg \in Legs :
                            /\ Written(wav.data, leg) = 1..r.fed[leg] \ r.lost[leg]
                            /\ InOrder(wav.data, leg)
  BY DEF RecordingComplete
<1> DEFINE r == recorders[Len(recorders)]
<1>1. Len(recorders) > 0
  BY DEF RecordingInv, RecordingType
<1>2. RecorderSound(r, wav)
  BY <1>1 DEF RecordingInv, LastSound
<1> HIDE DEF r
<1>3. ASSUME NEW leg \in Legs
      PROVE  Written(wav.data, leg) = 1..r.fed[leg] \ r.lost[leg] /\ InOrder(wav.data, leg)
  <2>1. LegSound(wav.data, leg, <<>>, r.fed[leg], r.lost[leg])
    BY <1>2 DEF RecorderSound, r
  <2>2. Waiting(<<>>) = {}
    BY DEF Waiting
  <2> QED
    BY <2>1, <2>2 DEF LegSound
<1> QED
  BY <1>2, <1>3 DEF RecorderSound, r

\* A recording that was not cut short by an error, and whose file no other recorder wrote,
\* holds every sample of each leg that its buffer had room for, once and in the order it
\* came, for frames, buffers and chunks of any size (feed, tick, drain, Close).
THEOREM RecordingsAreComplete == RecordingSpec => []RecordingComplete
BY RecordingInitInv, RecordingNextInv, SoundIsComplete, PTL DEF RecordingSpec

-----------------------------------------------------------------------------
(* The splitter.                                                           *)

\* Units that begin before position s.
UnitsBefore(s) == {u \in Positions \X Positions : IsUnit(u[1], u[2]) /\ u[1] < s}

\* Units one after the other, without overlap.
Ordered(nals) == \A k, l \in 1..Len(nals) : k < l => nals[k][2] < nals[l][1]

\* What the loops of AnnexBNALUs keep: no start code lies between the start of the unit and
\* the position, nor a zero that would belong to one, and the units before are found.
SplitSound(s) ==
    /\ s.start <= s.i
    /\ s.start # 0 => Mark(s.start - 3)
    /\ NoMark(s.start, s.i - 1)
    /\ s.start # 0 /\ Mark(s.i) => stream[s.i - 1] # 0
    /\ s.start = 0 => s.nals = <<>>
    /\ {s.nals[k] : k \in 1..Len(s.nals)} = UnitsBefore(s.start)
    /\ Ordered(s.nals)
    /\ \A k \in 1..Len(s.nals) : s.nals[k][2] < s.start

\* What the splitter ends with.
SplitResult(s) ==
    IF NoMark(1, Len(stream)) THEN s.nals = <<<<1, Len(stream)>>>>
    ELSE /\ {s.nals[k] : k \in 1..Len(s.nals)} = {u \in Positions \X Positions : IsUnit(u[1], u[2])}
         /\ Ordered(s.nals)

StreamType == stream \in Seq(Nat) /\ Len(stream) \in Nat \ {0}

SplitType(s) ==
    s \in [i : 1..Len(stream) + 1, start : 0..Len(stream) + 1,
           nals : Seq(Positions \X Positions), done : BOOLEAN]

SplitOK(s) == SplitType(s) /\ IF s.done THEN SplitResult(s) ELSE SplitSound(s)

\* The inductive invariant of the splitter.
SplitInv == StreamType /\ SplitOK(split)

\* What is sound of a splitter does not depend on more than the stream.
LEMMA StreamKept ==
    ASSUME stream' = stream, StreamType, SplitOK(split')
    PROVE  SplitInv'
<1>1. StreamType' /\ SplitType(split)'
  BY DEF StreamType, SplitOK, SplitType, Positions
<1>2. /\ UnitsBefore(split.start)' = UnitsBefore(split'.start)
      /\ {u \in Positions \X Positions : IsUnit(u[1], u[2])}'
            = {u \in Positions \X Positions : IsUnit(u[1], u[2])}
  BY DEF UnitsBefore, IsUnit, NoMark, Mark, Positions
<1>3. /\ NoMark(split.start, split.i - 1)' <=> NoMark(split'.start, split'.i - 1)
      /\ NoMark(1, Len(stream))' <=> NoMark(1, Len(stream))
      /\ Mark(split.start - 3)' <=> Mark(split'.start - 3)
      /\ Mark(split.i)' <=> Mark(split'.i)
  BY DEF NoMark, Mark
<1>4. SplitResult(split') => SplitResult(split)'
  BY <1>2, <1>3 DEF SplitResult, Ordered
<1>5. SplitSound(split') => SplitSound(split)'
  BY <1>2, <1>3 DEF SplitSound, Ordered
<1> QED
  BY <1>1, <1>4, <1>5 DEF SplitInv, SplitOK

\* A splitter made of fields that have their types.
LEMMA SplitRecord ==
    ASSUME NEW i \in 1..Len(stream) + 1, NEW s \in 0..Len(stream) + 1,
           NEW nals \in Seq(Positions \X Positions), NEW done \in BOOLEAN
    PROVE  SplitType([i |-> i, start |-> s, nals |-> nals, done |-> done])
BY DEF SplitType

\* Two marks do not overlap.
LEMMA MarksApart ==
    ASSUME StreamType, NEW p \in Int, NEW q \in Int, Mark(p), Mark(q), p < q
    PROVE  p + 3 <= q
<1>1. CASE q = p + 1
  BY <1>1 DEF Mark
<1>2. CASE q = p + 2
  BY <1>2 DEF Mark
<1> QED
  BY <1>1, <1>2

\* The unit that begins at s, when q is the first mark after that.
LEMMA UnitBefore ==
    ASSUME StreamType, NEW s \in Int, NEW q \in Int, s <= q, Mark(q), NoMark(s, q - 1),
           NEW to \in Int
    PROVE  IsUnit(s, to) <=>
             s <= to /\ Mark(s - 3) /\ to = IF stream[q - 1] = 0 THEN q - 2 ELSE q - 1
<1>0. q \in s..Len(stream) /\ Len(stream) \in Nat
  BY DEF Mark, StreamType
<1>1. ~NoMark(s, Len(stream))
  BY <1>0 DEF NoMark
<1>2. ASSUME NEW p \in s..Len(stream), Mark(p), NoMark(s, p - 1)
      PROVE  p = q
  BY <1>0, <1>2 DEF NoMark
<1> QED
  BY <1>0, <1>1, <1>2 DEF IsUnit

\* The unit that begins at s, when no mark comes after that.
LEMMA LastUnit ==
    ASSUME StreamType, NEW s \in Int, NoMark(s, Len(stream)), NEW to \in Int
    PROVE  IsUnit(s, to) <=> s <= to /\ Mark(s - 3) /\ to = Len(stream)
BY DEF IsUnit, NoMark, StreamType

\* A unit after all the others is appended: the set grows by it and stays in order.
LEMMA AppendFound ==
    ASSUME NEW nals \in Seq(Positions \X Positions), NEW u \in Positions \X Positions
    PROVE  /\ Append(nals, u) \in Seq(Positions \X Positions)
           /\ Len(Append(nals, u)) = Len(nals) + 1
           /\ Append(nals, u)[Len(nals) + 1] = u
           /\ \A k \in 1..Len(nals) : Append(nals, u)[k] = nals[k]
           /\ {Append(nals, u)[k] : k \in 1..Len(Append(nals, u))}
                = {nals[k] : k \in 1..Len(nals)} \cup {u}
<1> DEFINE P == Positions \X Positions
<1> HIDE DEF P
<1>1. nals \in Seq(P) /\ u \in P
  BY DEF P
<1> DEFINE new == Append(nals, u)
<1>2. /\ new \in Seq(P) /\ Len(new) = Len(nals) + 1 /\ new[Len(nals) + 1] = u
      /\ \A k \in 1..Len(nals) : new[k] = nals[k]
  BY <1>1
<1> HIDE DEF new
<1>3. {new[k] : k \in 1..Len(new)} = {nals[k] : k \in 1..Len(nals)} \cup {u}
  <2>1. ASSUME NEW k \in 1..Len(new)
        PROVE  new[k] \in {nals[l] : l \in 1..Len(nals)} \cup {u}
    <3>1. k \in 1..Len(nals) \/ k = Len(nals) + 1
      BY <1>1, <1>2
    <3> QED
      BY <1>2, <3>1
  <2>2. ASSUME NEW k \in 1..Len(nals)
        PROVE  nals[k] \in {new[l] : l \in 1..Len(new)}
    <3>1. k \in 1..Len(new)
      BY <1>1, <1>2
    <3> QED
      BY <1>2, <3>1
  <2>3. u \in {new[l] : l \in 1..Len(new)}
    <3>1. Len(nals) + 1 \in 1..Len(new)
      BY <1>1, <1>2
    <3> QED
      BY <1>2, <3>1
  <2> QED
    BY <2>1, <2>2, <2>3
<1> QED
  BY <1>2, <1>3 DEF new, P

\* Whether the unit at the start ends at a mark or with the stream: it is found with the
\* others, and they stay in order.
LEMMA UnitFound ==
    ASSUME StreamType, SplitType(split), SplitSound(split), split.start # 0,
           NEW e \in 0..Len(stream), split.start <= e + 1,
           NEW next \in Int, e < next,
           \A from \in Positions, to \in Positions :
                IsUnit(from, to) /\ from < next /\ from >= split.start <=>
                    from = split.start /\ to = e /\ from <= to
    PROVE  /\ UnitEnds(e) \in Seq(Positions \X Positions)
           /\ {UnitEnds(e)[k] : k \in 1..Len(UnitEnds(e))} = UnitsBefore(next)
           /\ Ordered(UnitEnds(e))
           /\ \A k \in 1..Len(UnitEnds(e)) : UnitEnds(e)[k][2] < next
<1> DEFINE s == split.start
           nals == split.nals
           P == Positions \X Positions
<1>1. s \in 1..Len(stream) + 1 /\ nals \in Seq(P) /\ Len(stream) \in Nat /\ Len(nals) \in Nat
      /\ e \in Nat
  BY DEF SplitType, StreamType
<1>2. /\ {nals[k] : k \in 1..Len(nals)} = UnitsBefore(s) /\ Ordered(nals)
      /\ \A k \in 1..Len(nals) : nals[k][2] < s
  BY DEF SplitSound
<1>3. \A k \in 1..Len(nals) : nals[k] \in P /\ nals[k][1] \in Nat /\ nals[k][2] \in Nat
  <2>1. \A u \in P : u[1] \in Nat /\ u[2] \in Nat
    BY <1>1 DEF Positions
  <2> HIDE DEF P, nals
  <2>2. \A k \in 1..Len(nals) : nals[k] \in P
    BY ONLY <1>1, ElementOfSeq
  <2> QED
    BY ONLY <2>1, <2>2
<1>4. CASE s > e
  <2>1. UnitEnds(e) = nals
    BY <1>1, <1>4 DEF UnitEnds, appendNonEmpty
  <2>2. s = e + 1 /\ s <= next
    BY <1>1, <1>4
  <2>3. UnitsBefore(next) = UnitsBefore(s)
    BY <1>1, <1>4, <2>2 DEF UnitsBefore, Positions
  <2>4. \A k \in 1..Len(nals) : nals[k][2] < next
    BY <1>1, <1>2, <1>3, <2>2
  <2> QED
    BY <1>1, <1>2, <2>1, <2>3, <2>4
<1>5. CASE s <= e
  <2> DEFINE u == <<s, e>>
             new == Append(nals, u)
  <2>1. UnitEnds(e) = new
    BY <1>5 DEF UnitEnds, appendNonEmpty
  <2>2. u \in P /\ s \in Positions /\ e \in Positions /\ u[1] = s /\ u[2] = e
    BY <1>1, <1>5 DEF Positions
  <2>3. /\ new \in Seq(P) /\ Len(new) = Len(nals) + 1 /\ new[Len(nals) + 1] = u
        /\ \A k \in 1..Len(nals) : new[k] = nals[k]
        /\ {new[k] : k \in 1..Len(new)} = {nals[k] : k \in 1..Len(nals)} \cup {u}
    BY <1>1, <2>2, AppendFound
  <2> HIDE DEF new
  <2>4. UnitsBefore(next) = UnitsBefore(s) \cup {u}
    <3>1. IsUnit(s, e) /\ s < next
      BY <1>1, <1>5, <2>2
    <3>2. ASSUME NEW v \in P, IsUnit(v[1], v[2]), v[1] < next, ~(v[1] < s)
          PROVE  v = u
      <4>1. v[1] \in Positions /\ v[2] \in Positions /\ v = <<v[1], v[2]>> /\ v[1] >= s
        BY <1>1, <3>2 DEF Positions
      <4>2. v[1] = s /\ v[2] = e
        BY <3>2, <4>1
      <4> QED
        BY <4>1, <4>2
    <3>3. ASSUME NEW v \in P, v[1] < s
          PROVE  v[1] < next
      BY <1>1, <1>5, <3>3 DEF Positions
    <3> QED
      BY <2>2, <3>1, <3>2, <3>3 DEF UnitsBefore
  <2>5. ASSUME NEW k \in 1..Len(new), NEW l \in 1..Len(new), k < l
        PROVE  new[k][2] < new[l][1]
    <3>1. k \in 1..Len(nals) /\ new[k] = nals[k]
      BY <1>1, <2>3, <2>5
    <3>2. CASE l \in 1..Len(nals)
      BY <1>2, <2>3, <2>5, <3>1, <3>2 DEF Ordered
    <3>3. CASE l \notin 1..Len(nals)
      <4>1. new[l] = u
        BY <1>1, <2>3, <3>3
      <4> QED
        BY <1>2, <2>2, <3>1, <4>1
    <3> QED
      BY <3>2, <3>3
  <2>6. ASSUME NEW k \in 1..Len(new)
        PROVE  new[k][2] < next
    <3>1. CASE k \in 1..Len(nals)
      <4>1. new[k][2] < s /\ new[k][2] \in Nat
        BY <1>2, <1>3, <2>3, <3>1
      <4> QED
        BY <1>1, <1>5, <4>1
    <3>2. CASE k \notin 1..Len(nals)
      <4>1. new[k] = u
        BY <1>1, <2>3, <3>2
      <4> QED
        BY <2>2, <4>1
    <3> QED
      BY <3>1, <3>2
  <2> QED
    <3>1. Ordered(new)
      BY <2>5 DEF Ordered
    <3>2. {new[k] : k \in 1..Len(new)} = UnitsBefore(next)
      BY <1>2, <2>3, <2>4
    <3>3. new \in Seq(Positions \X Positions)
      BY <2>3
    <3> QED
      BY <2>1, <2>6, <3>1, <3>2, <3>3
<1>6. s > e \/ s <= e
  BY <1>1
<1> QED
  BY <1>4, <1>5, <1>6

\* One step on, without a start code.
LEMMA ScanOn ==
    ASSUME StreamType, SplitType(split), SplitSound(split), ~split.done,
           split.i + 2 <= Len(stream), CodeAt(stream, split.i) = 0,
           NEW t, t = [split EXCEPT !.i = @ + 1]
    PROVE  SplitOK(t)
<1> DEFINE i == split.i
           n == Len(stream)
<1>1. i \in 1..n + 1 /\ n \in Nat /\ split.start \in 0..n + 1
  BY DEF SplitType, StreamType
<1>2. ~Mark(i)
  BY <1>1 DEF CodeAt, Mark
<1>3. Mark(i + 1) => stream[i] # 0
  BY <1>1 DEF CodeAt, Mark
<1>4. NoMark(split.start, i)
  BY <1>1, <1>2 DEF SplitSound, NoMark
<1>5. /\ t.i = i + 1 /\ t.start = split.start /\ t.nals = split.nals
      /\ t.done = FALSE /\ t.i - 1 = i /\ t.start <= t.i
  BY <1>1 DEF SplitType, SplitSound
<1>6. SplitType(t)
  BY <1>1 DEF SplitType
<1>7. SplitSound(t)
  BY <1>3, <1>4, <1>5 DEF SplitSound
<1> QED
  BY <1>5, <1>6, <1>7 DEF SplitOK

\* A start code of c bytes at i: its mark is the next one after the start.
LEMMA ScanCode ==
    ASSUME StreamType, SplitType(split), SplitSound(split), ~split.done,
           split.i + 2 <= Len(stream), NEW c, c = CodeAt(stream, split.i), c # 0,
           NEW t, t = [split EXCEPT !.i = @ + c, !.start = split.i + c,
                                    !.nals = UnitEnds(split.i - 1)]
    PROVE  SplitOK(t)
<1> DEFINE i == split.i
           n == Len(stream)
           s == split.start
           q == i + c - 3
           next == i + c
<1>1. i \in 1..n + 1 /\ n \in Nat /\ s \in 0..n + 1 /\ s <= i
  BY DEF SplitType, StreamType, SplitSound
<1>2. c \in {3, 4} /\ i + c <= n + 1
  BY <1>1 DEF CodeAt
<1>3. Mark(q) /\ (c = 4 => ~Mark(i) /\ stream[i] = 0)
  BY <1>1, <1>2 DEF CodeAt, Mark
<1>4. NoMark(s, q - 1)
  BY <1>1, <1>2, <1>3 DEF SplitSound, NoMark
<1>5. s # 0 => (IF stream[q - 1] = 0 THEN q - 2 ELSE q - 1) = i - 1
  <2>1. CASE c = 3
    BY <1>1, <1>3, <2>1 DEF SplitSound
  <2>2. CASE c = 4
    BY <1>1, <1>3, <2>2
  <2> QED
    BY <1>2, <2>1, <2>2
<1>6. NoMark(next, next - 1) /\ Mark(next - 3) /\ stream[next - 1] # 0
  BY <1>1, <1>2, <1>3 DEF NoMark, Mark
<1>7. t.i = next /\ t.start = next /\ t.nals = UnitEnds(i - 1) /\ t.done = FALSE
  BY DEF SplitType
<1>8. /\ UnitEnds(i - 1) \in Seq(Positions \X Positions)
      /\ {UnitEnds(i - 1)[k] : k \in 1..Len(UnitEnds(i - 1))} = UnitsBefore(next)
      /\ Ordered(UnitEnds(i - 1))
      /\ \A k \in 1..Len(UnitEnds(i - 1)) : UnitEnds(i - 1)[k][2] < next
  <2>1. CASE s = 0
    <3>1. UnitEnds(i - 1) = <<>>
      BY <2>1 DEF UnitEnds, SplitSound
    <3>2. ASSUME NEW from \in Positions, NEW to \in Positions, IsUnit(from, to), from < next
          PROVE  FALSE
      <4>1. Mark(from - 3) /\ from - 3 \in 0..q - 1
        BY <1>1, <1>2, <3>2 DEF IsUnit, Mark, Positions
      <4> QED
        BY <1>4, <2>1, <4>1 DEF NoMark
    <3>3. UnitsBefore(next) = {}
      BY <3>2 DEF UnitsBefore
    <3>4. /\ <<>> \in Seq(Positions \X Positions) /\ Len(<<>>) = 0
          /\ \A x : {x[k] : k \in 1..0} = {}
          /\ \A k : k \notin 1..0
      OBVIOUS
    <3> QED
      BY <3>1, <3>3, <3>4 DEF Ordered
  <2>2. CASE s # 0
    <3>1. ASSUME NEW from \in Positions, NEW to \in Positions
          PROVE  IsUnit(from, to) /\ from < next /\ from >= s <=>
                    from = s /\ to = i - 1 /\ from <= to
      <4>1. Mark(s - 3) /\ s <= q
        BY <1>1, <1>2, <2>2 DEF SplitSound
      <4>2. from \in Int /\ to \in Int
        BY <1>1 DEF Positions
      <4>3. IsUnit(s, to) <=> s <= to /\ to = i - 1
        <5>1. s \in Int /\ q \in Int
          BY <1>1, <1>2
        <5> HIDE DEF s, q
        <5>2. IsUnit(s, to) <=>
                s <= to /\ Mark(s - 3) /\ to = IF stream[q - 1] = 0 THEN q - 2 ELSE q - 1
          BY <1>3, <1>4, <4>1, <4>2, <5>1, UnitBefore
        <5> QED
          BY <1>5, <2>2, <4>1, <5>2
      <4>4. s < next
        BY <1>1, <1>2
      <4>5. ASSUME IsUnit(from, to), from < next, from >= s
            PROVE  from = s
        <5>1. Mark(from - 3) /\ from - 3 >= s - 3 /\ from - 3 < q
          BY <1>1, <1>2, <4>2, <4>5 DEF IsUnit
        <5>2. ~(from - 3 >= s)
          BY <1>1, <1>2, <1>4, <4>2, <5>1 DEF NoMark
        <5>3. ~(s - 3 < from - 3 /\ from - 3 < s)
          BY <1>1, <4>1, <4>2, <5>1, MarksApart
        <5> QED
          BY <1>1, <4>2, <5>1, <5>2, <5>3
      <4> QED
        BY <1>1, <4>2, <4>3, <4>4, <4>5
    <3>2. i - 1 \in 0..n /\ s <= (i - 1) + 1 /\ next \in Int /\ i - 1 < next
      BY <1>1, <1>2
    <3> QED
      BY <2>2, <3>1, <3>2, UnitFound
  <2> QED
    BY <2>1, <2>2
<1>9. SplitType(t)
  <2>1. next \in 1..n + 1 /\ next \in 0..n + 1
    BY <1>1, <1>2
  <2> DEFINE new == UnitEnds(i - 1)
  <2>2. t = [i |-> next, start |-> next, nals |-> new, done |-> FALSE]
    BY DEF SplitType
  <2>3. new \in Seq(Positions \X Positions)
    BY <1>8
  <2> HIDE DEF next, new
  <2>4. SplitType([i |-> next, start |-> next, nals |-> new, done |-> FALSE])
    BY <2>1, <2>3, SplitRecord
  <2> QED
    BY <2>2, <2>4
<1>10. SplitSound(t)
  <2>1. next # 0 /\ next <= next
    BY <1>1, <1>2
  <2> QED
    BY <1>6, <1>7, <1>8, <2>1 DEF SplitSound
<1> QED
  BY <1>7, <1>9, <1>10 DEF SplitOK

\* The end: no mark is left.
LEMMA ScanEnd ==
    ASSUME StreamType, SplitType(split), SplitSound(split), ~split.done,
           split.i + 2 > Len(stream),
           NEW t, t = [split EXCEPT !.done = TRUE,
             !.nals = IF split.start = 0 THEN <<<<1, Len(stream)>>>> ELSE UnitEnds(Len(stream))]
    PROVE  SplitOK(t)
<1> DEFINE i == split.i
           n == Len(stream)
           s == split.start
<1>1. i \in 1..n + 1 /\ n \in Nat \ {0} /\ s \in 0..n + 1 /\ s <= i
  BY DEF SplitType, StreamType, SplitSound
<1>2. NoMark(s, n)
  BY <1>1 DEF SplitSound, NoMark, Mark
<1>3. CASE s = 0
  <2>1. NoMark(1, n)
    BY <1>1, <1>2, <1>3 DEF NoMark
  <2>2. <<1, n>> \in Positions \X Positions
    BY <1>1 DEF Positions
  <2>3. t.nals = <<<<1, n>>>> /\ t.done = TRUE /\ t.i = i /\ t.start = s
    BY <1>3 DEF SplitType
  <2>4. SplitType(t)
    <3>1. <<<<1, n>>>> \in Seq(Positions \X Positions)
      BY <2>2
    <3>2. t = [i |-> i, start |-> s, nals |-> <<<<1, n>>>>, done |-> TRUE]
      BY <1>3 DEF SplitType
    <3> DEFINE w == <<<<1, n>>>>
    <3>3. w \in Seq(Positions \X Positions) /\ i \in 1..Len(stream) + 1 /\ s \in 0..Len(stream) + 1
      BY <1>1, <3>1
    <3> HIDE DEF w
    <3>4. SplitType([i |-> i, start |-> s, nals |-> w, done |-> TRUE])
      BY <3>3, SplitRecord
    <3> QED
      BY <3>2, <3>4 DEF w
  <2> QED
    BY <2>1, <2>3, <2>4 DEF SplitOK, SplitResult
<1>4. CASE s # 0
  <2>1. Mark(s - 3)
    BY <1>4 DEF SplitSound
  <2>2. ~NoMark(1, n)
    BY <1>1, <2>1 DEF NoMark, Mark
  <2>3. ASSUME NEW from \in Positions, NEW to \in Positions
        PROVE  IsUnit(from, to) /\ from < n + 1 /\ from >= s <=>
                  from = s /\ to = n /\ from <= to
    <3>1. from \in Int /\ to \in Int /\ from <= n
      BY <1>1 DEF Positions
    <3>2. IsUnit(s, to) <=> s <= to /\ to = n
      BY <1>1, <1>2, <2>1, <3>1, LastUnit
    <3>3. ASSUME IsUnit(from, to), from >= s
          PROVE  from = s
      <4>1. Mark(from - 3) /\ from - 3 <= n
        BY <1>1, <3>1, <3>3 DEF IsUnit, Mark
      <4>2. ~(from - 3 >= s)
        BY <1>1, <1>2, <3>1, <4>1 DEF NoMark
      <4>3. ~(s - 3 < from - 3 /\ from - 3 < s)
        BY <1>1, <2>1, <3>1, <4>1, MarksApart
      <4> QED
        BY <1>1, <3>1, <3>3, <4>2, <4>3
    <3> QED
      BY <1>1, <3>1, <3>2, <3>3
  <2>4. n \in 0..n /\ s <= n + 1 /\ n + 1 \in Int /\ n < n + 1
    BY <1>1
  <2>5. /\ UnitEnds(n) \in Seq(Positions \X Positions)
        /\ {UnitEnds(n)[k] : k \in 1..Len(UnitEnds(n))} = UnitsBefore(n + 1)
        /\ Ordered(UnitEnds(n))
    BY <1>4, <2>3, <2>4, UnitFound
  <2>6. UnitsBefore(n + 1) = {u \in Positions \X Positions : IsUnit(u[1], u[2])}
    BY <1>1 DEF UnitsBefore, Positions
  <2>7. t.nals = UnitEnds(n) /\ t.done = TRUE /\ t.i = i /\ t.start = s
    BY <1>4 DEF SplitType
  <2>8. SplitType(t)
    BY <1>1, <2>5, <2>7 DEF SplitType
  <2> QED
    BY <2>2, <2>5, <2>6, <2>7, <2>8 DEF SplitOK, SplitResult
<1> QED
  BY <1>3, <1>4

\* A turn of the loops of AnnexBNALUs.
LEMMA SplitStep ==
    ASSUME SplitInv, AnnexBNALUs
    PROVE  SplitInv'
<1>1. StreamType /\ SplitType(split) /\ SplitSound(split) /\ ~split.done /\ stream' = stream
  BY DEF SplitInv, SplitOK, AnnexBNALUs
<1>2. SplitOK(split')
  BY <1>1, ScanOn, ScanCode, ScanEnd DEF AnnexBNALUs
<1> QED
  BY <1>1, <1>2, StreamKept

\* Nothing is scanned at first.
LEMMA SplitInitInv == FramesInit => SplitInv
<1> SUFFICES ASSUME FramesInit PROVE SplitInv
  OBVIOUS
<1>1. PICK n \in 1..MaxBytes : stream \in [1..n -> 0..2]
  BY DEF FramesInit
<1>2. n \in Nat \ {0} /\ Len(stream) = n /\ stream \in Seq(Nat)
  BY <1>1, VideoAssumption
<1>3. split = [i |-> 1, start |-> 0, nals |-> <<>>, done |-> FALSE]
  BY DEF FramesInit
<1>4. UnitsBefore(0) = {}
  BY <1>2 DEF UnitsBefore, Positions
<1>5. NoMark(0, 0)
  BY DEF NoMark, Mark
<1>6. SplitSound(split)
  BY <1>3, <1>4, <1>5 DEF SplitSound, Ordered
<1> QED
  BY <1>2, <1>3, <1>6 DEF SplitInv, SplitOK, SplitType, StreamType

\* The invariant says what the property says.
LEMMA SplitExact == SplitInv => SplitIsExact
BY DEF SplitInv, SplitOK, SplitResult, SplitIsExact, Ordered, Found

-----------------------------------------------------------------------------
(* Frames on their way.                                                    *)

\* Headers and bytes, units, packets and the depacketizer.
Item == Nat \cup (Nat \X Nat \X Nat)
NalType == [type : Item, bytes : Seq(Item)]
WholePacket == [kind : {"nals"}, nals : Seq(NalType)]
FragmentPacket ==
    [kind : {"fua"}, type : Item, start : BOOLEAN, end : BOOLEAN, part : Seq(Item)]
DepktType == [fu : Seq(Item), fuHdr : BOOLEAN, au : Seq(NalType), hasKey : BOOLEAN]

\* A depacketizer that has seen a start has the header, and its flag is that of its units.
DepktOK(d) ==
    /\ d \in DepktType
    /\ d.fuHdr => d.fu # <<>>
    /\ d.hasKey <=> HasKey(d.au)

\* The bytes of a fragment, and the number of fragments of a unit.
Chunk == MaxPayload - 2

Count(u) == (Len(u.bytes) + Chunk - 1) \div Chunk

\* The number of fragments: all but the last are full.
LEMMA CountIs ==
    ASSUME NEW n \in Nat \ {0}, NEW c \in Nat \ {0}, NEW K, K = (n + c - 1) \div c
    PROVE  /\ K \in Nat \ {0} /\ n <= K * c
           /\ \A k \in 0..K - 1 : k * c \in Nat /\ k * c < n
<1>1. K \in Nat
  OBVIOUS
<1>2. K * c <= n + c - 1 /\ n + c - 1 < K * c + c
  OBVIOUS
<1>3. K * c \in Nat
  BY <1>1
<1>4. n <= K * c
  BY <1>2, <1>3
<1>5. K # 0
  BY <1>4
<1>6. ASSUME NEW k \in 0..K - 1
      PROVE  k * c \in Nat /\ k * c < n
  <2>1. k \in Nat /\ K - k - 1 \in Nat /\ K = k + 1 + (K - k - 1)
    BY <1>1
  <2>2. k * c \in Nat /\ (K - k - 1) * c \in Nat
    BY <2>1
  <2>3. K * c = k * c + c + (K - k - 1) * c
    BY <1>1, <2>1
  <2> QED
    BY <1>2, <2>2, <2>3
<1> QED
  BY <1>1, <1>4, <1>5, <1>6

\* A prefix and the piece after it.
LEMMA Join ==
    ASSUME NEW S, NEW s \in Seq(S), NEW a \in Nat, NEW b \in Nat, a <= b, b <= Len(s)
    PROVE  /\ SubSeq(s, 1, a) \in Seq(S) /\ SubSeq(s, a + 1, b) \in Seq(S)
           /\ SubSeq(s, 1, a) \o SubSeq(s, a + 1, b) = SubSeq(s, 1, b)
<1> DEFINE x == SubSeq(s, 1, a)
           y == SubSeq(s, a + 1, b)
           z == SubSeq(s, 1, b)
<1>1. x \in Seq(S) /\ Len(x) = a /\ \A i \in 1..a : x[i] = s[i]
  OBVIOUS
<1>2. y \in Seq(S) /\ Len(y) = b - a /\ \A i \in 1..b - a : y[i] = s[a + i]
  OBVIOUS
<1>3. z \in Seq(S) /\ Len(z) = b /\ \A i \in 1..b : z[i] = s[i]
  OBVIOUS
<1> HIDE DEF x, y, z
<1>4. x \o y \in Seq(S) /\ Len(x \o y) = b
      /\ \A i \in 1..b : (x \o y)[i] = IF i <= a THEN x[i] ELSE y[i - a]
  <2>1. Len(x) + Len(y) = b
    BY <1>1, <1>2
  <2> QED
    BY <1>1, <1>2, <2>1, ConcatProperties
<1>5. ASSUME NEW i \in 1..b
      PROVE  (x \o y)[i] = z[i]
  <2>1. CASE i <= a
    BY <1>1, <1>3, <1>4, <2>1
  <2>2. CASE i > a
    <3>1. i - a \in 1..b - a /\ a + (i - a) = i /\ ~(i <= a)
      BY <2>2
    <3>2. y[i - a] = s[i]
      BY <1>2, <3>1
    <3> QED
      BY <1>3, <1>4, <3>1, <3>2
  <2>3. i <= a \/ i > a
    OBVIOUS
  <2> QED
    BY <2>1, <2>2, <2>3
<1>6. x \o y = z
  BY <1>3, <1>4, <1>5, SeqEqual
<1> QED
  BY <1>1, <1>2, <1>6 DEF x, y, z

\* The fragments of a unit that needs them.
LEMMA FragmentsAre ==
    ASSUME NEW u \in NalType, Len(u.bytes) + 1 > MaxPayload
    PROVE  /\ Count(u) \in Nat \ {0} /\ Chunk \in Nat
           /\ Fragments(u) \in Seq(FragmentPacket) /\ Len(Fragments(u)) = Count(u)
           /\ \A k \in 0..Count(u) - 1 :
                /\ k * Chunk \in Nat /\ k * Chunk < Len(u.bytes)
                /\ Fragments(u)[k + 1].kind = "fua" /\ Fragments(u)[k + 1].type = u.type
                /\ Fragments(u)[k + 1].start <=> k = 0
                /\ Fragments(u)[k + 1].end <=> k + 1 = Count(u)
                /\ Fragments(u)[k + 1].part =
                     SubSeq(u.bytes, k * Chunk + 1,
                            IF k + 1 = Count(u) THEN Len(u.bytes) ELSE (k + 1) * Chunk)
<1> DEFINE n == Len(u.bytes)
           K == Count(u)
           c == Chunk
           piece(k) == SubSeq(u.bytes, (k - 1) * c + 1, Least(k * c, n))
           e(k) == [kind |-> "fua", type |-> u.type, start |-> k = 1, end |-> k * c >= n,
                    part |-> piece(k)]
<1>1. c \in Nat \ {0} /\ u.bytes \in Seq(Item) /\ u.type \in Item
  BY VideoAssumption DEF Chunk, NalType
<1>2. n \in Nat \ {0}
  BY <1>1, VideoAssumption
<1>3. Fragments(u) = [k \in 1..K |-> e(k)]
  BY DEF Fragments, Count, Chunk
<1>4. K = (n + c - 1) \div c
  BY DEF Count
<1> HIDE DEF n, K, c
<1>5. K \in Nat \ {0} /\ n <= K * c /\ \A k \in 0..K - 1 : k * c \in Nat /\ k * c < n
  BY <1>1, <1>2, <1>4, CountIs
<1>6. ASSUME NEW k \in 1..K
      PROVE  /\ e(k) \in FragmentPacket
             /\ e(k).end <=> k = K
             /\ Least(k * c, n) = IF k = K THEN n ELSE k * c
  <2>1. k - 1 \in 0..K - 1 /\ (k - 1) * c \in Nat
    BY <1>5
  <2>2. k * c \in Nat
    BY <1>1, <1>5
  <2>3. k # K => k \in 0..K - 1 /\ k * c < n
    BY <1>5
  <2>4. k * c >= n <=> k = K
    BY <1>2, <1>5, <2>2, <2>3
  <2>5. Least(k * c, n) = IF k = K THEN n ELSE k * c
    BY <1>2, <1>5, <2>2, <2>3 DEF Least
  <2>6. Least(k * c, n) \in 0..n
    BY <1>2, <2>2 DEF Least
  <2>7. SubSeq(u.bytes, (k - 1) * c + 1, Least(k * c, n)) \in Seq(Item)
    <3> DEFINE a == (k - 1) * c + 1
               b == Least(k * c, n)
    <3>1. a \in Nat \ {0} /\ b \in 0..Len(u.bytes)
      BY <2>1, <2>6 DEF n
    <3> HIDE DEF a, b
    <3>2. SubSeq(u.bytes, a, b) \in Seq(Item)
      BY <1>1, <3>1
    <3> QED
      BY <3>2 DEF a, b
  <2>8. e(k) \in FragmentPacket
    BY <1>1, <2>7 DEF FragmentPacket
  <2> QED
    BY <2>4, <2>5, <2>8
<1>7. Fragments(u) \in Seq(FragmentPacket) /\ Len(Fragments(u)) = K
  <2>1. \A k \in 1..K : e(k) \in FragmentPacket
    BY <1>6
  <2> HIDE DEF e
  <2> QED
    BY <1>3, <1>5, <2>1, IsASeq
<1>8. ASSUME NEW k \in 0..K - 1
      PROVE  /\ k * c \in Nat /\ k * c < n
             /\ Fragments(u)[k + 1].kind = "fua" /\ Fragments(u)[k + 1].type = u.type
             /\ Fragments(u)[k + 1].start <=> k = 0
             /\ Fragments(u)[k + 1].end <=> k + 1 = K
             /\ Fragments(u)[k + 1].part =
                    SubSeq(u.bytes, k * c + 1, IF k + 1 = K THEN n ELSE (k + 1) * c)
  <2>1. k + 1 \in 1..K /\ (k + 1) - 1 = k /\ (k + 1 = 1 <=> k = 0)
    BY <1>5
  <2>2. Fragments(u)[k + 1] = e(k + 1)
    BY <1>3, <2>1
  <2>3. k * c \in Nat /\ k * c < n
    BY <1>5
  <2>4. (e(k + 1).end <=> k + 1 = K) /\ Least((k + 1) * c, n) = IF k + 1 = K THEN n ELSE (k + 1) * c
    BY <1>6, <2>1
  <2>5. /\ e(k + 1).kind = "fua" /\ e(k + 1).type = u.type /\ (e(k + 1).start <=> k + 1 = 1)
        /\ e(k + 1).part = piece(k + 1)
    <3>1. e(k + 1).kind = "fua" /\ e(k + 1).type = u.type
      OBVIOUS
    <3>2. e(k + 1).start <=> k + 1 = 1
      OBVIOUS
    <3> HIDE DEF piece
    <3>3. e(k + 1).part = piece(k + 1)
      OBVIOUS
    <3> HIDE DEF e
    <3> QED
      BY <3>1, <3>2, <3>3
  <2>6. piece(k + 1) = SubSeq(u.bytes, k * c + 1, IF k + 1 = K THEN n ELSE (k + 1) * c)
    <3> DEFINE a == ((k + 1) - 1) * c
               l == Least((k + 1) * c, n)
    <3>1. a = k * c
      BY <2>1
    <3>2. l = IF k + 1 = K THEN n ELSE (k + 1) * c
      BY <2>4
    <3>3. piece(k + 1) = SubSeq(u.bytes, a + 1, l)
      OBVIOUS
    <3> HIDE DEF a, l, piece
    <3> QED
      BY <3>1, <3>2, <3>3
  <2> HIDE DEF e, piece
  <2> QED
    BY <2>1, <2>2, <2>3, <2>4, <2>5, <2>6
<1> QED
  BY <1>1, <1>5, <1>7, <1>8 DEF n, K, c

\* Units that are put together have a key unit if one part has.
LEMMA KeyOfBoth ==
    ASSUME NEW a \in Seq(NalType), NEW b \in Seq(NalType)
    PROVE  /\ a \o b \in Seq(NalType)
           /\ HasKey(a \o b) <=> HasKey(a) \/ HasKey(b)
<1> DEFINE z == a \o b
<1>1. z \in Seq(NalType) /\ Len(z) = Len(a) + Len(b)
      /\ \A i \in 1..Len(a) + Len(b) : z[i] = IF i <= Len(a) THEN a[i] ELSE b[i - Len(a)]
  BY ConcatProperties
<1>2. Len(a) \in Nat /\ Len(b) \in Nat
  OBVIOUS
<1> HIDE DEF z
<1>3. ASSUME NEW i \in 1..Len(a)
      PROVE  i \in 1..Len(z) /\ z[i] = a[i]
  BY <1>1, <1>2
<1>4. ASSUME NEW i \in 1..Len(b)
      PROVE  Len(a) + i \in 1..Len(z) /\ z[Len(a) + i] = b[i]
  <2>1. Len(a) + i \in 1..Len(a) + Len(b) /\ ~(Len(a) + i <= Len(a)) /\ (Len(a) + i) - Len(a) = i
    BY <1>2
  <2> QED
    BY <1>1, <2>1
<1>5. ASSUME NEW i \in 1..Len(z)
      PROVE  \/ i \in 1..Len(a) /\ z[i] = a[i]
             \/ i - Len(a) \in 1..Len(b) /\ z[i] = b[i - Len(a)]
  BY <1>1, <1>2
<1>6. HasKey(z) <=> HasKey(a) \/ HasKey(b)
  BY <1>3, <1>4, <1>5 DEF HasKey
<1> QED
  BY <1>1, <1>6 DEF z

\* appendNAL changes the access unit and its flag only.
LEMMA AppendNALsIs ==
    ASSUME NEW d \in DepktType, NEW nals \in Seq(NalType)
    PROVE  /\ AppendNALs(d, nals) \in DepktType
           /\ AppendNALs(d, nals).fu = d.fu /\ AppendNALs(d, nals).fuHdr = d.fuHdr
           /\ AppendNALs(d, nals).au = d.au \o nals
           /\ AppendNALs(d, nals).hasKey <=> d.hasKey \/ HasKey(nals)
<1> DEFINE au == d.au \o nals
           key == d.hasKey \/ HasKey(nals)
<1>1. au \in Seq(NalType)
  BY KeyOfBoth DEF DepktType
<1>2. key \in BOOLEAN
  BY DEF DepktType, HasKey
<1>3. AppendNALs(d, nals) = [d EXCEPT !.au = au, !.hasKey = key]
  BY DEF AppendNALs
<1> HIDE DEF au, key
<1>4. AppendNALs(d, nals) = [fu |-> d.fu, fuHdr |-> d.fuHdr, au |-> au, hasKey |-> key]
  BY <1>3 DEF DepktType
<1>5. AppendNALs(d, nals) \in DepktType
  BY <1>1, <1>2, <1>4 DEF DepktType
<1> DEFINE r == AppendNALs(d, nals)
<1> HIDE DEF r
<1>6. r.fu = d.fu /\ r.fuHdr = d.fuHdr /\ r.au = au
  BY <1>4 DEF r
<1>7. r.hasKey <=> key
  BY <1>2, <1>4 DEF r
<1> QED
  BY <1>5, <1>6, <1>7 DEF au, key, r

\* A packet with whole units.
LEMMA PushWholeOK ==
    ASSUME NEW d, DepktOK(d), NEW p \in WholePacket
    PROVE  /\ DepktOK(Push(d, p))
           /\ Push(d, p).au = d.au \o p.nals
<1>1. Push(d, p) = AppendNALs(d, p.nals) /\ p.nals \in Seq(NalType) /\ d \in DepktType
      /\ d.au \in Seq(NalType)
  BY DEF Push, WholePacket, DepktOK, DepktType
<1>2. HasKey(d.au \o p.nals) <=> HasKey(d.au) \/ HasKey(p.nals)
  BY <1>1, KeyOfBoth
<1>3. /\ Push(d, p) \in DepktType
      /\ Push(d, p).fu = d.fu /\ Push(d, p).fuHdr = d.fuHdr
      /\ Push(d, p).au = d.au \o p.nals
      /\ Push(d, p).hasKey <=> d.hasKey \/ HasKey(p.nals)
  <2> DEFINE r == AppendNALs(d, p.nals)
  <2>1. /\ r \in DepktType /\ r.fu = d.fu /\ r.fuHdr = d.fuHdr /\ r.au = d.au \o p.nals
        /\ r.hasKey <=> d.hasKey \/ HasKey(p.nals)
    BY <1>1, AppendNALsIs
  <2> HIDE DEF r
  <2>2. Push(d, p) = r
    BY <1>1 DEF r
  <2> QED
    BY <2>1, <2>2
<1> QED
  BY <1>2, <1>3 DEF DepktOK

\* What the buffer of a unit becomes with a fragment.
Started(d, p) == p.start \/ d.fuHdr

Gathered(d, p) ==
    IF p.start THEN <<p.type>> \o p.part
    ELSE IF d.fuHdr THEN d.fu \o p.part ELSE d.fu

\* The buffer of a unit that has begun starts with the header.
LEMMA GatheredIs ==
    ASSUME NEW d, DepktOK(d), NEW p \in FragmentPacket
    PROVE  /\ Gathered(d, p) \in Seq(Item) /\ Started(d, p) \in BOOLEAN
           /\ Started(d, p) => /\ Gathered(d, p) # <<>>
                               /\ Head(Gathered(d, p)) \in Item
                               /\ Tail(Gathered(d, p)) \in Seq(Item)
<1>1. /\ p.type \in Item /\ p.part \in Seq(Item) /\ d.fu \in Seq(Item)
      /\ d.fuHdr \in BOOLEAN /\ p.start \in BOOLEAN /\ (d.fuHdr => d.fu # <<>>)
  BY DEF DepktOK, DepktType, FragmentPacket
<1>2. <<p.type>> \in Seq(Item) /\ Len(<<p.type>>) = 1
  BY <1>1
<1>3. /\ <<p.type>> \o p.part \in Seq(Item) /\ Len(<<p.type>> \o p.part) = 1 + Len(p.part)
      /\ d.fu \o p.part \in Seq(Item) /\ Len(d.fu \o p.part) = Len(d.fu) + Len(p.part)
  BY <1>1, <1>2, ConcatProperties
<1>4. Gathered(d, p) \in Seq(Item) /\ Started(d, p) \in BOOLEAN
  BY <1>1, <1>3 DEF Gathered, Started
<1>5. ASSUME Started(d, p)
      PROVE  Gathered(d, p) # <<>>
  <2>1. Len(p.part) \in Nat /\ (d.fuHdr => Len(d.fu) > 0)
    BY <1>1
  <2>2. Len(Gathered(d, p)) > 0
    <3>1. CASE p.start
      <4>1. Gathered(d, p) = <<p.type>> \o p.part
        BY <3>1 DEF Gathered
      <4> QED
        BY <1>3, <2>1, <4>1
    <3>2. CASE ~p.start
      <4>1. Gathered(d, p) = d.fu \o p.part /\ d.fuHdr
        BY <1>5, <3>2 DEF Gathered, Started
      <4>2. Len(d.fu) \in Nat /\ Len(p.part) \in Nat
        BY <1>1
      <4>3. Len(d.fu) > 0
        BY <2>1, <4>1
      <4>4. Len(Gathered(d, p)) = Len(d.fu) + Len(p.part)
        BY <1>3, <4>1
      <4> DEFINE x == Len(d.fu)
                 y == Len(p.part)
      <4>5. x \in Nat /\ y \in Nat /\ x > 0
        BY <4>2, <4>3
      <4> HIDE DEF x, y
      <4>6. x + y > 0
        BY <4>5
      <4> QED
        BY <4>4, <4>6 DEF x, y
    <3> QED
      BY <3>1, <3>2
  <2> QED
    BY <1>4, <2>2
<1> QED
  BY <1>4, <1>5, HeadTailProperties

\* A fragment: the last one of a unit that has begun makes it a unit of the access unit,
\* any other one stays in the buffer.
LEMMA FragmentIs ==
    ASSUME NEW d, DepktOK(d), NEW p \in FragmentPacket
    PROVE  /\ p.end /\ Started(d, p) =>
                /\ Push(d, p) \in DepktType
                /\ Push(d, p).fu = <<>> /\ ~Push(d, p).fuHdr
                /\ Push(d, p).au = d.au \o <<[type |-> Head(Gathered(d, p)),
                                              bytes |-> Tail(Gathered(d, p))]>>
                /\ Push(d, p).hasKey <=>
                     d.hasKey \/ HasKey(<<[type |-> Head(Gathered(d, p)),
                                           bytes |-> Tail(Gathered(d, p))]>>)
           /\ ~(p.end /\ Started(d, p)) =>
                /\ Push(d, p) \in DepktType
                /\ Push(d, p).fu = Gathered(d, p) /\ (Push(d, p).fuHdr <=> Started(d, p))
                /\ Push(d, p).au = d.au /\ Push(d, p).hasKey = d.hasKey
<1> DEFINE begun == IF p.start THEN StartUnit(d, p) ELSE d
           more == IF begun.fuHdr THEN [begun EXCEPT !.fu = @ \o p.part] ELSE begun
           fu == Gathered(d, p)
           hdr == Started(d, p)
<1>1. /\ p.type \in Item /\ p.part \in Seq(Item) /\ p.kind = "fua" /\ d \in DepktType
      /\ d.fuHdr \in BOOLEAN /\ p.start \in BOOLEAN /\ p.end \in BOOLEAN
  BY DEF DepktOK, DepktType, FragmentPacket
<1>2. more = [fu |-> fu, fuHdr |-> hdr, au |-> d.au, hasKey |-> d.hasKey]
  <2>1. CASE p.start
    <3>1. begun = [fu |-> <<p.type>>, fuHdr |-> TRUE, au |-> d.au, hasKey |-> d.hasKey]
      BY <1>1, <2>1 DEF StartUnit, DepktType
    <3>2. fu = <<p.type>> \o p.part /\ hdr = TRUE
      BY <2>1 DEF Gathered, Started
    <3> HIDE DEF begun, fu, hdr
    <3> QED
      BY <3>1, <3>2
  <2>2. CASE ~p.start /\ d.fuHdr
    <3>1. begun = [fu |-> d.fu, fuHdr |-> TRUE, au |-> d.au, hasKey |-> d.hasKey]
      BY <1>1, <2>2 DEF DepktType
    <3>2. fu = d.fu \o p.part /\ hdr = TRUE
      BY <2>2 DEF Gathered, Started
    <3> HIDE DEF begun, fu, hdr
    <3> QED
      BY <3>1, <3>2
  <2>3. CASE ~p.start /\ ~d.fuHdr
    <3>1. begun = [fu |-> d.fu, fuHdr |-> FALSE, au |-> d.au, hasKey |-> d.hasKey]
      BY <1>1, <2>3 DEF DepktType
    <3>2. fu = d.fu /\ hdr = FALSE
      BY <1>1, <2>3 DEF Gathered, Started
    <3> HIDE DEF begun, fu, hdr
    <3> QED
      BY <3>1, <3>2
  <2> QED
    BY <2>1, <2>2, <2>3
<1>3. fu \in Seq(Item) /\ hdr \in BOOLEAN /\ (hdr => Head(fu) \in Item /\ Tail(fu) \in Seq(Item))
  BY GatheredIs
<1>4. Push(d, p) = IF p.end /\ more.fuHdr
                   THEN [AppendNALs(more, <<[type |-> Head(more.fu), bytes |-> Tail(more.fu)]>>)
                            EXCEPT !.fu = <<>>, !.fuHdr = FALSE]
                   ELSE more
  BY <1>1 DEF Push, Fragment
<1> HIDE DEF begun, more, fu, hdr
<1>5. more \in DepktType
  BY <1>1, <1>2, <1>3 DEF DepktType
<1>6. CASE p.end /\ hdr
  <2> DEFINE nal == [type |-> Head(fu), bytes |-> Tail(fu)]
             a == AppendNALs(more, <<nal>>)
  <2>1. nal \in NalType
    BY <1>3, <1>6 DEF NalType
  <2>2. <<nal>> \in Seq(NalType)
    BY <2>1
  <2>3. a \in DepktType /\ a.au = more.au \o <<nal>> /\ (a.hasKey <=> more.hasKey \/ HasKey(<<nal>>))
    BY <1>5, <2>2, AppendNALsIs
  <2>4. Push(d, p) = [a EXCEPT !.fu = <<>>, !.fuHdr = FALSE]
    BY <1>2, <1>4, <1>6
  <2> HIDE DEF nal, a
  <2>5. Push(d, p) = [fu |-> <<>>, fuHdr |-> FALSE, au |-> a.au, hasKey |-> a.hasKey]
    BY <2>3, <2>4 DEF DepktType
  <2>6. Push(d, p) \in DepktType
    <3>1. a \in DepktType
      BY <2>3
    <3>2. a.au \in Seq(NalType) /\ a.hasKey \in BOOLEAN
      BY <3>1 DEF DepktType
    <3>3. <<>> \in Seq(Item)
      OBVIOUS
    <3> QED
      BY <2>5, <3>2, <3>3 DEF DepktType
  <2>7. more.au = d.au /\ more.hasKey = d.hasKey
    BY <1>2
  <2> QED
    BY <1>6, <2>3, <2>5, <2>6, <2>7 DEF nal, fu, hdr
<1>7. CASE ~(p.end /\ hdr)
  <2>1. Push(d, p) = more
    BY <1>2, <1>4, <1>7
  <2> QED
    BY <1>2, <1>5, <1>7, <2>1 DEF fu, hdr
<1> QED
  BY <1>6, <1>7 DEF hdr

\* The depacketizer is sound after any fragment, also one of a unit whose start was lost.
LEMMA PushFragmentOK ==
    ASSUME NEW d, DepktOK(d), NEW p \in FragmentPacket
    PROVE  DepktOK(Push(d, p))
<1> DEFINE r == Push(d, p)
           fu == Gathered(d, p)
           nal == [type |-> Head(fu), bytes |-> Tail(fu)]
<1>1. d \in DepktType /\ d.au \in Seq(NalType) /\ (d.hasKey <=> HasKey(d.au))
  BY DEF DepktOK, DepktType
<1>2. CASE p.end /\ Started(d, p)
  <2>1. r \in DepktType /\ ~r.fuHdr /\ r.au = d.au \o <<nal>> /\ (r.hasKey <=> d.hasKey \/ HasKey(<<nal>>))
    BY <1>2, FragmentIs
  <2>2. Head(fu) \in Item /\ Tail(fu) \in Seq(Item)
    BY <1>2, GatheredIs
  <2>3. <<nal>> \in Seq(NalType)
    BY <2>2 DEF NalType
  <2> HIDE DEF r, nal
  <2>4. HasKey(d.au \o <<nal>>) <=> HasKey(d.au) \/ HasKey(<<nal>>)
    BY <1>1, <2>3, KeyOfBoth
  <2>5. DepktOK(r)
    BY <1>1, <2>1, <2>4 DEF DepktOK
  <2> QED
    BY <2>5 DEF r
<1>3. CASE ~(p.end /\ Started(d, p))
  <2>1. r \in DepktType /\ r.fu = fu /\ (r.fuHdr <=> Started(d, p)) /\ r.au = d.au /\ r.hasKey = d.hasKey
    BY <1>3, FragmentIs
  <2>2. Started(d, p) => fu # <<>>
    BY GatheredIs
  <2> HIDE DEF r, fu
  <2>3. DepktOK(r)
    BY <1>1, <2>1, <2>2 DEF DepktOK
  <2> QED
    BY <2>3 DEF r
<1> QED
  BY <1>2, <1>3

\* Fragment k + 1 of a unit, of which the k before it have come.
LEMMA NextFragment ==
    ASSUME NEW d, DepktOK(d), NEW u \in NalType, Len(u.bytes) + 1 > MaxPayload,
           NEW k \in 0..Count(u) - 1,
           k > 0 => d.fuHdr /\ d.fu = <<u.type>> \o SubSeq(u.bytes, 1, k * Chunk)
    PROVE  /\ k + 1 < Count(u) =>
                /\ Push(d, Fragments(u)[k + 1]).au = d.au
                /\ Push(d, Fragments(u)[k + 1]).fuHdr
                /\ Push(d, Fragments(u)[k + 1]).fu =
                        <<u.type>> \o SubSeq(u.bytes, 1, (k + 1) * Chunk)
           /\ k + 1 = Count(u) => Push(d, Fragments(u)[k + 1]).au = d.au \o <<u>>
<1> DEFINE n == Len(u.bytes)
           K == Count(u)
           c == Chunk
           p == Fragments(u)[k + 1]
           a == k * c
           e == IF k + 1 = K THEN n ELSE (k + 1) * c
<1>1. /\ K \in Nat \ {0} /\ c \in Nat /\ k + 1 \in 1..K /\ p \in FragmentPacket
      /\ a \in Nat /\ a < n /\ p.type = u.type
      /\ p.start <=> k = 0
      /\ p.end <=> k + 1 = K
      /\ p.part = SubSeq(u.bytes, a + 1, e)
  <2>1. /\ K \in Nat \ {0} /\ c \in Nat
        /\ Fragments(u) \in Seq(FragmentPacket) /\ Len(Fragments(u)) = K
        /\ a \in Nat /\ a < n /\ p.type = u.type
        /\ p.start <=> k = 0
        /\ p.end <=> k + 1 = K
        /\ p.part = SubSeq(u.bytes, a + 1, e)
    BY FragmentsAre
  <2>2. k + 1 \in 1..Len(Fragments(u))
    BY <2>1
  <2>3. p \in FragmentPacket
    BY <2>1, <2>2, ElementOfSeq
  <2> QED
    BY <2>1, <2>2, <2>3
<1>0. K \in Nat \ {0} /\ c \in Nat /\ a \in Nat /\ a < n /\ k \in 0..K - 1
  BY <1>1
<1>2. u.bytes \in Seq(Item) /\ u.type \in Item /\ n \in Nat /\ u = [type |-> u.type, bytes |-> u.bytes]
  BY DEF NalType
<1>3. e \in Nat /\ a <= e /\ e <= n
  <2>1. CASE k + 1 = K
    BY <1>1, <1>2, <2>1
  <2>2. CASE k + 1 # K
    <3>1. k + 1 \in 0..K - 1
      <4> HIDE DEF K
      <4> QED
        BY <1>0, <2>2
    <3>2. (k + 1) * c \in Nat /\ (k + 1) * c < n
      BY <3>1, FragmentsAre
    <3>3. (k + 1) * c = a + c
      BY <1>0
    <3>4. e = (k + 1) * c
      BY <2>2
    <3> HIDE DEF e, a, n
    <3> QED
      BY <1>0, <1>2, <3>2, <3>3, <3>4
  <2> QED
    BY <2>1, <2>2
<1>4. k = 0 => a = 0
  BY <1>1
<1> HIDE DEF a, e, p
<1>5. Started(d, p)
  BY <1>1 DEF Started
<1>6. /\ SubSeq(u.bytes, 1, a) \in Seq(Item) /\ SubSeq(u.bytes, a + 1, e) \in Seq(Item)
      /\ SubSeq(u.bytes, 1, a) \o SubSeq(u.bytes, a + 1, e) = SubSeq(u.bytes, 1, e)
  <2> DEFINE s == u.bytes
  <2>1. s \in Seq(Item) /\ a \in Nat /\ e \in Nat /\ a <= e /\ e <= Len(s)
    BY <1>0, <1>2, <1>3
  <2> HIDE DEF s
  <2>2. /\ SubSeq(s, 1, a) \in Seq(Item) /\ SubSeq(s, a + 1, e) \in Seq(Item)
        /\ SubSeq(s, 1, a) \o SubSeq(s, a + 1, e) = SubSeq(s, 1, e)
    BY ONLY <2>1, Join
  <2> QED
    BY <2>2 DEF s
<1>7. Gathered(d, p) = <<u.type>> \o SubSeq(u.bytes, 1, e)
  <2>1. CASE k = 0
    <3>1. a + 1 = 1
      BY <1>4, <2>1
    <3> QED
      BY <1>1, <2>1, <3>1 DEF Gathered
  <2>2. CASE k # 0
    <3>1. k > 0 /\ ~p.start
      BY <1>1, <2>2
    <3>2. Gathered(d, p) = (<<u.type>> \o SubSeq(u.bytes, 1, a)) \o SubSeq(u.bytes, a + 1, e)
      BY <1>1, <3>1 DEF Gathered, a
    <3> DEFINE x == <<u.type>>
               y == SubSeq(u.bytes, 1, a)
               z == SubSeq(u.bytes, a + 1, e)
    <3>3. x \in Seq(Item) /\ y \in Seq(Item) /\ z \in Seq(Item)
      BY <1>2, <1>6
    <3>4. y \o z = SubSeq(u.bytes, 1, e)
      BY <1>6
    <3>5. Gathered(d, p) = (x \o y) \o z
      BY <3>2
    <3> HIDE DEF x, y, z
    <3>6. (x \o y) \o z = x \o (y \o z)
      BY ONLY <3>3, ConcatAssociative
    <3>7. Gathered(d, p) = x \o SubSeq(u.bytes, 1, e)
      BY <3>4, <3>5, <3>6
    <3> QED
      BY <3>7 DEF x
  <2> QED
    BY <2>1, <2>2
<1>8. CASE k + 1 < K
  <2>1. ~p.end /\ e = (k + 1) * c
    BY <1>1, <1>8 DEF e
  <2>2. Push(d, p).fu = Gathered(d, p) /\ (Push(d, p).fuHdr <=> Started(d, p)) /\ Push(d, p).au = d.au
    BY <1>1, <2>1, FragmentIs
  <2>3. Push(d, p).fu = <<u.type>> \o SubSeq(u.bytes, 1, (k + 1) * c)
    BY <1>7, <2>1, <2>2
  <2> QED
    BY <1>5, <1>8, <2>2, <2>3 DEF p
<1>9. CASE k + 1 = K
  <2> DEFINE fu == Gathered(d, p)
  <2>1. p.end /\ e = n
    BY <1>1, <1>9 DEF e
  <2>2. Push(d, p).au = d.au \o <<[type |-> Head(fu), bytes |-> Tail(fu)]>>
    BY <1>1, <1>5, <2>1, FragmentIs
  <2>3. fu = <<u.type>> \o u.bytes
    BY <1>2, <1>7, <2>1, SubSeqFull
  <2>4. Head(fu) = u.type /\ Tail(fu) = u.bytes
    BY <1>2, <2>3
  <2> HIDE DEF fu
  <2>5. Push(d, p).au = d.au \o <<u>>
    BY <1>2, <2>2, <2>4
  <2> QED
    BY <1>1, <1>9, <2>5 DEF p
<1> QED
  BY <1>1, <1>8, <1>9

\* Both kinds of packet.
Packet == WholePacket \cup FragmentPacket

FramesTyped ==
    /\ frame \in [no : Nat, nals : Seq(NalType)]
    /\ unsent \in Seq(NalType) /\ packets \in Seq(Packet)
    /\ intact \in BOOLEAN /\ DepktOK(depkt)

\* Where a frame that has lost nothing is: over, between two packets of a unit or of
\* several, before the packet with the units ns, or with k fragments of unit u received.
Over == packets = <<>> /\ unsent = <<>> /\ depkt.au = <<>>

Between == packets = <<>> /\ unsent # <<>> /\ frame.nals = depkt.au \o unsent

Whole(ns) ==
    /\ packets = <<[kind |-> "nals", nals |-> ns]>>
    /\ frame.nals = (depkt.au \o ns) \o unsent

Part(u, k) ==
    /\ Len(u.bytes) + 1 > MaxPayload
    /\ packets = SubSeq(Fragments(u), k + 1, Count(u))
    /\ frame.nals = (depkt.au \o <<u>>) \o unsent
    /\ k > 0 => depkt.fuHdr /\ depkt.fu = <<u.type>> \o SubSeq(u.bytes, 1, k * Chunk)

OnItsWay ==
    \/ Over
    \/ Between
    \/ \E ns \in Seq(NalType) : Whole(ns)
    \/ \E u \in NalType : \E k \in 0..Count(u) - 1 : Part(u, k)

\* The part of FramesIntact about delivered frames.
DeliveredOK ==
    delivered.intact =>
        delivered.nals = delivered.of /\ (delivered.key <=> HasKey(delivered.of))

\* The inductive invariant of the frames on their way.
FramesInv == FramesTyped /\ (intact => OnItsWay) /\ DeliveredOK

\* Nothing is on its way at first.
LEMMA FramesInitInv == FramesInit => FramesInv
<1> SUFFICES ASSUME FramesInit PROVE FramesInv
  OBVIOUS
<1>1. frame = [no |-> 0, nals |-> <<>>] /\ unsent = <<>> /\ packets = <<>> /\ intact = TRUE
      /\ depkt = [fu |-> <<>>, fuHdr |-> FALSE, au |-> <<>>, hasKey |-> FALSE]
      /\ delivered = [nals |-> <<>>, key |-> FALSE, of |-> <<>>, intact |-> FALSE]
  BY DEF FramesInit, NoFrame
<1>2. depkt \in DepktType
  BY <1>1 DEF DepktType
<1>3. ~HasKey(<<>>)
  BY DEF HasKey
<1>4. DepktOK(depkt)
  BY <1>1, <1>2, <1>3 DEF DepktOK
<1>5. FramesTyped
  BY <1>1, <1>4 DEF FramesTyped
<1>6. Over
  BY <1>1 DEF Over
<1>7. ~delivered.intact
  BY <1>1
<1> QED
  BY <1>5, <1>6, <1>7 DEF FramesInv, OnItsWay, DeliveredOK

\* The units of a frame.
LEMMA UnitsTyped ==
    ASSUME NEW f \in Nat, NEW n \in Nat, NEW nals \in [1..n -> Bodies \X Types]
    PROVE  [j \in 1..n |-> Nal(f, j, nals[j][2], nals[j][1])] \in Seq(NalType)
<1> DEFINE e(j) == Nal(f, j, nals[j][2], nals[j][1])
<1>1. ASSUME NEW j \in 1..n
      PROVE  e(j) \in NalType
  <2> DEFINE t == nals[j][2]
             l == nals[j][1]
  <2>1. t \in Types /\ l \in Bodies
    OBVIOUS
  <2>2. t \in Nat /\ l \in Nat
    <3> HIDE DEF t, l
    <3>1. Types \subseteq 1..23 /\ Bodies \subseteq Nat
      BY VideoAssumption
    <3>2. t \in 1..23 /\ l \in Nat
      BY ONLY <2>1, <3>1
    <3> QED
      BY <3>2
  <2> HIDE DEF t, l
  <2>3. \A k \in 1..l : <<f, j, k>> \in Item
    BY <2>2 DEF Item
  <2> DEFINE b(k) == <<f, j, k>>
             bs == [k \in 1..l |-> b(k)]
  <2> HIDE DEF b
  <2>4. bs \in Seq(Item)
    BY <2>2, <2>3, IsASeq DEF b
  <2>5. t \in Item
    BY <2>2 DEF Item
  <2>6. [type |-> t, bytes |-> bs] \in NalType
    BY <2>4, <2>5 DEF NalType
  <2> QED
    BY <2>6 DEF Nal, t, l, b
<1> HIDE DEF e
<1>2. [j \in 1..n |-> e(j)] \in Seq(NalType)
  BY <1>1, IsASeq
<1> QED
  BY <1>2 DEF e

\* A unit whose fragments are under way has one more.
LEMMA PartIsNotEmpty ==
    ASSUME NEW u \in NalType, NEW k \in 0..Count(u) - 1, Part(u, k)
    PROVE  /\ packets # <<>>
           /\ Head(packets) = Fragments(u)[k + 1]
           /\ Tail(packets) = SubSeq(Fragments(u), (k + 1) + 1, Count(u))
           /\ Len(packets) = Count(u) - k
<1> DEFINE K == Count(u)
           s == Fragments(u)
<1>1. K \in Nat \ {0} /\ s \in Seq(FragmentPacket) /\ Len(s) = K
      /\ packets = SubSeq(s, k + 1, K) /\ k \in 0..K - 1
  BY FragmentsAre DEF Part
<1> HIDE DEF K, s
<1>2. /\ SubSeq(s, k + 1, K) # <<>> /\ Len(SubSeq(s, k + 1, K)) = K - k
      /\ Head(SubSeq(s, k + 1, K)) = s[k + 1]
  BY <1>1
<1>3. Tail(SubSeq(s, k + 1, K)) = SubSeq(s, (k + 1) + 1, K)
  <2>1. k + 1 \in 1..Len(s) /\ K \in k + 1..Len(s)
    BY <1>1
  <2> QED
    BY <1>1, <2>1, HeadTailOfSubSeq
<1> QED
  BY <1>1, <1>2, <1>3 DEF K, s

\* Between two packets there is nothing else to send but the units that follow.
LEMMA PacketsGone ==
    ASSUME OnItsWay, packets = <<>>, unsent # <<>>
    PROVE  Between
<1>1. ASSUME NEW ns \in Seq(NalType), Whole(ns) PROVE FALSE
  BY <1>1 DEF Whole
<1>2. ASSUME NEW u \in NalType, NEW k \in 0..Count(u) - 1, Part(u, k) PROVE FALSE
  BY <1>2, PartIsNotEmpty
<1> QED
  BY <1>1, <1>2 DEF OnItsWay, Over

\* A frame begins with an empty access unit.
LEMMA SendFrameOK == FramesInv /\ SendFrame => FramesInv'
<1> SUFFICES ASSUME FramesInv, SendFrame PROVE FramesInv'
  OBVIOUS
<1>0. PICK n \in 1..MaxUnits : \E nals \in [1..n -> Bodies \X Types] :
         /\ frame' = [no |-> frame.no + 1,
                      nals |-> [j \in 1..n |-> Nal(frame.no + 1, j, nals[j][2], nals[j][1])]]
         /\ unsent' = [j \in 1..n |-> Nal(frame.no + 1, j, nals[j][2], nals[j][1])]
  BY DEF SendFrame
<1>1. PICK nals \in [1..n -> Bodies \X Types] :
         /\ frame' = [no |-> frame.no + 1,
                      nals |-> [j \in 1..n |-> Nal(frame.no + 1, j, nals[j][2], nals[j][1])]]
         /\ unsent' = [j \in 1..n |-> Nal(frame.no + 1, j, nals[j][2], nals[j][1])]
  BY <1>0
<1> DEFINE units == [j \in 1..n |-> Nal(frame.no + 1, j, nals[j][2], nals[j][1])]
<1>2. frame.no + 1 \in Nat /\ n \in Nat \ {0}
  BY VideoAssumption DEF FramesInv, FramesTyped
<1>3. units \in Seq(NalType)
  BY <1>2, UnitsTyped
<1>4. units # <<>>
  BY <1>2
<1> HIDE DEF units
<1>5. frame' = [no |-> frame.no + 1, nals |-> units] /\ unsent' = units
  BY <1>1 DEF units
<1>6. packets = <<>> /\ unsent = <<>>
      /\ packets' = packets /\ intact' = intact /\ depkt' = depkt /\ delivered' = delivered
  BY DEF SendFrame
<1>7. FramesTyped'
  BY <1>2, <1>3, <1>5, <1>6 DEF FramesInv, FramesTyped
<1>8. ASSUME intact PROVE Between'
  <2>1. OnItsWay
    BY <1>8 DEF FramesInv
  <2>2. depkt.au = <<>>
    <3>1. CASE Over
      BY <3>1 DEF Over
    <3>2. CASE Between
      BY <1>6, <3>2 DEF Between
    <3>3. ASSUME NEW ns \in Seq(NalType), Whole(ns) PROVE FALSE
      BY <1>6, <3>3 DEF Whole
    <3>4. ASSUME NEW u \in NalType, NEW k \in 0..Count(u) - 1, Part(u, k) PROVE FALSE
      BY <1>6, <3>4, PartIsNotEmpty
    <3> QED
      BY <2>1, <3>1, <3>2, <3>3, <3>4 DEF OnItsWay
  <2>3. <<>> \o units = units
    BY <1>3, ConcatEmptySeq
  <2> QED
    BY <1>4, <1>5, <1>6, <2>2, <2>3 DEF Between
<1> QED
  BY <1>6, <1>7, <1>8 DEF FramesInv, OnItsWay, DeliveredOK

\* Units are put together in any grouping.
LEMMA NalsAssociate ==
    ASSUME NEW a \in Seq(NalType), NEW b \in Seq(NalType), NEW c \in Seq(NalType)
    PROVE  (a \o b) \o c = a \o (b \o c)
<1> HIDE DEF NalType
<1> QED
  BY ConcatAssociative

\* The next unit becomes a packet or fragments.
LEMMA PacketizeOK == FramesInv /\ PacketizeH264 => FramesInv'
<1> SUFFICES ASSUME FramesInv, PacketizeH264 PROVE FramesInv'
  OBVIOUS
<1>0. unsent \in Seq(NalType) /\ depkt.au \in Seq(NalType) /\ unsent # <<>>
  BY DEF FramesInv, FramesTyped, DepktOK, DepktType, PacketizeH264
<1>1. PICK h, t :
        /\ packets = <<>> /\ packets' = Payloads(h) /\ unsent' = t
        /\ frame' = frame /\ intact' = intact /\ depkt' = depkt /\ delivered' = delivered
        /\ h = Head(unsent) /\ t = Tail(unsent)
  BY DEF PacketizeH264
<1>2. PICK au \in Seq(NalType) : au = depkt.au
  BY <1>0
<1>3. h \in NalType /\ t \in Seq(NalType) /\ unsent = <<h>> \o t
  BY <1>0, <1>1
<1>4. intact => frame.nals = (au \o <<h>>) \o t
  <2>1. intact => Between
    BY <1>0, <1>1, PacketsGone DEF FramesInv
  <2>2. <<h>> \in Seq(NalType)
    BY <1>3
  <2>3. (au \o <<h>>) \o t = au \o (<<h>> \o t)
    BY <1>3, <2>2, NalsAssociate
  <2> QED
    BY <1>2, <1>3, <2>1, <2>3 DEF Between
<1>5. CASE Len(h.bytes) + 1 <= MaxPayload
  <2>1. packets' = <<[kind |-> "nals", nals |-> <<h>>]>>
    BY <1>1, <1>5 DEF Payloads
  <2>2. <<h>> \in Seq(NalType)
    BY <1>3
  <2>3. [kind |-> "nals", nals |-> <<h>>] \in Packet
    BY <2>2 DEF Packet, WholePacket
  <2>4. FramesTyped'
    <3>1. packets' \in Seq(Packet)
      BY <2>1, <2>3
    <3> QED
      BY <1>1, <1>3, <3>1 DEF FramesInv, FramesTyped
  <2>5. intact => Whole(<<h>>)'
    BY <1>1, <1>2, <1>4, <2>1 DEF Whole
  <2> QED
    BY <1>1, <2>2, <2>4, <2>5 DEF FramesInv, OnItsWay, DeliveredOK
<1>6. CASE ~(Len(h.bytes) + 1 <= MaxPayload)
  <2>1. packets' = Fragments(h)
    BY <1>1, <1>6 DEF Payloads
  <2>2. Len(h.bytes) + 1 > MaxPayload
    BY <1>3, <1>6, VideoAssumption DEF NalType
  <2>3. Fragments(h) \in Seq(FragmentPacket) /\ Len(Fragments(h)) = Count(h) /\ Count(h) \in Nat \ {0}
    BY <1>3, <2>2, FragmentsAre
  <2>4. Fragments(h) \in Seq(Packet)
    BY <2>3 DEF Packet
  <2>5. FramesTyped'
    BY <1>1, <1>3, <2>1, <2>4 DEF FramesInv, FramesTyped
  <2>6. SubSeq(Fragments(h), 1, Count(h)) = Fragments(h)
    BY <2>3, SubSeqFull
  <2>7. intact => Part(h, 0)'
    <3>1. 0 + 1 = 1 /\ ~(0 > 0)
      OBVIOUS
    <3> QED
      BY <1>1, <1>2, <1>4, <2>1, <2>2, <2>6, <3>1 DEF Part
  <2>8. 0 \in 0..Count(h) - 1
    BY <2>3
  <2> QED
    BY <1>1, <1>3, <2>5, <2>7, <2>8 DEF FramesInv, OnItsWay, DeliveredOK
<1> QED
  BY <1>5, <1>6

\* The next units share a packet.
LEMMA AggregateOK == FramesInv /\ Aggregate => FramesInv'
<1> SUFFICES ASSUME FramesInv, Aggregate PROVE FramesInv'
  OBVIOUS
<1>1. /\ packets = <<>>
      /\ frame' = frame /\ intact' = intact /\ depkt' = depkt /\ delivered' = delivered
  BY DEF Aggregate
<1>2. PICK k \in 2..Len(unsent) :
        /\ packets' = <<[kind |-> "nals", nals |-> SubSeq(unsent, 1, k)]>>
        /\ unsent' = SubSeq(unsent, k + 1, Len(unsent))
  BY DEF Aggregate
<1>3. unsent \in Seq(NalType) /\ depkt.au \in Seq(NalType)
  BY DEF FramesInv, FramesTyped, DepktOK, DepktType
<1>4. k \in Nat /\ Len(unsent) \in Nat /\ k <= Len(unsent) /\ unsent # <<>>
  BY <1>3
<1>5. /\ SubSeq(unsent, 1, k) \in Seq(NalType)
      /\ SubSeq(unsent, k + 1, Len(unsent)) \in Seq(NalType)
      /\ SubSeq(unsent, 1, k) \o SubSeq(unsent, k + 1, Len(unsent)) = unsent
  <2> DEFINE l == Len(unsent)
  <2>1. l \in Nat /\ k <= l /\ l <= Len(unsent)
    BY <1>4
  <2>2. SubSeq(unsent, 1, l) = unsent
    BY <1>3, SubSeqFull
  <2> HIDE DEF l
  <2>3. /\ SubSeq(unsent, 1, k) \in Seq(NalType) /\ SubSeq(unsent, k + 1, l) \in Seq(NalType)
        /\ SubSeq(unsent, 1, k) \o SubSeq(unsent, k + 1, l) = SubSeq(unsent, 1, l)
    BY ONLY <1>3, <1>4, <2>1, Join
  <2> QED
    BY <2>2, <2>3 DEF l
<1>6. PICK x \in Seq(NalType), y \in Seq(NalType) :
        /\ x \o y = unsent
        /\ packets' = <<[kind |-> "nals", nals |-> x]>> /\ unsent' = y
  BY <1>2, <1>5
<1>7. [kind |-> "nals", nals |-> x] \in Packet
  BY <1>6 DEF Packet, WholePacket
<1>8. FramesTyped'
  BY <1>1, <1>6, <1>7 DEF FramesInv, FramesTyped
<1>9. intact => Whole(x)'
  <2>1. intact => Between
    BY <1>1, <1>4, PacketsGone DEF FramesInv
  <2>2. (depkt.au \o x) \o y = depkt.au \o (x \o y)
    BY <1>3, <1>6, NalsAssociate
  <2> QED
    BY <1>1, <1>6, <2>1, <2>2 DEF Between, Whole
<1> QED
  BY <1>1, <1>6, <1>8, <1>9 DEF FramesInv, OnItsWay, DeliveredOK

\* A frame that loses a packet is not intact any more.
LEMMA LoseOK == FramesInv /\ Lose => FramesInv'
<1> SUFFICES ASSUME FramesInv, Lose PROVE FramesInv'
  OBVIOUS
<1>1. /\ packets # <<>> /\ packets' = Tail(packets) /\ intact' = FALSE
      /\ frame' = frame /\ unsent' = unsent /\ depkt' = depkt /\ delivered' = delivered
  BY DEF Lose
<1>2. packets' \in Seq(Packet)
  BY <1>1 DEF FramesInv, FramesTyped
<1> QED
  BY <1>1, <1>2 DEF FramesInv, FramesTyped, DeliveredOK

\* Whatever packet comes, the depacketizer is sound after it, and after the marker it has
\* no units.
LEMMA PushOK ==
    ASSUME NEW d, DepktOK(d), NEW p \in Packet
    PROVE  DepktOK(Push(d, p))
BY PushWholeOK, PushFragmentOK DEF Packet

\* flush.
LEMMA Flushed ==
    ASSUME NEW d, DepktOK(d), NEW r, r = [d EXCEPT !.au = <<>>, !.hasKey = FALSE]
    PROVE  DepktOK(r) /\ r.au = <<>>
<1>1. d \in DepktType /\ (d.fuHdr => d.fu # <<>>)
  BY DEF DepktOK
<1>2. r = [fu |-> d.fu, fuHdr |-> d.fuHdr, au |-> <<>>, hasKey |-> FALSE]
  <2>1. d \in DepktType
    BY <1>1
  <2> QED
    BY <2>1 DEF DepktType
<1>3. r \in DepktType
  <2>1. d \in DepktType
    BY <1>1
  <2>2. d.fu \in Seq(Item) /\ d.fuHdr \in BOOLEAN
    BY <2>1 DEF DepktType
  <2>3. <<>> \in Seq(NalType)
    OBVIOUS
  <2> QED
    BY <1>2, <2>2, <2>3 DEF DepktType
<1>4. ~HasKey(<<>>)
  BY DEF HasKey
<1>5. r.fu = d.fu /\ r.fuHdr = d.fuHdr /\ r.au = <<>> /\ r.hasKey = FALSE
  BY <1>2
<1> QED
  BY <1>1, <1>3, <1>4, <1>5 DEF DepktOK

\* handleInbound leaves a sound depacketizer.
LEMMA InboundTyped ==
    ASSUME FramesInv, handleInbound
    PROVE  /\ FramesTyped'
           /\ DepktOK(Push(depkt, Head(packets)))
<1> DEFINE d == Push(depkt, Head(packets))
<1>1. /\ packets # <<>> /\ packets' = Tail(packets) /\ intact' = (intact \/ Marker)
      /\ frame' = frame /\ unsent' = unsent
      /\ depkt' = d \/ depkt' = [d EXCEPT !.au = <<>>, !.hasKey = FALSE]
  BY DEF handleInbound
<1>2. packets \in Seq(Packet) /\ DepktOK(depkt) /\ intact \in BOOLEAN
  BY DEF FramesInv, FramesTyped
<1>3. Head(packets) \in Packet /\ Tail(packets) \in Seq(Packet)
  BY <1>1, <1>2
<1>4. DepktOK(d)
  BY <1>2, <1>3, PushOK
<1> HIDE DEF d
<1>5. DepktOK(depkt')
  BY <1>1, <1>4, Flushed
<1>6. intact' \in BOOLEAN
  BY <1>1, <1>2 DEF Marker
<1>7. frame' \in [no : Nat, nals : Seq(NalType)] /\ unsent' \in Seq(NalType)
  BY <1>1 DEF FramesInv, FramesTyped
<1>8. FramesTyped'
  BY <1>1, <1>3, <1>5, <1>6, <1>7 DEF FramesTyped, DepktOK
<1> QED
  BY <1>4, <1>8 DEF d

\* The last packet of a unit, or of several, of a frame that has lost nothing.
LEMMA UnitArrives ==
    ASSUME FramesInv, handleInbound, intact, NEW d, d = Push(depkt, Head(packets)),
           Len(packets) = 1, frame.nals = d.au \o unsent
    PROVE  OnItsWay' /\ DeliveredOK'
<1>1. /\ packets' = Tail(packets) /\ frame' = frame /\ unsent' = unsent
      /\ Marker /\ d.au # <<>> =>
            /\ delivered' = [nals |-> d.au, key |-> d.hasKey, of |-> frame.nals,
                             intact |-> intact]
            /\ depkt' = [d EXCEPT !.au = <<>>, !.hasKey = FALSE]
      /\ ~(Marker /\ d.au # <<>>) => depkt' = d /\ delivered' = delivered
  BY DEF handleInbound
<1>2. DepktOK(d) /\ d.au \in Seq(NalType) /\ d.hasKey \in BOOLEAN /\ (d.hasKey <=> HasKey(d.au))
  BY InboundTyped DEF DepktOK, DepktType
<1>3. packets' = <<>>
  BY <1>1 DEF FramesInv, FramesTyped
<1>4. CASE unsent = <<>>
  <2>1. Marker
    BY <1>4 DEF Marker
  <2>2. frame.nals = d.au
    BY <1>2, <1>4, ConcatEmptySeq
  <2>3. CASE d.au # <<>>
    <3>1. depkt'.au = <<>>
      BY <1>1, <1>2, <2>1, <2>3, Flushed
    <3>2. delivered' = [nals |-> d.au, key |-> d.hasKey, of |-> d.au, intact |-> intact]
      BY <1>1, <2>1, <2>2, <2>3
    <3>3. DeliveredOK'
      <4>1. delivered'.nals = d.au /\ delivered'.of = d.au
        BY <3>2
      <4>2. delivered'.key <=> d.hasKey
        BY <1>2, <3>2
      <4>3. delivered'.key <=> HasKey(delivered'.of)
        BY <1>2, <4>1, <4>2
      <4> QED
        BY <4>1, <4>3 DEF DeliveredOK, HasKey
    <3> QED
      BY <1>1, <1>3, <1>4, <3>1, <3>3 DEF OnItsWay, Over
  <2>4. CASE d.au = <<>>
    <3>1. depkt' = d /\ delivered' = delivered
      BY <1>1, <2>4
    <3> QED
      BY <1>1, <1>3, <1>4, <2>4, <3>1 DEF OnItsWay, Over, FramesInv, DeliveredOK
  <2> QED
    BY <2>3, <2>4
<1>5. CASE unsent # <<>>
  <2>1. ~Marker
    BY <1>5 DEF Marker
  <2>2. depkt' = d /\ delivered' = delivered
    BY <1>1, <2>1
  <2> QED
    BY <1>1, <1>3, <1>5, <2>2 DEF OnItsWay, Between, FramesInv, DeliveredOK
<1> QED
  BY <1>4, <1>5

\* handleInbound: a frame that is intact stays on its way or is delivered; one that is not
\* ends at its marker, and the next one is intact again.
LEMMA InboundOK == FramesInv /\ handleInbound => FramesInv'
<1> SUFFICES ASSUME FramesInv, handleInbound PROVE FramesInv'
  OBVIOUS
<1>1. PICK d : d = Push(depkt, Head(packets))
  OBVIOUS
<1>2. /\ packets # <<>> /\ packets' = Tail(packets) /\ frame' = frame /\ unsent' = unsent
      /\ intact' = (intact \/ Marker)
      /\ Marker /\ d.au # <<>> =>
            /\ delivered' = [nals |-> d.au, key |-> d.hasKey, of |-> frame.nals,
                             intact |-> intact]
            /\ depkt' = [d EXCEPT !.au = <<>>, !.hasKey = FALSE]
      /\ ~(Marker /\ d.au # <<>>) => depkt' = d /\ delivered' = delivered
  BY <1>1 DEF handleInbound
<1>3. FramesTyped' /\ DepktOK(d) /\ depkt.au \in Seq(NalType) /\ DepktOK(depkt)
      /\ packets \in Seq(Packet) /\ intact \in BOOLEAN
  BY <1>1, InboundTyped DEF FramesInv, FramesTyped, DepktOK, DepktType
<1>4. CASE ~intact
  <2>1. DeliveredOK'
    <3>1. CASE delivered' = delivered
      BY <3>1 DEF FramesInv, DeliveredOK
    <3>2. CASE delivered' = [nals |-> d.au, key |-> d.hasKey, of |-> frame.nals,
                             intact |-> intact]
      <4>1. delivered'.intact = intact
        BY <3>2
      <4> QED
        BY <1>3, <1>4, <4>1 DEF DeliveredOK
    <3> QED
      BY <1>2, <3>1, <3>2
  <2>2. ASSUME Marker PROVE Over'
    <3>1. packets' = <<>> /\ unsent' = <<>>
      BY <1>2, <1>3, <2>2 DEF Marker
    <3>2. depkt'.au = <<>>
      BY <1>2, <1>3, <2>2, Flushed
    <3> QED
      BY <3>1, <3>2 DEF Over
  <2> QED
    BY <1>2, <1>3, <1>4, <2>1, <2>2 DEF FramesInv, OnItsWay
<1>5. CASE intact
  <2>1. ASSUME NEW ns \in Seq(NalType), Whole(ns) PROVE OnItsWay' /\ DeliveredOK'
    <3> DEFINE p == [kind |-> "nals", nals |-> ns]
    <3>1. packets = <<p>> /\ frame.nals = (depkt.au \o ns) \o unsent
      BY <2>1 DEF Whole
    <3>2. p \in WholePacket /\ p.nals = ns
      BY DEF WholePacket
    <3> HIDE DEF p
    <3>3. Head(packets) = p /\ Len(packets) = 1
      BY <3>1
    <3>4. d.au = depkt.au \o ns
      BY <1>1, <1>3, <3>2, <3>3, PushWholeOK
    <3> QED
      BY <1>1, <1>5, <3>1, <3>3, <3>4, UnitArrives
  <2>2. ASSUME NEW u \in NalType, NEW k \in 0..Count(u) - 1, Part(u, k)
        PROVE  OnItsWay' /\ DeliveredOK'
    <3>1. /\ Head(packets) = Fragments(u)[k + 1] /\ Len(packets) = Count(u) - k
          /\ Tail(packets) = SubSeq(Fragments(u), (k + 1) + 1, Count(u))
      BY <2>2, PartIsNotEmpty
    <3>2. /\ Len(u.bytes) + 1 > MaxPayload /\ frame.nals = (depkt.au \o <<u>>) \o unsent
          /\ k > 0 => depkt.fuHdr /\ depkt.fu = <<u.type>> \o SubSeq(u.bytes, 1, k * Chunk)
      BY <2>2 DEF Part
    <3>3. Count(u) \in Nat \ {0}
      BY <3>2, FragmentsAre
    <3>4. /\ k + 1 < Count(u) =>
                /\ d.au = depkt.au /\ d.fuHdr
                /\ d.fu = <<u.type>> \o SubSeq(u.bytes, 1, (k + 1) * Chunk)
          /\ k + 1 = Count(u) => d.au = depkt.au \o <<u>>
      <4> DEFINE q == Push(depkt, Fragments(u)[k + 1])
      <4>1. /\ k + 1 < Count(u) =>
                /\ q.au = depkt.au /\ q.fuHdr
                /\ q.fu = <<u.type>> \o SubSeq(u.bytes, 1, (k + 1) * Chunk)
            /\ k + 1 = Count(u) => q.au = depkt.au \o <<u>>
        BY <1>3, <3>2, NextFragment
      <4>2. d = q
        BY <1>1, <3>1
      <4> HIDE DEF q
      <4> QED
        BY <4>1, <4>2
    <3>5. CASE k + 1 = Count(u)
      <4>1. Len(packets) = 1
        BY <3>1, <3>3, <3>5
      <4> QED
        BY <1>1, <1>5, <3>2, <3>4, <3>5, <4>1, UnitArrives
    <3>6. CASE k + 1 < Count(u)
      <4> DEFINE K == Count(u)
      <4>1. K \in Nat /\ k \in 0..K - 1 /\ k + 1 < K /\ Len(packets) = K - k
        BY <3>1, <3>3, <3>6
      <4> HIDE DEF K
      <4>2. Len(packets) # 1 /\ k + 1 \in 0..K - 1
        BY <4>1
      <4>3. ~Marker
        BY <4>2 DEF Marker
      <4>4. depkt' = d /\ delivered' = delivered
        BY <1>2, <4>3
      <4>5. Part(u, k + 1)'
        BY <1>2, <3>1, <3>2, <3>4, <3>6, <4>4 DEF Part
      <4>6. OnItsWay'
        BY <4>2, <4>5 DEF OnItsWay, K
      <4> QED
        BY <4>4, <4>6 DEF FramesInv, DeliveredOK
    <3> QED
      <4> DEFINE K == Count(u)
      <4>1. K \in Nat /\ k \in 0..K - 1
        BY <3>3
      <4> HIDE DEF K
      <4>2. k + 1 = K \/ k + 1 < K
        BY <4>1
      <4> QED
        BY <3>5, <3>6, <4>2 DEF K
  <2>3. OnItsWay' /\ DeliveredOK'
    <3>1. ~Over /\ ~Between
      BY <1>2 DEF Over, Between
    <3>2. OnItsWay
      BY <1>5 DEF FramesInv
    <3> QED
      BY <2>1, <2>2, <3>1, <3>2 DEF OnItsWay
  <2> QED
    BY <1>3, <2>3 DEF FramesInv
<1> QED
  BY <1>3, <1>4, <1>5

\* The splitter and the frames on their way do not touch each other's state.
LEMMA FramesUntouched ==
    ASSUME FramesInv, UNCHANGED <<frame, unsent, packets, intact, depkt, delivered>>
    PROVE  FramesInv'
<1>1. FramesTyped'
  BY DEF FramesInv, FramesTyped
<1>2. OnItsWay => OnItsWay'
  <2>1. CASE Over
    BY <2>1 DEF Over, OnItsWay
  <2>2. CASE Between
    BY <2>2 DEF Between, OnItsWay
  <2>3. ASSUME NEW ns \in Seq(NalType), Whole(ns) PROVE OnItsWay'
    <3>1. Whole(ns)'
      BY <2>3 DEF Whole
    <3> QED
      BY <3>1 DEF OnItsWay
  <2>4. ASSUME NEW u \in NalType, NEW k \in 0..Count(u) - 1, Part(u, k) PROVE OnItsWay'
    <3>1. Part(u, k)'
      BY <2>4 DEF Part
    <3> QED
      BY <3>1 DEF OnItsWay
  <2> QED
    BY <2>1, <2>2, <2>3, <2>4 DEF OnItsWay
<1> QED
  BY <1>1, <1>2 DEF FramesInv, DeliveredOK

LEMMA SplitUntouched ==
    ASSUME SplitInv, UNCHANGED <<stream, split>>
    PROVE  SplitInv'
<1>1. StreamType /\ stream' = stream /\ split' = split /\ SplitOK(split')
  BY DEF SplitInv
<1> QED
  BY <1>1, StreamKept

\* The bytes of a browser's frame are split into exactly its units, and a frame of which no
\* packet is lost, after one whose last packet came, is handed on unit by unit as it was
\* encoded and with the right keyframe flag, whatever was lost before, for any size of
\* payload and any number and length of units (AnnexBNALUs, PacketizeH264, Push,
\* handleInbound).
THEOREM FramesArriveIntact == FramesSpec => []FramesIntact
<1>1. FramesInit => SplitInv /\ FramesInv
  BY SplitInitInv, FramesInitInv
<1>2. SplitInv /\ FramesInv /\ [AnnexBNALUs \/ FramesNext]_frameVars => SplitInv' /\ FramesInv'
  <2> SUFFICES ASSUME SplitInv, FramesInv, [AnnexBNALUs \/ FramesNext]_frameVars
               PROVE  SplitInv' /\ FramesInv'
    OBVIOUS
  <2>1. CASE AnnexBNALUs
    <3>1. UNCHANGED <<frame, unsent, packets, intact, depkt, delivered>>
      BY <2>1 DEF AnnexBNALUs
    <3> QED
      BY <2>1, <3>1, SplitStep, FramesUntouched
  <2>2. CASE SendFrame
    BY <2>2, SplitUntouched, SendFrameOK DEF SendFrame
  <2>3. CASE PacketizeH264
    BY <2>3, SplitUntouched, PacketizeOK DEF PacketizeH264
  <2>4. CASE Aggregate
    BY <2>4, SplitUntouched, AggregateOK DEF Aggregate
  <2>5. CASE handleInbound
    BY <2>5, SplitUntouched, InboundOK DEF handleInbound
  <2>6. CASE Lose
    BY <2>6, SplitUntouched, LoseOK DEF Lose
  <2>7. CASE UNCHANGED frameVars
    BY <2>7, SplitUntouched, FramesUntouched DEF frameVars
  <2> QED
    BY <2>1, <2>2, <2>3, <2>4, <2>5, <2>6, <2>7 DEF FramesNext
<1>3. SplitInv /\ FramesInv => FramesIntact
  BY SplitExact DEF FramesInv, DeliveredOK, FramesIntact
<1> QED
  BY <1>1, <1>2, <1>3, PTL DEF FramesSpec
=============================================================================
