---------------------------- MODULE RtcpReports -----------------------------
(***************************************************************************)
(* RTCP of a call (rtcp_receiver.go, callmanager_rtcp.go, rtcp.go): what   *)
(* the receiver statistics count of the peer's audio packets, which the    *)
(* relays deliver late, twice or not at all, the report blocks they give   *)
(* to the sender reports, and the round-trip time computed from the blocks *)
(* the peer sends about us.  One stream of the peer; video packets would   *)
(* count in the same statistics.  Jitter and the bytes of the packets are  *)
(* left out.  Counters of 32 bits do not overflow within the bounds.       *)
(***************************************************************************)
EXTENDS Integers, FiniteSets

CONSTANTS
    SeqSpace,     \* sequence numbers: 65536 in the code
    Late,         \* how many packets a packet may be late, less than half of SeqSpace
    MaxLost,      \* how many packets in a row may be lost
    MaxArrivals,  \* packets the peer sends, and packets received, a bound
    TimeMod,      \* values of the middle 32 bits of an NTP time: 2^32 in the code
    MaxTime       \* the length of a call, a bound

ASSUME RtcpAssumption ==
    /\ SeqSpace \in Nat \ {0} /\ TimeMod \in Nat \ {0}
    /\ {Late, MaxLost, MaxArrivals, MaxTime} \subseteq Nat
    /\ Late < SeqSpace \div 2 /\ MaxLost < SeqSpace \div 2

VARIABLES
    newest,    \* the latest of the peer's packets received, 0 for none
    first,     \* the first one received
    stats,     \* RTCPReceiverStats
    blocks,    \* the report blocks of the last sender reports, before they are encoded
    clock,     \* the time
    reports,   \* when we have sent sender reports
    rtt        \* the last round-trip sample and the time since the report it answers

rtcpVars == <<newest, first, stats, blocks, clock, reports, rtt>>

NewStats == [init |-> FALSE, base |-> 0, max |-> 0, cycles |-> 0, received |-> 0,
             expectPrev |-> 0, recvPrev |-> 0]

RtcpInit ==
    /\ newest = 0 /\ first = 0
    /\ stats = NewStats
    /\ blocks = <<>>
    /\ clock = 0 /\ reports = {} /\ rtt = [rtt |-> 0, elapsed |-> 0]

-----------------------------------------------------------------------------
NoteRTP(r, seq) ==
    LET counted == [r EXCEPT !.received = @ + 1]
    IN IF ~r.init
       THEN [counted EXCEPT !.init = TRUE, !.base = seq, !.max = seq]
       ELSE IF seq < r.max /\ r.max - seq < SeqSpace \div 2
       THEN counted
       ELSE [counted EXCEPT !.max = seq,
                            !.cycles = IF seq < r.max THEN @ + SeqSpace ELSE @]

ExtHigh(r) == r.cycles + r.max

Expected(r) == IF r.init THEN ExtHigh(r) - r.base + 1 ELSE 0

\* The part of the packets of an interval that is lost, in 1/256, before the conversion
\* to uint8.
Fraction(expected, received) ==
    IF expected > 0 /\ expected > received
    THEN ((expected - received) * 256) \div expected ELSE 0

Block(r) ==
    [fraction |-> Fraction(Expected(r) - r.expectPrev, r.received - r.recvPrev),
     lost |-> Expected(r) - r.received,
     extHigh |-> ExtHigh(r)]

\* What ReportBlock leaves behind.
Reported(r) == [r EXCEPT !.expectPrev = Expected(r), !.recvPrev = r.received]

\* QualitySnapshot reads the same counters and leaves them alone.
QualityLoss(r) == IF Expected(r) > r.received THEN Expected(r) - r.received ELSE 0

-----------------------------------------------------------------------------
\* A packet is decrypted, perhaps after some that are lost, perhaps late and perhaps again:
\* a second key setup forgets the replay window, and the statistics stay.
Arrival(i) ==
    /\ i \in newest - Late .. newest + MaxLost + 1
    /\ stats' = NoteRTP(stats, i % SeqSpace)
    /\ stats'.received <= MaxArrivals
    /\ newest' = IF i > newest THEN i ELSE newest
    /\ first' = IF first = 0 THEN i ELSE first
    /\ UNCHANGED <<blocks, clock, reports, rtt>>

\* emitRtcpSR: with video the second report takes its block from the same statistics.
emitRtcpSR ==
    /\ \E video \in BOOLEAN :
        /\ blocks' = IF video THEN <<Block(stats), Block(Reported(stats))>>
                              ELSE <<Block(stats)>>
        /\ stats' = IF video THEN Reported(Reported(stats)) ELSE Reported(stats)
    /\ reports' = reports \cup {clock}
    /\ UNCHANGED <<newest, first, clock, rtt>>

TimePasses ==
    /\ clock < MaxTime
    /\ clock' = clock + 1
    /\ UNCHANGED <<newest, first, stats, blocks, reports, rtt>>

\* Mutant: a delay that is longer than the time that has passed is not looked for.
Usable_AnyDelay(a, lsr, dlsr) == a >= lsr

\* The clock was not set back, and the delay fits into the time that has passed.
Usable(a, lsr, dlsr) == a >= lsr /\ a - lsr >= dlsr

\* onRelayData and NotePeerReportBlock: a block about our report of time t, which the
\* peer says it has kept for dlsr; its clock may run faster.  An LSR of 0 means none.
NotePeerReportBlock(t, dlsr) ==
    LET a == clock % TimeMod
        lsr == t % TimeMod
    IN /\ t \in reports /\ dlsr <= clock - t + 1
       /\ lsr # 0 /\ Usable(a, lsr, dlsr)
       /\ rtt' = [rtt |-> (a - lsr - dlsr) % TimeMod, elapsed |-> clock - t]
       /\ UNCHANGED <<newest, first, stats, blocks, clock, reports>>

\* The two halves share no state but the clock: reports are sent in both.
CountNext == emitRtcpSR \/ \E i \in 1..MaxArrivals : Arrival(i)

RttNext ==
    \/ emitRtcpSR \/ TimePasses
    \/ \E t \in 0..MaxTime, d \in 0..MaxTime : NotePeerReportBlock(t, d)

RtcpSpec == RtcpInit /\ [][CountNext \/ RttNext]_rtcpVars

-----------------------------------------------------------------------------
(* Properties.                                                             *)

\* What the reports say can be true, however packets are delayed, repeated and lost: the
\* fraction of a block fits into its 8 bits, so an interval in which packets were expected
\* and none came, which would be encoded as no loss at all, does not occur; and a
\* round-trip time is not longer than the time since the report it answers (ReportBlock,
\* NotePeerReportBlock).
ReportsMakeSense ==
    /\ \A i \in DOMAIN blocks : blocks[i].fraction \in 0..255
    /\ rtt.rtt <= rtt.elapsed

\* The extended highest sequence number is that of the newest packet received, and so no
\* loss is reported that did not happen.
HighestIsNewest == stats.init => ExtHigh(stats) - stats.base = newest - first
=============================================================================
