------------------------------ MODULE MlowFrame ------------------------------
(***************************************************************************)
(* The symbols of an MLow frame: what EncodeSmplFrame writes for the three *)
(* internal frames of a packet (encoder.go, pitch.go, analysis.go) and     *)
(* what decodeActiveFrame reads (decoder.go, lsf.go, pulse.go, pitch.go,   *)
(* gains.go).  Which table a symbol is coded with depends on the symbols   *)
(* before it and on predictors that each side keeps for itself, the        *)
(* encoder for a packet and the decoder for the stream.  A table is named  *)
(* by what it is chosen by; the range coder below is module RangeCoder.    *)
(* Only configuration 0 is used: the decoder answers other frames with     *)
(* silence.                                                                *)
(***************************************************************************)
EXTENDS Integers, Sequences, SequencesExt

CONSTANTS
    Coefs,       \* coefficients of the LSF stage 2: 16 in the code
    SubLen,      \* pulses of a subframe at most: 40
    PosPer,      \* positions of a subframe: 80
    SignBatch,   \* signs of a raw symbol: 15
    BlockSize,   \* lag indices of a pitch block: 64
    Contours,    \* the lag contours: blocks and, for the search, their order (Blocksegs2idx)
    GainWeight,  \* the weight of an LTP gain index
    Parameters,  \* what the analysis may find for an internal frame
    MaxPackets   \* packets of the stream, a bound

VARIABLES
    packets,  \* packets begun
    intf,     \* the internal frame of the packet
    encSt,    \* SmplLsfState of the encoder
    decSt,    \* SmplLsfState of the decoder
    wire,     \* the symbols of an internal frame
    frame,    \* what was encoded and what was decoded
    step      \* "encode", "decode" or "compare"

frameVars == <<packets, intf, encSt, decSt, wire, frame, step>>

\* The encoder has the last lag as its block and index, the decoder as segLag and l3.
NewState == [stage1 |-> 0, gain |-> 0, filt |-> 0, blk |-> 0, idx |-> 0]
Nothing == [ok |-> TRUE]

FrameInit ==
    /\ packets = 1 /\ intf = 0
    /\ encSt = NewState /\ decSt = NewState
    /\ wire = <<>> /\ frame = [sent |-> Nothing, got |-> Nothing] /\ step = "encode"

\* A symbol, or for the pulse count the interval of its cumulative frequencies.
Tok(table, s) == [table |-> table, lo |-> s, hi |-> s + 1]

\* A reading position: the symbol there, whether it was written with this table.
Sym(w, at) == IF at <= Len(w) THEN w[at].lo ELSE 0
Match(w, at, table) == at <= Len(w) /\ w[at].table = table

Positive(n) == IF n > 0 THEN n ELSE 0
Lesser(a, b) == IF a < b THEN a ELSE b
SumOf(s) == FoldLeft(LAMBDA a, b : a + b, 0, s)
Abs(n) == IF n < 0 THEN -n ELSE n

-----------------------------------------------------------------------------
(* The LSF block.                                                          *)

Selector(st, f) == <<"sel", IF f = 0 THEN 0 ELSE IF st.stage1 # 0 THEN 2 ELSE 1>>

Continues(st, f, stage1) == f # 0 /\ stage1 = st.stage1

\* Mutant: the predictors are forgotten at the start of a packet only.
AfterLsf_KeepsPredictors(st, f, stage1) ==
    IF f # 0 THEN [st EXCEPT !.stage1 = stage1]
    ELSE [stage1 |-> stage1, gain |-> -1, filt |-> -1, blk |-> -1, idx |-> -1]

\* The predictors are forgotten when the kind of frame changes (SmplAdvanceLsfState).
AfterLsf(st, f, stage1) ==
    IF Continues(st, f, stage1) THEN st
    ELSE [stage1 |-> stage1, gain |-> -1, filt |-> -1, blk |-> -1, idx |-> -1]

encodeSmplLsf(st, f, p) ==
    <<Tok(Selector(st, f), p.stage1),
       Tok(<<"grid", Continues(st, f, p.stage1), p.stage1>>, p.grid)>>
    \o [k \in 1..Coefs |-> Tok(<<"stage2", p.stage1, p.grid, k>>, p.stage2[k])]
    \o <<Tok(<<"extra">>, p.extra)>>

DecodeSmplLsf(st, f, w) ==
    LET stage1 == Sym(w, 1)
        grid == Sym(w, 2)
        \* The decoder looks at its own fields; it has no block and index to forget but
        \* the lag and its fraction.
        next == IF f # 0 /\ stage1 = st.stage1 THEN st
                ELSE [stage1 |-> stage1, gain |-> -1, filt |-> -1, blk |-> -1, idx |-> -1]
    IN [stage1 |-> stage1, grid |-> grid, stage2 |-> [k \in 1..Coefs |-> Sym(w, k + 2)],
        extra |-> Sym(w, Coefs + 3), st |-> next, at |-> Coefs + 4,
        ok |-> /\ Match(w, 1, Selector(st, f))
               /\ Match(w, 2, <<"grid", f # 0 /\ stage1 = st.stage1, stage1>>)
               /\ \A k \in 1..Coefs : Match(w, k + 2, <<"stage2", stage1, grid, k>>)
               /\ Match(w, Coefs + 3, <<"extra">>)]

-----------------------------------------------------------------------------
(* The pulses: how many, how they are split, where they are, their signs.  *)

FrameLen == 4 * SubLen

\* triT: cumulative frequencies that grow by less and less.
triT(k) == ((k + 2) * (FrameLen + 1) - ((k - 1) * (k - 2)) \div 2) % 65536

\* smplBuildPulseParams.
Subframe(pulse, sf) == SubSeq(pulse, (sf - 1) * PosPer + 1, sf * PosPer)

Count(pulse, sf) == SumOf([n \in 1..PosPer |-> Abs(Subframe(pulse, sf)[n])])

\* The distance from the pulse before, and a zero for each further pulse at the place.
MagRuns(sub) ==
    LET places == SelectSeq([n \in 1..PosPer |-> n], LAMBDA n : sub[n] # 0)
        before(i) == IF i = 1 THEN 1 ELSE places[i - 1]
    IN FlattenSeq([i \in 1..Len(places) |->
            <<places[i] - before(i)>> \o [j \in 1..Abs(sub[places[i]]) - 1 |-> 0]])

SignSyms(pulse) ==
    LET signs == SelectSeq(pulse, LAMBDA v : v # 0)
        batches == (Len(signs) + SignBatch - 1) \div SignBatch
        batch(b) == SubSeq(signs, (b - 1) * SignBatch + 1, Lesser(b * SignBatch, Len(signs)))
        number(s) == FoldLeft(LAMBDA a, v : 2 * a + (IF v > 0 THEN 1 ELSE 0), 0, s)
    IN [b \in 1..batches |-> Tok(<<"sign", Len(batch(b))>>, number(batch(b)))]

\* encodeSplit3537: nothing is written when there is no choice.
SplitTok(count, first) ==
    LET least == Positive(count - SubLen)
        most == Lesser(SubLen, count)
    IN IF least < most THEN <<Tok(<<"split", count, least, most>>, first - least)>> ELSE <<>>

\* The runs of a subframe; the table depends on the pulses and the positions left.
RunToks(sub) ==
    LET runs == MagRuns(sub)
        left(k) == PosPer - SumOf(SubSeq(runs, 1, k - 1))
    IN [k \in 1..Len(runs) |-> Tok(<<"run", Len(runs) - k + 1, left(k)>>, runs[k])]

encodeSmplPulses(p) ==
    LET c == [sf \in 1..4 |-> Count(p.pulse, sf)]
        total == SumOf(c)
        half == c[1] + c[2]
        least == Positive(total - 2 * SubLen)
        most == total - least
    IN <<[table |-> <<"count", FrameLen>>, lo |-> IF total > 0 THEN triT(total - 1) ELSE 0,
          hi |-> triT(total)]>>
       \o IF total = 0 THEN <<>>
          ELSE (IF least < most THEN <<Tok(<<"half", total, least, most>>, half - least)>>
                                ELSE <<>>)
               \o (IF half > 0 THEN SplitTok(half, c[1]) ELSE <<>>)
               \o (IF half < total THEN SplitTok(total - half, c[3]) ELSE <<>>)
               \o FlattenSeq([sf \in 1..4 |-> RunToks(Subframe(p.pulse, sf))])
               \o SignSyms(p.pulse)

\* The number of pulses: value is what the range decoder finds inside its interval.
Total(value) ==
    LET below(k) == IF k = 0 THEN 0 ELSE triT(k - 1)
    IN CHOOSE k \in 0..FrameLen + 1 :
            k = FrameLen + 1 \/ (below(k) <= value /\ value < triT(k))

\* A part of count pulses, between least and most, and the position after it; nothing is
\* read when there is no choice.
ReadPart(w, at, name, count, least, most) ==
    IF count <= 0 \/ least >= most THEN [n |-> least, at |-> at, ok |-> TRUE]
    ELSE [n |-> Sym(w, at) + least, at |-> at + 1,
          ok |-> Match(w, at, <<name, count, least, most>>)]

\* smplSplit3537: the first subframe of two.
ReadSplit(w, at, count) ==
    ReadPart(w, at, "split", count, Positive(count - SubLen), Lesser(SubLen, count))

\* The pulses of the four subframes.
ReadCounts(w, at, total) ==
    LET least == Positive(total - 2 * SubLen)
        half == ReadPart(w, at + 1, "half", total, least, total - least)
        s1 == ReadSplit(w, half.at, half.n)
        s2 == ReadSplit(w, s1.at, total - half.n)
    IN [cnt |-> <<s1.n, half.n - s1.n, s2.n, total - half.n - s2.n>>, at |-> s2.at,
        ok |-> Match(w, at, <<"count", FrameLen>>) /\ half.ok /\ s1.ok /\ s2.ok]

\* The runs of one subframe with cnt pulses, from position at: magnitudes by place.
ReadRuns(w, at, cnt) ==
    LET loop[k \in 0..cnt] ==
            IF k = 0
            THEN [at |-> at, left |-> PosPer, place |-> 1, mags |-> [n \in 1..PosPer |-> 0],
                  ok |-> TRUE]
            ELSE LET x == loop[k - 1]
                     m == Sym(w, x.at)
                     place == Lesser(x.place + m, PosPer)
                 IN [at |-> x.at + 1, left |-> x.left - m, place |-> place,
                     mags |-> [x.mags EXCEPT ![place] = @ + 1],
                     ok |-> x.ok /\ Match(w, x.at, <<"run", cnt - k + 1, x.left>>)]
    IN loop[cnt]

\* The signs: the places with a pulse take the bits in order.
ReadSigns(w, at, mags) ==
    LET n == Len(SelectSeq(mags, LAMBDA v : v # 0))
        batches == (n + SignBatch - 1) \div SignBatch
        width(b) == Lesser(SignBatch, n - (b - 1) * SignBatch)
        rank(i) == Len(SelectSeq(SubSeq(mags, 1, i), LAMBDA v : v # 0)) - 1
        bit(i) == LET b == rank(i) \div SignBatch + 1
                      q == rank(i) % SignBatch
                  IN (Sym(w, at + b - 1) \div 2^(width(b) - 1 - q)) % 2
    IN [pulse |-> [i \in 1..Len(mags) |-> IF mags[i] = 0 THEN 0
                                          ELSE IF bit(i) = 1 THEN mags[i] ELSE -mags[i]],
        at |-> at + batches,
        ok |-> \A b \in 1..batches : Match(w, at + b - 1, <<"sign", width(b)>>)]

\* Runs, then signs, after the counts c.
ReadPulses(w, c) ==
    LET runs[sf \in 0..4] ==
            IF sf = 0 THEN [at |-> c.at, mags |-> <<>>, ok |-> c.ok]
            ELSE LET x == runs[sf - 1]
                     r == ReadRuns(w, x.at, Positive(c.cnt[sf]))
                 IN [at |-> r.at, mags |-> x.mags \o r.mags, ok |-> x.ok /\ r.ok]
        signs == ReadSigns(w, runs[4].at, runs[4].mags)
    IN [pulse |-> signs.pulse, cnt |-> c.cnt, at |-> signs.at, ok |-> runs[4].ok /\ signs.ok]

DecodeSmplPulses(w, at, value) == ReadPulses(w, ReadCounts(w, at, Total(value)))

-----------------------------------------------------------------------------
(* Unvoiced frames: the gains.                                             *)

\* The bucket of a subframe with n pulses; the offset in the table is computed from the
\* two gains by the same formula on both sides.
Bucket(n) == IF n >= 30 THEN 3 ELSE n \div 10

GainTable(p, n, sf) == <<"nrgres", Bucket(n), p.main, p.delta, sf>>

encodeSmplGains(p) ==
    LET active == SelectSeq(<<1, 2, 3, 4>>, LAMBDA sf : Count(p.pulse, sf) > 0)
    IN <<Tok(<<"gain">>, p.main), Tok(<<"shape">>, p.delta)>>
       \o [i \in 1..Len(active) |->
            Tok(GainTable(p, Count(p.pulse, active[i]), active[i]), p.nrg[active[i]])]

DecodeSmplGains(w, at, cnt) ==
    LET p == [main |-> Sym(w, at), delta |-> Sym(w, at + 1)]
        pos(sf) == at + 1 + Len(SelectSeq(SubSeq(cnt, 1, sf), LAMBDA n : n > 0))
    IN [main |-> p.main, delta |-> p.delta,
        nrg |-> [sf \in 1..4 |-> IF cnt[sf] > 0 THEN Sym(w, pos(sf)) ELSE 0],
        at |-> pos(4) + 1,
        ok |-> /\ Match(w, at, <<"gain">>) /\ Match(w, at + 1, <<"shape">>)
               /\ \A sf \in 1..4 : cnt[sf] > 0 => Match(w, pos(sf), GainTable(p, cnt[sf], sf))]

-----------------------------------------------------------------------------
(* Voiced frames: the gains and filters of the long-term predictor, and    *)
(* the lags.                                                               *)

\* The last filter index before subframe sf, of the subframes with pulses.
LastFilt(st, cnt, filts, sf) ==
    LET used == SelectSeq(SubSeq(<<1, 2, 3, 4>>, 1, sf - 1), LAMBDA k : cnt[k] > 0)
    IN IF used = <<>> THEN st.filt ELSE filts[Last(used)]

LastGain(st, gains, sf) == IF sf = 1 THEN st.gain ELSE gains[sf - 1]

\* Which of the delta-lag tables: by the mean weight of the gains.
Mode(gains) ==
    LET avg == SumOf([sf \in 1..4 |-> GainWeight[gains[sf]]]) \div 4
    IN IF avg < 10007 THEN 0 ELSE IF avg < 14085 THEN 1 ELSE 2

\* The contours that begin with block b, as a range of their order (FirstblockRange).
Range0(b) == {Contours[c].order : c \in {c \in DOMAIN Contours : Contours[c].blocks[1] = b}}
First0(b) == CHOOSE n \in Range0(b) : \A k \in Range0(b) : n <= k

\* Whether the first lag is coded by itself.
Fresh(st, b) == st.blk < 0 \/ b - st.blk < -1 \/ b - st.blk > 2

\* encodeLagsWire; idx[k] is the lag index of segment k of the contour.
encodeLagsWire(st, c, idx, mode) ==
    LET con == Contours[c]
        b == con.blocks
        alone == Fresh(st, b[1])
        prev(k) == IF k = 1 THEN st.idx ELSE idx[k - 1]
        from == IF alone THEN 2 ELSE 1
    IN (IF st.blk < 0 THEN <<Tok(<<"contour">>, con.order)>>
        ELSE <<Tok(<<"transition", st.blk>>, b[1]),
               Tok(<<"contourOf", b[1]>>, con.order - First0(b[1]))>>)
       \o (IF alone THEN <<Tok(<<"fine">>, idx[1] - b[1] * BlockSize)>> ELSE <<>>)
       \o [i \in 1..Len(b) - from + 1 |->
            LET k == i + from - 1
            IN Tok(<<"delta", mode, b[k] * BlockSize - prev(k)>>, idx[k] - b[k] * BlockSize)]

encodeSmplPitch(st, p) ==
    LET cnt == [sf \in 1..4 |-> Count(p.pulse, sf)]
    IN FlattenSeq([sf \in 1..4 |->
            <<Tok(<<"acb", LastGain(st, p.gains, sf)>>, p.gains[sf])>>
            \o IF cnt[sf] = 0 THEN <<>>
               ELSE <<Tok(<<"fcb", LastFilt(st, cnt, p.filts, sf)>>, p.filts[sf])>>])
       \o encodeLagsWire(st, p.contour, p.idx, Mode(p.gains))

\* The predictors after a voiced frame (smplLagsPredictorAfter).
AfterPitch(st, cnt, gains, filts, blk, idx) ==
    [st EXCEPT !.gain = gains[4], !.filt = LastFilt(st, cnt, filts, 5), !.blk = blk, !.idx = idx]

\* The contour: after a voiced frame by its first block, which follows from the last one.
ReadContour(st, w, at) ==
    LET of(order) == CHOOSE c \in DOMAIN Contours : Contours[c].order = order
    IN IF st.blk >= 0
       THEN [c |-> of(Sym(w, at + 1) + First0(Sym(w, at))), at |-> at + 2,
             ok |-> Match(w, at, <<"transition", st.blk>>)
                    /\ Match(w, at + 1, <<"contourOf", Sym(w, at)>>)]
       ELSE [c |-> of(Sym(w, at)), at |-> at + 1, ok |-> Match(w, at, <<"contour">>)]

\* The lags are read segment by segment with the block and the lag of the one before.
DecodeLags(st, w, con, mode) ==
    LET b == Contours[con.c].blocks
        loop[k \in 0..Len(b)] ==
            IF k = 0 THEN [at |-> con.at, idx |-> <<>>, frac |-> st.idx, ok |-> con.ok]
            ELSE LET x == loop[k - 1]
                     lag == b[k] * BlockSize + Sym(w, x.at)
                     table == IF k = 1 /\ Fresh(st, b[1]) THEN <<"fine">>
                              ELSE <<"delta", mode, b[k] * BlockSize - x.frac>>
                 IN [at |-> x.at + 1, idx |-> Append(x.idx, lag), frac |-> lag,
                     ok |-> x.ok /\ Match(w, x.at, table)]
    IN loop[Len(b)]

\* What is read of a voiced frame, the symbols of subframe sf at pos[sf].
Pitch(st, w, cnt, pos, gains, filts, con, lags) ==
    [gains |-> gains, filts |-> filts, contour |-> con.c, idx |-> lags.idx, at |-> lags.at,
     st |-> AfterPitch(st, cnt, gains, filts, Last(Contours[con.c].blocks), lags.frac),
     ok |-> /\ lags.ok
            /\ \A sf \in 1..4 :
                /\ Match(w, pos[sf], <<"acb", LastGain(st, gains, sf)>>)
                /\ cnt[sf] > 0 =>
                    Match(w, pos[sf] + 1, <<"fcb", LastFilt(st, cnt, filts, sf)>>)]

DecodeSmplPitch(st, w, at, cnt) ==
    LET pos == [sf \in 1..4 |->
                at + sf - 1 + Len(SelectSeq(SubSeq(cnt, 1, sf - 1), LAMBDA n : n > 0))]
        gains == [sf \in 1..4 |-> Sym(w, pos[sf])]
        filts == [sf \in 1..4 |-> IF cnt[sf] > 0 THEN Sym(w, pos[sf] + 1) ELSE 0]
        con == ReadContour(st, w, pos[4] + (IF cnt[4] > 0 THEN 2 ELSE 1))
    IN Pitch(st, w, cnt, pos, gains, filts, con, DecodeLags(st, w, con, Mode(gains)))

-----------------------------------------------------------------------------
\* One internal frame of EncodeSmplFrame.
EncodeInternal(p) ==
    /\ step = "encode"
    /\ LET st == AfterLsf(encSt, intf, p.stage1)
           cnt == [sf \in 1..4 |-> Count(p.pulse, sf)]
       IN /\ wire' = encodeSmplLsf(encSt, intf, p) \o encodeSmplPulses(p)
                     \o (IF p.stage1 = 1 THEN encodeSmplPitch(st, p) ELSE encodeSmplGains(p))
          /\ encSt' = IF p.stage1 = 1
                      THEN AfterPitch(st, cnt, p.gains, p.filts, Last(Contours[p.contour].blocks),
                                      Last(p.idx))
                      ELSE st
    /\ frame' = [sent |-> p, got |-> Nothing]
    /\ step' = "decode"
    /\ UNCHANGED <<packets, intf, decSt>>

\* What is left behind: the parameters that were read, and the predictors.
Decoded(ok, common, more, st) ==
    /\ decSt' = IF ok THEN st ELSE decSt
    /\ frame' = [frame EXCEPT !.got =
                    IF ok THEN [ok |-> more.ok /\ more.at = Len(wire) + 1, lsf |-> common,
                                more |-> more]
                          ELSE [ok |-> FALSE]]

\* Voiced or not, after the LSF block and the pulses.
DecodeRest(lsf, pul) ==
    LET common == [stage1 |-> lsf.stage1, grid |-> lsf.grid, stage2 |-> lsf.stage2,
                   extra |-> lsf.extra, pulse |-> pul.pulse]
        ok == lsf.ok /\ pul.ok
    IN IF lsf.stage1 = 1
       THEN \E pitch \in {DecodeSmplPitch(lsf.st, wire, pul.at, pul.cnt)} :
                Decoded(ok, common, pitch, pitch.st)
       ELSE \E gains \in {DecodeSmplGains(wire, pul.at, pul.cnt)} :
                Decoded(ok, common, gains, lsf.st)

\* decodeOne.  The count of the pulses is anywhere in its interval.
DecodeInternal ==
    /\ step = "decode"
    /\ \E lsf \in {DecodeSmplLsf(decSt, intf, wire)} :
        \E value \in {wire[lsf.at].lo, wire[lsf.at].hi - 1} :
            \E pul \in {DecodeSmplPulses(wire, lsf.at, value)} : DecodeRest(lsf, pul)
    /\ step' = "compare"
    /\ UNCHANGED <<packets, intf, encSt, wire>>

\* The next internal frame; the encoder's state is new in every packet.
NextInternal ==
    /\ step = "compare" /\ step' = "encode"
    /\ wire' = <<>> /\ frame' = [sent |-> Nothing, got |-> Nothing]
    /\ intf' = (intf + 1) % 3
    /\ IF intf = 2 THEN packets < MaxPackets /\ packets' = packets + 1 /\ encSt' = NewState
                   ELSE UNCHANGED <<packets, encSt>>
    /\ UNCHANGED decSt

FrameNext == DecodeInternal \/ NextInternal \/ \E p \in Parameters : EncodeInternal(p)

-----------------------------------------------------------------------------
(* Properties.                                                             *)

\* The decoder reads every symbol with the table it was written with, reads all of them
\* and no more, and has the parameters of the encoder, in every frame of the stream and
\* whatever kinds of frames came before: what depends on the kind, on the pulses and on
\* the predictors is decided alike on both sides.
DecoderInStep ==
    step = "compare" =>
        LET s == frame.sent
            g == frame.got
        IN /\ g.ok
           /\ g.lsf = [stage1 |-> s.stage1, grid |-> s.grid, stage2 |-> s.stage2,
                       extra |-> s.extra, pulse |-> s.pulse]
           /\ IF s.stage1 = 1
              THEN /\ g.more.gains = s.gains /\ g.more.contour = s.contour /\ g.more.idx = s.idx
                   /\ \A sf \in 1..4 : Count(s.pulse, sf) > 0 => g.more.filts[sf] = s.filts[sf]
              ELSE /\ g.more.main = s.main /\ g.more.delta = s.delta
                   /\ \A sf \in 1..4 : Count(s.pulse, sf) > 0 => g.more.nrg[sf] = s.nrg[sf]
=============================================================================
