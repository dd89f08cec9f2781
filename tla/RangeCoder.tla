----------------------------- MODULE RangeCoder -----------------------------
(***************************************************************************)
(* The range coder of the MLow codec (rangecoder.go): an encoder takes a   *)
(* few symbols of several kinds, is finished, and a decoder reads them     *)
(* back.  Words have CodeBits bits and bytes SymBits, 32 and 8 in the      *)
(* code, so that carries, runs of full bytes and the end of the buffer     *)
(* are met after a few symbols.                                            *)
(***************************************************************************)
EXTENDS Integers, Sequences, FiniteSets

CONSTANTS
    SymBits,     \* ecSymBits
    CodeBits,    \* ecCodeBits, and ecWindowSize
    UintBits,    \* ecUintBits
    Symbols,     \* the symbols to choose from, see below
    MaxSymbols,  \* symbols of a message, a bound
    Sizes        \* sizes of the encoder's buffer

ASSUME CoderAssumption == SymBits \in Nat \ {0} /\ CodeBits > 2 * SymBits

VARIABLES
    enc,    \* RangeEncoder
    sent,   \* the symbols encoded, each with the encoder's range after it
    dec,    \* RangeDecoder
    got,    \* the symbols decoded, each with the decoder's range after it
    coder   \* "encode", "decode" or "done"

coderVars == <<enc, sent, dec, got, coder>>

SymMax == 2^SymBits - 1
Top == 2^(CodeBits - 1)
Bot == Top \div 2^SymBits
CodeExtra == ((CodeBits - 2) % SymBits) + 1
CodeShift == CodeBits - SymBits - 1

\* floor(log2(x)) + 1, and 0 for 0.
ilog(x) == CHOOSE n \in 0..CodeBits : x < 2^n /\ (n = 0 \/ x >= 2^(n - 1))

Smaller(a, b) == IF a < b THEN a ELSE b

-----------------------------------------------------------------------------
(* The encoder.                                                            *)

NewRangeEncoder(size) ==
    [buf |-> [i \in 1..size |-> 0], offs |-> 0, endOffs |-> 0, window |-> 0, used |-> 0,
     rng |-> Top, val |-> 0, ext |-> 0, rem |-> -1, err |-> FALSE]

Full(e) == e.offs + e.endOffs >= Len(e.buf)

writeByte(e, b) ==
    IF Full(e) THEN [e EXCEPT !.err = TRUE]
    ELSE [e EXCEPT !.buf[e.offs + 1] = b, !.offs = @ + 1]

writeByteAtEnd(e, b) ==
    IF Full(e) THEN [e EXCEPT !.err = TRUE]
    ELSE [e EXCEPT !.buf[Len(e.buf) - e.endOffs] = b, !.endOffs = @ + 1]

\* A number of equal bytes.
writeBytes(e, b, n) ==
    LET w[k \in 0..n] == IF k = 0 THEN e ELSE writeByte(w[k - 1], b) IN w[n]

\* Mutant: a carry is added to the byte that is held back and not to the run of full
\* bytes after it.
carryOut_KeepsRun(e, c) ==
    IF c = SymMax THEN [e EXCEPT !.ext = @ + 1]
    ELSE LET carry == c \div (SymMax + 1)
             held == IF e.rem >= 0 THEN writeByte(e, e.rem + carry) ELSE e
         IN [writeBytes(held, SymMax, e.ext) EXCEPT !.ext = 0, !.rem = c % (SymMax + 1)]

carryOut(e, c) ==
    IF c = SymMax THEN [e EXCEPT !.ext = @ + 1]
    ELSE LET carry == c \div (SymMax + 1)
             held == IF e.rem >= 0 THEN writeByte(e, e.rem + carry) ELSE e
             run == writeBytes(held, (SymMax + carry) % (SymMax + 1), e.ext)
         IN [run EXCEPT !.ext = 0, !.rem = c % (SymMax + 1)]

\* The loop runs at most CodeBits times: each round shifts the range by a byte.
EncNormalize(e) ==
    LET round[k \in 0..CodeBits] ==
            IF k = 0 THEN e
            ELSE LET x == round[k - 1]
                 IN IF x.rng > Bot THEN x
                    ELSE [carryOut(x, x.val \div 2^CodeShift) EXCEPT
                            !.val = (x.val * 2^SymBits) % Top, !.rng = x.rng * 2^SymBits]
    IN round[CodeBits]

Encode(e, fl, fh, ft) ==
    LET r == e.rng \div ft
    IN EncNormalize(
        IF fl > 0 THEN [e EXCEPT !.val = @ + e.rng - r * (ft - fl), !.rng = r * (fh - fl)]
                  ELSE [e EXCEPT !.rng = @ - r * (ft - fh)])

EncodeBit(e, bit, logp) ==
    LET s == e.rng \div 2^logp
    IN EncNormalize(IF bit = 1 THEN [e EXCEPT !.val = @ + e.rng - s, !.rng = s]
                               ELSE [e EXCEPT !.rng = @ - s])

EncodeICDF(e, s, icdf, ftb) ==
    LET r == e.rng \div 2^ftb
    IN EncNormalize(
        IF s > 0 THEN [e EXCEPT !.val = @ + e.rng - r * icdf[s],
                                !.rng = r * (icdf[s] - icdf[s + 1])]
                 ELSE [e EXCEPT !.rng = @ - r * icdf[1]])

EncodeCDF(e, s, cdf) ==
    Encode(e, cdf[s + 1] - cdf[1], cdf[s + 2] - cdf[1], cdf[Len(cdf)] - cdf[1])

\* Raw bits: the window is written out byte by byte until less than a byte is left.
Flush(e) ==
    LET round[k \in 0..CodeBits] ==
            IF k = 0 THEN e
            ELSE LET x == round[k - 1]
                 IN IF x.used < SymBits THEN x
                    ELSE [writeByteAtEnd(x, x.window % (SymMax + 1)) EXCEPT
                            !.window = @ \div 2^SymBits, !.used = @ - SymBits]
    IN round[CodeBits]

EncodeBits(e, v, n) ==
    LET room == IF e.used + n > CodeBits THEN Flush(e) ELSE e
    IN [room EXCEPT !.window = @ + v * 2^room.used, !.used = @ + n]

\* The raw bits of EncodeUint(v, n), 0 for none.
RawBits(n) == IF ilog(n - 1) > UintBits THEN ilog(n - 1) - UintBits ELSE 0

EncodeUint(e, v, n) ==
    LET shift == RawBits(n)
        hi == v \div 2^shift
    IN IF shift > 0
       THEN EncodeBits(Encode(e, hi, hi + 1, (n - 1) \div 2^shift + 1), v % 2^shift, shift)
       ELSE Encode(e, v, v + 1, n)

\* Done: enough bytes to be inside the range whatever follows, the held bytes, the raw
\* bits, and zeros in between.
Done(e) ==
    LET round(v, m) == ((v + m) \div (m + 1)) * (m + 1)
        short == CodeBits - ilog(e.rng)
        msk == (Top - 1) \div 2^short
        fits == round(e.val, msk) + msk < e.val + e.rng
        bits == IF fits THEN short ELSE short + 1
        end == IF fits THEN round(e.val, msk) ELSE round(e.val, msk \div 2)
        out[k \in 0..CodeBits] ==
            IF k = 0 THEN [e |-> e, end |-> end, l |-> bits]
            ELSE LET x == out[k - 1]
                 IN IF x.l <= 0 THEN x
                    ELSE [e |-> carryOut(x.e, x.end \div 2^CodeShift),
                          end |-> (x.end * 2^SymBits) % Top, l |-> x.l - SymBits]
        o == out[CodeBits].e
        front == IF o.rem >= 0 \/ o.ext > 0 THEN carryOut(o, 0) ELSE o
        back == Flush(front)
    IN IF back.err \/ back.used = 0 THEN back
       ELSE IF Full(back) THEN [back EXCEPT !.err = TRUE]
       ELSE [back EXCEPT !.buf[Len(back.buf) - back.endOffs] = back.window % (SymMax + 1)]

-----------------------------------------------------------------------------
(* The decoder.                                                            *)

\* Past the end, and past the start, there are zeros.
Byte(d, i) == IF i \in 1..Len(d.buf) THEN d.buf[i] ELSE 0

DecNormalize(d) ==
    LET round[k \in 0..CodeBits] ==
            IF k = 0 THEN d
            ELSE LET x == round[k - 1]
                     b == Byte(x, x.offs + 1)
                     sym == (x.rem * 2^SymBits + b) \div 2^(SymBits - CodeExtra)
                 IN IF x.rng > Bot THEN x
                    ELSE [x EXCEPT !.rng = @ * 2^SymBits, !.rem = b,
                                   !.offs = Smaller(x.offs + 1, Len(x.buf)),
                                   !.val = (@ * 2^SymBits + SymMax - (sym % (SymMax + 1))) % Top]
    IN round[CodeBits]

NewRangeDecoder(buf) ==
    LET b == IF buf = <<>> THEN 0 ELSE buf[1]
    IN DecNormalize(
        [buf |-> buf, offs |-> Smaller(1, Len(buf)), endOffs |-> 0, window |-> 0, avail |-> 0,
         rng |-> 2^CodeExtra, rem |-> b,
         val |-> 2^CodeExtra - 1 - b \div 2^(SymBits - CodeExtra), err |-> FALSE])

Decode(d, ft) == ft - Smaller(d.val \div (d.rng \div ft) + 1, ft)

Update(d, fl, fh, ft) ==
    LET ext == d.rng \div ft
        s == ext * (ft - fh)
    IN DecNormalize([d EXCEPT !.val = @ - s, !.rng = IF fl > 0 THEN ext * (fh - fl) ELSE @ - s])

\* Each reading gives the decoder after it and the symbol.
DecodeBit(d, logp) ==
    LET s == d.rng \div 2^logp
    IN IF d.val < s THEN <<DecNormalize([d EXCEPT !.rng = s]), 1>>
       ELSE <<DecNormalize([d EXCEPT !.val = @ - s, !.rng = @ - s]), 0>>

DecodeICDF(d, icdf, ftb) ==
    LET r == d.rng \div 2^ftb
        hit(k) == d.val >= r * icdf[k + 1] \/ k = Len(icdf) - 1
        k == CHOOSE k \in 0..Len(icdf) - 1 : hit(k) /\ \A j \in 0..k - 1 : ~hit(j)
        high == IF k = 0 THEN d.rng ELSE r * icdf[k]
    IN <<DecNormalize([d EXCEPT !.val = @ - r * icdf[k + 1],
                                     !.rng = high - r * icdf[k + 1]]), k>>

DecodeCDF(d, cdf) ==
    LET ft == cdf[Len(cdf)] - cdf[1]
        target == cdf[1] + Decode(d, ft)
        k == CHOOSE k \in 0..Len(cdf) - 2 :
                cdf[k + 2] > target /\ \A j \in 0..k - 1 : cdf[j + 2] <= target
    IN <<Update(d, cdf[k + 1] - cdf[1], cdf[k + 2] - cdf[1], ft), k>>

\* Raw bits: the window is filled as far as it goes.
Fill(d) ==
    LET round[k \in 0..CodeBits] ==
            IF k = 0 THEN d
            ELSE LET x == round[k - 1]
                 IN IF k > 1 /\ x.avail > CodeBits - SymBits THEN x
                    ELSE [x EXCEPT !.window = @ + Byte(x, Len(x.buf) - x.endOffs) * 2^x.avail,
                                   !.endOffs = Smaller(@ + 1, Len(x.buf)),
                                   !.avail = @ + SymBits]
    IN round[CodeBits]

DecodeBits(d, n) ==
    LET x == IF d.avail < n THEN Fill(d) ELSE d
    IN <<[x EXCEPT !.window = @ \div 2^n, !.avail = @ - n], x.window % 2^n>>

DecodeUint(d, n) ==
    LET shift == RawBits(n)
        t == (n - 1) \div 2^shift + 1
        s == Decode(d, t)
        low == DecodeBits(Update(d, s, s + 1, t), shift)
        v == s * 2^shift + low[2]
    IN IF shift = 0 THEN <<Update(d, s, s + 1, n), s>>
       ELSE IF v <= n - 1 THEN <<low[1], v>>
       ELSE <<[low[1] EXCEPT !.err = TRUE], n - 1>>

-----------------------------------------------------------------------------
(* A message.  A symbol is a record: its kind, its value s, and its table. *)

\* EncodeRawSymbol and Encode64FineSym are EncodeUint without raw bits.
EncodeSymbol(e, y) ==
    CASE y.kind = "cdf" -> EncodeCDF(e, y.s, y.table)
      [] y.kind = "icdf" -> EncodeICDF(e, y.s, y.table, y.bits)
      [] y.kind = "bit" -> EncodeBit(e, y.s, y.bits)
      [] y.kind = "uint" -> EncodeUint(e, y.s, y.bits)

DecodeSymbol(d, y) ==
    CASE y.kind = "cdf" -> DecodeCDF(d, y.table)
      [] y.kind = "icdf" -> DecodeICDF(d, y.table, y.bits)
      [] y.kind = "bit" -> DecodeBit(d, y.bits)
      [] y.kind = "uint" -> DecodeUint(d, y.bits)

CoderInit ==
    /\ \E size \in Sizes : enc = NewRangeEncoder(size)
    /\ dec = NewRangeDecoder(<<>>)
    /\ sent = <<>> /\ got = <<>> /\ coder = "encode"

PutSymbol(y) ==
    /\ coder = "encode" /\ Len(sent) < MaxSymbols
    /\ enc' = EncodeSymbol(enc, y)
    /\ sent' = Append(sent, [y |-> y, rng |-> enc'.rng])
    /\ UNCHANGED <<dec, got, coder>>

\* Without raw bits the frame ends with the last byte of the range coder (ConsumedLen);
\* a buffer that was too small is an error, and nothing is sent.
Finish ==
    /\ coder = "encode" /\ sent # <<>>
    /\ enc' = Done(enc)
    /\ coder' = IF enc'.err THEN "done" ELSE "decode"
    /\ LET raw == \E i \in DOMAIN sent : sent[i].y.kind = "uint" /\ RawBits(sent[i].y.bits) > 0
       IN dec' = IF enc'.err THEN dec
                 ELSE NewRangeDecoder(IF raw THEN enc'.buf ELSE SubSeq(enc'.buf, 1, enc'.offs))
    /\ UNCHANGED <<sent, got>>

TakeSymbol ==
    /\ coder = "decode"
    /\ LET y == sent[Len(got) + 1].y
           r == DecodeSymbol(dec, y)
       IN /\ dec' = r[1]
          /\ got' = Append(got, [y |-> [y EXCEPT !.s = r[2]], rng |-> r[1].rng])
    /\ coder' = IF Len(got') = Len(sent) THEN "done" ELSE "decode"
    /\ UNCHANGED <<enc, sent>>

CoderNext == TakeSymbol \/ Finish \/ \E y \in Symbols : PutSymbol(y)

-----------------------------------------------------------------------------
(* Properties.                                                             *)

\* Whatever carries, runs of full bytes and raw bits there are, and however little room
\* is left in the buffer: a message that was encoded without an error is decoded symbol
\* by symbol, with the same range on both sides after each one.
DecodesWhatWasEncoded ==
    got = SubSeq(sent, 1, Len(got)) /\ ~dec.err
=============================================================================
