----------------------------- MODULE MlowPacket -----------------------------
(***************************************************************************)
(* The outer layers of an audio payload of the peer: which decoder gets    *)
(* it, the container of several frames, the redundancy format and the      *)
(* first byte of a frame (codec/opus/fallback.go; codec/mlow/decoder.go,   *)
(* toc.go, red.go).  What an active frame holds is module MlowFrame.       *)
(***************************************************************************)
EXTENDS Integers, Sequences

CONSTANTS
    Frames,        \* frames of the peer: their bytes, the first one the TOC
    MaxContained,  \* frames of a container: 8 in the code
    PerPacket      \* frames the peer puts into a packet, a bound

ASSUME PacketAssumption ==
    /\ Frames \subseteq {f \in Seq(0..255) : Len(f) \in 1..255}
    /\ MaxContained \in 0..255 /\ PerPacket \in 0..MaxContained /\ PerPacket <= 128

VARIABLES
    payload,   \* the bytes of the packet
    carried,   \* the frames the peer puts into it
    laid,      \* for each frame that is in it, the number of bytes before that frame
    format,    \* how: "bare", "container", "red", or "none" before
    scan,      \* the reader: its step, position, what is left, sizes and frames found
    played     \* the decoder's output: for each frame its kind and milliseconds

packetVars == <<payload, carried, laid, format, scan, played>>

NothingRead == [step |-> "idle", cur |-> 1, rem |-> 0, sizes |-> <<>>, frames |-> <<>>]

PacketInit ==
    /\ payload = <<>> /\ carried = <<>> /\ laid = <<>> /\ format = "none"
    /\ scan = NothingRead /\ played = <<>>

-----------------------------------------------------------------------------
(* The peer's ways to send frames.                                         *)

Start(how, frames, bytes) ==
    /\ format = "none" /\ format' = how
    /\ payload' = bytes /\ carried' = frames
    /\ UNCHANGED <<scan, played>>

Bare(f) == Start("bare", <<f>>, f) /\ laid' = <<0>>

Container(fs) == Start("container", fs, <<146, Len(fs)>>) /\ UNCHANGED laid

\* A header for each frame but the last, with the time codes 1, 2, ..., then the marker.
Headers(fs) ==
    [i \in 1..2 * Len(fs) - 1 |->
        IF i = 2 * Len(fs) - 1 THEN 0
        ELSE IF i % 2 = 1 THEN 128 + (i + 1) \div 2 ELSE Len(fs[i \div 2])]

Redundant(fs) == Start("red", fs, Headers(fs)) /\ UNCHANGED laid

\* The next frame; in a container its length is before each but the last.
PutFrame ==
    LET k == Len(laid) + 1
        size == IF format = "container" /\ k < Len(carried) THEN <<Len(carried[k])>> ELSE <<>>
    IN /\ k <= Len(carried)
       /\ payload' = (payload \o size) \o carried[k]
       /\ laid' = Append(laid, Len(payload) + Len(size))
       /\ UNCHANGED <<carried, format, scan, played>>

Complete == format # "none" /\ Len(laid) = Len(carried)

\* A packet with redundancy may be too short.
Cut(n) ==
    /\ Complete /\ format = "red" /\ scan.step = "idle"
    /\ payload' = SubSeq(payload, 1, n)
    /\ UNCHANGED <<carried, laid, format, scan, played>>

-----------------------------------------------------------------------------
(* The first byte of a frame.                                              *)

Bit(b, n) == (b \div 2^n) % 2 = 1

IsStandardOpusFrame(b) == b >= 192

standardOpusFrameMs(b) ==
    LET config == b \div 8
    IN IF config < 12 THEN <<10, 20, 40, 60>>[(config % 4) + 1]
       ELSE IF config < 16 THEN <<10, 20>>[((config - 12) % 2) + 1]
       ELSE <<3, 5, 10, 20>>[(config % 4) + 1]

ParseSmplTOC(b) ==
    IF IsStandardOpusFrame(b)
    THEN [opus |-> TRUE, ms |-> standardOpusFrameMs(b), active |-> FALSE, rate |-> 16000,
          low |-> FALSE]
    ELSE [opus |-> FALSE, ms |-> <<10, 20, 60, 120>>[((b \div 8) % 4) + 1],
          active |-> Bit(b, 6) \/ Bit(b, 1), rate |-> IF Bit(b, 5) THEN 32000 ELSE 16000,
          low |-> Bit(b, 2)]

\* Only active frames of 60 ms at 16 kHz and the high rate reach decodeActiveFrame.
decodeFrame(f) ==
    IF f = <<>> THEN [kind |-> "silence", ms |-> 60]
    ELSE LET toc == ParseSmplTOC(f[1])
         IN IF toc.opus \/ ~toc.active \/ toc.rate # 16000 \/ toc.low \/ toc.ms # 60
            THEN [kind |-> "silence", ms |-> toc.ms]
            ELSE [kind |-> "active", ms |-> 60]

-----------------------------------------------------------------------------
(* Decoding.                                                               *)

DecodeWhole ==
    played' = <<decodeFrame(payload)>> /\ scan' = [scan EXCEPT !.step = "whole"]

\* fallbackCodec.Decode: a payload that begins like Opus goes to that decoder, whose
\* error gives silence of the same length.
DecodeOpus ==
    /\ \E k \in {"opus", "silence"} :
            played' = <<[kind |-> k, ms |-> ParseSmplTOC(payload[1]).ms]>>
    /\ scan' = [scan EXCEPT !.step = "opus"]

\* MlowDecoder.Decode: 0x92 and a count are the beginning of a container.
DecodePayload ==
    /\ Complete /\ format \in {"bare", "container"} /\ scan.step = "idle"
    /\ IF payload # <<>> /\ IsStandardOpusFrame(payload[1]) THEN DecodeOpus
       ELSE IF Len(payload) < 3 \/ payload[1] # 146 \/ payload[2] \notin 2..MaxContained
       THEN DecodeWhole
       ELSE /\ scan' = [scan EXCEPT !.step = "split", !.cur = 3, !.rem = payload[2]]
            /\ UNCHANGED played
    /\ UNCHANGED <<payload, carried, laid, format>>

\* Mutant: the byte with the length is counted as one of the frame.
NextFrame_OneShort(off) == off + payload[off]

NextFrame(off) == off + payload[off] + 1

\* splitContainer: each frame but the last after its length, the last one to the end, and
\* then the frames are decoded in order.
splitContainer ==
    LET off == scan.cur
        frames == Append(scan.frames, SubSeq(payload, off, Len(payload)))
    IN /\ scan.step = "split"
       /\ IF off > Len(payload) \/ (scan.rem > 1 /\ off + payload[off] > Len(payload))
          THEN DecodeWhole
          ELSE \/ /\ scan.rem > 1
                  /\ scan' = [scan EXCEPT !.cur = NextFrame(off), !.rem = @ - 1,
                        !.frames = Append(@, SubSeq(payload, off + 1, off + payload[off]))]
                  /\ UNCHANGED played
               \/ /\ scan.rem = 1
                  /\ scan' = [scan EXCEPT !.step = "done", !.frames = frames]
                  /\ played' = [i \in 1..Len(frames) |-> decodeFrame(frames[i])]
       /\ UNCHANGED <<payload, carried, laid, format>>

-----------------------------------------------------------------------------
(* DepackSplitRed.                                                         *)

DepackSplitRed ==
    /\ Complete /\ format = "red" /\ scan.step = "idle"
    /\ scan' = [scan EXCEPT !.step = "headers", !.rem = Len(payload)]
    /\ UNCHANGED <<payload, carried, laid, format, played>>

\* A header or its block, or the main frame, is not there in full.
TooShort(cur, rem) ==
    \/ rem <= 1
    \/ payload[cur] >= 128 /\ (rem = 2 \/ payload[cur + 1] + 2 >= rem)

\* Its first loop: headers of two bytes while the high bit is set, then the main marker.
ReadHeader ==
    LET cur == scan.cur
        rem == scan.rem
    IN /\ scan.step = "headers"
       /\ scan' = IF TooShort(cur, rem) THEN [scan EXCEPT !.step = "failed"]
                  ELSE IF payload[cur] < 128
                  THEN [scan EXCEPT !.step = "blocks", !.cur = cur + 1, !.rem = rem - 1]
                  ELSE [scan EXCEPT !.cur = cur + 2, !.rem = rem - payload[cur + 1] - 2,
                                    !.sizes = Append(@, payload[cur + 1])]
       /\ UNCHANGED <<payload, carried, laid, format, played>>

\* Its second one: the blocks, and the main frame.
ReadBlock ==
    LET k == Len(scan.frames) + 1
        main == k > Len(scan.sizes)
        size == IF main THEN scan.rem ELSE scan.sizes[k]
    IN /\ scan.step = "blocks"
       /\ scan' = [scan EXCEPT !.step = IF main THEN "done" ELSE @, !.cur = @ + size,
                        !.frames = Append(@, SubSeq(payload, scan.cur, scan.cur + size - 1))]
       /\ UNCHANGED <<payload, carried, laid, format, played>>

PacketNext ==
    \/ \E f \in Frames \cup {<<b>> : b \in 0..255} : Bare(f)
    \/ \E n \in 2..PerPacket : \E fs \in [1..n -> Frames] : Container(fs) \/ Redundant(fs)
    \/ PutFrame
    \/ \E n \in 0..Len(payload) : Cut(n)
    \/ DecodePayload \/ splitContainer
    \/ DepackSplitRed \/ ReadHeader \/ ReadBlock

PacketSpec == PacketInit /\ [][PacketNext]_packetVars

-----------------------------------------------------------------------------
(* Properties.                                                             *)

\* A bare frame that cannot be told from a container: it begins with the container's
\* marker and goes on like one.
Ambiguous == format = "bare" /\ scan.step = "done"

\* Where the main frame of a packet with redundancy begins and ends.
MainBegins == laid[Len(carried)]
MainEnds == MainBegins + Len(carried[Len(carried)])

\* Each frame that was sent is played once, in its place and for its own time: audio when
\* it is active audio this decoder knows, the other decoder's when it is Opus in a payload
\* of its own, silence of its length otherwise (DecodePayload, splitContainer, decodeFrame,
\* fallbackCodec.Decode).  The blocks of a packet with redundancy come out as they went in,
\* the main frame last, and none of a packet cut before its main frame (DepackSplitRed).
EachFramePlayed ==
    /\ (played # <<>> /\ ~Ambiguous) =>
        /\ Len(played) = Len(carried)
        /\ \A i \in 1..Len(carried) :
            LET toc == ParseSmplTOC(carried[i][1])
                whole == toc.active /\ toc.ms = 60 /\ toc.rate = 16000 /\ ~toc.low
            IN /\ played[i].ms = toc.ms
               /\ (played[i].kind = "active") = whole
               /\ played[i].kind = "opus" => toc.opus /\ format = "bare"
    /\ (format = "red" /\ scan.step \in {"done", "failed"}) =>
        /\ Len(payload) = MainEnds => scan.step = "done" /\ scan.frames = carried
        /\ Len(payload) <= MainBegins => scan.step = "failed"
=============================================================================
