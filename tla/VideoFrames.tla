---------------------------- MODULE VideoFrames -----------------------------
(***************************************************************************)
(* H.264 between the browser and the relays (h264.go, callmanager_video.go *)
(* and the video extension): an access unit is cut into NAL units, these   *)
(* into RTP payloads, and the payloads that arrive are put together again. *)
(* The units found in a byte stream are named by their first and last      *)
(* position in it.                                                         *)
(* The bytes of a NAL unit after its header are told apart by the frame,   *)
(* the unit and the position they come from.                               *)
(***************************************************************************)
EXTENDS Integers, Sequences

CONSTANTS
    MaxBytes,    \* length of the byte streams that are split, a bound
    MaxPayload,  \* h264MaxPayload: 1100 in the code
    Bodies,      \* lengths of NAL units, without the header
    Types,       \* their types
    MaxUnits,    \* NAL units of a frame, a bound
    MaxFrames    \* frames sent, a bound

ASSUME VideoAssumption ==
    /\ MaxBytes \in Nat /\ MaxPayload \in Nat /\ MaxPayload > 2
    /\ Bodies \subseteq Nat /\ Types \subseteq 1..23 /\ MaxUnits \in Nat

VARIABLES
    stream,    \* the Annex-B bytes to split
    split,     \* how far that is: i, the start of the unit (0 for none), and the units
    frame,     \* the number and the NAL units of the frame being sent
    unsent,    \* its units that are still to be made packets of
    packets,   \* packets that are still to be sent or lost
    intact,    \* no packet of the frame is lost, nor the last one of the frame before
    depkt,     \* H264Depacketizer
    delivered  \* what OnPeerVideo got last, and the frame it should be

frameVars == <<stream, split, frame, unsent, packets, intact, depkt, delivered>>

NoFrame == [no |-> 0, nals |-> <<>>]

FramesInit ==
    /\ stream \in UNION {[1..n -> 0..2] : n \in 1..MaxBytes}
    /\ split = [i |-> 1, start |-> 0, nals |-> <<>>, done |-> FALSE]
    /\ frame = NoFrame /\ unsent = <<>> /\ packets = <<>> /\ intact = TRUE
    /\ depkt = [fu |-> <<>>, fuHdr |-> FALSE, au |-> <<>>, hasKey |-> FALSE]
    /\ delivered = [nals |-> <<>>, key |-> FALSE, of |-> <<>>, intact |-> FALSE]

-----------------------------------------------------------------------------
(* AnnexBNALUs.                                                            *)

\* The length of the start code at i, 0 for none.
CodeAt(d, i) ==
    IF i + 2 <= Len(d) /\ d[i] = 0 /\ d[i + 1] = 0 /\ d[i + 2] = 1 THEN 3
    ELSE IF i + 3 <= Len(d) /\ d[i] = 0 /\ d[i + 1] = 0 /\ d[i + 2] = 0 /\ d[i + 3] = 1 THEN 4
    ELSE 0

appendNonEmpty(nals, from, to) == IF from <= to THEN Append(nals, <<from, to>>) ELSE nals

\* The units when a start code is met, or the end.
UnitEnds(to) ==
    IF split.start = 0 THEN split.nals ELSE appendNonEmpty(split.nals, split.start, to)

\* AnnexBNALUs: a turn of its loops, and what comes after them.
AnnexBNALUs ==
    LET code == CodeAt(stream, split.i) IN
    /\ ~split.done
    /\ \/ /\ split.i + 2 <= Len(stream) /\ code = 0
          /\ split' = [split EXCEPT !.i = @ + 1]
       \/ /\ split.i + 2 <= Len(stream) /\ code # 0
          /\ split' = [split EXCEPT !.i = @ + code, !.start = split.i + code,
                                    !.nals = UnitEnds(split.i - 1)]
       \/ /\ split.i + 2 > Len(stream)
          /\ split' = [split EXCEPT !.done = TRUE,
                !.nals = IF split.start = 0 THEN <<<<1, Len(stream)>>>> ELSE UnitEnds(Len(stream))]
    /\ UNCHANGED <<stream, frame, unsent, packets, intact, depkt, delivered>>

-----------------------------------------------------------------------------
(* PacketizeH264.                                                          *)

\* A NAL unit of type t.
Nal(f, j, t, n) == [type |-> t, bytes |-> [k \in 1..n |-> <<f, j, k>>]]

Least(a, b) == IF a <= b THEN a ELSE b

\* FU-A fragments of chunk bytes.
Fragments(nal) ==
    LET chunk == MaxPayload - 2
        n == Len(nal.bytes)
    IN [k \in 1..(n + chunk - 1) \div chunk |->
            [kind |-> "fua", type |-> nal.type, start |-> k = 1, end |-> k * chunk >= n,
             part |-> SubSeq(nal.bytes, (k - 1) * chunk + 1, Least(k * chunk, n))]]

Payloads(nal) ==
    IF Len(nal.bytes) + 1 <= MaxPayload THEN <<[kind |-> "nals", nals |-> <<nal>>]>>
    ELSE Fragments(nal)

\* PacketizeH264: its loop, a unit at a time, in the order in which packets are sent.
PacketizeH264 ==
    /\ packets = <<>> /\ unsent # <<>>
    /\ packets' = Payloads(Head(unsent))
    /\ unsent' = Tail(unsent)
    /\ UNCHANGED <<stream, split, frame, intact, depkt, delivered>>

\* STAP-A, which the peer may send and we do not: small units share a payload.
Aggregate ==
    /\ packets = <<>>
    /\ \E k \in 2..Len(unsent) :
        /\ \A j \in 1..k : Len(unsent[j].bytes) + 1 < MaxPayload
        /\ packets' = <<[kind |-> "nals", nals |-> SubSeq(unsent, 1, k)]>>
        /\ unsent' = SubSeq(unsent, k + 1, Len(unsent))
    /\ UNCHANGED <<stream, split, frame, intact, depkt, delivered>>

-----------------------------------------------------------------------------
(* H264Depacketizer.Push.                                                  *)

\* IDR slices and parameter sets.
KeyTypes == {5, 7, 8}

HasKey(nals) == \E j \in 1..Len(nals) : nals[j].type \in KeyTypes

\* appendNAL of each of the units.
AppendNALs(d, nals) ==
    [d EXCEPT !.au = @ \o nals, !.hasKey = @ \/ HasKey(nals)]

\* Mutant: a fragment that starts a unit does not clear the buffer.
StartUnit_Appends(d, p) ==
    [d EXCEPT !.fuHdr = TRUE, !.fu = IF @ = <<>> THEN <<p.type>> ELSE @]

StartUnit(d, p) == [d EXCEPT !.fuHdr = TRUE, !.fu = <<p.type>>]

Fragment(d, p) ==
    LET begun == IF p.start THEN StartUnit(d, p) ELSE d
        more == IF begun.fuHdr THEN [begun EXCEPT !.fu = @ \o p.part] ELSE begun
    IN IF p.end /\ more.fuHdr
       THEN [AppendNALs(more, <<[type |-> Head(more.fu), bytes |-> Tail(more.fu)]>>)
                EXCEPT !.fu = <<>>, !.fuHdr = FALSE]
       ELSE more

Push(d, p) ==
    IF p.kind = "fua" THEN Fragment(d, p)
    ELSE AppendNALs(d, p.nals)

-----------------------------------------------------------------------------
\* The peer encodes and sends a frame; sendVideoFrame does the same in our direction.
SendFrame ==
    /\ packets = <<>> /\ unsent = <<>> /\ frame.no < MaxFrames
    /\ \E n \in 1..MaxUnits : \E nals \in [1..n -> Bodies \X Types] :
        LET f == frame.no + 1
            units == [j \in 1..n |-> Nal(f, j, nals[j][2], nals[j][1])]
        IN frame' = [no |-> f, nals |-> units] /\ unsent' = units
    /\ UNCHANGED <<stream, split, packets, intact, depkt, delivered>>

\* The last packet of a frame has the marker.
Marker == Len(packets) = 1 /\ unsent = <<>>

\* handleInbound: with the marker, flush empties the access unit.
handleInbound ==
    /\ packets # <<>>
    /\ packets' = Tail(packets)
    /\ LET d == Push(depkt, Head(packets))
       IN IF Marker /\ d.au # <<>>
          THEN /\ delivered' = [nals |-> d.au, key |-> d.hasKey, of |-> frame.nals,
                                intact |-> intact]
               /\ depkt' = [d EXCEPT !.au = <<>>, !.hasKey = FALSE]
          ELSE depkt' = d /\ UNCHANGED delivered
    /\ intact' = (intact \/ Marker)
    /\ UNCHANGED <<stream, split, frame, unsent>>

\* A packet does not arrive.  Without its last packet a frame runs into the next one.
Lose ==
    /\ packets # <<>>
    /\ packets' = Tail(packets)
    /\ intact' = FALSE
    /\ UNCHANGED <<stream, split, frame, unsent, depkt, delivered>>

FramesNext == SendFrame \/ PacketizeH264 \/ Aggregate \/ handleInbound \/ Lose

FramesSpec == FramesInit /\ [][AnnexBNALUs \/ FramesNext]_frameVars

-----------------------------------------------------------------------------
(* Properties.                                                             *)

\* 0 0 1 at position p, and none from a to b.
Mark(p) ==
    p \in 1..Len(stream) - 2 /\ stream[p] = 0 /\ stream[p + 1] = 0 /\ stream[p + 2] = 1

NoMark(a, b) == \A p \in a..b : ~Mark(p)

\* A unit lies between a mark and the end, or the next mark without the zero before it.
IsUnit(from, to) ==
    /\ from <= to /\ Mark(from - 3)
    /\ \/ to = Len(stream) /\ NoMark(from, Len(stream))
       \/ \E q \in from..Len(stream) :
            /\ Mark(q) /\ NoMark(from, q - 1)
            /\ to = IF stream[q - 1] = 0 THEN q - 2 ELSE q - 1

Positions == 1..Len(stream)
Found == {split.nals[k] : k \in 1..Len(split.nals)}

\* The splitter finds all units, in order, or the whole stream where there is no mark.
SplitIsExact ==
    split.done =>
        IF NoMark(1, Len(stream)) THEN split.nals = <<<<1, Len(stream)>>>>
        ELSE /\ Found = {u \in Positions \X Positions : IsUnit(u[1], u[2])}
             /\ \A k, l \in 1..Len(split.nals) : k < l => split.nals[k][2] < split.nals[l][1]

\* A frame of the browser is split into its units exactly (AnnexBNALUs), and one whose
\* packets all arrive, after the last packet of the frame before, is handed to the other
\* browser as it was encoded and with the right keyframe flag, whatever was lost earlier:
\* a unit that lost its end does not get into the next one (PacketizeH264, Push).
FramesIntact ==
    /\ SplitIsExact
    /\ delivered.intact =>
        /\ delivered.nals = delivered.of
        /\ delivered.key <=> HasKey(delivered.of)
=============================================================================
