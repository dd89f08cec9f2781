----------------------------- MODULE SrtpContext -----------------------------
(***************************************************************************)
(* The sequence number arithmetic of SrtpContext: rollover counter and     *)
(* replay window (internal/voip/media/srtp.go).                            *)
(*                                                                         *)
(* A packet on the wire is its sequence number and the rollover counter    *)
(* its sender authenticated it under; the receiver's tag agrees when it    *)
(* estimates the same counter.  The bits of replayWindow are the set of    *)
(* their positions.                                                        *)
(***************************************************************************)
EXTENDS Integers

CONSTANTS
    Half,                 \* 0x8000
    RocMod,               \* 2^32
    ReplayWindowSize      \* srtpReplayWindowSize

ASSUME SrtpAssumption ==
    /\ Half \in Nat \ {0, 1}
    /\ RocMod \in Nat \ {0, 1}
    /\ ReplayWindowSize \in Nat \ {0}

SeqRange == 2 * Half

Context ==
    [roc : 0..(RocMod - 1), lastSeq : 0..(SeqRange - 1), initialized : BOOLEAN,
     replayHighest : Nat, replayWindow : SUBSET (0..(ReplayWindowSize - 1)),
     replaySeen : BOOLEAN]

NewSrtpContext ==
    [roc |-> 0, lastSeq |-> 0, initialized |-> FALSE,
     replayHighest |-> 0, replayWindow |-> {}, replaySeen |-> FALSE]

PacketIndex(roc, seq) == roc * SeqRange + seq

Plus1(roc) == IF roc = RocMod - 1 THEN 0 ELSE roc + 1

Minus1(roc) == IF roc = 0 THEN RocMod - 1 ELSE roc - 1

\* Mutant: the wrap of the sequence number is missed.
UpdateRoc_NoWrap(c, seq) == [c EXCEPT !.lastSeq = seq, !.initialized = TRUE]

\* The sender's side.
UpdateRoc(c, seq) ==
    [c EXCEPT !.roc = IF c.initialized /\ seq - c.lastSeq < -Half THEN Plus1(@) ELSE @,
              !.lastSeq = seq,
              !.initialized = TRUE]

\* Mutant: packets from before the last wrap are not recognised.
EstimateRoc_NoPast(c, seq) ==
    IF c.initialized /\ c.lastSeq - seq > Half THEN Plus1(c.roc) ELSE c.roc

EstimateRoc(c, seq) ==
    CASE c.initialized /\ c.lastSeq < Half /\ seq - c.lastSeq > Half -> Minus1(c.roc)
      [] c.initialized /\ c.lastSeq >= Half /\ c.lastSeq - seq > Half -> Plus1(c.roc)
      [] OTHER -> c.roc

CommitRoc(c, v, seq) ==
    CASE ~c.initialized -> [c EXCEPT !.lastSeq = seq, !.initialized = TRUE]
      [] c.initialized /\ v = c.roc ->
           [c EXCEPT !.lastSeq = IF seq > c.lastSeq THEN seq ELSE c.lastSeq]
      [] c.initialized /\ v = Plus1(c.roc) -> [c EXCEPT !.roc = v, !.lastSeq = seq]
      [] OTHER -> c

\* replayCheck returns no error.
ReplayCheck(c, index) ==
    \/ ~c.replaySeen
    \/ index > c.replayHighest
    \/ /\ c.replayHighest - index < ReplayWindowSize
       /\ c.replayHighest - index \notin c.replayWindow

\* replayWindow << n
Shift(window, n) == {d \in 0..(ReplayWindowSize - 1) : d - n \in window}

\* Mutant: the window is shifted one too far.
ReplayUpdate_ShiftOff(c, index) ==
    IF ~c.replaySeen
    THEN [c EXCEPT !.replaySeen = TRUE, !.replayHighest = index, !.replayWindow = {0}]
    ELSE IF index > c.replayHighest
    THEN [c EXCEPT !.replayHighest = index,
                   !.replayWindow = Shift(@, index - c.replayHighest + 1) \cup {0}]
    ELSE [c EXCEPT !.replayWindow = @ \cup {c.replayHighest - index}]

\* A shift by the window's size or more leaves the new bit only.
ReplayUpdate(c, index) ==
    IF ~c.replaySeen
    THEN [c EXCEPT !.replaySeen = TRUE, !.replayHighest = index, !.replayWindow = {0}]
    ELSE IF index > c.replayHighest
    THEN [c EXCEPT !.replayHighest = index,
                   !.replayWindow = Shift(@, index - c.replayHighest) \cup {0}]
    ELSE [c EXCEPT !.replayWindow = @ \cup {c.replayHighest - index}]

\* Unprotect returns the packet: no replay, and the tag is right.
Accepts(c, p) ==
    /\ ReplayCheck(c, PacketIndex(EstimateRoc(c, p.seq), p.seq))
    /\ EstimateRoc(c, p.seq) = p.roc

\* The context after Unprotect.
Unprotect(c, p) ==
    IF Accepts(c, p)
    THEN ReplayUpdate(CommitRoc(c, p.roc, p.seq), PacketIndex(p.roc, p.seq))
    ELSE c
=============================================================================
