------------------------------ MODULE Recording ------------------------------
(***************************************************************************)
(* The recording of one call: starting and stopping it from the session    *)
(* (session.go, startRecordingWav and StopRecording), the recorder that    *)
(* mixes the two legs into a WAV file (media/wavrecorder.go), and what the *)
(* list of recordings says of the file (session/recordings.go).  Arming a  *)
(* recording and the end of a call are in module CallLegs.  Samples are    *)
(* numbered per leg; a sample of the file names the two it is the sum of.  *)
(***************************************************************************)
EXTENDS Integers, Sequences

CONSTANTS
    FrameSamples,  \* samples a tick takes from each leg: 320 in the code
    MaxBuffered,   \* samples a leg may have waiting: 32000
    Chunks,        \* sizes in which a leg's samples come
    MaxFed,        \* samples of a leg in all, a bound
    MaxRecorders   \* recorders of the call, a bound

ASSUME RecordingAssumption ==
    /\ FrameSamples \in Nat \ {0} /\ MaxBuffered \in Nat
    /\ Chunks \subseteq Nat

VARIABLES
    current,    \* recorders[callID]: the recorder, 0 for none
    recorders,  \* every recorder made, in order
    wav         \* the file: its samples and the length its header claims

recordingVars == <<current, recorders, wav>>

Legs == {"peer", "op"}
Gap == [peer |-> 0, op |-> 0]

RecordingInit == current = 0 /\ recorders = <<>> /\ wav = [data |-> <<>>, header |-> 0]

\* fed: samples taken so far; lost: those the limit of the buffer dropped; alone: whether
\* every recorder before it was closed when it was made.
NewWavRecorder ==
    [buf |-> [l \in Legs |-> <<>>], fed |-> [l \in Legs |-> 0], lost |-> [l \in Legs |-> {}],
     offset |-> 0, step |-> "open", failed |-> FALSE,
     alone |-> \A q \in DOMAIN recorders : recorders[q].step = "closed"]

\* The file is created anew, under the name of the call.
startRecordingWav ==
    /\ current = 0 /\ Len(recorders) < MaxRecorders
    /\ recorders' = Append(recorders, NewWavRecorder)
    /\ current' = Len(recorders')
    /\ wav' = [data |-> <<>>, header |-> 0]

\* StopRecording takes the recorder out of the map, then closes it.
StopRecording ==
    /\ current # 0
    /\ current' = 0
    /\ recorders' = [recorders EXCEPT ![current].step = "taken"]
    /\ UNCHANGED wav

CloseMark(r) ==
    /\ recorders[r].step = "taken"
    /\ recorders' = [recorders EXCEPT ![r].step = "stopped"]
    /\ UNCHANGED <<current, wav>>

Numbers(from, to) == [i \in 1..to - from + 1 |-> from + i - 1]

\* Samples all recorders have taken, for the bound.
AllFed(leg) ==
    LET upTo[k \in 0..Len(recorders)] ==
            IF k = 0 THEN 0 ELSE upTo[k - 1] + recorders[k].fed[leg]
    IN upTo[Len(recorders)]

\* The newest samples are kept.
feed(r, leg, n) ==
    /\ recorders[r].step \in {"open", "taken"}
    /\ AllFed(leg) + n <= MaxFed
    /\ LET fed == recorders[r].fed[leg]
           all == recorders[r].buf[leg] \o Numbers(fed + 1, fed + n)
           drop == IF Len(all) > MaxBuffered THEN Len(all) - MaxBuffered ELSE 0
       IN recorders' = [recorders EXCEPT
            ![r].buf[leg] = SubSeq(all, drop + 1, Len(all)),
            ![r].fed[leg] = @ + n,
            ![r].lost[leg] = @ \cup {all[i] : i \in 1..drop}]
    /\ UNCHANGED <<current, wav>>

\* takeSamples and writeMixLocked for one frame: what is written, and what is left.
Taken(buf) == SubSeq(buf, 1, IF Len(buf) < FrameSamples THEN Len(buf) ELSE FrameSamples)
Left(buf) == SubSeq(buf, Len(Taken(buf)) + 1, Len(buf))

Mix(peer, op) ==
    [i \in 1..IF Len(peer) > Len(op) THEN Len(peer) ELSE Len(op) |->
        [peer |-> IF i <= Len(peer) THEN peer[i] ELSE 0,
         op |-> IF i <= Len(op) THEN op[i] ELSE 0]]

\* A write at the recorder's own place in the file, which another recorder may share.
WriteAt(data, offset, s) ==
    [i \in 1..IF Len(data) > offset + Len(s) THEN Len(data) ELSE offset + Len(s) |->
        IF i > offset /\ i <= offset + Len(s) THEN s[i - offset]
        ELSE IF i <= Len(data) THEN data[i] ELSE Gap]

\* A failed write is remembered, and nothing is written after it; what it may leave in the
\* file itself is not modelled.
Write(r, buf, samples) ==
    \E ok \in BOOLEAN :
        IF recorders[r].failed \/ ~ok
        THEN /\ recorders' = [recorders EXCEPT ![r].buf = buf, ![r].failed = TRUE]
             /\ UNCHANGED wav
        ELSE /\ recorders' = [recorders EXCEPT ![r].buf = buf, ![r].offset = @ + Len(samples)]
             /\ wav' = [wav EXCEPT !.data = WriteAt(@, recorders[r].offset, samples)]

\* Mutant: one leg that has run dry ends the loop of drain.
Drained_OneLeg(buf) == buf.peer = <<>> \/ buf.op = <<>>

\* Nothing is left for the loop of drain.
Drained(buf) == buf.peer = <<>> /\ buf.op = <<>>

\* A frame of the pump: a tick, or a turn of drain's loop once the recorder is stopped; with
\* the stop channel closed the pump may still choose the ticker.
tick(r) ==
    LET buf == recorders[r].buf IN
    /\ recorders[r].step \in {"open", "taken", "stopped"}
    /\ buf.peer # <<>> \/ buf.op # <<>>
    /\ Write(r, [l \in Legs |-> Left(buf[l])], Mix(Taken(buf.peer), Taken(buf.op)))
    /\ UNCHANGED current

\* drain returns, and the pump is done.
drain(r) ==
    /\ recorders[r].step = "stopped" /\ Drained(recorders[r].buf)
    /\ recorders' = [recorders EXCEPT ![r].step = "drained"]
    /\ UNCHANGED <<current, wav>>

\* The rest of Close: the header is patched unless a write failed.
CloseFinish(r) ==
    /\ recorders[r].step = "drained"
    /\ recorders' = [recorders EXCEPT ![r].step = "closed"]
    /\ wav' = IF recorders[r].failed THEN wav ELSE [wav EXCEPT !.header = recorders[r].offset]
    /\ UNCHANGED current

RecordingNext ==
    \/ startRecordingWav
    \/ StopRecording
    \/ \E r \in DOMAIN recorders :
        \/ \E leg \in Legs, n \in Chunks : feed(r, leg, n)
        \/ tick(r) \/ CloseMark(r) \/ drain(r) \/ CloseFinish(r)

RecordingSpec == RecordingInit /\ [][RecordingNext]_recordingVars

\* ListRecordings: the file is flagged Active while the map has a recorder for the call.
Active == current # 0

-----------------------------------------------------------------------------
(* Properties.                                                             *)

\* The samples of a leg that a file has, and that they are there once and in order.
Written(data, leg) == {data[i][leg] : i \in 1..Len(data)} \ {0}

InOrder(data, leg) ==
    \A i, j \in 1..Len(data) :
        (i < j /\ data[i][leg] # 0 /\ data[j][leg] # 0) => data[i][leg] < data[j][leg]

\* When the recorder of a file has been closed without an error and no other had the file
\* open meanwhile, the file has every sample of each leg that its buffer did not drop,
\* once and in order, those that came while it was being closed too, and its header has
\* their number (WavRecorder: feed, tick, drain and Close run on different goroutines).
RecordingComplete ==
    recorders # <<>> =>
        LET r == recorders[Len(recorders)]
        IN (r.step = "closed" /\ r.alone /\ ~r.failed) =>
                /\ wav.header = Len(wav.data)
                /\ \A leg \in Legs :
                    /\ Written(wav.data, leg) = 1..r.fed[leg] \ r.lost[leg]
                    /\ InOrder(wav.data, leg)

\* A recording that is still being written is flagged as active.
UnfinishedIsActive ==
    \A r \in DOMAIN recorders : recorders[r].step # "closed" => Active
=============================================================================
