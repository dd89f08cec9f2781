------------------------------- MODULE MCMedia -------------------------------
(* What happens to the media of a call, step by step: encryption, reception,  *)
(* reports, video frames, the recording and the hold music.  Each behaviour   *)
(* runs one of them, chosen at the start, and leaves the others as they are.  *)
EXTENDS SrtpStream, MediaReceive, RtcpReports, VideoFrames, Recording, WavFile, TLC

VARIABLE part

MediaVars ==
    <<part, vars, receiveVars, rtcpVars, frameVars, recordingVars, wavVars>>

Fmt(format, channels, rate, depth) ==
    [id |-> "fmt ", format |-> format, channels |-> channels, rate |-> rate,
     depth |-> depth, codec |-> 1]

Samples(s) == [id |-> "data", samples |-> s]

\* Uploads of plain and extensible WAV files, one and two channels, three rates, with a
\* chunk of odd length and formats that are not supported.
MCUploadChunks ==
    {Fmt(1, 1, 16, 16), Fmt(65534, 2, 48, 16), Fmt(1, 1, 8, 16), Fmt(3, 1, 16, 8),
     Samples(<<-8, 7, 3, -4, 0, 7, -1>>), Samples(<<5>>), [id |-> "LIST", size |-> 3]}

\* The parts that do not run keep one initial state.
MediaInit ==
    /\ part \in {"srtp", "receive", "count", "rtt", "split", "frames", "recording", "wav"}
    /\ Init /\ ReceiveInit /\ RtcpInit /\ FramesInit /\ RecordingInit /\ WavInit
    /\ part # "srtp" => seq = 0
    /\ part # "split" => stream = <<0>>

MediaNext ==
    /\ UNCHANGED part
    /\ \/ /\ part = "srtp" /\ Next
          /\ UNCHANGED <<receiveVars, rtcpVars, frameVars, recordingVars, wavVars>>
       \/ /\ part = "receive" /\ ReceiveNext
          /\ UNCHANGED <<vars, rtcpVars, frameVars, recordingVars, wavVars>>
       \/ /\ part = "count" /\ CountNext
          /\ UNCHANGED <<vars, receiveVars, frameVars, recordingVars, wavVars>>
       \/ /\ part = "rtt" /\ RttNext
          /\ UNCHANGED <<vars, receiveVars, frameVars, recordingVars, wavVars>>
       \/ /\ part = "split" /\ AnnexBNALUs
          /\ UNCHANGED <<vars, receiveVars, rtcpVars, recordingVars, wavVars>>
       \/ /\ part = "frames" /\ FramesNext
          /\ UNCHANGED <<vars, receiveVars, rtcpVars, recordingVars, wavVars>>
       \/ /\ part = "recording" /\ RecordingNext
          /\ UNCHANGED <<vars, receiveVars, rtcpVars, frameVars, wavVars>>
       \/ /\ part = "wav" /\ WavNext
          /\ UNCHANGED <<vars, receiveVars, rtcpVars, frameVars, recordingVars>>

MediaSpec == MediaInit /\ [][MediaNext]_MediaVars

\* The goroutines of the relays are interchangeable.
Symmetry == Permutations(Threads)
=============================================================================
