------------------------------- MODULE WavFile -------------------------------
(***************************************************************************)
(* The hold music: the upload of a WAV file (handleHoldMusicUpload), which *)
(* is parsed strictly, brought to 16 kHz mono and stored, and its loading  *)
(* for the player, which reads leniently (media/wavparse.go, media/pcm.go, *)
(* assets.go).  A file is a sequence of bytes; a number of several bytes   *)
(* is in the first of them.  A sample is a whole number of the steps of a  *)
(* signed integer of SampleMax + 1 positive values; averages and           *)
(* interpolations are rounded down where the code has floats.              *)
(***************************************************************************)
EXTENDS Integers, Sequences, SequencesExt

CONSTANTS
    SampleMax,     \* the largest sample: 32767 in the code
    RecRate,       \* the rate of the player: 16000
    MinRate,       \* rates an upload may have: 8000
    MaxRate,       \* to 48000
    UploadChunks,  \* chunks an uploaded file may have
    MaxChunks      \* how many, a bound

VARIABLES
    upload,   \* chunks of the file and the number of its bytes that came
    stored,   \* hold-music.wav, <<>> for none
    verdict   \* "none", "refused" or "stored"

wavVars == <<upload, stored, verdict>>

WavInit == upload = [chunks |-> <<>>, came |-> 0] /\ stored = <<>> /\ verdict = "none"

None(n) == [i \in 1..n |-> <<0>>]
Value(v, n) == <<<<v>>>> \o None(n - 1)
Id(name) == <<<<"id", name>>>> \o None(3)

At(raw, off) == raw[off + 1][1]
HasId(raw, off, name) == raw[off + 1] = <<"id", name>>

-----------------------------------------------------------------------------
(* Samples.                                                                *)

Trunc(n, d) == IF n >= 0 THEN n \div d ELSE -((-n) \div d)

\* A float of k / (SampleMax + 1) as an integer: clamped, scaled, cut off.
floatToInt16(k) ==
    IF k > SampleMax THEN SampleMax
    ELSE IF k <= -(SampleMax + 1) THEN -(SampleMax + 1)
    ELSE Trunc(k * SampleMax, SampleMax + 1)

PCMFloat32ToInt16LE(pcm) == FlattenSeq([i \in 1..Len(pcm) |-> Value(floatToInt16(pcm[i]), 2)])

PCMInt16LEToFloat32(b) == [i \in 1..Len(b) \div 2 |-> b[2 * i - 1][1]]

SumOf(s) == FoldLeft(LAMBDA a, b : a + b, 0, s)

downmix(in, channels) ==
    [i \in 1..Len(in) \div channels |->
        SumOf(SubSeq(in, (i - 1) * channels + 1, i * channels)) \div channels]

\* The window is shorter at the end.
boxAverage(in, width) ==
    IF width < 2 THEN in
    ELSE [i \in 1..Len(in) |->
            LET end == IF i + width - 1 < Len(in) THEN i + width - 1 ELSE Len(in)
                window == SubSeq(in, i, end)
            IN SumOf(window) \div Len(window)]

resampleLinear(in, src, dst) ==
    [n \in 1..(Len(in) * dst) \div src |->
        LET j == ((n - 1) * src) \div dst
            frac == ((n - 1) * src) % dst
        IN IF j + 1 >= Len(in) THEN Last(in)
           ELSE (in[j + 1] * (dst - frac) + in[j + 2] * frac) \div dst]

Mono16k(w) ==
    LET mono == IF w.channels > 1 THEN downmix(w.samples, w.channels) ELSE w.samples
        smooth == IF w.rate > RecRate THEN boxAverage(mono, w.rate \div RecRate) ELSE mono
    IN IF w.rate = RecRate THEN mono ELSE resampleLinear(smooth, w.rate, RecRate)

-----------------------------------------------------------------------------
(* Files.                                                                  *)

\* wavHeader16kMono and the samples.
EncodeWav16kMono(pcm) ==
    LET body == PCMFloat32ToInt16LE(pcm)
    IN Id("RIFF") \o Value(36 + Len(body), 4) \o Id("WAVE")
       \o Id("fmt ") \o Value(16, 4) \o Value(1, 2) \o Value(1, 2) \o Value(RecRate, 4)
       \o Value(RecRate * 2, 4) \o Value(2, 2) \o Value(16, 2)
       \o Id("data") \o Value(Len(body), 4) \o body

NotTaken == [ok |-> FALSE]

\* Mutant: a chunk follows the last byte of the one before.
NextChunk_Unaligned(body, size) == body + size

NextChunk(body, size) == body + size + (size % 2)

\* The format a fmt chunk names: an extensible one names it in its extension.
Format(raw, body, size) ==
    IF At(raw, body) = 65534 /\ size >= 40 THEN At(raw, body + 24) ELSE At(raw, body)

\* The chunks from offset 12 on, to the first that claims more bytes than there are.
Walk(raw) ==
    LET from[off \in 12..Len(raw) + 2] ==
            IF off + 8 > Len(raw) THEN <<>>
            ELSE LET c == [off |-> off, body |-> off + 8, size |-> At(raw, off + 4)]
                 IN <<c>> \o IF c.body + c.size > Len(raw) THEN <<>>
                             ELSE from[NextChunk(c.body, c.size)]
    IN from[12]

ParseWavStrict(raw) ==
    LET chunks == Walk(raw)
        named(name) == SelectSeq(chunks, LAMBDA c : HasId(raw, c.off, name))
        fmts == named("fmt ")
        datas == named("data")
        bad(c) == \/ c.body + c.size > Len(raw)
                  \/ HasId(raw, c.off, "fmt ")
                     /\ (c.size < 16 \/ Format(raw, c.body, c.size) # 1)
        fmt == Last(fmts).body
        data == IF datas = <<>> THEN <<>>
                ELSE SubSeq(raw, Last(datas).body + 1, Last(datas).body + Last(datas).size)
        w == [ok |-> TRUE, channels |-> At(raw, fmt + 2), rate |-> At(raw, fmt + 4),
              samples |-> PCMInt16LEToFloat32(data)]
    IN IF Len(raw) < 12 THEN NotTaken
       ELSE IF ~HasId(raw, 0, "RIFF") \/ ~HasId(raw, 8, "WAVE") THEN NotTaken
       ELSE IF fmts = <<>> \/ \E i \in DOMAIN chunks : bad(chunks[i]) THEN NotTaken
       ELSE IF \/ At(raw, fmt + 14) # 16 \/ w.channels \notin 1..2
               \/ w.rate < MinRate \/ w.rate > MaxRate \/ Len(data) < 2 * w.channels
       THEN NotTaken ELSE w

\* The player's reader looks for the data chunk byte by byte.
ReadWavFloat32FromBytes(raw) ==
    LET marks == {idx \in 36..Len(raw) - 9 : HasId(raw, idx, "data")}
        idx == CHOOSE i \in marks : \A k \in marks : i <= k
        claimed == idx + 8 + At(raw, idx + 4)
        end == IF claimed > Len(raw) THEN Len(raw) ELSE claimed
    IN IF Len(raw) < 44 THEN <<>>
       ELSE PCMInt16LEToFloat32(IF marks = {} THEN SubSeq(raw, 45, Len(raw))
                                ELSE SubSeq(raw, idx + 9, end))

-----------------------------------------------------------------------------
(* An upload.                                                              *)

\* The bodies of the chunks of a file: a format, samples, or anything else.
Body(c) ==
    IF c.id = "fmt "
    THEN Value(c.format, 2) \o Value(c.channels, 2) \o Value(c.rate, 4) \o None(6)
         \o Value(c.depth, 2)
         \o IF c.format # 65534 THEN <<>> ELSE None(8) \o Value(c.codec, 2) \o None(14)
    ELSE IF c.id = "data" THEN FlattenSeq([i \in 1..Len(c.samples) |-> Value(c.samples[i], 2)])
    ELSE None(c.size)

Bytes(c) ==
    Id(c.id) \o Value(Len(Body(c)), 4) \o Body(c) \o None(Len(Body(c)) % 2)

File(chunks) ==
    LET all == FlattenSeq([i \in 1..Len(chunks) |-> Bytes(chunks[i])])
    IN Id("RIFF") \o Value(4 + Len(all), 4) \o Id("WAVE") \o all

handleHoldMusicUpload(chunks, came) ==
    LET info == ParseWavStrict(SubSeq(File(chunks), 1, came)) IN
    /\ upload' = [chunks |-> chunks, came |-> came]
    /\ IF info.ok THEN stored' = EncodeWav16kMono(Mono16k(info)) /\ verdict' = "stored"
                  ELSE UNCHANGED stored /\ verdict' = "refused"

WavNext ==
    /\ verdict = "none"
    /\ \E n \in 0..MaxChunks : \E chunks \in [1..n -> UploadChunks] :
            \E came \in 0..Len(File(chunks)) : handleHoldMusicUpload(chunks, came)

-----------------------------------------------------------------------------
(* Properties.                                                             *)

\* Where chunk i of the upload begins, and whether all of it came.
Begin(i) == Len(File(SubSeq(upload.chunks, 1, i - 1)))
Came(i) == Begin(i) + 8 + Len(Body(upload.chunks[i])) <= upload.came
Torn(i) == Begin(i) + 8 <= upload.came /\ ~Came(i)

Of(name) == {i \in DOMAIN upload.chunks : upload.chunks[i].id = name /\ Came(i)}
Latest(S) == upload.chunks[CHOOSE i \in S : \A k \in S : k <= i]

Lowest(s) == CHOOSE v \in Range(s) : \A u \in Range(s) : v <= u
Highest(s) == CHOOSE v \in Range(s) : \A u \in Range(s) : u <= v

\* An upload is taken only when no chunk is torn and its last format and samples are
\* usable, and then the player finds a recording as long as the upload at its own rate,
\* within the range of the uploaded samples, and for a mono upload at the player's rate
\* the uploaded samples themselves, to one step (ParseWavStrict, Mono16k,
\* EncodeWav16kMono, LoadHoldMusic).
UploadPlays ==
    LET f == Latest(Of("fmt "))
        samples == Latest(Of("data")).samples
        played == ReadWavFloat32FromBytes(stored)
        frames == Len(samples) \div f.channels
        usable == /\ upload.came >= 12
                  /\ Of("fmt ") # {} /\ Of("data") # {}
                  /\ ~\E i \in DOMAIN upload.chunks : Torn(i)
                  /\ \A i \in Of("fmt ") :
                        LET c == upload.chunks[i]
                        IN IF c.format = 65534 THEN c.codec = 1 ELSE c.format = 1
                  /\ f.depth = 16 /\ f.channels \in 1..2 /\ f.rate \in MinRate..MaxRate
                  /\ frames > 0
    IN /\ verdict # "none" => (verdict = "stored") = usable
       /\ verdict = "stored" =>
            /\ Len(played) = (frames * RecRate) \div f.rate
            /\ \A i \in DOMAIN played :
                    /\ played[i] >= Lowest(samples) - 1 /\ played[i] <= Highest(samples) + 1
                    /\ (f.rate = RecRate /\ f.channels = 1) => played[i] - samples[i] \in -1..1
=============================================================================
