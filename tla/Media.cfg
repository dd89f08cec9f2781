SPECIFICATION MediaSpec
CONSTANTS
    Half = 3
    RocMod = 4
    ReplayWindowSize = 4
    MaxPackets = 14
    Ssrcs = {a, b, x}
    NoSsrc = NoSsrc
    Video = {}
    Undecodable = {x}
    Announced = {a}
    PerStream = 2
    RingLen = 2
    Threads = {t1, t2}
    FailoverSilence = 1
    MaxNow = 2
    SeqSpace = 6
    Late = 2
    MaxLost = 2
    MaxArrivals = 8
    TimeMod = 3
    MaxTime = 5
    MaxFrames = 2
    MaxBytes = 7
    MaxPayload = 4
    Bodies = {1, 4, 5}
    Types = {1, 5}
    MaxUnits = 2
    FrameSamples = 1
    MaxBuffered = 2
    Chunks = {1, 3}
    MaxFed = 3
    MaxRecorders = 2
    SampleMax = 7
    RecRate = 16
    MinRate = 8
    MaxRate = 48
    UploadChunks <- MCUploadChunks
    MaxChunks = 3
SYMMETRY Symmetry
CHECK_DEADLOCK FALSE
INVARIANTS
    NoReplay
    FreshIsAccepted
    IndexesDiffer
    HandledOnce
    ReportsMakeSense
    
    RecordingComplete
    UploadPlays
PROPERTY LockNotStolen
