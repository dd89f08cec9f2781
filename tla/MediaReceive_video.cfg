SPECIFICATION ReceiveSpec
CONSTANTS
    Half = 2
    RocMod = 4
    ReplayWindowSize = 2
    Ssrcs = {a, v}
    NoSsrc = NoSsrc
    Video = {v}
    Undecodable = {}
    Announced = {a}
    PerStream = 1
    RingLen = 2
    Threads = {t1, t2}
    FailoverSilence = 1
    MaxNow = 2
CHECK_DEADLOCK FALSE
INVARIANT
    VideoNotRefused
