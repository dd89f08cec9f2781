SPECIFICATION TransportSpec
CONSTANTS
    Relays = {r1, r2}
    Conns = {c1, c2}
    NoConn = NoConn
    Dialers = {d1}
    MaxOpenRelays = 1
    MaxDialRelays = 2
    Devices = {"d0", "d1"}
    NoJid = ""
    MaxTimers = 1
    MaxInFlight = 2
CHECK_DEADLOCK FALSE
INVARIANTS
    OpenCap
    
    PeerVideoForwarded
PROPERTIES
    DialsEnd
    RelayLearnsStreams
