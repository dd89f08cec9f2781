SPECIFICATION Spec
CONSTANTS
    Devices = {d1, d2}
    NoDevice = NoDevice
    PeerJid = PeerJid
    NoSrtp = NoSrtp
    Directions = {"outgoing", "incoming"}
    OfferRelays = {"undialable", "dialable"}
    HoldStates = {"active"}
    Stanzas = {"accept", "terminate", "transport", "latency"}
CHECK_DEADLOCK FALSE
SYMMETRY DeviceSymmetry
INVARIANTS
    KeysFollowAnswerer
    HoldMatchesState
    
    
PROPERTY ImplementsCall
