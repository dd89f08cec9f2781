SPECIFICATION Spec
CONSTANTS
    Devices = {d1}
    NoDevice = NoDevice
    PeerJid = PeerJid
    NoSrtp = NoSrtp
    Directions = {"incoming"}
    OfferRelays = {"undialable", "dialable"}
    HoldStates = {"active"}
    Stanzas = {"accept", "terminate", "transport", "latency"}
CHECK_DEADLOCK FALSE
INVARIANT
    EndedCallReleased
