SPECIFICATION FairSpec
CONSTANTS
    Devices = {d1}
    NoDevice = NoDevice
    PeerJid = PeerJid
    NoSrtp = NoSrtp
    Directions = {"outgoing", "incoming"}
    OfferRelays = {"none", "dialable"}
    HoldStates = {"active"}
    Stanzas = {"accept", "terminate"}
CHECK_DEADLOCK FALSE
PROPERTIES
    CallEnds
    EndSettles
