SPECIFICATION Spec
CONSTANTS
    SymBits = 2
    CodeBits = 8
    UintBits = 2
    Symbols <- MCSymbols
    MaxSymbols = 4
    Sizes = {3, 7}
    Coefs = 2
    SubLen = 2
    PosPer = 2
    SignBatch = 3
    BlockSize = 4
    Contours <- MCContours
    GainWeight <- MCGainWeight
    Parameters <- MCParameters
    MaxPackets = 2
    Frames <- MCFrames
    MaxContained = 8
    PerPacket = 3
    VarBase = 4
    Streams <- MCStreams
    Blobs = {0, 1, 4, 5}
    MaxReply = 2
    Devices <- MCDevices
    RelayParts <- MCRelayParts
    Users <- MCUsers
    MaxParts = 4
    LatencyBase = 8
    Latencies = {3, 8, 11}
CHECK_DEADLOCK FALSE
INVARIANTS
    DecodesWhatWasEncoded
    DecoderInStep
    
    StunUnderstood
    StanzasUnderstood
