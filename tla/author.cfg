SPECIFICATION Spec
CONSTANTS
    Drafts <- SomeDrafts
    Requests <- SomeRequests
    PeerFrames <- SomePeers
    NPeers = 2
    Keyed = {}
    MaxAttempts = 2
    MaxFaults = 2
INVARIANTS TypeOK RightPeersAcceptRight WholeUnlessUnwitnessed
INVARIANTS OneBadPeerConvictsNobody ProxyRemoved
CHECK_DEADLOCK FALSE
