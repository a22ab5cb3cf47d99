SPECIFICATION FairSpec
CONSTANTS
    c1 = c1
    c2 = c2
    r1 = r1
    r2 = r2
    Clients <- MCClients
    PeerIds <- MCClients
    PeerOf <- MCPeerOf
    Rooms <- MCRooms
    Visits <- MCVisits
    NoRoom = NoRoom
    Mappings <- MCMappings
    TTL = 1
    ReapEvery = 0
INVARIANTS Isolation TableTracksReality
PROPERTIES BecomesReachable AbandonedRoomErased
