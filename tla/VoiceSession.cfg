SPECIFICATION SessionSpec
CONSTANTS
    s1 = s1
    s2 = s2
    s3 = s3
    u1 = u1
    u2 = u2
    u3 = u3
    Sockets <- MCSockets
    Users <- MCUsers
    UserOf <- MCUserOf
    r1 = r1
    r2 = r2
    Rooms <- MCRooms
    Members <- MCMembers
    NoRoom = NoRoom
    MaxSsrc = 4
    StartRoom = r1
    WithGui <- MCWithGui
INVARIANTS RegistryLive  InRoomHearsChat NoMissingPeer NoStalePeer
CHECK_DEADLOCK FALSE
