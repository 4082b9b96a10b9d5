SPECIFICATION Spec
CONSTANTS
    h = h
    u = u
    v = v
    c1 = c1
    c2 = c2
    c3 = c3
    None = None
    Users <- MCUsers
    RoomUsers <- MCParty
    RoomHost = h
    RoomRequests <- MCRoomRequests
    MaxParticipants = 2
    EventUsers <- MCHostAndUser
    Creator = h
    Limits <- MCLimits
    ClanUsers <- MCUser
    MaxClans = 1
    MaxMemberships = 2
    Sockets <- MCThree
    OwnerOf <- MCOwnerOf
    SocketRooms = {1}
    Walls <- MCWalls
    Ties <- MCTies
    FeedRequests <- MCFeedRequests
    MaxLimit = 2
    MaxPerAuthor = 1
    MaxFeedMoves = 1
    TouchedPosts = {2}
    MaxNotes = 2
    Moves <- MCThird
    MaxMoneyMoves = 1
    Photos = {1}
    AlbumOf <- MCAlbumOf
    Lifetime = 1
    MaxTime = 1
    Walkers <- MCThird
    Size = 2
    MaxRows = 3
    MaxChanges = 2
    MaxWrites = 2
    MaxWorth = 40
    Host = u
    SettingRequests <- MCSettingRequests
    CallsOn <- MCCallsOn
    MaxMemberMoves = 1
    Calls <- MCThree
    FewCalls <- MCTwo
SYMMETRY MCSymmetry
INVARIANTS
    TypeOK
    RoomsRight
    MembersRight
    ComputedRight
    ViewsTrue
CHECK_DEADLOCK FALSE
