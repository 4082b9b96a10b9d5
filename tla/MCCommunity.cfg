SPECIFICATION Spec
CONSTANTS
    a = a
    b = b
    dd = dd
    t = t
    c1 = c1
    c2 = c2
    c3 = c3
    c4 = c4
    None = None
    Users <- Pair
    Writers <- MCWriters
    GroupCalls <- MCTwo
    DirectCalls <- MCFour
    PostCalls <- MCThree
    GroupRequests <- MCGroupRequests
    DirectRequests <- MCDirectRequests
    PostRequests <- MCPostRequests
    MaxMembers = 3
    Legacy = TRUE
    Crashes = TRUE
    Tags <- MCTags
    Owner = a
SYMMETRY MCSymmetry
INVARIANTS
    TypeOK
    MembersParticipate
    SomeoneInCharge
    OneDirect
    ForwardsArrive
    PostListsCurrent
    TagsCounted
CHECK_DEADLOCK FALSE
