SPECIFICATION Spec
CONSTANTS
  a = a
  b = b
  c1 = c1
  c2 = c2
  None = None
  Crashes = TRUE
  Users <- MCUsers
  Calls <- MCCalls
  Requests <- MCRequests
SYMMETRY MCSymmetry
INVARIANTS TypeOK FriendsFollowEachOther OneFriendRow FollowsTakeEffect CachedIsCurrent
PROPERTY BlockSeparates
