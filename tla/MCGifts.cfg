SPECIFICATION Spec
CONSTANTS
  u1 = u1
  u2 = u2
  i1 = i1
  i2 = i2
  None = None
  Gone = Gone
  Users <- MCUsers
  ItemIds <- MCItemIds
  Calls = {c1, c2, c3}
  Requests <- MCRequests
  Price = 1
  TopUp = 2
  MaxFunds <- MCMaxFunds
  InitFunds <- MCInitFunds
  InitBags <- MCInitBags
SYMMETRY MCSymmetry
INVARIANTS TypeOK ChargesRight BagExact
PROPERTY GiftsSurviveDelisting
CHECK_DEADLOCK FALSE
