SPECIFICATION Spec
CONSTANTS
  Users = {u1, u2}
  Refs = {r1, r2}
  NULL = NULL
  Kinds = {"transfer", "convert", "withdraw", "subscription", "set", "keep"}
  Amounts = {1, 2}
  Packages <- MCPackages
  CardPrices = {2}
  AdminBalances <- MCAdminBalances
  InitBalances = {2}
  MaxGen = 1
  Exclusive = FALSE
  Faults = TRUE
SYMMETRY MCSymmetry
INVARIANTS TypeOK NoOverdraft DebitHasPayout
PROPERTIES DiamondsMoveOnRecord
CHECK_DEADLOCK FALSE
