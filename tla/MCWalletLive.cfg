SPECIFICATION FairSpec
CONSTANTS
  Users = {u1, u2}
  Refs = {r1, r2}
  NULL = NULL
  Kinds = {"transfer", "withdraw"}
  Amounts = {1, 2}
  Packages <- MCPackages
  CardPrices = {2}
  AdminBalances <- MCAdminBalances
  InitBalances = {2}
  MaxGen = 1
  Exclusive = FALSE
  Faults = FALSE
CHECK_DEADLOCK FALSE
PROPERTIES PaidIsRecorded EveryCallAnswered
