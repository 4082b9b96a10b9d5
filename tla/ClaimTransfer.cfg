SPECIFICATION Spec
CONSTANTS
  Users = {u1, u2}
  Refs = {r1, r2}
  NULL = NULL
  Kinds = {"transfer"}
  Amounts = {1, 2}
  Packages <- MCPackages
  CardPrices = {2}
  AdminBalances <- MCAdminBalances
  InitBalances = {2}
  MaxGen = 0
  Exclusive = FALSE
  Faults = FALSE
CHECK_DEADLOCK FALSE
PROPERTIES TransfersConserveVex
