\* Two payments, any two endpoints and a wallet deletion, no faults: every step
\* is one of Recharge, and what is captured is credited.
SPECIFICATION FairSpec
CONSTANTS
  Users = {u1}
  Refs = {t1, t2}
  Handlers = {h1, h2}
  NULL = NULL
  OrderId <- MCOrderId
  Kinds = {"redirect", "hook", "cancel", "cancelPage", "completed", "denied"}
  Amounts = {2}
  InitBalances = {}
  MaxGen = 1
  Faults = FALSE
PROPERTIES ImplementsRecharge CapturedIsCredited
CHECK_DEADLOCK FALSE
