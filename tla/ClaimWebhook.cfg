SPECIFICATION FairSpec
CONSTANTS
  Users = {u1}
  Refs = {t1}
  Handlers = {h1, h2}
  NULL = NULL
  OrderId <- MCOrderId
  Kinds = {"capture", "completed"}
  Amounts = {2}
  InitBalances = {1}
  MaxGen = 0
  Faults = TRUE
PROPERTIES WebhookSettles
CHECK_DEADLOCK FALSE
