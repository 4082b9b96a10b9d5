\* Two payments, three handlers of an endpoint that names both the order and the
\* transaction, a cancellation and a webhook, crashes, lost answers, a deletion.
SPECIFICATION Spec
CONSTANTS
  Users = {u1}
  Refs = {t1, t2}
  Handlers = {h1, h2, h3}
  NULL = NULL
  OrderId <- MCOrderId
  Kinds = {"capture", "cancel", "completed"}
  Amounts = {2}
  InitBalances = {1}
  MaxGen = 1
  Faults = TRUE
SYMMETRY MCSymmetry
INVARIANTS TypeOK CreditedOnce CreditIsPaid RowTellsCredit
CHECK_DEADLOCK FALSE
