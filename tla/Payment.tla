------------------------------- MODULE Payment --------------------------------
(***************************************************************************)
(* Buying Diamonds or VEX with PayPal: checkoutRecharge of                 *)
(* src/src/modules/wallet opens a pending transaction and a PayPal order;  *)
(* the controllers of src/src/modules/payment capture the order and credit *)
(* the wallet.  Three endpoints capture and credit, two cancel, and a      *)
(* webhook reports what PayPal did; clients, browsers and PayPal call them *)
(* in any order and at the same time.  One step per await, one per         *)
(* $transaction.                                                           *)
(***************************************************************************)
EXTENDS Ledger

CONSTANTS
  Handlers,      \* invocations of the payment endpoints
  Kinds,         \* the endpoints called in a model
  OrderId,       \* PayPal's id of the order of a transaction (external)
  Amounts,       \* what a recharge package adds to the wallet
  InitBalances,  \* balances of the wallets that exist at the start
  MaxGen,        \* bound: how often a wallet may be deleted
  Faults         \* TRUE: errors, lost answers and crashes happen

(* The endpoints that call captureOrder: POST /payment/capture,
   GET /payment-redirect/success, GET /payment/success. *)
Capturing == {"capture", "redirect", "hook"}

(* GET /payment/cancel, GET /payment-redirect/cancel (the cancel_url of every
   order), and the webhook events PAYMENT.CAPTURE.COMPLETED and
   PAYMENT.CAPTURE.DENIED. *)
AllKinds == Capturing \cup {"cancel", "cancelPage", "completed", "denied"}

Webhooks == {"completed", "denied"}

(* Their callers name the PayPal order and the transaction one by one. *)
NamesBoth == {"capture", "redirect"}

(* A reference_id is `TX<time>-<random>', never the id PayPal draws. *)
ASSUME PaymentAssumption ==
  /\ Kinds \subseteq AllKinds
  /\ NULL \notin Refs
  /\ \A t \in Refs : OrderId[t] \notin Refs
  /\ Amounts \subseteq Nat \ {0}
  /\ InitBalances \subseteq Nat
  /\ MaxGen \in Nat
  /\ Faults \in BOOLEAN

VARIABLES
  deposit,   \* the wallet and the amount each checkout is for
  place,     \* the await each checkout is at
  opened,    \* the wallet row it found or created
  order,     \* PayPal's order of each transaction (external)
  call,      \* the endpoint each handler serves, the order and the transaction
             \* it is called with
  pc,        \* the await each handler is at
  held,      \* the wallet row it has read
  credits,   \* history: handlers whose commit credited a transaction
  due,       \* history: what each wallet had, and the credits made to it since
  mixed      \* history: wallets two credits of which overlapped

checkoutVars == <<deposit, place, opened>>
sums == <<due, mixed>>
vars == <<wallet, ledger, deposit, place, opened, order, call, pc, held, credits,
          due, mixed>>
-----------------------------------------------------------------------------
Places == {"idle", "create", "insert", "order", "done", "failed"}
Orders == {"none", "created", "approved", "captured"}
PCs    == {"idle", "lookup", "read", "commit", "markFailed", "done", "failed"}

(* The order a handler captures, by its transaction, and the transaction whose
   row it looks up: nothing compares them.  The success page alone takes the
   reference_id that PayPal's order carries, so it looks up its own order's. *)
Token(h)  == call[h].token
Txn(h)    == call[h].txn
Target(h) == deposit[Txn(h)].wallet

(* A transaction has been credited, by whichever call. *)
Credited(t) == \E h \in credits : Txn(h) = t

(* reference_id of the row a handler looks up: a webhook handler takes the
   order id of the event for one. *)
LookupKey(c) == IF c.kind \in Webhooks THEN OrderId[c.token] ELSE c.txn

(* Mutant: every endpoint takes 'failed' for final. *)
WillCreditPending(kind, status) ==
  kind \in {"capture", "redirect", "hook", "completed"} /\ status = "pending"

(* Whether a handler credits a row of that status: the capturing endpoints
   refuse 'success' only, updateTransactionAndWallet all but 'pending'. *)
WillCredit(kind, status) ==
  \/ kind \in {"capture", "redirect"} /\ status # "success"
  \/ kind \in {"hook", "completed"} /\ status = "pending"

WillFail(kind, status) == kind \in {"cancel", "denied"} /\ status = "pending"

AfterLookup(kind, status) ==
  IF WillCredit(kind, status) THEN "read"
  ELSE IF WillFail(kind, status) THEN "markFailed" ELSE "done"

Advance(t, where) == place' = [place EXCEPT ![t] = where]
Goto(h, where)    == pc' = [pc EXCEPT ![h] = where]

(* Mutant: a credited row gets the status of PayPal, 'completed'. *)
UpdatedAsPayPal(t, status, after) ==
  {IF row.ref = t
   THEN [row EXCEPT !.status = IF status = "success" THEN "completed" ELSE status,
                    !.after = after]
   ELSE row : row \in ledger}

(* resWalletTransaction.update on the row of t, by its id. *)
Updated(t, status, after) ==
  {IF row.ref = t THEN [row EXCEPT !.status = status, !.after = after] ELSE row :
     row \in ledger}
-----------------------------------------------------------------------------
(***************************************************************************)
(* checkoutRecharge                                                        *)
(***************************************************************************)
FindWallet(t) ==
  LET w == deposit[t].wallet IN
  /\ place[t] = "idle"
  /\ IF wallet[w].live
     THEN opened' = [opened EXCEPT ![t] = wallet[w]] /\ Advance(t, "insert")
     ELSE Advance(t, "create") /\ UNCHANGED opened
  /\ UNCHANGED <<wallet, ledger, deposit, order, call, pc, held, credits, sums>>

(* create(), or P2002 when another request has created the wallet. *)
CreateWallet(t) ==
  LET w == deposit[t].wallet IN
  /\ place[t] = "create"
  /\ IF wallet[w].live
     THEN Advance(t, "failed") /\ UNCHANGED <<wallet, opened>>
     ELSE /\ wallet' = [wallet EXCEPT ![w] = NewWallet(w, 0)]
          /\ opened' = [opened EXCEPT ![t] = NewWallet(w, 0)]
          /\ Advance(t, "insert")
  /\ UNCHANGED <<ledger, deposit, order, call, pc, held, credits, sums>>

PendingRow(t) ==
  [ref |-> t, wallet |-> deposit[t].wallet, type |-> "deposit",
   amount |-> deposit[t].amount, before |-> opened[t].bal,
   after |-> NULL, status |-> "pending"]

(* The insert needs the wallet it found (foreign key). *)
InsertRow(t) ==
  /\ place[t] = "insert"
  /\ IF SameRow(deposit[t].wallet, opened[t])
     THEN ledger' = ledger \cup {PendingRow(t)} /\ Advance(t, "order")
     ELSE Advance(t, "failed") /\ UNCHANGED ledger
  /\ UNCHANGED <<wallet, deposit, opened, order, call, pc, held, credits, sums>>

(* createOrder; when it throws, checkoutRecharge answers without a link and
   nobody can pay the order. *)
CreateOrder(t) ==
  /\ place[t] = "order"
  /\ Advance(t, "done")
  /\ \/ order' = [order EXCEPT ![t] = "created"]
     \/ Faults /\ UNCHANGED order
  /\ UNCHANGED <<wallet, ledger, deposit, opened, call, pc, held, credits, sums>>

(* A query of the checkout throws, or its process dies. *)
BreakCheckout(t) ==
  /\ Faults
  /\ place[t] \in {"create", "insert", "order"}
  /\ Advance(t, "failed")
  /\ UNCHANGED <<wallet, ledger, deposit, opened, order, call, pc, held, credits, sums>>

(* The buyer approves the payment on PayPal's page. *)
Approve(t) ==
  /\ order[t] = "created"
  /\ order' = [order EXCEPT ![t] = "approved"]
  /\ UNCHANGED <<wallet, ledger, checkoutVars, call, pc, held, credits, sums>>
-----------------------------------------------------------------------------
(***************************************************************************)
(* The payment endpoints                                                   *)
(***************************************************************************)

(* captureOrder: PayPal captures an approved order once.  Its answer may be
   lost, and the handler then ends with the money taken. *)
Capture(h) ==
  /\ pc[h] = "idle"
  /\ call[h].kind \in Capturing
  /\ order[Token(h)] = "approved"
  /\ order' = [order EXCEPT ![Token(h)] = "captured"]
  /\ Goto(h, "lookup") \/ (Faults /\ Goto(h, "failed"))
  /\ UNCHANGED <<wallet, ledger, checkoutVars, call, held, credits, sums>>

(* Mutant: an error of captureOrder is taken for an order captured already. *)
CaptureErrorIgnored(h) ==
  /\ pc[h] = "idle"
  /\ call[h].kind \in Capturing
  /\ order[Token(h)] \in {"created", "captured"}
  /\ Goto(h, "lookup")
  /\ UNCHANGED <<wallet, ledger, checkoutVars, order, call, held, credits, sums>>

(* captureOrder throws: not approved yet, captured already, no connection. *)
CaptureThrows(h) ==
  /\ pc[h] = "idle"
  /\ call[h].kind \in Capturing
  /\ \/ order[Token(h)] \in {"created", "captured"}
     \/ Faults /\ order[Token(h)] = "approved"
  /\ Goto(h, "failed")
  /\ UNCHANGED <<wallet, ledger, checkoutVars, order, call, held, credits, sums>>

(* The page PayPal sends a buyer to who cancels: it touches no table. *)
CancelPage(h) ==
  /\ pc[h] = "idle"
  /\ call[h].kind = "cancelPage"
  /\ order[Txn(h)] = "created"
  /\ Goto(h, "done")
  /\ UNCHANGED <<wallet, ledger, checkoutVars, order, call, held, credits, sums>>

(* Where a handler looks its transaction up: after the capture, or at once
   (the buyer knows the transaction when the checkout has answered, PayPal
   sends events of orders it has). *)
AtLookup(h) ==
  IF call[h].kind \in Capturing THEN pc[h] = "lookup"
  ELSE /\ pc[h] = "idle"
       /\ call[h].kind # "cancelPage"
       /\ place[Txn(h)] = "done"
       /\ call[h].kind \in Webhooks => order[Token(h)] = "captured"

(* findFirst({ where: { reference_id } }) finds the transaction. *)
Lookup(h) ==
  /\ AtLookup(h)
  /\ \E row \in ledger :
       /\ row.ref = LookupKey(call[h])
       /\ Goto(h, AfterLookup(call[h].kind, row.status))
       /\ held' = [held EXCEPT ![h] = wallet[row.wallet]]
  /\ UNCHANGED <<wallet, ledger, checkoutVars, order, call, credits, sums>>

(* It finds nothing, and the handler ends: no such row, no transaction in the
   call, or for POST /payment/capture one of another user (both NULL). *)
LookupMiss(h) ==
  /\ AtLookup(h)
  /\ \A row \in ledger : row.ref # LookupKey(call[h])
  /\ Goto(h, "done")
  /\ UNCHANGED <<wallet, ledger, checkoutVars, order, call, held, credits, sums>>

(* A handler holds the balance of a wallet that is still there. *)
InFlight(h) == pc[h] = "commit" /\ SameRow(Target(h), held[h])

(* The wallet is a second query, also where it is an `include': its balance
   may be newer than the status. *)
ReadWallet(h) ==
  /\ pc[h] = "read"
  /\ IF SameRow(Target(h), held[h])
     THEN /\ held' = [held EXCEPT ![h] = wallet[Target(h)]]
          /\ Goto(h, "commit")
          /\ mixed' = IF \E g \in Handlers : InFlight(g) /\ Target(g) = Target(h)
                      THEN mixed \cup {Target(h)} ELSE mixed
     ELSE Goto(h, "done") /\ UNCHANGED <<held, mixed>>
  /\ UNCHANGED <<wallet, ledger, checkoutVars, order, call, credits, due>>

(* Mutant: the credit is added to the balance_before of the transaction. *)
NewBalanceFromRow(h) == opened[Txn(h)].bal + deposit[Txn(h)].amount

NewBalance(h) == held[h].bal + deposit[Txn(h)].amount

(* The $transaction: the absolute balance, then status and balance_after, by
   id.  When the answer of its COMMIT is lost the handler answers with an error,
   which changes nothing here. *)
Commit(h) ==
  /\ InFlight(h)
  /\ wallet' = [wallet EXCEPT ![Target(h)].bal = NewBalance(h)]
  /\ ledger' = Updated(Txn(h), "success", NewBalance(h))
  /\ credits' = credits \cup {h}
  /\ due' = [due EXCEPT ![Target(h)] = @ + deposit[Txn(h)].amount]
  /\ Goto(h, "done")
  /\ UNCHANGED <<checkoutVars, order, call, held, mixed>>

(* The wallet it updates is gone (P2025). *)
CommitThrows(h) ==
  /\ pc[h] = "commit"
  /\ ~SameRow(Target(h), held[h])
  /\ Goto(h, "failed")
  /\ UNCHANGED <<wallet, ledger, checkoutVars, order, call, held, credits, sums>>

(* Mutant: the cancellation resets balance_after. *)
MarkFailedResets(h) ==
  /\ pc[h] = "markFailed"
  /\ IF SameRow(Target(h), held[h])
     THEN ledger' = Updated(Txn(h), "failed", NULL) /\ Goto(h, "done")
     ELSE Goto(h, "failed") /\ UNCHANGED ledger
  /\ UNCHANGED <<wallet, checkoutVars, order, call, held, credits, sums>>

(* update({ status: 'failed' }) of the row found pending, by id: whatever its
   status is now, and with the balance_after it has. *)
MarkFailed(h) ==
  /\ pc[h] = "markFailed"
  /\ IF SameRow(Target(h), held[h])
     THEN /\ \E row \in ledger :
               /\ row.ref = Txn(h)
               /\ ledger' = Updated(Txn(h), "failed", row.after)
          /\ Goto(h, "done")
     ELSE Goto(h, "failed") /\ UNCHANGED ledger
  /\ UNCHANGED <<wallet, checkoutVars, order, call, held, credits, sums>>

(* A query of the handler throws and rolls back, or its process dies. *)
Break(h) ==
  /\ Faults
  /\ pc[h] \in {"lookup", "read", "commit", "markFailed"}
  /\ Goto(h, "failed")
  /\ UNCHANGED <<wallet, ledger, checkoutVars, order, call, held, credits, sums>>

(* deleteWallet(user_id) of the wallet administration. *)
Delete(u) ==
  /\ \E w \in Wallets : w[1] = u /\ wallet[w].live
  /\ \A w \in Wallets : w[1] = u => wallet[w].gen < MaxGen
  /\ DeleteWallets(u)
  /\ due' = [w \in Wallets |-> IF w[1] = u THEN 0 ELSE due[w]]
  /\ mixed' = {w \in mixed : w[1] # u}
  /\ UNCHANGED <<checkoutVars, order, call, pc, held, credits>>
-----------------------------------------------------------------------------
NoRow    == [live |-> FALSE, gen |-> 0, bal |-> 0]
Deposits == [wallet : Wallets, amount : Amounts]

(* NULL: no transaction of the caller.  A PayPal order belongs to the
   transaction it was created for (orders of /payment/test are left out). *)
Calls ==
  {c \in [kind : AllKinds, token : Refs, txn : Refs \cup {NULL}] :
     c.kind \notin NamesBoth => c.txn = c.token}

Init ==
  /\ wallet \in [Wallets -> {NoRow} \cup [live : {TRUE}, gen : {0}, bal : InitBalances]]
  /\ ledger = {}
  /\ deposit \in [Refs -> Deposits]
  /\ place = [t \in Refs |-> "idle"]
  /\ opened = [t \in Refs |-> NoRow]
  /\ order = [t \in Refs |-> "none"]
  /\ call \in [Handlers -> {c \in Calls : c.kind \in Kinds}]
  /\ pc = [h \in Handlers |-> "idle"]
  /\ held = [h \in Handlers |-> NoRow]
  /\ credits = {}
  /\ due = [w \in Wallets |-> wallet[w].bal]
  /\ mixed = {}

CheckoutStep(t) == FindWallet(t) \/ CreateWallet(t) \/ InsertRow(t) \/ CreateOrder(t)

Step(h) ==
  \/ Capture(h) \/ CaptureThrows(h) \/ CancelPage(h)
  \/ Lookup(h) \/ LookupMiss(h) \/ ReadWallet(h)
  \/ Commit(h) \/ CommitThrows(h) \/ MarkFailed(h)

Next ==
  \/ \E t \in Refs : CheckoutStep(t) \/ BreakCheckout(t) \/ Approve(t)
  \/ \E h \in Handlers : Step(h) \/ Break(h)
  \/ \E u \in Users : Delete(u)

Spec == Init /\ [][Next]_vars

(* Every await of a running handler settles.  Nobody has to approve a payment
   or to call an endpoint. *)
FairSpec ==
  /\ Spec
  /\ \A t \in Refs : WF_vars(place[t] # "idle" /\ CheckoutStep(t))
  /\ \A h \in Handlers : WF_vars(pc[h] # "idle" /\ Step(h))
-----------------------------------------------------------------------------
TypeOK ==
  /\ TablesOK
  /\ deposit \in [Refs -> Deposits]
  /\ place \in [Refs -> Places]
  /\ opened \in [Refs -> WalletRow]
  /\ order \in [Refs -> Orders]
  /\ call \in [Handlers -> Calls]
  /\ pc \in [Handlers -> PCs]
  /\ held \in [Handlers -> WalletRow]
  /\ credits \subseteq Handlers
  /\ due \in [Wallets -> Int]
  /\ mixed \subseteq Wallets

(* The money of one PayPal order is credited at most once, whichever
   transactions the calls that present it name, however many of the three
   capturing endpoints, the cancel page and the webhook run at once, and
   although each reads the status outside the transaction that writes it.  (A
   transaction may be credited twice, by calls that present two paid orders:
   the endpoints compare neither the order with the transaction nor the
   amounts.) *)
CreditedOnce == \A g, h \in credits : Token(g) = Token(h) => g = h

(* Nothing is credited by a call whose order PayPal has not taken the money
   for; so a transaction credited by calls that name it with its own order was
   paid. *)
CreditIsPaid ==
  /\ \A h \in credits : order[Token(h)] = "captured"
  /\ \A t \in Refs : /\ Credited(t)
                     /\ \A h \in Handlers : Txn(h) = t => Token(h) = t
                     => order[t] = "captured"

(* The balance_after of a transaction tells whether it was credited, whatever
   races did to its status; a 'success' row was credited, a 'pending' one was
   not. *)
RowTellsCredit ==
  \A row \in ledger :
    /\ row.after # NULL <=> Credited(row.ref)
    /\ row.status = "success" => Credited(row.ref)
    /\ row.status = "pending" => ~Credited(row.ref)

(* A transaction belongs to a wallet that exists: a checkout or a credit that
   holds a deleted wallet neither inserts nor updates a row, also when the
   wallet has been created again since. *)
RowsHaveWallets == \A row \in ledger : wallet[row.wallet].live

(* The wallet of a checkout was deleted after it was found. *)
Deleted(t) == wallet[deposit[t].wallet].gen # opened[t].gen

Cancelled(t) == \E row \in ledger : row.ref = t /\ row.status = "failed"

(* Without faults, a handler that has captured an order sees the transaction it
   looks up credited, by itself or by another, also when the buyer cancels
   meanwhile or credits overlap.  Two cases are the code's losses: the wallet
   is deleted, and the success page finds the row cancelled. *)
CapturedIsCredited ==
  \A h \in Handlers, t \in Refs :
    pc[h] = "lookup" /\ Txn(h) = t /\ (\E row \in ledger : row.ref = t) ~>
      \/ Credited(t) \/ Deleted(t)
      \/ call[h].kind = "hook" /\ Cancelled(t)
===============================================================================
