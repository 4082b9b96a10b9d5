---------------------------- MODULE Payment_proofs ----------------------------
(***************************************************************************)
(* Proofs about Payment for every set of users, payments, handlers and     *)
(* amounts, and for every interleaving, failure, crash and deletion; and   *)
(* that it implements Recharge.                                            *)
(***************************************************************************)
EXTENDS PaymentRecharge, TLAPS

(* A handler on its way to a credit. *)
Crediting(h) == pc[h] \in {"lookup", "read", "commit"}

(* It has captured its order itself, has credited nothing yet, and no other
   handler credits, or has credited, the money of the same order. *)
OneCrediter ==
  \A h \in Handlers : Crediting(h) =>
    /\ call[h].kind \in Capturing
    /\ order[Token(h)] = "captured"
    /\ h \notin credits
    /\ \A g \in Handlers :
         (Crediting(g) \/ g \in credits) /\ Token(g) = Token(h) => g = h

CreditsCaptured == \A h \in credits : order[Token(h)] = "captured"

(* The row is inserted before the order exists. *)
RowBeforeOrder ==
  \A t \in Refs : place[t] \in {"idle", "create", "insert", "order"} => order[t] = "none"

(* The checkout of a transaction has come past its insert. *)
Opened(t) == place[t] \in {"order", "done", "failed"}

(* A row, a handler that has found one and a credit come after that insert. *)
RowFirst ==
  /\ \A row \in ledger : Opened(row.ref)
  /\ \A h \in Handlers :
       pc[h] \in {"read", "commit", "markFailed"} \/ h \in credits =>
         Txn(h) \in Refs /\ Opened(Txn(h))

(* The inductive invariant: CreditedOnce needs OneCrediter, because a commit
   tests nothing; a new row needs RowFirst to tell that its transaction has not
   been credited, also not by calls that captured another order. *)
IInv ==
  /\ TypeOK
  /\ OneCrediter
  /\ CreditsCaptured
  /\ RowBeforeOrder
  /\ RowFirst
  /\ CreditedOnce
  /\ RowTellsCredit
  /\ RowsHaveWallets

-----------------------------------------------------------------------------
LEMMA InitialWallets ==
  ASSUME Init, NEW w \in Wallets
  PROVE  /\ wallet[w] \in WalletRow
         /\ wallet[w].bal \in Nat
         /\ ~wallet[w].live => wallet[w].bal = 0
<1>1. wallet[w] \in {NoRow} \cup [live : {TRUE}, gen : {0}, bal : InitBalances]
  BY DEF Init
<1>2. CASE wallet[w] = NoRow
  BY <1>2 DEF NoRow, WalletRow
<1>3. CASE wallet[w] \in [live : {TRUE}, gen : {0}, bal : InitBalances]
  <2>1. PICK b \in InitBalances : wallet[w] = [live |-> TRUE, gen |-> 0, bal |-> b]
    BY <1>3
  <2>2. b \in Nat
    BY PaymentAssumption
  <2>3. QED
    BY <2>1, <2>2 DEF WalletRow
<1>4. QED
  BY <1>1, <1>2, <1>3

LEMMA InitEstablishes == Init => IInv
<1> SUFFICES ASSUME Init PROVE IInv
  OBVIOUS
<1>1. wallet \in [Wallets -> WalletRow]
  <2>1. wallet = [w \in Wallets |-> wallet[w]]
    BY DEF Init
  <2>2. QED
    BY <2>1, InitialWallets
<1>2. call \in [Handlers -> Calls]
  BY DEF Init
<1>3. NoRow \in WalletRow
  BY DEF NoRow, WalletRow
<1>4. due \in [Wallets -> Int]
  <2>1. \A w \in Wallets : wallet[w].bal \in Int
    BY <1>1 DEF WalletRow
  <2>2. QED
    BY <2>1 DEF Init
<1>5. TypeOK
  BY <1>1, <1>2, <1>3, <1>4 DEF Init, TypeOK, TablesOK, Places, Orders, PCs
<1>6. QED
  BY <1>5 DEF Init, IInv, OneCrediter, Crediting, CreditsCaptured, RowBeforeOrder,
              RowFirst, CreditedOnce, RowTellsCredit, RowsHaveWallets

-----------------------------------------------------------------------------
(* The fields an update by id keeps, and the rows it changes. *)
LEMMA UpdatedRows ==
  ASSUME ledger \subseteq TransactionRow, NEW t, NEW status \in Statuses,
         NEW after \in Int \cup {NULL}, NEW new \in Updated(t, status, after)
  PROVE  \E row \in ledger :
           /\ new \in TransactionRow
           /\ new.ref = row.ref
           /\ new.wallet = row.wallet
           /\ row.ref # t => new = row
           /\ row.ref = t => new.status = status /\ new.after = after
<1>1. PICK row \in ledger :
        new = IF row.ref = t THEN [row EXCEPT !.status = status, !.after = after] ELSE row
  BY DEF Updated
<1>2. row \in TransactionRow
  OBVIOUS
<1>3. CASE row.ref # t
  BY <1>1, <1>2, <1>3
<1>4. CASE row.ref = t
  <2>1. new = [ref |-> row.ref, wallet |-> row.wallet, type |-> row.type,
               amount |-> row.amount, before |-> row.before,
               after |-> after, status |-> status]
    BY <1>1, <1>2, <1>4 DEF TransactionRow
  <2>2. QED
    BY <1>2, <1>4, <2>1 DEF TransactionRow
<1>5. QED
  BY <1>3, <1>4

LEMMA DepositFacts ==
  ASSUME NEW d \in Deposits
  PROVE  d.wallet \in Wallets /\ d.amount \in Nat
BY PaymentAssumption DEF Deposits

(* What a call names; the deposit and the wallet of its transaction. *)
LEMMA CallFacts ==
  ASSUME TypeOK, NEW h \in Handlers
  PROVE  /\ call[h].kind \in AllKinds
         /\ Token(h) \in Refs
         /\ Txn(h) \in Refs \cup {NULL}
<1>1. call[h] \in Calls
  BY DEF TypeOK
<1>2. QED
  BY <1>1 DEF Calls, Token, Txn

LEMMA TargetFacts ==
  ASSUME TypeOK, NEW h \in Handlers, Txn(h) \in Refs
  PROVE  /\ Target(h) \in Wallets
         /\ deposit[Txn(h)].amount \in Nat
         /\ NewBalance(h) \in Int
<1>1. held[h] \in WalletRow /\ deposit[Txn(h)] \in Deposits
  BY DEF TypeOK
<1>2. deposit[Txn(h)].amount \in Nat /\ Target(h) \in Wallets
  BY <1>1, PaymentAssumption DEF Deposits, Target
<1>3. NewBalance(h) \in Int
  BY <1>1, <1>2 DEF NewBalance, WalletRow
<1>4. QED
  BY <1>2, <1>3

(* A handler past its lookup names a transaction. *)
LEMMA FoundFacts ==
  ASSUME IInv, NEW h \in Handlers, pc[h] \in {"read", "commit", "markFailed"}
  PROVE  /\ Txn(h) \in Refs
         /\ Target(h) \in Wallets
         /\ deposit[Txn(h)].amount \in Nat
         /\ NewBalance(h) \in Int
<1>1. Txn(h) \in Refs /\ TypeOK
  BY DEF IInv, RowFirst
<1>2. QED
  BY <1>1, TargetFacts

(* Rows and credits that stay as they are, in wallets that stay. *)
LEMMA QuietLedger ==
  ASSUME IInv, UNCHANGED <<ledger, call, credits>>,
         \A w \in Wallets : wallet[w].live => wallet'[w].live
  PROVE  CreditedOnce' /\ RowTellsCredit' /\ RowsHaveWallets'
<1>1. \A row \in ledger : row.wallet \in Wallets
  BY DEF IInv, TypeOK, TablesOK, TransactionRow
<1>2. CreditedOnce' /\ RowTellsCredit'
  BY DEF IInv, CreditedOnce, RowTellsCredit, Credited, Token, Txn
<1>3. QED
  BY <1>1, <1>2 DEF IInv, RowsHaveWallets

(* A step that brings no handler to a credit and takes no capture back keeps
   OneCrediter. *)
LEMMA NobodyJoins ==
  ASSUME IInv, UNCHANGED <<call, credits>>,
         \A t \in Refs : order[t] = "captured" => order'[t] = "captured",
         \A h \in Handlers : Crediting(h)' => Crediting(h)
  PROVE  OneCrediter' /\ CreditsCaptured'
<1>1. \A h \in Handlers : Token(h)' = Token(h) /\ Token(h) \in Refs
  BY CallFacts DEF IInv, Token
<1>2. OneCrediter'
  BY <1>1 DEF IInv, OneCrediter
<1>3. credits \subseteq Handlers
  BY DEF IInv, TypeOK
<1>4. CreditsCaptured'
  BY <1>1, <1>3 DEF IInv, CreditsCaptured
<1>5. QED
  BY <1>2, <1>4

(* Nor does a step that inserts no row and finds none disturb RowFirst. *)
LEMMA NobodyFinds ==
  ASSUME IInv, UNCHANGED <<call, credits>>,
         \A row \in ledger' : \E old \in ledger : row.ref = old.ref,
         \A t \in Refs : Opened(t) => Opened(t)',
         \A h \in Handlers : pc'[h] \in {"read", "commit", "markFailed"} =>
                               pc[h] \in {"read", "commit", "markFailed"}
  PROVE  RowFirst'
<1>1. \A h \in Handlers : Txn(h)' = Txn(h)
  BY DEF Txn
<1>2. \A row \in ledger : row.ref \in Refs
  BY DEF IInv, TypeOK, TablesOK, TransactionRow
<1>3. \A row \in ledger' : Opened(row.ref)'
  BY <1>2 DEF IInv, RowFirst
<1>4. QED
  BY <1>1, <1>3 DEF IInv, RowFirst

-----------------------------------------------------------------------------
LEMMA FindWalletStep ==
  ASSUME IInv, NEW t \in Refs, FindWallet(t)
  PROVE  IInv'
<1>1. TypeOK'
  <2>1. wallet[deposit[t].wallet] \in WalletRow
    BY DEF IInv, TypeOK, TablesOK, Deposits
  <2>2. QED
    BY <2>1 DEF IInv, TypeOK, TablesOK, FindWallet, Advance, Places, sums
<1>2. OneCrediter' /\ CreditsCaptured'
  BY NobodyJoins DEF FindWallet, Crediting
<1>3. CreditedOnce' /\ RowTellsCredit' /\ RowsHaveWallets'
  BY QuietLedger DEF FindWallet
<1>4. RowBeforeOrder'
  BY DEF IInv, TypeOK, RowBeforeOrder, FindWallet, Advance
<1>5. RowFirst'
  <2>1. \A s \in Refs : Opened(s) => Opened(s)'
    BY DEF IInv, TypeOK, Opened, FindWallet, Advance
  <2>2. QED
    BY <2>1, NobodyFinds DEF FindWallet
<1>6. QED
  BY <1>1, <1>2, <1>3, <1>4, <1>5 DEF IInv

LEMMA CreateWalletStep ==
  ASSUME IInv, NEW t \in Refs, CreateWallet(t)
  PROVE  IInv'
<1>1. /\ deposit[t].wallet \in Wallets
      /\ wallet \in [Wallets -> WalletRow]
  BY DEF IInv, TypeOK, TablesOK, Deposits
<1>2. NewWallet(deposit[t].wallet, 0) \in WalletRow
  BY <1>1 DEF NewWallet, WalletRow
<1>3. TypeOK'
  BY <1>1, <1>2 DEF IInv, TypeOK, TablesOK, CreateWallet, Advance, Places, sums
<1>4. OneCrediter' /\ CreditsCaptured'
  BY NobodyJoins DEF CreateWallet, Crediting
<1>5. CreditedOnce' /\ RowTellsCredit' /\ RowsHaveWallets'
  <2>1. \A w \in Wallets : wallet[w].live => wallet'[w].live
    BY <1>1 DEF CreateWallet, NewWallet
  <2>2. QED
    BY <2>1, QuietLedger DEF CreateWallet
<1>6. RowBeforeOrder'
  BY DEF IInv, TypeOK, RowBeforeOrder, CreateWallet, Advance
<1>7. RowFirst'
  <2>1. \A s \in Refs : Opened(s) => Opened(s)'
    BY DEF IInv, TypeOK, Opened, CreateWallet, Advance
  <2>2. QED
    BY <2>1, NobodyFinds DEF CreateWallet
<1>8. QED
  BY <1>3, <1>4, <1>5, <1>6, <1>7 DEF IInv

(* The new row has not been credited: who credits it has found it before. *)
LEMMA InsertRowStep ==
  ASSUME IInv, NEW t \in Refs, InsertRow(t)
  PROVE  IInv'
<1>1. PendingRow(t) \in TransactionRow
  <2>1. /\ deposit[t] \in Deposits
        /\ opened[t] \in WalletRow
    BY DEF IInv, TypeOK
  <2>2. /\ deposit[t].wallet \in Wallets
        /\ deposit[t].amount \in Int
        /\ opened[t].bal \in Int
    <3>1. deposit[t].wallet \in Wallets /\ deposit[t].amount \in Nat
      BY <2>1, DepositFacts
    <3>2. opened[t].bal \in Int
      BY <2>1 DEF WalletRow
    <3>3. QED
      BY <3>1, <3>2
  <2>3. QED
    BY <2>2 DEF PendingRow, TransactionRow, Types, Statuses
<1>2. TypeOK'
  BY <1>1 DEF IInv, TypeOK, TablesOK, InsertRow, Advance, Places, sums
<1>3. OneCrediter' /\ CreditsCaptured'
  BY NobodyJoins DEF InsertRow, Crediting
<1>4. ~Credited(t)
  <2>1. ~Opened(t)
    BY DEF InsertRow, Opened
  <2>2. credits \subseteq Handlers
    BY DEF IInv, TypeOK
  <2>3. QED
    BY <2>1, <2>2 DEF IInv, RowFirst, Credited
<1>5. ASSUME NEW row \in ledger'
      PROVE  /\ row.after # NULL <=> Credited(row.ref)
             /\ row.status = "success" => Credited(row.ref)
             /\ row.status = "pending" => ~Credited(row.ref)
             /\ wallet[row.wallet].live
             /\ row \in ledger \/ row.ref = t
  <2>1. CASE row \in ledger
    BY <2>1 DEF IInv, RowTellsCredit, RowsHaveWallets
  <2>2. CASE row \notin ledger
    <3>1. row = PendingRow(t) /\ SameRow(deposit[t].wallet, opened[t])
      BY <2>2 DEF InsertRow
    <3>2. QED
      BY <1>4, <3>1 DEF PendingRow, SameRow
  <2>3. QED
    BY <2>1, <2>2
<1>6. UNCHANGED <<wallet, call, credits, pc>>
  BY DEF InsertRow
<1>7. CreditedOnce' /\ RowTellsCredit' /\ RowsHaveWallets'
  <2>1. CreditedOnce'
    BY <1>6 DEF IInv, CreditedOnce, Token
  <2>2. RowTellsCredit'
    BY <1>5, <1>6 DEF RowTellsCredit, Credited, Txn
  <2>3. RowsHaveWallets'
    BY <1>5, <1>6 DEF RowsHaveWallets
  <2>4. QED
    BY <2>1, <2>2, <2>3
<1>8. RowBeforeOrder'
  BY DEF IInv, TypeOK, RowBeforeOrder, InsertRow, Advance
<1>9. RowFirst'
  <2>1. \A s \in Refs : Opened(s) \/ s = t => Opened(s)'
    BY DEF IInv, TypeOK, Opened, InsertRow, Advance
  <2>2. \A row \in ledger : row.ref \in Refs
    BY DEF IInv, TypeOK, TablesOK, TransactionRow
  <2>3. \A row \in ledger' : Opened(row.ref)'
    BY <1>5, <2>1, <2>2 DEF IInv, RowFirst
  <2>4. \A h \in Handlers : Txn(h)' = Txn(h)
    BY <1>6 DEF Txn
  <2>5. QED
    BY <1>6, <2>1, <2>3, <2>4 DEF IInv, RowFirst
<1>10. QED
  BY <1>2, <1>3, <1>7, <1>8, <1>9 DEF IInv

LEMMA OrderStep ==
  ASSUME IInv, NEW t \in Refs, CreateOrder(t) \/ Approve(t) \/ BreakCheckout(t)
  PROVE  IInv'
<1>1. TypeOK'
  BY DEF IInv, TypeOK, TablesOK, CreateOrder, Approve, BreakCheckout, Advance, Places,
         Orders, checkoutVars, sums
<1>2. UNCHANGED <<wallet, ledger, call, credits, pc>>
  BY DEF CreateOrder, Approve, BreakCheckout
<1>3. OneCrediter' /\ CreditsCaptured'
  <2>1. \A s \in Refs : order[s] = "captured" => order'[s] = "captured"
    BY DEF IInv, TypeOK, RowBeforeOrder, CreateOrder, Approve, BreakCheckout
  <2>2. QED
    BY <1>2, <2>1, NobodyJoins DEF Crediting
<1>4. CreditedOnce' /\ RowTellsCredit' /\ RowsHaveWallets'
  BY <1>2, QuietLedger
<1>5. RowBeforeOrder'
  BY DEF IInv, TypeOK, RowBeforeOrder, CreateOrder, Approve, BreakCheckout, Advance,
         checkoutVars
<1>6. RowFirst'
  <2>1. \A s \in Refs : Opened(s) => Opened(s)'
    BY DEF IInv, TypeOK, Opened, CreateOrder, Approve, BreakCheckout, Advance,
           checkoutVars
  <2>2. QED
    BY <1>2, <2>1, NobodyFinds
<1>7. QED
  BY <1>1, <1>3, <1>4, <1>5, <1>6 DEF IInv

-----------------------------------------------------------------------------
(* PayPal captures an approved order: nobody has credited its money, and nobody
   is about to. *)
LEMMA CaptureStep ==
  ASSUME IInv, NEW h \in Handlers, Capture(h)
  PROVE  IInv'
<1>1. TypeOK /\ Token(h) \in Refs /\ order[Token(h)] = "approved"
  BY CallFacts DEF IInv, Capture
<1>2. TypeOK'
  BY <1>1 DEF TypeOK, TablesOK, Capture, Goto, PCs, Orders, checkoutVars, sums
<1>3. \A g \in Handlers : Crediting(g) \/ g \in credits => Token(g) # Token(h)
  BY <1>1 DEF IInv, CreditsCaptured, OneCrediter
<1>4. UNCHANGED <<wallet, ledger, call, credits, place>>
  BY DEF Capture, checkoutVars
<1>5. \A g \in Handlers : Token(g)' = Token(g) /\ (g # h => pc'[g] = pc[g])
  BY <1>1 DEF TypeOK, Capture, Goto, Token
<1>6. \A s \in Refs : order'[s] = IF s = Token(h) THEN "captured" ELSE order[s]
  BY <1>1 DEF TypeOK, Capture
<1>7. OneCrediter'
  <2> SUFFICES ASSUME NEW g \in Handlers, Crediting(g)'
               PROVE  /\ call[g].kind \in Capturing
                      /\ order'[Token(g)] = "captured"
                      /\ g \notin credits
                      /\ \A f \in Handlers :
                           (Crediting(f)' \/ f \in credits) /\ Token(f) = Token(g)
                             => f = g
    BY <1>4, <1>5 DEF OneCrediter
  <2>1. CASE g = h
    BY <1>3, <1>5, <1>6, <1>1, <2>1 DEF Capture, Crediting
  <2>2. CASE g # h
    <3>1. Crediting(g) /\ Token(g) # Token(h) /\ Token(g) \in Refs
      BY <1>1, <1>3, <1>5, <2>2, CallFacts DEF Crediting
    <3>2. QED
      BY <1>5, <1>6, <3>1 DEF IInv, OneCrediter, Crediting
  <2>3. QED
    BY <2>1, <2>2
<1>8. CreditsCaptured'
  BY <1>4, <1>5, <1>6, <1>1, CallFacts DEF IInv, CreditsCaptured, TypeOK
<1>9. CreditedOnce' /\ RowTellsCredit' /\ RowsHaveWallets'
  BY <1>4, QuietLedger
<1>10. RowBeforeOrder'
  BY <1>1, <1>4, <1>6 DEF IInv, RowBeforeOrder
<1>11. RowFirst'
  <2>1. \A g \in Handlers : pc'[g] \in {"read", "commit", "markFailed"} =>
                              pc[g] \in {"read", "commit", "markFailed"}
    BY <1>1 DEF TypeOK, Capture, Goto
  <2>2. QED
    BY <1>4, <2>1, NobodyFinds DEF Opened
<1>12. QED
  BY <1>2, <1>7, <1>8, <1>9, <1>10, <1>11 DEF IInv

(* Steps of a handler that read, end or fail. *)
LEMMA QuietStep ==
  ASSUME IInv, NEW h \in Handlers,
         \/ CaptureThrows(h) \/ CancelPage(h) \/ LookupMiss(h) \/ ReadWallet(h)
         \/ CommitThrows(h) \/ Break(h)
  PROVE  IInv'
<1>1. TypeOK
  BY DEF IInv
<1>2. held' \in [Handlers -> WalletRow] /\ mixed' \subseteq Wallets
  <2>1. CASE ReadWallet(h)
    <3>1. Target(h) \in Wallets
      BY <2>1, FoundFacts DEF ReadWallet
    <3>2. QED
      BY <1>1, <2>1, <3>1 DEF TypeOK, TablesOK, ReadWallet
  <2>2. CASE ~ReadWallet(h)
    BY <1>1, <2>2 DEF TypeOK, CaptureThrows, CancelPage, LookupMiss, CommitThrows, Break,
                      sums
  <2>3. QED
    BY <2>1, <2>2
<1>3. UNCHANGED <<wallet, ledger, deposit, opened, call, credits, order, place, due>>
  BY DEF CaptureThrows, CancelPage, LookupMiss, ReadWallet, CommitThrows, Break,
         checkoutVars, sums
<1>4. TypeOK'
  <2>1. pc' \in [Handlers -> PCs]
    BY <1>1 DEF TypeOK, CaptureThrows, CancelPage, LookupMiss, ReadWallet, CommitThrows,
                Break, Goto, PCs
  <2>2. QED
    BY <1>1, <1>2, <1>3, <2>1 DEF TypeOK, TablesOK
<1>5. \A g \in Handlers :
        /\ Crediting(g)' => Crediting(g)
        /\ pc'[g] \in {"read", "commit", "markFailed"} =>
             pc[g] \in {"read", "commit", "markFailed"}
  BY <1>1 DEF TypeOK, CaptureThrows, CancelPage, LookupMiss, ReadWallet, CommitThrows,
              Break, Goto, Crediting
<1>6. OneCrediter' /\ CreditsCaptured'
  BY <1>3, <1>5, NobodyJoins
<1>7. CreditedOnce' /\ RowTellsCredit' /\ RowsHaveWallets'
  BY <1>3, QuietLedger
<1>8. RowBeforeOrder'
  BY <1>3 DEF IInv, RowBeforeOrder
<1>9. RowFirst'
  BY <1>3, <1>5, NobodyFinds DEF Opened
<1>10. QED
  BY <1>4, <1>6, <1>7, <1>8, <1>9 DEF IInv

(* The row a handler finds is the one of its transaction, and it has captured
   an order if it goes on to a credit. *)
LEMMA LookupStep ==
  ASSUME IInv, NEW h \in Handlers, Lookup(h)
  PROVE  IInv'
<1>1. TypeOK /\ Token(h) \in Refs /\ call[h].kind \in AllKinds
  BY CallFacts DEF IInv
<1>2. PICK row \in ledger :
        /\ row.ref = LookupKey(call[h])
        /\ Goto(h, AfterLookup(call[h].kind, row.status))
        /\ held' = [held EXCEPT ![h] = wallet[row.wallet]]
  BY DEF Lookup
<1>3. row.ref \in Refs /\ row.wallet \in Wallets /\ Opened(row.ref)
  BY <1>1 DEF IInv, RowFirst, TypeOK, TablesOK, TransactionRow
<1>4. call[h].kind \notin Webhooks /\ Txn(h) = row.ref
  BY <1>1, <1>2, <1>3, PaymentAssumption DEF LookupKey, Token, Txn
<1>5. AfterLookup(call[h].kind, row.status) \in {"read", "markFailed", "done"}
  BY DEF AfterLookup
<1>6. TypeOK'
  <2>1. wallet[row.wallet] \in WalletRow
    BY <1>1, <1>3 DEF TypeOK, TablesOK
  <2>2. QED
    BY <1>1, <1>2, <1>5, <2>1 DEF TypeOK, TablesOK, Lookup, Goto, PCs, checkoutVars, sums
<1>7. \A g \in Handlers : Crediting(g)' => Crediting(g)
  <2>1. AfterLookup(call[h].kind, row.status) = "read" => pc[h] = "lookup"
    BY <1>4 DEF AfterLookup, WillCredit, AtLookup, Lookup, Capturing, Webhooks
  <2>2. QED
    BY <1>1, <1>2, <1>5, <2>1 DEF TypeOK, Goto, Crediting
<1>8. UNCHANGED <<wallet, ledger, call, credits, order, place>>
  BY DEF Lookup, checkoutVars
<1>9. OneCrediter' /\ CreditsCaptured'
  BY <1>7, <1>8, NobodyJoins
<1>10. CreditedOnce' /\ RowTellsCredit' /\ RowsHaveWallets'
  BY <1>8, QuietLedger
<1>11. RowBeforeOrder'
  BY <1>8 DEF IInv, RowBeforeOrder
<1>12. RowFirst'
  <2>1. \A g \in Handlers : pc'[g] \in {"read", "commit", "markFailed"} /\ g # h =>
                              pc[g] \in {"read", "commit", "markFailed"}
    BY <1>1, <1>2 DEF TypeOK, Goto
  <2>2. /\ \A g \in Handlers : Txn(g)' = Txn(g)
        /\ \A s \in Refs : Opened(s)' = Opened(s)
        /\ \A old \in ledger : old.ref \in Refs
    BY <1>1, <1>8 DEF Txn, Opened, TypeOK, TablesOK, TransactionRow
  <2>3. QED
    BY <1>3, <1>4, <1>8, <2>1, <2>2 DEF IInv, RowFirst
<1>13. QED
  BY <1>6, <1>9, <1>10, <1>11, <1>12 DEF IInv

(* The credit: the first of the order's money, and the last. *)
LEMMA CommitStep ==
  ASSUME IInv, NEW h \in Handlers, Commit(h)
  PROVE  IInv'
<1> DEFINE t == Txn(h)
<1>1. TypeOK /\ t \in Refs /\ Target(h) \in Wallets /\ NewBalance(h) \in Int
  BY FoundFacts DEF IInv, Commit, InFlight
<1>2. /\ order[Token(h)] = "captured"
      /\ Crediting(h)
      /\ \A g \in Handlers :
           (Crediting(g) \/ g \in credits) /\ Token(g) = Token(h) => g = h
  BY DEF IInv, OneCrediter, Crediting, Commit, InFlight
<1>3. /\ credits' = credits \cup {h}
      /\ UNCHANGED <<call, order, place>>
      /\ \A g \in Handlers : Token(g)' = Token(g) /\ Txn(g)' = Txn(g)
  BY DEF Commit, checkoutVars, Token, Txn
<1>4. ASSUME NEW new \in ledger'
      PROVE  \E row \in ledger :
               /\ new \in TransactionRow
               /\ new.ref = row.ref
               /\ new.wallet = row.wallet
               /\ row.ref # t => new = row
               /\ row.ref = t => new.status = "success" /\ new.after = NewBalance(h)
  <2>1. new \in Updated(t, "success", NewBalance(h))
    BY <1>4 DEF Commit
  <2>2. "success" \in Statuses /\ NewBalance(h) \in Int \cup {NULL}
    BY <1>1 DEF Statuses
  <2>3. QED
    BY <1>1, <2>1, <2>2, UpdatedRows DEF TypeOK, TablesOK
<1>5. TypeOK'
  <2>1. wallet' \in [Wallets -> WalletRow]
    <3>1. [wallet[Target(h)] EXCEPT !.bal = NewBalance(h)] \in WalletRow
      BY <1>1 DEF TypeOK, TablesOK, WalletRow
    <3>2. wallet' = [wallet EXCEPT ![Target(h)] =
                       [wallet[Target(h)] EXCEPT !.bal = NewBalance(h)]]
      BY <1>1 DEF TypeOK, TablesOK, Commit
    <3>3. QED
      BY <1>1, <3>1, <3>2 DEF TypeOK, TablesOK
  <2>2. ledger' \subseteq TransactionRow
    BY <1>4
  <2>3. due' \in [Wallets -> Int]
    <3>1. deposit[t].amount \in Nat
      BY <1>1, TargetFacts
    <3>2. QED
      BY <1>1, <3>1 DEF TypeOK, Commit
  <2>4. QED
    BY <1>1, <1>3, <2>1, <2>2, <2>3 DEF TypeOK, TablesOK, Commit, Goto, PCs, checkoutVars
<1>6. OneCrediter'
  <2> SUFFICES ASSUME NEW g \in Handlers, Crediting(g)'
               PROVE  /\ call[g].kind \in Capturing
                      /\ order[Token(g)] = "captured"
                      /\ g \notin credits'
                      /\ \A f \in Handlers :
                           (Crediting(f)' \/ f \in credits') /\ Token(f) = Token(g)
                             => f = g
    BY <1>3 DEF OneCrediter
  <2>1. \A f \in Handlers : Crediting(f)' => Crediting(f) /\ f # h
    BY <1>1 DEF TypeOK, Commit, Goto, Crediting
  <2>2. Crediting(g) /\ g # h /\ Token(g) # Token(h)
    BY <1>2, <2>1
  <2>3. QED
    BY <1>3, <2>1, <2>2 DEF IInv, OneCrediter
<1>7. CreditedOnce' /\ CreditsCaptured'
  <2>1. credits \subseteq Handlers
    BY <1>1 DEF TypeOK
  <2>2. CreditedOnce'
    BY <1>2, <1>3, <2>1 DEF IInv, CreditedOnce
  <2>3. CreditsCaptured'
    BY <1>2, <1>3, <2>1 DEF IInv, CreditsCaptured
  <2>4. QED
    BY <2>2, <2>3
<1>8. RowTellsCredit'
  <2>1. \A s : Credited(s)' <=> Credited(s) \/ s = t
    <3>1. credits \subseteq Handlers
      BY <1>1 DEF TypeOK
    <3>2. QED
      BY <1>3, <3>1 DEF Credited
  <2> SUFFICES ASSUME NEW new \in ledger'
               PROVE  /\ new.after # NULL <=> Credited(new.ref) \/ new.ref = t
                      /\ new.status = "success" => Credited(new.ref) \/ new.ref = t
                      /\ new.status = "pending" => ~Credited(new.ref) /\ new.ref # t
    BY <2>1 DEF RowTellsCredit
  <2>2. PICK row \in ledger :
          /\ new.ref = row.ref
          /\ row.ref # t => new = row
          /\ row.ref = t => new.status = "success" /\ new.after = NewBalance(h)
    BY <1>4
  <2>3. CASE row.ref = t
    BY <1>1, <2>2, <2>3, NullIsNoAmount
  <2>4. CASE row.ref # t
    BY <2>2, <2>4 DEF IInv, RowTellsCredit
  <2>5. QED
    BY <2>3, <2>4
<1>9. RowsHaveWallets'
  <2>1. \A w \in Wallets : wallet'[w].live = wallet[w].live
    BY <1>1 DEF TypeOK, TablesOK, Commit, WalletRow
  <2>2. \A row \in ledger : row.wallet \in Wallets
    BY <1>1 DEF TypeOK, TablesOK, TransactionRow
  <2>3. QED
    BY <1>4, <2>1, <2>2 DEF IInv, RowsHaveWallets
<1>10. RowBeforeOrder'
  BY <1>3 DEF IInv, RowBeforeOrder
<1>11. RowFirst'
  <2>1. \A row \in ledger' : \E old \in ledger : row.ref = old.ref
    BY <1>4
  <2>2. \A g \in Handlers : pc'[g] \in {"read", "commit", "markFailed"} =>
                              pc[g] \in {"read", "commit", "markFailed"}
    BY <1>1 DEF TypeOK, Commit, Goto
  <2>3. /\ \A s \in Refs : Opened(s)' = Opened(s)
        /\ \A row \in ledger : row.ref \in Refs
        /\ pc[h] = "commit"
    BY <1>1, <1>3 DEF Opened, TypeOK, TablesOK, TransactionRow, Commit, InFlight
  <2>4. QED
    BY <1>3, <2>1, <2>2, <2>3 DEF IInv, RowFirst
<1>12. QED
  BY <1>5, <1>6, <1>7, <1>8, <1>9, <1>10, <1>11 DEF IInv

(* A cancellation may overwrite the status, but not the balance_after. *)
LEMMA MarkFailedStep ==
  ASSUME IInv, NEW h \in Handlers, MarkFailed(h)
  PROVE  IInv'
<1> DEFINE t == Txn(h)
<1>1. TypeOK
  BY DEF IInv
<1>2. ASSUME NEW new \in ledger', new \notin ledger
      PROVE  \E row, old \in ledger :
               /\ new \in TransactionRow
               /\ new.ref = t /\ row.ref = t /\ old.ref = t
               /\ new.wallet = row.wallet
               /\ new.status = "failed"
               /\ new.after = old.after
  <2>1. PICK old \in ledger : old.ref = t /\ ledger' = Updated(t, "failed", old.after)
    BY <1>2 DEF MarkFailed
  <2> DEFINE after == old.after
  <2>2. "failed" \in Statuses /\ after \in Int \cup {NULL}
    BY <1>1 DEF Statuses, TypeOK, TablesOK, TransactionRow
  <2>3. ledger \subseteq TransactionRow /\ new \in Updated(t, "failed", after)
    BY <1>1, <1>2, <2>1 DEF TypeOK, TablesOK
  <2> HIDE DEF after, t
  <2>4. PICK row \in ledger :
          /\ new \in TransactionRow
          /\ new.ref = row.ref
          /\ new.wallet = row.wallet
          /\ row.ref # t => new = row
          /\ row.ref = t => new.status = "failed" /\ new.after = after
    BY <2>2, <2>3, UpdatedRows
  <2>5. row.ref = t
    BY <1>2, <2>4
  <2>6. /\ new \in TransactionRow
        /\ new.ref = t /\ row.ref = t /\ old.ref = t
        /\ new.wallet = row.wallet
        /\ new.status = "failed"
        /\ new.after = old.after
    BY <2>1, <2>4, <2>5 DEF after
  <2>7. QED
    BY <2>6
<1>3. UNCHANGED <<wallet, call, credits, order, place>>
  BY DEF MarkFailed, checkoutVars
<1>4. TypeOK'
  <2>1. ASSUME NEW new \in ledger' PROVE new \in TransactionRow
    <3>1. CASE new \in ledger
      BY <1>1, <3>1 DEF TypeOK, TablesOK
    <3>2. CASE new \notin ledger
      BY <1>2, <3>2
    <3>3. QED
      BY <3>1, <3>2
  <2>2. QED
    BY <1>1, <2>1 DEF TypeOK, TablesOK, MarkFailed, Goto, PCs, checkoutVars, sums
<1>5. OneCrediter' /\ CreditsCaptured'
  <2>1. \A g \in Handlers : Crediting(g)' => Crediting(g)
    BY <1>1 DEF TypeOK, MarkFailed, Goto, Crediting
  <2>2. QED
    BY <1>3, <2>1, NobodyJoins
<1>6. ASSUME NEW new \in ledger'
      PROVE  /\ new.after # NULL <=> Credited(new.ref)
             /\ new.status = "success" => Credited(new.ref)
             /\ new.status = "pending" => ~Credited(new.ref)
             /\ wallet[new.wallet].live
  <2>1. CASE new \in ledger
    BY <2>1 DEF IInv, RowTellsCredit, RowsHaveWallets
  <2>2. CASE new \notin ledger
    <3>1. PICK row, old \in ledger :
            /\ new.ref = t /\ old.ref = t
            /\ new.wallet = row.wallet
            /\ new.status = "failed"
            /\ new.after = old.after
      BY <1>2, <2>2
    <3>2. QED
      BY <3>1 DEF IInv, RowTellsCredit, RowsHaveWallets
  <2>3. QED
    BY <2>1, <2>2
<1>7. CreditedOnce' /\ RowTellsCredit' /\ RowsHaveWallets'
  <2>1. CreditedOnce'
    BY <1>3 DEF IInv, CreditedOnce, Token
  <2>2. RowTellsCredit'
    BY <1>3, <1>6 DEF RowTellsCredit, Credited, Txn
  <2>3. RowsHaveWallets'
    BY <1>3, <1>6 DEF RowsHaveWallets
  <2>4. QED
    BY <2>1, <2>2, <2>3
<1>8. RowBeforeOrder'
  BY <1>3 DEF IInv, RowBeforeOrder
<1>9. RowFirst'
  <2>1. \A new \in ledger' : \E old \in ledger : new.ref = old.ref
    BY <1>2
  <2>2. \A g \in Handlers : pc'[g] \in {"read", "commit", "markFailed"} =>
                              pc[g] \in {"read", "commit", "markFailed"}
    BY <1>1 DEF TypeOK, MarkFailed, Goto
  <2>3. QED
    BY <1>3, <2>1, <2>2, NobodyFinds DEF Opened
<1>10. QED
  BY <1>4, <1>5, <1>7, <1>8, <1>9 DEF IInv

(* The rows of a deleted wallet go with it. *)
LEMMA DeleteStep ==
  ASSUME IInv, NEW u \in Users, Delete(u)
  PROVE  IInv'
<1>1. TypeOK
  BY DEF IInv
<1>2. wallet' \in [Wallets -> WalletRow]
  <2>1. ASSUME NEW w \in Wallets
        PROVE  [live |-> FALSE, gen |-> wallet[w].gen + 1, bal |-> 0] \in WalletRow
    BY <1>1 DEF TypeOK, TablesOK, WalletRow
  <2>2. QED
    BY <1>1, <2>1 DEF Delete, DeleteWallets, TypeOK, TablesOK
<1>3. TypeOK'
  BY <1>1, <1>2 DEF TypeOK, TablesOK, Delete, DeleteWallets, checkoutVars
<1>4. UNCHANGED <<call, credits, order, place, pc>> /\ ledger' \subseteq ledger
  BY DEF Delete, DeleteWallets, checkoutVars
<1>5. OneCrediter' /\ CreditsCaptured' /\ CreditedOnce'
  BY <1>4, NobodyJoins DEF Crediting, IInv, CreditedOnce, Token
<1>6. RowTellsCredit'
  BY <1>4 DEF IInv, RowTellsCredit, Credited, Txn
<1>7. RowsHaveWallets'
  <2>1. \A row \in ledger : row.wallet \in Wallets
    BY <1>1 DEF TypeOK, TablesOK, TransactionRow
  <2>2. QED
    BY <2>1 DEF IInv, RowsHaveWallets, Delete, DeleteWallets
<1>8. RowBeforeOrder'
  BY <1>4 DEF IInv, RowBeforeOrder
<1>9. RowFirst'
  BY <1>4, NobodyFinds DEF Opened
<1>10. QED
  BY <1>3, <1>5, <1>6, <1>7, <1>8, <1>9 DEF IInv

LEMMA NextPreserves == IInv /\ [Next]_vars => IInv'
<1> SUFFICES ASSUME IInv, [Next]_vars PROVE IInv'
  OBVIOUS
<1>1. CASE \E t \in Refs : CheckoutStep(t) \/ BreakCheckout(t) \/ Approve(t)
  BY <1>1, FindWalletStep, CreateWalletStep, InsertRowStep, OrderStep DEF CheckoutStep
<1>2. CASE \E h \in Handlers : Step(h) \/ Break(h)
  BY <1>2, CaptureStep, QuietStep, LookupStep, CommitStep, MarkFailedStep DEF Step
<1>3. CASE \E u \in Users : Delete(u)
  BY <1>3, DeleteStep
<1>4. CASE UNCHANGED vars
  BY <1>4 DEF vars, IInv, TypeOK, TablesOK, OneCrediter, Crediting, Token, Txn,
              CreditsCaptured, RowBeforeOrder, RowFirst, Opened, CreditedOnce,
              RowTellsCredit, Credited, RowsHaveWallets
<1>5. QED
  BY <1>1, <1>2, <1>3, <1>4 DEF Next

LEMMA Invariance == Spec => []IInv
BY InitEstablishes, NextPreserves, PTL DEF Spec

-----------------------------------------------------------------------------
(* The tables, the order states and the handlers stay well typed. *)
THEOREM TypeCorrect == Spec => []TypeOK
<1>1. IInv => TypeOK
  BY DEF IInv
<1>2. QED
  BY <1>1, Invariance, PTL

(* No interleaving of checkouts, captures, cancellations, webhooks, wallet
   deletions and crashes credits the money of one PayPal order twice, whatever
   transactions the calls name. *)
THEOREM NeverCreditedTwice == Spec => []CreditedOnce
<1>1. IInv => CreditedOnce
  BY DEF IInv
<1>2. QED
  BY <1>1, Invariance, PTL

(* A credit follows the capture of the order its call presents; a transaction
   named with its own order only is credited after that order was paid. *)
THEOREM CreditsArePaid == Spec => []CreditIsPaid
<1>1. IInv => CreditIsPaid
  <2>1. IInv => credits \subseteq Handlers
    BY DEF IInv, TypeOK
  <2>2. QED
    BY <2>1 DEF IInv, CreditsCaptured, CreditIsPaid, Credited
<1>2. QED
  BY <1>1, Invariance, PTL

(* balance_after tells whether a payment was credited, whatever its status. *)
THEOREM RowsTellCredits == Spec => []RowTellsCredit
<1>1. IInv => RowTellsCredit
  BY DEF IInv
<1>2. QED
  BY <1>1, Invariance, PTL

(* No row outlives its wallet. *)
THEOREM RowsKeepWallets == Spec => []RowsHaveWallets
<1>1. IInv => RowsHaveWallets
  BY DEF IInv
<1>2. QED
  BY <1>1, Invariance, PTL

-----------------------------------------------------------------------------
(***************************************************************************)
(* The refinement of Recharge.                                             *)
(***************************************************************************)

(***************************************************************************)
(* The refinement of Recharge.                                             *)
(***************************************************************************)

(* A wallet has at most what it is due, and what it is due while its credits
   have not overlapped; one that does not exist holds nothing. *)
BalancesAreDue ==
  \A w \in Wallets :
    /\ wallet[w].bal <= due[w]
    /\ w \notin mixed => wallet[w].bal = due[w]
    /\ ~wallet[w].live => wallet[w].bal = 0 /\ due[w] = 0

(* A handler about to commit holds at most what its wallet is due, and, unless
   credits have overlapped, the balance as it is, alone. *)
HeldIsDue ==
  \A h \in Handlers : InFlight(h) =>
    /\ held[h].bal <= due[Target(h)]
    /\ Target(h) \notin mixed =>
         /\ held[h].bal = wallet[Target(h)].bal
         /\ \A g \in Handlers : InFlight(g) /\ Target(g) = Target(h) => g = h

(* The wallet it holds is there, or gone for good: a wallet created again is
   another row. *)
HeldOnce ==
  \A h \in Handlers : pc[h] = "commit" =>
    InFlight(h) \/ held[h].gen < wallet[Target(h)].gen

Sums == BalancesAreDue /\ HeldIsDue /\ HeldOnce

(* The fields a credit leaves and the ones it writes. *)
LEMMA CommittedWallet ==
  ASSUME IInv, NEW h \in Handlers, Commit(h), NEW w \in Wallets
  PROVE  /\ wallet'[w].live = wallet[w].live
         /\ wallet'[w].gen = wallet[w].gen
         /\ wallet'[w].bal = IF w = Target(h) THEN NewBalance(h) ELSE wallet[w].bal
         /\ due'[w] = IF w = Target(h) THEN due[w] + deposit[Txn(h)].amount ELSE due[w]
<1>1. Target(h) \in Wallets
  BY FoundFacts DEF Commit, InFlight
<1>2. QED
  BY <1>1 DEF IInv, TypeOK, TablesOK, WalletRow, Commit

(* A step that touches no balance, brings no handler to a commit and leaves
   what the others hold. *)
LEMMA NoSumMoves ==
  ASSUME Sums, UNCHANGED <<wallet, deposit, call, due, mixed>>,
         \A h \in Handlers : pc'[h] = "commit" => pc[h] = "commit" /\ held'[h] = held[h]
  PROVE  Sums'
<1>1. \A h \in Handlers : /\ Target(h)' = Target(h)
                          /\ InFlight(h)' => InFlight(h)
                          /\ pc'[h] = "commit" /\ InFlight(h) => InFlight(h)'
  BY DEF Target, Txn, InFlight, SameRow
<1>2. BalancesAreDue'
  BY DEF Sums, BalancesAreDue
<1>3. HeldIsDue' /\ HeldOnce'
  BY <1>1 DEF Sums, HeldIsDue, HeldOnce, InFlight
<1>4. QED
  BY <1>2, <1>3 DEF Sums

LEMMA CreateKeepsSums ==
  ASSUME IInv, Sums, NEW t \in Refs, CreateWallet(t)
  PROVE  Sums' /\ \A w \in Wallets : wallet'[w].bal = wallet[w].bal
<1> DEFINE c == deposit[t].wallet
<1>1. /\ c \in Wallets
      /\ wallet \in [Wallets -> WalletRow]
      /\ UNCHANGED <<deposit, call, held, pc, due, mixed>>
  BY DEF IInv, TypeOK, TablesOK, Deposits, CreateWallet, sums
<1>2. \A w \in Wallets :
        /\ wallet[w].live => wallet'[w] = wallet[w]
        /\ wallet'[w].gen = wallet[w].gen
        /\ ~wallet[w].live /\ wallet'[w].live => wallet'[w].bal = 0
        /\ ~wallet'[w].live => wallet'[w] = wallet[w]
  BY <1>1 DEF CreateWallet, NewWallet
<1>3. \A w \in Wallets : wallet'[w].bal = wallet[w].bal
  BY <1>2 DEF Sums, BalancesAreDue
<1>4. BalancesAreDue'
  BY <1>1, <1>2, <1>3 DEF Sums, BalancesAreDue
<1>5. \A h \in Handlers : pc[h] = "commit" => Target(h) \in Wallets
  BY FoundFacts
<1>6. \A h \in Handlers :
        /\ Target(h)' = Target(h)
        /\ InFlight(h) => InFlight(h)'
        /\ InFlight(h)' => InFlight(h)
  <2> SUFFICES ASSUME NEW h \in Handlers
               PROVE  /\ Target(h)' = Target(h)
                      /\ InFlight(h) <=> InFlight(h)'
    OBVIOUS
  <2>1. Target(h)' = Target(h)
    BY <1>1 DEF Target, Txn
  <2>2. CASE pc[h] # "commit"
    BY <1>1, <2>1, <2>2 DEF InFlight
  <2>3. CASE pc[h] = "commit"
    <3>1. Target(h) \in Wallets /\ held[h] \in WalletRow /\ wallet[Target(h)] \in WalletRow
      BY <1>1, <1>5, <2>3 DEF IInv, TypeOK
    <3>2. InFlight(h) \/ held[h].gen # wallet[Target(h)].gen
      BY <2>3, <3>1 DEF Sums, HeldOnce, WalletRow
    <3>3. QED
      BY <1>1, <1>2, <2>1, <2>3, <3>1, <3>2 DEF InFlight, SameRow
  <2>4. QED
    BY <2>1, <2>2, <2>3
<1>7. HeldIsDue'
  <2>1. \A h \in Handlers : InFlight(h) =>
          Target(h) \in Wallets /\ wallet'[Target(h)].bal = wallet[Target(h)].bal
    BY <1>3, <1>5 DEF InFlight
  <2>2. QED
    BY <1>1, <1>6, <2>1 DEF Sums, HeldIsDue
<1>8. HeldOnce'
  BY <1>1, <1>2, <1>5, <1>6 DEF Sums, HeldOnce
<1>9. QED
  BY <1>3, <1>4, <1>7, <1>8 DEF Sums

LEMMA ReadKeepsSums ==
  ASSUME IInv, Sums, NEW h \in Handlers, ReadWallet(h)
  PROVE  Sums'
<1>1. /\ Target(h) \in Wallets
      /\ UNCHANGED <<wallet, deposit, call, due>>
      /\ pc[h] = "read"
      /\ TypeOK
  BY FoundFacts DEF IInv, ReadWallet, checkoutVars
<1>2. CASE ~SameRow(Target(h), held[h])
  BY <1>1, <1>2, NoSumMoves DEF ReadWallet, Goto, TypeOK
<1>3. CASE SameRow(Target(h), held[h])
  <2>1. /\ held' = [held EXCEPT ![h] = wallet[Target(h)]]
        /\ pc' = [pc EXCEPT ![h] = "commit"]
        /\ mixed' = IF \E g \in Handlers : InFlight(g) /\ Target(g) = Target(h)
                    THEN mixed \cup {Target(h)} ELSE mixed
        /\ wallet[Target(h)].live
    BY <1>3 DEF ReadWallet, Goto, SameRow
  <2>2. \A g \in Handlers :
          /\ Target(g)' = Target(g)
          /\ g # h => held'[g] = held[g] /\ pc'[g] = pc[g]
          /\ g # h => (InFlight(g)' <=> InFlight(g))
    BY <1>1, <2>1 DEF Target, Txn, InFlight, SameRow, TypeOK
  <2>3. held'[h] = wallet[Target(h)] /\ InFlight(h)' /\ ~InFlight(h)
    BY <1>1, <2>1, <2>2 DEF InFlight, SameRow, TypeOK
  <2>4. BalancesAreDue'
    BY <1>1, <2>1 DEF Sums, BalancesAreDue
  <2>5. HeldIsDue'
    <3> SUFFICES ASSUME NEW g \in Handlers, InFlight(g)'
                 PROVE  /\ held'[g].bal <= due[Target(g)]
                        /\ Target(g) \notin mixed' =>
                             /\ held'[g].bal = wallet[Target(g)].bal
                             /\ \A f \in Handlers :
                                  InFlight(f)' /\ Target(f) = Target(g) => f = g
      BY <1>1, <2>2 DEF HeldIsDue
    <3>1. CASE g = h
      <4>1. held'[g].bal <= due[Target(g)]
        BY <1>1, <2>3, <3>1 DEF Sums, BalancesAreDue
      <4>2. ASSUME Target(g) \notin mixed', NEW f \in Handlers, InFlight(f)',
                   Target(f) = Target(g)
            PROVE  f = g
        BY <2>1, <2>2, <3>1, <4>2
      <4>3. QED
        BY <2>3, <3>1, <4>1, <4>2
    <3>2. CASE g # h
      <4>1. InFlight(g) /\ held'[g] = held[g]
        BY <2>2, <3>2
      <4>2. Target(g) \notin mixed' => Target(g) \notin mixed /\ Target(g) # Target(h)
        BY <2>1, <4>1
      <4>3. QED
        BY <2>2, <3>2, <4>1, <4>2 DEF Sums, HeldIsDue
    <3>3. QED
      BY <3>1, <3>2
  <2>6. HeldOnce'
    BY <1>1, <2>1, <2>2, <2>3 DEF Sums, HeldOnce
  <2>7. QED
    BY <2>4, <2>5, <2>6 DEF Sums
<1>4. QED
  BY <1>2, <1>3

(* What a credit writes. *)
LEMMA CommitKeepsSums ==
  ASSUME IInv, Sums, NEW h \in Handlers, Commit(h)
  PROVE  /\ Sums'
         /\ NewBalance(h) <= due'[Target(h)]
         /\ Target(h) \notin mixed => NewBalance(h) = due'[Target(h)]
<1> DEFINE c == Target(h)
           a == deposit[Txn(h)].amount
<1>1. /\ c \in Wallets
      /\ a \in Nat
      /\ TypeOK
      /\ UNCHANGED <<deposit, call, held, mixed>>
      /\ InFlight(h)
      /\ wallet[c].live
  BY FoundFacts DEF IInv, Commit, InFlight, SameRow, checkoutVars
<1>2. \A w \in Wallets :
        /\ wallet'[w].live = wallet[w].live
        /\ wallet'[w].gen = wallet[w].gen
        /\ wallet'[w].bal = IF w = c THEN NewBalance(h) ELSE wallet[w].bal
        /\ due'[w] = IF w = c THEN due[w] + a ELSE due[w]
  BY CommittedWallet
<1>3. held[h].bal \in Int /\ due[c] \in Int
  BY <1>1 DEF TypeOK, WalletRow
<1>4. NewBalance(h) = held[h].bal + a /\ due'[c] = due[c] + a
  BY <1>1, <1>2 DEF NewBalance
<1>5. held[h].bal <= due[c] /\ (c \notin mixed => held[h].bal = wallet[c].bal)
  BY <1>1 DEF Sums, HeldIsDue
<1>6. c \notin mixed => wallet[c].bal = due[c]
  BY <1>1 DEF Sums, BalancesAreDue
<1>7. NewBalance(h) <= due'[c] /\ (c \notin mixed => NewBalance(h) = due'[c])
  BY <1>1, <1>3, <1>4, <1>5, <1>6
<1>8. BalancesAreDue'
  BY <1>1, <1>2, <1>7 DEF Sums, BalancesAreDue
<1>9. \A g \in Handlers :
        /\ Target(g)' = Target(g)
        /\ pc'[g] = "commit" => pc[g] = "commit" /\ g # h
        /\ InFlight(g) /\ g # h => InFlight(g)'
        /\ InFlight(g)' => InFlight(g) /\ g # h
        /\ pc[g] = "commit" => Target(g) \in Wallets
  <2> SUFFICES ASSUME NEW g \in Handlers
               PROVE  /\ Target(g)' = Target(g)
                      /\ pc'[g] = "commit" => pc[g] = "commit" /\ g # h
                      /\ InFlight(g) /\ g # h => InFlight(g)'
                      /\ InFlight(g)' => InFlight(g) /\ g # h
                      /\ pc[g] = "commit" => Target(g) \in Wallets
    OBVIOUS
  <2>1. Target(g)' = Target(g)
    BY <1>1 DEF Target, Txn
  <2>2. /\ pc'[g] = "commit" => pc[g] = "commit" /\ g # h
        /\ g # h => pc'[g] = pc[g]
    BY <1>1 DEF Commit, Goto, TypeOK
  <2>3. pc[g] = "commit" => Target(g) \in Wallets
    BY FoundFacts
  <2>4. QED
    BY <1>1, <1>2, <2>1, <2>2, <2>3 DEF InFlight, SameRow
<1>10. HeldIsDue'
  <2> SUFFICES ASSUME NEW g \in Handlers, InFlight(g)'
               PROVE  /\ held[g].bal <= due'[Target(g)]
                      /\ Target(g) \notin mixed =>
                           /\ held[g].bal = wallet'[Target(g)].bal
                           /\ \A f \in Handlers :
                                InFlight(f)' /\ Target(f) = Target(g) => f = g
    BY <1>1, <1>9 DEF HeldIsDue
  <2>1. InFlight(g) /\ g # h /\ Target(g) \in Wallets
    BY <1>9 DEF InFlight
  <2>2. held[g].bal \in Int /\ due[Target(g)] \in Int
    BY <1>1, <2>1 DEF TypeOK, WalletRow
  <2>3. held[g].bal <= due'[Target(g)]
    BY <1>1, <1>2, <2>1, <2>2 DEF Sums, HeldIsDue
  <2>4. Target(g) \notin mixed => Target(g) # c
    BY <1>1, <2>1 DEF Sums, HeldIsDue
  <2>5. QED
    BY <1>2, <1>9, <2>1, <2>3, <2>4 DEF Sums, HeldIsDue
<1>11. HeldOnce'
  BY <1>1, <1>2, <1>9 DEF Sums, HeldOnce
<1>12. QED
  BY <1>7, <1>8, <1>10, <1>11 DEF Sums

LEMMA DeleteKeepsSums ==
  ASSUME IInv, Sums, NEW u \in Users, Delete(u)
  PROVE  /\ Sums'
         /\ \A w \in Wallets :
              wallet'[w].bal = IF w[1] = u THEN 0 ELSE wallet[w].bal
<1>1. /\ TypeOK
      /\ UNCHANGED <<deposit, call, held, pc>>
      /\ mixed' = {w \in mixed : w[1] # u}
      /\ \A w \in Wallets : due'[w] = IF w[1] = u THEN 0 ELSE due[w]
  BY DEF IInv, Delete, checkoutVars
<1>2. ASSUME NEW w \in Wallets
      PROVE  /\ w[1] = u /\ wallet[w].live =>
                  /\ ~wallet'[w].live
                  /\ wallet'[w].gen = wallet[w].gen + 1
                  /\ wallet'[w].bal = 0
             /\ ~(w[1] = u /\ wallet[w].live) => wallet'[w] = wallet[w]
  <2>1. wallet'[w] = IF w[1] = u /\ wallet[w].live
                     THEN [live |-> FALSE, gen |-> wallet[w].gen + 1, bal |-> 0]
                     ELSE wallet[w]
    BY DEF Delete, DeleteWallets
  <2>2. CASE w[1] = u /\ wallet[w].live
    BY <2>1, <2>2
  <2>3. CASE ~(w[1] = u /\ wallet[w].live)
    BY <2>1, <2>3
  <2>4. QED
    BY <2>2, <2>3
<1>3. \A w \in Wallets : wallet'[w].bal = IF w[1] = u THEN 0 ELSE wallet[w].bal
  BY <1>2 DEF Sums, BalancesAreDue
<1>4. BalancesAreDue'
  <2>1. \A w \in Wallets : w[1] = u => wallet'[w].bal = 0 /\ due'[w] = 0
    BY <1>1, <1>3
  <2>2. \A w \in Wallets : w[1] # u =>
          wallet'[w] = wallet[w] /\ due'[w] = due[w] /\ (w \in mixed' <=> w \in mixed)
    BY <1>1, <1>2
  <2>3. QED
    BY <2>1, <2>2 DEF Sums, BalancesAreDue
<1>5. \A h \in Handlers : pc[h] = "commit" =>
        /\ Target(h) \in Wallets
        /\ wallet[Target(h)] \in WalletRow
        /\ held[h] \in WalletRow
  BY <1>1, FoundFacts DEF TypeOK, TablesOK
<1>6. \A h \in Handlers : Target(h)' = Target(h)
  BY <1>1 DEF Target, Txn
<1>7. ASSUME NEW h \in Handlers, pc[h] = "commit"
      PROVE  /\ InFlight(h)' => InFlight(h) /\ Target(h)[1] # u
             /\ Target(h)[1] # u => wallet'[Target(h)] = wallet[Target(h)]
             /\ InFlight(h) \/ held[h].gen < wallet[Target(h)].gen
             /\ InFlight(h)' \/ held[h].gen < wallet'[Target(h)].gen
  <2>1. InFlight(h) \/ held[h].gen < wallet[Target(h)].gen
    BY <1>7 DEF Sums, HeldOnce
  <2>2. held[h].gen \in Nat /\ wallet[Target(h)].gen \in Nat
    BY <1>5, <1>7 DEF WalletRow
  <2>3. CASE Target(h)[1] = u
    <3>1. ~wallet'[Target(h)].live
      BY <1>2, <1>5, <1>7, <2>3
    <3>2. wallet[Target(h)].live => wallet'[Target(h)].gen = wallet[Target(h)].gen + 1
      BY <1>2, <1>5, <1>7, <2>3
    <3>3. ~wallet[Target(h)].live => wallet'[Target(h)] = wallet[Target(h)]
      BY <1>2, <1>5, <1>7, <2>3
    <3>4. InFlight(h) => wallet[Target(h)].live /\ held[h].gen = wallet[Target(h)].gen
      BY DEF InFlight, SameRow
    <3>5. ~InFlight(h)'
      BY <1>6, <3>1 DEF InFlight, SameRow
    <3>6. held[h].gen < wallet'[Target(h)].gen
      BY <2>1, <2>2, <3>2, <3>3, <3>4
    <3>7. QED
      BY <2>1, <2>3, <3>5, <3>6
  <2>4. CASE Target(h)[1] # u
    <3>1. wallet'[Target(h)] = wallet[Target(h)]
      BY <1>2, <1>5, <1>7, <2>4
    <3>2. InFlight(h)' <=> InFlight(h)
      BY <1>1, <1>6, <3>1 DEF InFlight, SameRow
    <3>3. QED
      BY <2>1, <2>4, <3>1, <3>2
  <2>5. QED
    BY <2>3, <2>4
<1>8. HeldIsDue'
  <2> SUFFICES ASSUME NEW h \in Handlers, InFlight(h)'
               PROVE  /\ held[h].bal <= due'[Target(h)]
                      /\ Target(h) \notin mixed' =>
                           /\ held[h].bal = wallet'[Target(h)].bal
                           /\ \A g \in Handlers :
                                InFlight(g)' /\ Target(g) = Target(h) => g = h
    BY <1>1, <1>6 DEF HeldIsDue
  <2>1. /\ pc[h] = "commit" /\ InFlight(h) /\ Target(h)[1] # u
        /\ \A g \in Handlers : InFlight(g)' => InFlight(g)
    BY <1>1, <1>7 DEF InFlight
  <2>2. Target(h) \in Wallets /\ wallet'[Target(h)] = wallet[Target(h)]
    BY <1>5, <1>7, <2>1
  <2>3. QED
    BY <1>1, <2>1, <2>2 DEF Sums, HeldIsDue
<1>9. HeldOnce'
  BY <1>1, <1>6, <1>7 DEF HeldOnce
<1>10. QED
  BY <1>3, <1>4, <1>8, <1>9 DEF Sums

LEMMA SumsKept ==
  ASSUME IInv, Sums, [Next]_vars
  PROVE  Sums'
<1>1. TypeOK
  BY DEF IInv
<1>2. ASSUME NEW t \in Refs,
             \/ FindWallet(t) \/ InsertRow(t) \/ CreateOrder(t) \/ BreakCheckout(t)
             \/ Approve(t)
      PROVE  Sums'
  BY <1>2, NoSumMoves DEF FindWallet, InsertRow, CreateOrder, BreakCheckout, Approve,
                          checkoutVars, sums
<1>3. ASSUME NEW h \in Handlers,
             \/ Capture(h) \/ CaptureThrows(h) \/ CancelPage(h) \/ LookupMiss(h)
             \/ CommitThrows(h) \/ MarkFailed(h) \/ Break(h)
      PROVE  Sums'
  <2>1. UNCHANGED <<wallet, deposit, call, held, due, mixed>>
    BY <1>3 DEF Capture, CaptureThrows, CancelPage, LookupMiss, CommitThrows,
                MarkFailed, Break, checkoutVars, sums
  <2>2. \A g \in Handlers : pc'[g] = "commit" => pc[g] = "commit"
    BY <1>1, <1>3 DEF Capture, CaptureThrows, CancelPage, LookupMiss, CommitThrows,
                      MarkFailed, Break, Goto, TypeOK
  <2>3. QED
    BY <2>1, <2>2, NoSumMoves
<1>4. ASSUME NEW h \in Handlers, Lookup(h)
      PROVE  Sums'
  <2>1. PICK row \in ledger :
          /\ Goto(h, AfterLookup(call[h].kind, row.status))
          /\ held' = [held EXCEPT ![h] = wallet[row.wallet]]
    BY <1>4 DEF Lookup
  <2>2. AfterLookup(call[h].kind, row.status) # "commit"
    BY DEF AfterLookup
  <2>3. \A g \in Handlers : pc'[g] = "commit" => pc[g] = "commit" /\ held'[g] = held[g]
    BY <1>1, <2>1, <2>2 DEF Goto, TypeOK
  <2>4. UNCHANGED <<wallet, deposit, call, due, mixed>>
    BY <1>4 DEF Lookup, checkoutVars, sums
  <2>5. QED
    BY <2>3, <2>4, NoSumMoves
<1>5. CASE UNCHANGED vars
  BY <1>5, NoSumMoves DEF vars
<1>6. CASE \E t \in Refs : CheckoutStep(t) \/ BreakCheckout(t) \/ Approve(t)
  BY <1>2, <1>6, CreateKeepsSums DEF CheckoutStep
<1>7. CASE \E h \in Handlers : Step(h) \/ Break(h)
  BY <1>3, <1>4, <1>7, ReadKeepsSums, CommitKeepsSums DEF Step
<1>8. CASE \E u \in Users : Delete(u)
  BY <1>8, DeleteKeepsSums
<1>9. QED
  BY <1>5, <1>6, <1>7, <1>8 DEF Next

-----------------------------------------------------------------------------
Paid    == {t \in Refs : order[t] = "captured"}
Settled == {Token(h) : h \in credits}
Funds   == [w \in Wallets |-> wallet[w].bal]

LEMMA InitRefines == Init => R!Init
<1> SUFFICES ASSUME Init PROVE R!Init
  OBVIOUS
<1>1. deposit \in [Refs -> [wallet : Wallets, amount : Nat]]
  <2>1. ASSUME NEW d \in Deposits PROVE d \in [wallet : Wallets, amount : Nat]
    BY DepositFacts DEF Deposits
  <2>2. QED
    BY <2>1 DEF Init
<1>2. due \in [Wallets -> Nat] /\ Funds = due
  BY InitialWallets DEF Funds, Init
<1>3. Paid = {} /\ Settled = {} /\ mixed = {}
  BY DEF Init, Paid, Settled
<1>4. QED
  BY <1>1, <1>2, <1>3 DEF R!Init, Funds, Paid, Settled

(* A step that leaves orders, credits and sums alone is a stutter. *)
LEMMA Stutters ==
  ASSUME UNCHANGED <<deposit, due, mixed>>, Paid' = Paid, Settled' = Settled,
         Funds' = Funds
  PROVE  UNCHANGED R!vars
BY DEF R!vars, Paid, Settled, Funds

LEMMA CaptureRefines ==
  ASSUME IInv, NEW h \in Handlers, Capture(h)
  PROVE  R!Next
<1>1. Token(h) \in Refs /\ order[Token(h)] = "approved" /\ order \in [Refs -> Orders]
  BY CallFacts DEF IInv, TypeOK, Capture
<1>2. Token(h) \notin Paid /\ Paid' = Paid \cup {Token(h)}
  BY <1>1 DEF Paid, Capture
<1>3. UNCHANGED <<deposit, Settled, Funds, due, mixed>>
  BY DEF Capture, checkoutVars, sums, Settled, Funds, Token
<1>4. QED
  BY <1>1, <1>2, <1>3 DEF R!Next, R!Pay, Paid, Settled, Funds

(* Two handlers that hold a wallet have captured an order each. *)
LEMMA ReadRefines ==
  ASSUME IInv, NEW h \in Handlers, ReadWallet(h)
  PROVE  R!Next \/ UNCHANGED R!vars
<1>1. UNCHANGED <<wallet, deposit, order, call, credits, due>>
  BY DEF ReadWallet, checkoutVars
<1>2. Paid' = Paid /\ Settled' = Settled /\ Funds' = Funds
  BY <1>1 DEF Paid, Settled, Funds, Token
<1>3. CASE mixed' = mixed
  BY <1>1, <1>2, <1>3, Stutters
<1>4. CASE mixed' # mixed
  <2>1. PICK g \in Handlers : InFlight(g)
    BY <1>4 DEF ReadWallet
  <2>2. mixed' = mixed \cup {Target(h)} /\ Target(h) \in Wallets
    BY <1>4, FoundFacts DEF ReadWallet
  <2>3. Crediting(g) /\ Crediting(h) /\ g # h
    BY <2>1 DEF Crediting, InFlight, ReadWallet
  <2>4. /\ Token(g) \in Paid \ Settled
        /\ Token(h) \in Paid \ Settled
        /\ Token(g) # Token(h)
    BY <2>3, CallFacts DEF IInv, TypeOK, OneCrediter, Paid, Settled
  <2>5. R!Overlap(Target(h))
    BY <1>1, <1>2, <2>2, <2>4 DEF R!Overlap, Paid, Settled, Funds
  <2>6. QED
    BY <2>2, <2>5 DEF R!Next
<1>5. QED
  BY <1>3, <1>4

LEMMA CommitRefines ==
  ASSUME IInv, Sums, NEW h \in Handlers, Commit(h)
  PROVE  R!Next
<1> DEFINE k == Token(h)
           t == Txn(h)
<1>1. TypeOK /\ k \in Refs /\ t \in Refs /\ Target(h) \in Wallets /\ NewBalance(h) \in Int
  BY CallFacts, FoundFacts DEF IInv, Commit, InFlight
<1>2. k \in Paid \ Settled
  BY <1>1 DEF IInv, TypeOK, OneCrediter, Crediting, Commit, InFlight, Paid, Settled
<1>3. Settled' = Settled \cup {k}
  BY DEF Settled, Commit, Token
<1>4. UNCHANGED <<deposit, Paid, mixed>>
  BY DEF Commit, checkoutVars, Paid
<1>5. due' = [due EXCEPT ![deposit[t].wallet] = @ + deposit[t].amount]
  BY DEF Commit, Target
<1>6. \A w \in Wallets :
        wallet'[w].bal = IF w = Target(h) THEN NewBalance(h) ELSE wallet[w].bal
  BY CommittedWallet
<1>7. Funds' \in [Wallets -> Int]
  <2>1. \A w \in Wallets : wallet[w].bal \in Int
    BY <1>1 DEF TypeOK, TablesOK, WalletRow
  <2>2. QED
    BY <1>1, <1>6, <2>1 DEF Funds
<1>8. /\ \A w \in Wallets \ {deposit[t].wallet} : Funds'[w] = Funds[w]
      /\ Funds'[deposit[t].wallet] = NewBalance(h)
  BY <1>1, <1>6 DEF Funds, Target
<1>9. /\ NewBalance(h) <= due'[deposit[t].wallet]
      /\ deposit[t].wallet \notin mixed => NewBalance(h) = due'[deposit[t].wallet]
  BY CommitKeepsSums DEF Target
<1>10. QED
  BY <1>1, <1>2, <1>3, <1>4, <1>5, <1>7, <1>8, <1>9
     DEF R!Next, R!Settle, Paid, Settled, Funds

LEMMA DeleteRefines ==
  ASSUME IInv, Sums, NEW u \in Users, Delete(u)
  PROVE  R!Next
<1> DEFINE S == {w \in Wallets : w[1] = u}
<1>1. UNCHANGED <<deposit, Paid, Settled>>
  BY DEF Delete, checkoutVars, Paid, Settled, Token
<1>2. /\ due' = [w \in Wallets |-> IF w \in S THEN 0 ELSE due[w]]
      /\ mixed' = mixed \ S
  BY DEF Delete, IInv, TypeOK
<1>3. Funds' = [w \in Wallets |-> IF w \in S THEN 0 ELSE Funds[w]]
  BY DeleteKeepsSums DEF Funds
<1>4. R!Delete(S)
  BY <1>1, <1>2, <1>3 DEF R!Delete, Paid, Settled, Funds
<1>5. S \in SUBSET Wallets
  OBVIOUS
<1>6. QED
  BY <1>4, <1>5 DEF R!Next

LEMMA NextRefines ==
  ASSUME IInv, Sums, [Next]_vars
  PROVE  [R!Next]_(R!vars)
<1>1. TypeOK
  BY DEF IInv
<1>2. ASSUME UNCHANGED <<deposit, wallet, order, call, credits, due, mixed>>
      PROVE  UNCHANGED R!vars
  BY <1>2, Stutters DEF Paid, Settled, Funds, Token
<1>3. ASSUME NEW t \in Refs, CreateWallet(t)
      PROVE  UNCHANGED R!vars
  <2>1. Funds' = Funds
    BY <1>3, CreateKeepsSums DEF Funds
  <2>2. QED
    BY <1>3, <2>1, Stutters DEF CreateWallet, Paid, Settled, Token, sums
<1>4. ASSUME NEW t \in Refs, CreateOrder(t) \/ Approve(t)
      PROVE  UNCHANGED R!vars
  <2>1. order[t] # "captured" /\ order'[t] # "captured"
        /\ \A s \in Refs : s # t => order'[s] = order[s]
    BY <1>1, <1>4 DEF IInv, RowBeforeOrder, TypeOK, CreateOrder, Approve
  <2>2. Paid' = Paid
    BY <2>1 DEF Paid
  <2>3. UNCHANGED <<deposit, wallet, call, credits, due, mixed>>
    BY <1>4 DEF CreateOrder, Approve, checkoutVars, sums
  <2>4. QED
    BY <2>2, <2>3, Stutters DEF Settled, Funds, Token
<1>5. ASSUME NEW t \in Refs, FindWallet(t) \/ InsertRow(t) \/ BreakCheckout(t)
      PROVE  UNCHANGED R!vars
  BY <1>2, <1>5 DEF FindWallet, InsertRow, BreakCheckout, sums
<1>6. ASSUME NEW h \in Handlers, Step(h) \/ Break(h), ~Capture(h), ~ReadWallet(h),
             ~Commit(h)
      PROVE  UNCHANGED R!vars
  BY <1>2, <1>6 DEF Step, CaptureThrows, CancelPage, Lookup, LookupMiss, CommitThrows,
                    MarkFailed, Break, checkoutVars, sums
<1>7. CASE UNCHANGED vars
  BY <1>2, <1>7 DEF vars
<1>8. CASE \E t \in Refs : CheckoutStep(t) \/ BreakCheckout(t) \/ Approve(t)
  BY <1>3, <1>4, <1>5, <1>8 DEF CheckoutStep
<1>9. CASE \E h \in Handlers : Step(h) \/ Break(h)
  BY <1>6, <1>9, CaptureRefines, ReadRefines, CommitRefines
<1>10. CASE \E u \in Users : Delete(u)
  BY <1>10, DeleteRefines
<1>11. QED
  BY <1>7, <1>8, <1>9, <1>10 DEF Next

(* Buying currency does what Recharge promises, whatever overlaps, crashes, is
   cancelled, deleted or called with another transaction than the order's. *)
THEOREM PaymentImplementsRecharge == Spec => ImplementsRecharge
<1>1. Init => Sums
  <2> SUFFICES ASSUME Init PROVE Sums
    OBVIOUS
  <2>1. \A w \in Wallets : wallet[w].bal \in Nat /\ due[w] = wallet[w].bal
    BY InitialWallets DEF Init
  <2>2. BalancesAreDue
    BY <2>1, InitialWallets DEF BalancesAreDue
  <2>3. HeldIsDue /\ HeldOnce
    BY DEF Init, HeldIsDue, HeldOnce, InFlight
  <2>4. QED
    BY <2>2, <2>3 DEF Sums
<1>2. IInv /\ Sums /\ [Next]_vars => Sums'
  BY SumsKept
<1>3. IInv /\ Sums /\ [Next]_vars => [R!Next]_(R!vars)
  BY NextRefines
<1>4. QED
  BY <1>1, <1>2, <1>3, InitRefines, Invariance, PTL DEF Spec, ImplementsRecharge, R!Spec
===============================================================================
