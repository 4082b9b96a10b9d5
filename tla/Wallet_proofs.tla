----------------------------- MODULE Wallet_proofs -----------------------------
(***************************************************************************)
(* Proofs about Wallet for every set of users, requests, amounts, packages *)
(* and prices: what holds for every interleaving, failure and crash.       *)
(***************************************************************************)
EXTENDS Wallet, TLAPS

(* The awaits after the balance check. *)
PastCheck == {"findTo", "createTo", "payout", "commit"}

(* A wallet no administrator sets below zero is not below it in a row that was
   read either: what a handler writes back is computed from one of them. *)
Solvent ==
  /\ \A w \in Wallets \ Indebted : wallet[w].bal >= 0
  /\ \A r \in Requests, leg \in Legs : WalletOf(call[r], leg) \notin Indebted => seen[r][leg].bal >= 0

(* No debit on record left its wallet below zero. *)
DebitsSolvent == \A row \in ledger : row.status = "success" /\ row.amount < 0 => row.after >= 0

(* The balance a request holds, stale or not, covers its amount. *)
Covered ==
  \A r \in Requests :
    pc[r] \in PastCheck /\ call[r].kind \notin AdminKinds =>
      seen[r]["from"].bal >= call[r].amount

(* Only two-legged calls look for a second wallet, only withdrawals write a
   failure, and the only way to a withdrawal's commit is its payout. *)
PaidBeforeCommit ==
  \A r \in Requests :
    /\ pc[r] \in {"findTo", "createTo"} => TwoLegged(call[r])
    /\ pc[r] = "markFailed" => call[r].kind = "withdraw"
    /\ pc[r] = "commit" /\ call[r].kind = "withdraw" => r \in payouts

RowsMatchCalls == \A row \in ledger : row.type = call[row.ref].kind

(* The inductive invariant: Solvent and DebitsSolvent need Covered, because a commit
   subtracts from what was read; DebitHasPayout needs PaidBeforeCommit and
   RowsMatchCalls, because a record's type is its call's. *)
IInv ==
  /\ TypeOK
  /\ Solvent
  /\ DebitsSolvent
  /\ Covered
  /\ PaidBeforeCommit
  /\ RowsMatchCalls
  /\ NoRecordBeforeCommit
  /\ DebitHasPayout

USE DEF Requests

-----------------------------------------------------------------------------
LEMMA CallFacts ==
  ASSUME NEW c \in Calls
  PROVE  /\ c.kind \in AllKinds
         /\ c.from \in Wallets
         /\ c.to \in Wallets
         /\ c.amount \in Int /\ (c.kind # "set" => c.amount \in Nat)
         /\ c.gain \in Nat
         /\ c.kind = "keep" => c.amount = 0
         /\ IF TwoLegged(c) THEN c.from # c.to ELSE c.from = c.to
         /\ c.kind = "transfer" => c.from[2] = "vex" /\ c.to[2] = "vex"
         /\ c.kind \in {"convert", "withdraw"} => c.from[2] = "vex"
<1>1. CASE c \in {x \in TransferCalls : x.from # x.to}
  BY <1>1, WalletAssumption
     DEF TransferCalls, Call, AllKinds, Wallets, Currencies, TwoLegged
<1>2. CASE c \in {Call("convert", <<u, "vex">>, <<u, "diamond">>, a, PackageGain(a)) :
                    u \in Users, a \in Amounts}
  BY <1>2, WalletAssumption
     DEF PackageGain, Call, AllKinds, Wallets, Currencies, TwoLegged
<1>3. CASE c \in {Call("withdraw", <<u, "vex">>, <<u, "vex">>, a, 0) :
                    u \in Users, a \in Amounts}
  BY <1>3, WalletAssumption DEF Call, AllKinds, Wallets, Currencies, TwoLegged
<1>4. CASE c \in {Call("subscription", <<u, "diamond">>, <<u, "diamond">>, p, 0) :
                    u \in Users, p \in CardPrices}
  BY <1>4, WalletAssumption DEF Call, AllKinds, Wallets, Currencies, TwoLegged
<1>5. CASE c \in {Call("set", w, w, b, 0) : w \in Wallets, b \in AdminBalances}
  BY <1>5, WalletAssumption DEF Call, AllKinds, TwoLegged
<1>6. CASE c \in {Call("keep", w, w, 0, 0) : w \in Wallets}
  BY <1>6 DEF Call, AllKinds, TwoLegged
<1>7. QED
  BY <1>1, <1>2, <1>3, <1>4, <1>5, <1>6 DEF Calls

(* The call of a request and the wallets of its legs are well typed. *)
LEMMA CallOfRequest ==
  ASSUME TypeOK, NEW r \in Requests
  PROVE  /\ call[r] \in Calls
         /\ call[r].kind \in AllKinds
         /\ call[r].from \in Wallets
         /\ call[r].to \in Wallets
         /\ call[r].amount \in Int /\ (call[r].kind # "set" => call[r].amount \in Nat)
         /\ call[r].gain \in Nat
         /\ call[r].kind = "keep" => call[r].amount = 0
         /\ IF TwoLegged(call[r]) THEN call[r].from # call[r].to ELSE call[r].from = call[r].to
         /\ \A leg \in Legs : WalletOf(call[r], leg) \in Wallets
<1>1. call[r] \in Calls
  BY DEF TypeOK
<1>2. QED
  BY <1>1, CallFacts DEF WalletOf

LEMMA InitEstablishes == Init => IInv
<1> SUFFICES ASSUME Init PROVE IInv
  OBVIOUS
<1>1. ASSUME NEW w \in Wallets
      PROVE  wallet[w] \in WalletRow /\ wallet[w].bal >= 0
  <2>1. wallet[w] \in {NoRow} \cup [live : {TRUE}, gen : {0}, bal : InitBalances]
    BY DEF Init
  <2>2. CASE wallet[w] = NoRow
    BY <2>2 DEF NoRow, WalletRow
  <2>3. CASE wallet[w] \in [live : {TRUE}, gen : {0}, bal : InitBalances]
    <3>1. PICK b \in InitBalances : wallet[w] = [live |-> TRUE, gen |-> 0, bal |-> b]
      BY <2>3
    <3>2. b \in Nat
      BY WalletAssumption
    <3>3. QED
      BY <3>1, <3>2 DEF WalletRow
  <2>4. QED
    BY <2>1, <2>2, <2>3
<1>2. TypeOK
  <2>1. wallet \in [Wallets -> WalletRow]
    <3>1. wallet = [w \in Wallets |-> wallet[w]]
      BY DEF Init
    <3>2. QED
      BY <1>1, <3>1
  <2>2. seen \in [Requests -> [Legs -> WalletRow]]
    BY DEF Init, NoRow, WalletRow
  <2>3. QED
    BY <2>1, <2>2 DEF Init, TypeOK, TablesOK, PCs
<1>3. Solvent
  BY <1>1 DEF Init, Solvent, NoRow
<1>4. QED
  BY <1>2, <1>3 DEF Init, IInv, DebitsSolvent, Covered, PastCheck, PaidBeforeCommit, RowsMatchCalls,
                    NoRecordBeforeCommit, DebitHasPayout

-----------------------------------------------------------------------------
(* Where the checks lead a call. *)
LEMMA CheckLeads ==
  ASSUME NEW c \in Calls, NEW b \in Int, NEW leg \in Legs
  PROVE  /\ AfterLeg(c, leg, b) \in PCs
         /\ AfterLeg(c, leg, b) \in {"rejected", "findTo", "payout", "commit"}
         /\ leg = "from" /\ AfterLeg(c, leg, b) # "rejected" /\ c.kind \notin AdminKinds
              => b >= c.amount
         /\ leg = "from" /\ AfterLeg(c, leg, b) = "findTo" => TwoLegged(c)
         /\ leg = "from" /\ AfterLeg(c, leg, b) = "commit" => c.kind # "withdraw"
         /\ leg = "to" => AfterLeg(c, leg, b) = "commit"
<1>1. c.amount \in Int /\ c.kind \in AllKinds
  BY CallFacts
<1>2. QED
  BY <1>1 DEF AfterLeg, AfterCheck, Refused, Proceed, PCs, Ended, Legs, TwoLegged

LEMMA FindStep ==
  ASSUME IInv, NEW r \in Requests, NEW leg \in Legs, Find(r, leg)
  PROVE  IInv'
<1> DEFINE w == WalletOf(call[r], leg)
           next == AfterLeg(call[r], leg, wallet[w].bal)
<1>1. /\ w \in Wallets
      /\ call[r] \in Calls
      /\ call[r].kind \in AllKinds
  BY CallOfRequest DEF IInv
<1>2. wallet[w] \in WalletRow /\ wallet[w].bal \in Int /\ (w \notin Indebted => wallet[w].bal >= 0)
  BY <1>1 DEF IInv, TypeOK, TablesOK, Solvent, WalletRow
<1>3. /\ pc[r] = FindAt(leg)
      /\ seen' = [seen EXCEPT ![r][leg] = wallet[w]]
      /\ pc' = [pc EXCEPT ![r] = next]
      /\ UNCHANGED <<wallet, ledger, call, payouts, vip>>
  BY DEF Find, Goto
<1>4. /\ pc \in [Requests -> PCs]
      /\ seen \in [Requests -> [Legs -> WalletRow]]
  BY DEF IInv, TypeOK
<1>5. next \in PCs
  BY <1>1, <1>2, CheckLeads
<1>6. TypeOK'
  <2>1. seen' \in [Requests -> [Legs -> WalletRow]]
    BY <1>2, <1>3, <1>4
  <2>2. QED
    BY <1>3, <1>4, <1>5, <2>1 DEF IInv, TypeOK, TablesOK
<1>7. Solvent'
  BY <1>2, <1>3, <1>4 DEF IInv, Solvent, Indebted
<1>8. ASSUME NEW s \in Requests, pc'[s] \in PastCheck, call'[s].kind \notin AdminKinds
      PROVE  seen'[s]["from"].bal >= call'[s].amount
  <2>1. CASE s # r
    BY <1>3, <1>4, <1>8, <2>1 DEF IInv, Covered
  <2>2. CASE s = r /\ leg = "from"
    BY <1>1, <1>2, <1>3, <1>4, <1>8, <2>2, CheckLeads DEF PastCheck
  <2>3. CASE s = r /\ leg = "to"
    BY <1>3, <1>4, <1>8, <2>3 DEF IInv, Covered, PastCheck, FindAt, Legs
  <2>4. QED
    BY <2>1, <2>2, <2>3 DEF Legs
<1>9. PaidBeforeCommit'
  <2>1. SUFFICES ASSUME NEW s \in Requests
        PROVE  /\ pc'[s] \in {"findTo", "createTo"} => TwoLegged(call[s])
               /\ pc'[s] = "markFailed" => call[s].kind = "withdraw"
               /\ pc'[s] = "commit" /\ call[s].kind = "withdraw" => s \in payouts
    BY <1>3 DEF PaidBeforeCommit, TwoLegged
  <2>2. CASE s # r
    BY <1>3, <1>4, <2>2 DEF IInv, PaidBeforeCommit
  <2>3. CASE s = r /\ leg = "from"
    BY <1>1, <1>2, <1>3, <1>4, <2>3, CheckLeads
  <2>4. CASE s = r /\ leg = "to"
    <3>1. TwoLegged(call[r])
      BY <1>3, <2>4 DEF IInv, PaidBeforeCommit, FindAt
    <3>2. pc'[r] = "commit"
      BY <1>1, <1>2, <1>3, <1>4, <2>4, CheckLeads
    <3>3. QED
      BY <2>4, <3>1, <3>2 DEF TwoLegged
  <2>5. QED
    BY <2>2, <2>3, <2>4 DEF Legs
<1>10. NoRecordBeforeCommit'
  BY <1>3, <1>4 DEF IInv, NoRecordBeforeCommit, FindAt, TypeOK, TablesOK
<1>11. QED
  BY <1>3, <1>6, <1>7, <1>8, <1>9, <1>10
     DEF IInv, DebitsSolvent, Covered, RowsMatchCalls, DebitHasPayout

(* The awaits after which a request may have left a record. *)
Recorded == {"done", "markFailed", "failed", "crashed"}

(* A step of a request that writes none of the tables. *)
LEMMA QuietStep ==
  ASSUME IInv, NEW r \in Requests, NEW next \in PCs,
         pc' = [pc EXCEPT ![r] = next],
         UNCHANGED <<wallet, ledger, call, seen, vip>>,
         payouts \subseteq payouts', payouts' \subseteq Requests,
         next \in PastCheck => pc[r] \in PastCheck,
         next \in {"findTo", "createTo"} => TwoLegged(call[r]),
         next = "markFailed" => call[r].kind = "withdraw",
         next = "commit" /\ call[r].kind = "withdraw" => r \in payouts',
         pc[r] \in Recorded => next \in Recorded
  PROVE  IInv'
<1>1. pc \in [Requests -> PCs]
  BY DEF IInv, TypeOK
<1>2. TypeOK'
  BY <1>1 DEF IInv, TypeOK, TablesOK
<1>3. Solvent' /\ DebitsSolvent' /\ RowsMatchCalls' /\ DebitHasPayout'
  BY DEF IInv, Solvent, Indebted, DebitsSolvent, RowsMatchCalls, DebitHasPayout
<1>4. Covered'
  BY <1>1 DEF IInv, Covered
<1>5. PaidBeforeCommit'
  BY <1>1 DEF IInv, PaidBeforeCommit, TwoLegged
<1>6. NoRecordBeforeCommit'
  BY <1>1 DEF IInv, NoRecordBeforeCommit, Recorded, TypeOK, TablesOK, TransactionRow
<1>7. QED
  BY <1>2, <1>3, <1>4, <1>5, <1>6 DEF IInv

LEMMA MissStep ==
  ASSUME IInv, NEW r \in Requests, NEW leg \in Legs, Miss(r, leg)
  PROVE  IInv'
<1>1. /\ pc[r] = FindAt(leg)
      /\ pc' = [pc EXCEPT ![r] = CreateAt(leg)]
      /\ UNCHANGED <<wallet, ledger, call, seen, payouts, vip>>
  BY DEF Miss, Goto
<1>2. CreateAt(leg) \in PCs /\ payouts \subseteq Requests
  BY DEF CreateAt, PCs, IInv, TypeOK
<1>3. CreateAt(leg) = "createTo" => TwoLegged(call[r])
  BY <1>1 DEF CreateAt, FindAt, IInv, PaidBeforeCommit
<1>4. QED
  BY <1>1, <1>2, <1>3, QuietStep DEF CreateAt, FindAt, PastCheck, Recorded

LEMMA CreateLostStep ==
  ASSUME IInv, NEW r \in Requests, NEW leg \in Legs, CreateLost(r, leg)
  PROVE  IInv'
<1>1. "failed" \in PCs /\ payouts \subseteq Requests
  BY DEF PCs, Ended, IInv, TypeOK
<1>2. QED
  BY <1>1, QuietStep DEF CreateLost, Goto, CreateAt, PastCheck, Recorded

LEMMA PayoutStep ==
  ASSUME IInv, NEW r \in Requests, Payout(r) \/ PayoutThrows(r)
  PROVE  IInv'
<1>1. /\ pc[r] = "payout"
      /\ UNCHANGED <<wallet, ledger, call, seen, vip>>
      /\ payouts \subseteq payouts' /\ payouts' \subseteq Requests
  BY DEF Payout, PayoutThrows, IInv, TypeOK
<1>2. CASE Payout(r)
  <2>1. pc' = [pc EXCEPT ![r] = "commit"] /\ r \in payouts'
    BY <1>2 DEF Payout, Goto
  <2>2. "commit" \in PCs
    BY DEF PCs
  <2>3. QED
    BY <1>1, <2>1, <2>2, QuietStep DEF PastCheck, Recorded
<1>3. CASE PayoutThrows(r)
  <2>1. pc' = [pc EXCEPT ![r] = OnError(call[r])]
    BY <1>3 DEF PayoutThrows, Goto
  <2>2. /\ OnError(call[r]) \in PCs /\ OnError(call[r]) \in Recorded
        /\ OnError(call[r]) = "markFailed" => call[r].kind = "withdraw"
    BY DEF OnError, PCs, Ended, Recorded
  <2>3. QED
    BY <1>1, <2>1, <2>2, QuietStep DEF PastCheck, Recorded
<1>4. QED
  BY <1>2, <1>3

LEMMA RollbackStep ==
  ASSUME IInv, NEW r \in Requests, Rollback(r)
  PROVE  IInv'
<1>1. /\ OnError(call[r]) \in PCs /\ OnError(call[r]) \in Recorded
      /\ OnError(call[r]) = "markFailed" => call[r].kind = "withdraw"
      /\ payouts \subseteq Requests
  BY DEF OnError, PCs, Ended, Recorded, IInv, TypeOK
<1>2. QED
  BY <1>1, QuietStep DEF Rollback, Goto, PastCheck, Recorded

LEMMA CrashStep ==
  ASSUME IInv, NEW r \in Requests, Crash(r)
  PROVE  IInv'
<1>1. "crashed" \in PCs /\ payouts \subseteq Requests
  BY DEF PCs, Ended, IInv, TypeOK
<1>2. QED
  BY <1>1, QuietStep DEF Crash, Goto, PastCheck, Recorded

LEMMA CreateStep ==
  ASSUME IInv, NEW r \in Requests, NEW leg \in Legs, Create(r, leg)
  PROVE  IInv'
<1> DEFINE c == call[r]
           w == WalletOf(c, leg)
           row == NewWallet(w, OpeningBalance(c))
           next == IF c.kind \in AdminKinds THEN "done" ELSE AfterLeg(c, leg, 0)
<1>1. /\ c \in Calls /\ c.kind \in AllKinds /\ c.amount \in Int /\ (c.kind = "set" => w = c.from)
      /\ w \in Wallets
  BY CallOfRequest DEF IInv, WalletOf, TwoLegged
<1>2. /\ pc[r] = CreateAt(leg)
      /\ wallet' = [wallet EXCEPT ![w] = row]
      /\ seen' = [seen EXCEPT ![r][leg] = row]
      /\ pc' = [pc EXCEPT ![r] = next]
      /\ UNCHANGED <<ledger, call, payouts, vip>>
  BY DEF Create, Goto
<1>3. /\ pc \in [Requests -> PCs]
      /\ seen \in [Requests -> [Legs -> WalletRow]]
      /\ wallet \in [Wallets -> WalletRow]
  BY DEF IInv, TypeOK, TablesOK
<1>4. row \in WalletRow /\ row.bal = OpeningBalance(c) /\ (w \notin Indebted => row.bal >= 0)
  <2>1. OpeningBalance(c) \in Int /\ (w \notin Indebted => OpeningBalance(c) >= 0)
    BY <1>1 DEF OpeningBalance, Indebted
  <2>2. wallet[w] \in WalletRow
    BY <1>1, <1>3
  <2>3. QED
    BY <2>1, <2>2 DEF NewWallet, WalletRow
<1>5. /\ next \in PCs
      /\ next = "done" \/ (c.kind \notin AdminKinds /\ next = AfterLeg(c, leg, 0))
  BY <1>1, CheckLeads DEF PCs, Ended
<1>6. TypeOK'
  <2>1. seen' \in [Requests -> [Legs -> WalletRow]]
    BY <1>2, <1>3, <1>4
  <2>2. wallet' \in [Wallets -> WalletRow]
    BY <1>1, <1>2, <1>3, <1>4
  <2>3. QED
    BY <1>2, <1>3, <1>5, <2>1, <2>2 DEF IInv, TypeOK, TablesOK
<1>7. Solvent'
  BY <1>1, <1>2, <1>3, <1>4 DEF IInv, Solvent, Indebted
<1>8. ASSUME NEW s \in Requests, pc'[s] \in PastCheck, call'[s].kind \notin AdminKinds
      PROVE  seen'[s]["from"].bal >= call'[s].amount
  <2>1. CASE s # r
    BY <1>2, <1>3, <1>8, <2>1 DEF IInv, Covered
  <2>2. CASE s = r /\ leg = "from"
    <3>1. row.bal = 0
      BY <1>2, <1>4, <1>8, <2>2 DEF OpeningBalance, AdminKinds
    <3>2. next = AfterLeg(c, leg, 0) /\ next # "rejected"
      BY <1>2, <1>3, <1>8, <2>2 DEF PastCheck
    <3>3. 0 >= c.amount
      BY <1>1, <1>2, <1>8, <2>2, <3>2, CheckLeads
    <3>4. QED
      BY <1>2, <1>3, <2>2, <3>1, <3>3
  <2>3. CASE s = r /\ leg = "to"
    BY <1>2, <1>3, <1>8, <2>3 DEF IInv, Covered, PastCheck, CreateAt, Legs
  <2>4. QED
    BY <2>1, <2>2, <2>3 DEF Legs
<1>9. PaidBeforeCommit'
  <2>1. SUFFICES ASSUME NEW s \in Requests
        PROVE  /\ pc'[s] \in {"findTo", "createTo"} => TwoLegged(call[s])
               /\ pc'[s] = "markFailed" => call[s].kind = "withdraw"
               /\ pc'[s] = "commit" /\ call[s].kind = "withdraw" => s \in payouts
    BY <1>2 DEF PaidBeforeCommit, TwoLegged
  <2>2. CASE s # r
    BY <1>2, <1>3, <2>2 DEF IInv, PaidBeforeCommit
  <2>3. CASE s = r /\ leg = "from"
    BY <1>1, <1>2, <1>3, <1>5, <2>3, CheckLeads
  <2>4. CASE s = r /\ leg = "to"
    <3>1. TwoLegged(call[r])
      BY <1>2, <2>4 DEF IInv, PaidBeforeCommit, CreateAt
    <3>2. pc'[r] \in {"commit", "done"}
      BY <1>1, <1>2, <1>3, <1>5, <2>4, CheckLeads
    <3>3. QED
      BY <2>4, <3>1, <3>2 DEF TwoLegged
  <2>5. QED
    BY <2>2, <2>3, <2>4 DEF Legs
<1>10. NoRecordBeforeCommit'
  BY <1>2, <1>3 DEF IInv, NoRecordBeforeCommit, CreateAt, TypeOK, TablesOK
<1>11. QED
  BY <1>2, <1>6, <1>7, <1>8, <1>9, <1>10
     DEF IInv, DebitsSolvent, Covered, RowsMatchCalls, DebitHasPayout

(* What a commit writes is not negative, although it is computed from rows
   other requests may have overwritten since, unless an administrator wills it:
   a debit never is. *)
LEMMA CommitIsSolvent ==
  ASSUME IInv, NEW r \in Requests, pc[r] = "commit"
  PROVE  /\ NewFrom(r) \in Int /\ NewTo(r) \in Int
         /\ call[r].kind \notin AdminKinds => NewFrom(r) >= 0
         /\ call[r].from \notin Indebted => NewFrom(r) >= 0
         /\ call[r].to \notin Indebted => NewTo(r) >= 0
<1>1. /\ call[r].kind \in AllKinds /\ call[r].amount \in Int /\ call[r].gain \in Nat
      /\ call[r].kind = "keep" => call[r].amount = 0
      /\ call[r].from \in Wallets
  BY CallOfRequest DEF IInv
<1>2. /\ seen[r]["from"] \in WalletRow /\ (call[r].from \notin Indebted => seen[r]["from"].bal >= 0)
      /\ seen[r]["to"] \in WalletRow /\ (call[r].to \notin Indebted => seen[r]["to"].bal >= 0)
  BY DEF IInv, TypeOK, Solvent, Legs, WalletOf
<1>3. seen[r]["from"].bal \in Int /\ seen[r]["to"].bal \in Int
  BY <1>2 DEF WalletRow
<1>4. NewTo(r) \in Int /\ (call[r].to \notin Indebted => NewTo(r) >= 0)
  BY <1>1, <1>2, <1>3 DEF NewTo
<1>5. CASE call[r].kind = "set"
  <2>1. NewFrom(r) = call[r].amount /\ (call[r].from \notin Indebted => call[r].amount >= 0)
    BY <1>1, <1>5 DEF NewFrom, Indebted
  <2>2. QED
    BY <1>1, <1>4, <1>5, <2>1 DEF AdminKinds
<1>6. CASE call[r].kind # "set"
  <2>1. NewFrom(r) = seen[r]["from"].bal - call[r].amount
    BY <1>6 DEF NewFrom
  <2>2. CASE call[r].kind = "keep"
    BY <1>1, <1>2, <1>3, <1>4, <2>1, <2>2 DEF AdminKinds
  <2>3. CASE call[r].kind # "keep"
    <3>1. seen[r]["from"].bal >= call[r].amount
      BY <1>6, <2>3 DEF IInv, Covered, PastCheck, AdminKinds
    <3>2. QED
      BY <1>1, <1>3, <1>4, <2>1, <3>1
  <2>4. QED
    BY <2>2, <2>3
<1>7. QED
  BY <1>5, <1>6

LEMMA RowsAreTyped ==
  ASSUME IInv, NEW r \in Requests, pc[r] = "commit"
  PROVE  /\ Rows(r) \subseteq TransactionRow
         /\ \A row \in Rows(r) : row.ref = r /\ row.type = call[r].kind /\ (row.amount < 0 => row.after >= 0)
<1>1. /\ call[r].kind \in AllKinds /\ call[r].amount \in Int /\ call[r].gain \in Nat
      /\ call[r].from \in Wallets /\ call[r].to \in Wallets
  BY CallOfRequest DEF IInv
<1>2. seen[r]["from"].bal \in Int /\ seen[r]["to"].bal \in Int
  BY DEF IInv, TypeOK, Legs, WalletRow
<1>3. NewFrom(r) \in Int /\ NewTo(r) \in Int /\ (call[r].kind \notin AdminKinds => NewFrom(r) >= 0)
  BY CommitIsSolvent
<1>4. call[r].kind \in Types =>
        OutRow(r) \in TransactionRow /\ InRow(r) \in TransactionRow
  BY <1>1, <1>2, <1>3 DEF OutRow, InRow, TransactionRow, Statuses
<1>5. /\ OutRow(r).after = NewFrom(r) /\ OutRow(r).ref = r /\ OutRow(r).type = call[r].kind
      /\ InRow(r).amount = call[r].gain /\ InRow(r).ref = r /\ InRow(r).type = call[r].kind
  BY DEF OutRow, InRow
<1>6. /\ ~(InRow(r).amount < 0)
      /\ call[r].kind \in {"transfer", "withdraw", "subscription"} => OutRow(r).after >= 0
  BY <1>1, <1>3, <1>5 DEF AdminKinds
<1>7. \A row \in Rows(r) : /\ row = OutRow(r) \/ row = InRow(r)
                           /\ row = OutRow(r) /\ row # InRow(r) => call[r].kind \in {"transfer", "withdraw", "subscription"}
                           /\ call[r].kind \in Types
  BY DEF Rows, TwoLegged, Types
<1>8. QED
  BY <1>4, <1>5, <1>6, <1>7

LEMMA CommitStep ==
  ASSUME IInv, NEW r \in Requests, Commit(r)
  PROVE  IInv'
<1> DEFINE c == call[r]
           next == pc'[r]
<1>1. /\ pc[r] = "commit"
      /\ wallet' = IF TwoLegged(c)
                   THEN [wallet EXCEPT ![c.from].bal = NewFrom(r), ![c.to].bal = NewTo(r)]
                   ELSE [wallet EXCEPT ![c.from].bal = NewFrom(r)]
      /\ ledger' = ledger \cup Rows(r)
      /\ UNCHANGED <<call, seen, payouts>>
  BY DEF Commit
<1>2. /\ c \in Calls /\ c.kind \in AllKinds
      /\ c.from \in Wallets /\ c.to \in Wallets
      /\ TwoLegged(c) => c.from # c.to
  BY CallOfRequest DEF IInv
<1>3. /\ NewFrom(r) \in Int /\ NewTo(r) \in Int
      /\ c.from \notin Indebted => NewFrom(r) >= 0
      /\ c.to \notin Indebted => NewTo(r) >= 0
  BY <1>1, CommitIsSolvent
<1>4. /\ wallet \in [Wallets -> WalletRow]
      /\ pc \in [Requests -> PCs]
      /\ ledger \subseteq TransactionRow
      /\ vip \in [Users -> BOOLEAN]
  BY DEF IInv, TypeOK, TablesOK
<1>5. ASSUME NEW w \in Wallets
      PROVE  wallet'[w] \in WalletRow /\ (w \notin Indebted => wallet'[w].bal >= 0)
  <2>1. wallet[w] \in WalletRow /\ (w \notin Indebted => wallet[w].bal >= 0)
    BY <1>4 DEF IInv, Solvent
  <2>2. \/ wallet'[w] = wallet[w]
        \/ w = c.from /\ wallet'[w] = [wallet[w] EXCEPT !.bal = NewFrom(r)]
        \/ w = c.to /\ wallet'[w] = [wallet[w] EXCEPT !.bal = NewTo(r)]
    BY <1>1, <1>2, <1>4
  <2>3. QED
    BY <1>3, <2>1, <2>2 DEF WalletRow
<1>6. wallet' \in [Wallets -> WalletRow]
  <2>1. wallet' = [w \in Wallets |-> wallet'[w]]
    BY <1>1, <1>2, <1>4
  <2>2. QED
    BY <1>5, <2>1
<1>7. /\ \E p \in Recorded : /\ pc' = [pc EXCEPT ![r] = p]
                             /\ p = "markFailed" => c.kind = "withdraw"
      /\ Recorded \subseteq PCs
  BY DEF Commit, Goto, OnError, Recorded, PCs, Ended
<1>8. /\ next \in Recorded /\ (next = "markFailed" => c.kind = "withdraw")
      /\ pc' = [pc EXCEPT ![r] = next] /\ pc' \in [Requests -> PCs]
  <2>1. PICK p \in Recorded : /\ pc' = [pc EXCEPT ![r] = p]
                              /\ p = "markFailed" => c.kind = "withdraw"
    BY <1>7
  <2>2. next = p
    BY <1>4, <2>1
  <2>3. QED
    BY <1>4, <1>7, <2>1, <2>2
<1>9. /\ Rows(r) \subseteq TransactionRow
      /\ \A row \in Rows(r) : row.ref = r /\ row.type = c.kind /\ (row.amount < 0 => row.after >= 0)
  BY <1>1, RowsAreTyped
<1>10. vip' \in [Users -> BOOLEAN]
  BY <1>4 DEF Commit
<1>11. TypeOK'
  BY <1>1, <1>4, <1>6, <1>8, <1>9, <1>10 DEF IInv, TypeOK, TablesOK
<1>12. Solvent' /\ DebitsSolvent'
  BY <1>1, <1>5, <1>9 DEF IInv, Solvent, Indebted, DebitsSolvent
<1>13. Covered'
  BY <1>1, <1>4, <1>8 DEF IInv, Covered, PastCheck, Recorded
<1>14. PaidBeforeCommit'
  BY <1>1, <1>4, <1>8 DEF IInv, PaidBeforeCommit, Recorded, TwoLegged
<1>15. RowsMatchCalls'
  BY <1>1, <1>9 DEF IInv, RowsMatchCalls
<1>16. NoRecordBeforeCommit'
  <2>1. ASSUME NEW row \in ledger' PROVE pc'[row.ref] \in Recorded
    <3>1. CASE row \in Rows(r)
      BY <1>4, <1>8, <1>9, <3>1
    <3>2. CASE row \in ledger
      <4>1. row.ref \in Requests /\ pc[row.ref] \in Recorded
        BY <1>4, <3>2 DEF IInv, NoRecordBeforeCommit, Recorded, TransactionRow
      <4>2. QED
        BY <1>4, <1>8, <4>1
    <3>3. QED
      BY <1>1, <3>1, <3>2
  <2>2. QED
    BY <2>1 DEF NoRecordBeforeCommit, Recorded
<1>17. DebitHasPayout'
  <2>1. c.kind = "withdraw" => r \in payouts
    BY <1>1 DEF IInv, PaidBeforeCommit
  <2>2. QED
    BY <1>1, <1>9, <2>1 DEF IInv, DebitHasPayout
<1>18. QED
  BY <1>11, <1>12, <1>13, <1>14, <1>15, <1>16, <1>17 DEF IInv

LEMMA MarkFailedStep ==
  ASSUME IInv, NEW r \in Requests, MarkFailed(r)
  PROVE  IInv'
<1> DEFINE failure == FailedRow(r)
<1>1. /\ pc[r] = "markFailed"
      /\ pc' = [pc EXCEPT ![r] = "failed"]
      /\ ledger' = ledger \/ ledger' = ledger \cup {failure}
      /\ UNCHANGED <<wallet, call, seen, payouts, vip>>
  BY DEF MarkFailed, Goto
<1>2. "failed" \in PCs /\ payouts \subseteq Requests
  BY DEF PCs, Ended, IInv, TypeOK
<1>3. CASE ledger' = ledger
  BY <1>1, <1>2, <1>3, QuietStep DEF PastCheck, Recorded
<1>4. CASE ledger' = ledger \cup {failure}
  <2>1. call[r].kind = "withdraw"
    BY <1>1 DEF IInv, PaidBeforeCommit
  <2>2. call[r].from \in Wallets /\ call[r].amount \in Int
    BY CallOfRequest DEF IInv
  <2>3. seen[r]["from"].bal \in Int
    BY DEF IInv, TypeOK, Legs, WalletRow
  <2>4. failure \in TransactionRow
    BY <2>2, <2>3 DEF FailedRow, TransactionRow, Types, Statuses
  <2>5. failure.ref = r /\ failure.type = "withdraw" /\ failure.status = "failed"
    BY DEF FailedRow
  <2>6. failure.type = call[failure.ref].kind
    BY <2>1, <2>5
  <2>7. /\ pc \in [Requests -> PCs]
        /\ ledger \subseteq TransactionRow
    BY DEF IInv, TypeOK, TablesOK
  <2>8. TypeOK'
    BY <1>1, <1>2, <1>4, <2>4 DEF IInv, TypeOK, TablesOK
  <2>9. Solvent' /\ Covered' /\ PaidBeforeCommit'
    BY <1>1, <2>7 DEF IInv, Solvent, Indebted, Covered, PastCheck, PaidBeforeCommit, TwoLegged
  <2>10. RowsMatchCalls' /\ DebitHasPayout' /\ DebitsSolvent'
    BY <1>1, <1>4, <2>5, <2>6 DEF IInv, RowsMatchCalls, DebitHasPayout, DebitsSolvent
  <2>11. NoRecordBeforeCommit'
    BY <1>1, <1>4, <2>5, <2>7 DEF IInv, NoRecordBeforeCommit, TransactionRow
  <2>12. QED
    BY <2>8, <2>9, <2>10, <2>11 DEF IInv
<1>5. QED
  BY <1>1, <1>3, <1>4

LEMMA DeleteStep ==
  ASSUME IInv, NEW u \in Users, Delete(u)
  PROVE  IInv'
<1>1. /\ wallet' = [w \in Wallets |->
                      IF w[1] = u /\ wallet[w].live
                      THEN [live |-> FALSE, gen |-> wallet[w].gen + 1, bal |-> 0]
                      ELSE wallet[w]]
      /\ ledger' \subseteq ledger
      /\ UNCHANGED <<call, pc, seen, payouts, vip>>
  BY DEF Delete, DeleteWallets
<1>2. ASSUME NEW w \in Wallets
      PROVE  wallet'[w] \in WalletRow /\ (w \notin Indebted => wallet'[w].bal >= 0)
  BY <1>1 DEF IInv, TypeOK, TablesOK, Solvent, WalletRow
<1>3. TypeOK'
  <2>1. wallet' \in [Wallets -> WalletRow]
    BY <1>1, <1>2
  <2>2. QED
    BY <1>1, <2>1 DEF IInv, TypeOK, TablesOK
<1>4. Solvent'
  BY <1>1, <1>2 DEF IInv, Solvent, Indebted
<1>5. QED
  BY <1>1, <1>3, <1>4
     DEF IInv, DebitsSolvent, Covered, PaidBeforeCommit, TwoLegged, RowsMatchCalls, NoRecordBeforeCommit,
         DebitHasPayout

LEMMA NextPreserves == IInv /\ [Next]_vars => IInv'
<1> SUFFICES ASSUME IInv, [Next]_vars PROVE IInv'
  OBVIOUS
<1>1. CASE UNCHANGED vars
  BY <1>1 DEF vars, IInv, TypeOK, TablesOK, Solvent, Indebted, DebitsSolvent, Covered, PaidBeforeCommit,
              TwoLegged, RowsMatchCalls, NoRecordBeforeCommit, DebitHasPayout
<1>2. ASSUME NEW r \in Requests, Step(r) PROVE IInv'
  BY <1>2, FindStep, MissStep, CreateStep, CreateLostStep, PayoutStep, CommitStep,
     RollbackStep, MarkFailedStep
     DEF Step
<1>3. QED
  BY <1>1, <1>2, CrashStep, DeleteStep DEF Next

(* Every reachable state satisfies the inductive invariant. *)
LEMMA Invariance == Spec => []IInv
  BY InitEstablishes, NextPreserves, PTL DEF Spec

-----------------------------------------------------------------------------
(* The tables, and the state of every handler, keep their types. *)
THEOREM TypeCorrect == Spec => []TypeOK
  BY Invariance, PTL DEF IInv

(* No interleaving of transfers, conversions, withdrawals, purchases and
   administrator calls leaves a wallet with a negative balance, unless a call
   of an administrator sets that wallet to one; and no debit on record left one
   below zero, whatever administrators set. *)
THEOREM NeverOverdrawn == Spec => []NoOverdraft
<1>1. IInv => NoOverdraft
  BY DEF IInv, Solvent, DebitsSolvent, NoOverdraft
<1>2. QED
  BY <1>1, Invariance, PTL

(* No withdrawal is recorded as successful before PayPal has paid it. *)
THEOREM DebitsHavePayouts == Spec => []DebitHasPayout
  BY Invariance, PTL DEF IInv

(* A request that ended before its commit left no transaction record. *)
THEOREM NoEarlyRecord == Spec => []NoRecordBeforeCommit
  BY Invariance, PTL DEF IInv

-----------------------------------------------------------------------------
(* An administrator's balance update, the one change without a record. *)
AdminWrite ==
  \E r \in Requests : call[r].kind \in AdminKinds /\ pc[r] = "commit" /\ pc'[r] # "commit"

LEMMA CommitIsRecorded ==
  ASSUME IInv, NEW r \in Requests, Commit(r), NEW u \in Users,
         SilentChange(<<u, "diamond">>)
  PROVE  AdminWrite
<1> DEFINE c == call[r]
           w == <<u, "diamond">>
<1>1. /\ pc[r] = "commit"
      /\ wallet' = IF TwoLegged(c)
                   THEN [wallet EXCEPT ![c.from].bal = NewFrom(r), ![c.to].bal = NewTo(r)]
                   ELSE [wallet EXCEPT ![c.from].bal = NewFrom(r)]
      /\ ledger' = ledger \cup Rows(r)
  BY DEF Commit
<1>2. /\ c \in Calls /\ c.kind \in AllKinds
      /\ c.from \in Wallets /\ c.to \in Wallets
      /\ TwoLegged(c) => c.from # c.to
  BY CallOfRequest DEF IInv
<1>3. /\ wallet \in [Wallets -> WalletRow]
      /\ w \in Wallets
      /\ wallet[w] \in WalletRow
  BY DEF IInv, TypeOK, TablesOK, Wallets, Currencies
<1>4. /\ wallet'[w].bal # wallet[w].bal
      /\ ~ \E row \in ledger' \ ledger :
             row.wallet = w /\ row.status = "success" /\ row.after = wallet'[w].bal
  BY DEF SilentChange
<1>5. \A row \in Rows(r) : row \notin ledger
  BY <1>1, RowsAreTyped DEF IInv, NoRecordBeforeCommit
<1>6. /\ c.kind = "transfer" => c.from # w /\ c.to # w
      /\ c.kind \in {"convert", "withdraw"} => c.from # w
  BY <1>2, CallFacts
<1>7. CASE TwoLegged(c)
  <2>1. c.kind = "convert" /\ c.to = w
    BY <1>1, <1>2, <1>3, <1>4, <1>6, <1>7 DEF TwoLegged
  <2>2. wallet'[w].bal = NewTo(r)
    BY <1>1, <1>2, <1>3, <1>7, <2>1 DEF WalletRow
  <2>3. InRow(r) \in Rows(r)
    BY <1>7 DEF Rows
  <2>4. InRow(r).wallet = w /\ InRow(r).status = "success" /\ InRow(r).after = NewTo(r)
    BY <2>1 DEF InRow
  <2>5. QED
    BY <1>1, <1>4, <1>5, <2>2, <2>3, <2>4
<1>8. CASE ~TwoLegged(c) /\ c.kind \notin AdminKinds
  <2>1. c.kind = "subscription" /\ c.from = w
    BY <1>1, <1>2, <1>3, <1>4, <1>6, <1>8 DEF TwoLegged, AllKinds, AdminKinds
  <2>2. wallet'[w].bal = NewFrom(r)
    BY <1>1, <1>2, <1>3, <1>8, <2>1 DEF WalletRow
  <2>3. OutRow(r) \in Rows(r)
    BY <2>1 DEF Rows
  <2>4. OutRow(r).wallet = w /\ OutRow(r).status = "success" /\ OutRow(r).after = NewFrom(r)
    BY <2>1 DEF OutRow
  <2>5. QED
    BY <1>1, <1>4, <1>5, <2>2, <2>3, <2>4
<1>9. CASE c.kind \in AdminKinds
  <2>1. pc \in [Requests -> PCs]
    BY DEF IInv, TypeOK
  <2>2. pc'[r] # "commit"
    BY <2>1 DEF Commit, Goto, OnError
  <2>3. QED
    BY <1>1, <1>9, <2>2 DEF AdminWrite
<1>10. QED
  BY <1>7, <1>8, <1>9

LEMMA StepIsRecorded ==
  ASSUME IInv, [Next]_vars, NEW u \in Users, SilentChange(<<u, "diamond">>)
  PROVE  AdminWrite
<1> DEFINE w == <<u, "diamond">>
<1>1. /\ wallet \in [Wallets -> WalletRow]
      /\ w \in Wallets
      /\ wallet[w].live /\ wallet'[w].live /\ wallet'[w] # wallet[w]
  BY DEF SilentChange, IInv, TypeOK, TablesOK, Wallets, Currencies
<1>2. ASSUME NEW r \in Requests, NEW leg \in Legs, Create(r, leg) PROVE FALSE
  <2>1. /\ ~wallet[WalletOf(call[r], leg)].live
        /\ wallet'[w] = wallet[w] \/ w = WalletOf(call[r], leg)
    BY <1>1, <1>2 DEF Create
  <2>2. QED
    BY <1>1, <2>1
<1>3. ASSUME NEW v \in Users, Delete(v) PROVE FALSE
  BY <1>1, <1>3 DEF Delete, DeleteWallets
<1>4. ASSUME NEW r \in Requests, Step(r) \/ Crash(r), ~Commit(r),
             \A leg \in Legs : ~Create(r, leg)
      PROVE  FALSE
  <2>1. UNCHANGED wallet
    BY <1>4 DEF Step, Find, Miss, CreateLost, Payout, PayoutThrows, Rollback, MarkFailed,
                Crash
  <2>2. QED
    BY <1>1, <2>1
<1>5. wallet' # wallet
  BY <1>1
<1>6. QED
  <2>1. CASE \E r \in Requests : Step(r) \/ Crash(r)
    <3>1. PICK r \in Requests : Step(r) \/ Crash(r)
      BY <2>1
    <3>2. Commit(r)
      BY <1>2, <1>4, <3>1
    <3>3. QED
      BY <3>2, CommitIsRecorded
  <2>2. QED
    BY <1>3, <1>5, <2>1 DEF Next, vars

(* Diamonds never move without the record that explains the new balance,
   except by an administrator's update. *)
THEOREM DiamondsAreRecorded == Spec => DiamondsMoveOnRecord
<1>1. IInv /\ [Next]_vars =>
        [\A u \in Users :
           SilentChange(<<u, "diamond">>) =>
             \E r \in Requests : call[r].kind \in AdminKinds /\ pc[r] = "commit"
                                  /\ pc'[r] # "commit"]_vars
  BY StepIsRecorded DEF AdminWrite
<1>2. QED
  BY <1>1, Invariance, PTL DEF Spec, DiamondsMoveOnRecord
===============================================================================
