-------------------------------- MODULE Wallet --------------------------------
(***************************************************************************)
(* The money operations of src/src/modules/wallet: VEX transfer, VEX to    *)
(* Diamond conversion, VEX withdrawal to PayPal, monthly card purchase and *)
(* the wallet administration calls.  Every handler is an async function of *)
(* a NestJS service: between two awaits any other request may run, in this *)
(* process or in another one.  The handlers read a balance outside the     *)
(* database transaction and write an absolute balance inside it; the model *)
(* takes one step per await, and one step per $transaction, whose writes   *)
(* PostgreSQL makes visible together at commit.                            *)
(***************************************************************************)
EXTENDS Ledger

CONSTANTS
  Kinds,          \* the operations clients use in a model
  Amounts,        \* VEX amounts a client asks for (dto: @IsNumber @Min(1))
  Packages,       \* VEX price |-> base + bonus Diamonds, the conversion table
  CardPrices,     \* prices of the active monthly cards, in Diamonds
  AdminBalances,  \* balances an administrator sets (dto: @IsNumber, no @Min)
  InitBalances,   \* balances of the wallets that exist at the start
  MaxGen,         \* bound: how often a wallet may be deleted
  Exclusive,      \* TRUE: calls on a common wallet do not overlap
  Faults          \* TRUE: database errors, lost answers and crashes happen

AllKinds == {"transfer", "convert", "withdraw", "subscription", "set", "keep"}

ASSUME WalletAssumption ==
  /\ Kinds \subseteq AllKinds
  /\ Amounts \subseteq Nat \ {0}
  /\ DOMAIN Packages \subseteq Nat
  /\ \A a \in DOMAIN Packages : Packages[a] \in Nat
  /\ CardPrices \subseteq Nat
  /\ AdminBalances \subseteq Int
  /\ InitBalances \subseteq Nat
  /\ MaxGen \in Nat
  /\ Exclusive \in BOOLEAN
  /\ Faults \in BOOLEAN

(* One handler invocation per reference: the code draws a fresh one
   (`TRF${Date.now()}-...', `WD...', `SUB...') for every call. *)
Requests == Refs

VARIABLES
  call,       \* the call each request makes; fixed for the request's life
  pc,         \* the await the request is at
  seen,       \* the wallet rows it has read, by leg: "from", "to"
  payouts,    \* withdrawals PayPal has paid (external)
  vip         \* res_vip_status.is_vip, by user

vars == <<wallet, ledger, call, pc, seen, payouts, vip>>
-----------------------------------------------------------------------------
(***************************************************************************)
(* Calls.  `from' is the wallet that is debited (or set), `to' the wallet  *)
(* that is credited; one-legged calls have to = from.                      *)
(***************************************************************************)
Call(kind, from, to, amount, gain) ==
  [kind |-> kind, from |-> from, to |-> to, amount |-> amount, gain |-> gain]

(* findConversionPackage: undefined for an amount that is not in the table. *)
PackageGain(a) == IF a \in DOMAIN Packages THEN Packages[a] ELSE 0

(* transferVex rejects senderId = receiver_id before it touches a table. *)
TransferCalls ==
  {Call("transfer", <<u, "vex">>, <<v, "vex">>, a, a) :
     u \in Users, v \in Users, a \in Amounts}

Calls ==
  {c \in TransferCalls : c.from # c.to}
  \cup {Call("convert", <<u, "vex">>, <<u, "diamond">>, a, PackageGain(a)) :
          u \in Users, a \in Amounts}
  \cup {Call("withdraw", <<u, "vex">>, <<u, "vex">>, a, 0) :
          u \in Users, a \in Amounts}
  \cup {Call("subscription", <<u, "diamond">>, <<u, "diamond">>, p, 0) :
          u \in Users, p \in CardPrices}
  \cup {Call("set", w, w, b, 0) : w \in Wallets, b \in AdminBalances}
  \cup {Call("keep", w, w, 0, 0) : w \in Wallets}  \* no balance in the dto

AdminKinds == {"set", "keep"}
TwoLegged(c) == c.kind \in {"transfer", "convert"}

Legs == {"from", "to"}
WalletOf(c, leg) == IF leg = "from" THEN c.from ELSE c.to
FindAt(leg)      == IF leg = "from" THEN "idle" ELSE "findTo"
CreateAt(leg)    == IF leg = "from" THEN "createFrom" ELSE "createTo"

Ended == {"done", "rejected", "failed", "crashed"}
PCs   == {"idle", "findTo", "createFrom", "createTo", "payout", "commit",
          "markFailed"} \cup Ended

InFlight(r) == pc[r] \notin {"idle"} \cup Ended
Touched(c)  == {c.from, c.to}

(* With Exclusive, a call starts only when no call in flight shares a
   wallet with it.  The code has no such guard: the constant separates what
   holds of every schedule from what holds of non-overlapping calls. *)
Admitted(r) ==
  Exclusive => \A s \in Requests :
                 InFlight(s) => Touched(call[s]) \cap Touched(call[r]) = {}

(* Mutant: an amount one above the balance passes the check. *)
RefusedOffByOne(c, balance) ==
  /\ c.kind \notin AdminKinds
  /\ \/ balance + 1 < c.amount
     \/ c.kind = "convert" /\ c.amount \notin DOMAIN Packages

(* BadRequestException: the balance read does not cover the amount, or the
   amount is not in the conversion table. *)
Refused(c, balance) ==
  /\ c.kind \notin AdminKinds
  /\ \/ balance < c.amount
     \/ c.kind = "convert" /\ c.amount \notin DOMAIN Packages

(* The next await of a call that passed its checks. *)
Proceed(c) ==
  IF TwoLegged(c) THEN "findTo" ELSE IF c.kind = "withdraw" THEN "payout" ELSE "commit"

AfterCheck(c, balance) == IF Refused(c, balance) THEN "rejected" ELSE Proceed(c)

AfterLeg(c, leg, balance) ==
  IF leg = "from" THEN AfterCheck(c, balance) ELSE "commit"

(* Mutant: a $transaction that throws is tried again. *)
OnErrorRetry(c) == "commit"

(* withdrawVex catches its errors and writes a 'failed' row; the others let
   them propagate. *)
OnError(c) == IF c.kind = "withdraw" THEN "markFailed" ELSE "failed"

Goto(r, place) == pc' = [pc EXCEPT ![r] = place]
-----------------------------------------------------------------------------
(* findFirst({ where: { user_id, currency } }) finds the wallet. *)
Find(r, leg) ==
  LET w == WalletOf(call[r], leg) IN
  /\ pc[r] = FindAt(leg)
  /\ leg = "from" => Admitted(r)
  /\ wallet[w].live
  /\ seen' = [seen EXCEPT ![r][leg] = wallet[w]]
  /\ Goto(r, AfterLeg(call[r], leg, wallet[w].bal))
  /\ UNCHANGED <<wallet, ledger, call, payouts, vip>>

(* findFirst finds nothing: the handler goes on to create the wallet. *)
Miss(r, leg) ==
  /\ pc[r] = FindAt(leg)
  /\ leg = "from" => Admitted(r)
  /\ ~wallet[WalletOf(call[r], leg)].live
  /\ Goto(r, CreateAt(leg))
  /\ UNCHANGED <<wallet, ledger, call, seen, payouts, vip>>

(* Mutant: dto.balance without its default of 0. *)
OpeningBalanceRaw(c) == IF c.kind = "set" THEN c.amount ELSE NULL

(* The balance a wallet is created with: dto.balance ?? 0 for an
   administrator, 0 for everybody else. *)
OpeningBalance(c) == IF c.kind = "set" THEN c.amount ELSE 0

(* create(): an administrator's call ends here, the others go on. *)
Create(r, leg) ==
  LET c == call[r]
      w == WalletOf(c, leg)
      row == NewWallet(w, OpeningBalance(c)) IN
  /\ pc[r] = CreateAt(leg)
  /\ ~wallet[w].live
  /\ wallet' = [wallet EXCEPT ![w] = row]
  /\ seen' = [seen EXCEPT ![r][leg] = row]
  /\ Goto(r, IF c.kind \in AdminKinds THEN "done" ELSE AfterLeg(c, leg, 0))
  /\ UNCHANGED <<ledger, call, payouts, vip>>

(* Mutant: P2002 is answered with the same insert again, for ever. *)
CreateAgain(r, leg) ==
  /\ pc[r] = CreateAt(leg)
  /\ wallet[WalletOf(call[r], leg)].live
  /\ UNCHANGED vars

(* create() meets the wallet a concurrent request created (P2002): no handler
   catches it, the request ends with an error. *)
CreateLost(r, leg) ==
  /\ pc[r] = CreateAt(leg)
  /\ wallet[WalletOf(call[r], leg)].live
  /\ Goto(r, "failed")
  /\ UNCHANGED <<wallet, ledger, call, seen, payouts, vip>>
-----------------------------------------------------------------------------
(* withdrawVex: paypalService.createPayout, before any database write. *)
Payout(r) ==
  /\ pc[r] = "payout"
  /\ payouts' = payouts \cup {r}
  /\ Goto(r, "commit")
  /\ UNCHANGED <<wallet, ledger, call, seen, vip>>

(* Mutant: the error of createPayout is logged and ignored. *)
PayoutErrorIgnored(r) ==
  /\ Faults
  /\ pc[r] = "payout"
  /\ payouts' \in {payouts, payouts \cup {r}}
  /\ Goto(r, "commit")
  /\ UNCHANGED <<wallet, ledger, call, seen, vip>>

(* createPayout throws: PayPal refused, or paid and its answer was lost. *)
PayoutThrows(r) ==
  /\ Faults
  /\ pc[r] = "payout"
  /\ payouts' \in {payouts, payouts \cup {r}}
  /\ Goto(r, OnError(call[r]))
  /\ UNCHANGED <<wallet, ledger, call, seen, vip>>

(* The absolute balances a call computes from the rows it has read. *)
NewFrom(r) ==
  IF call[r].kind = "set" THEN call[r].amount ELSE seen[r]["from"].bal - call[r].amount

(* Mutant: a conversion adds its VEX price instead of the package. *)
NewToUnconverted(r) == seen[r]["to"].bal + call[r].amount

NewTo(r) == seen[r]["to"].bal + call[r].gain

(* Mutant: the record of a paid withdrawal is left pending. *)
OutRowPending(r) ==
  [ref |-> r, wallet |-> call[r].from, type |-> call[r].kind,
   amount |-> -call[r].amount, before |-> seen[r]["from"].bal,
   after |-> NewFrom(r), status |-> "pending"]

OutRow(r) ==
  [ref |-> r, wallet |-> call[r].from, type |-> call[r].kind,
   amount |-> -call[r].amount, before |-> seen[r]["from"].bal,
   after |-> NewFrom(r), status |-> "success"]

InRow(r) ==
  [ref |-> r, wallet |-> call[r].to, type |-> call[r].kind,
   amount |-> call[r].gain, before |-> seen[r]["to"].bal,
   after |-> NewTo(r), status |-> "success"]

FailedRow(r) ==
  [ref |-> r, wallet |-> call[r].from, type |-> "withdraw",
   amount |-> -call[r].amount, before |-> seen[r]["from"].bal,
   after |-> NULL, status |-> "failed"]

(* Mutant: the purchase of a monthly card leaves no record. *)
RowsOfVexOnly(r) ==
  (IF call[r].kind \in {"transfer", "withdraw"} THEN {OutRow(r)} ELSE {})
  \cup (IF TwoLegged(call[r]) THEN {InRow(r)} ELSE {})

(* The transaction records a call writes: transferVex one per side,
   convertVexToDiamond only the Diamond side, the administrator none. *)
Rows(r) ==
  (IF call[r].kind \in {"transfer", "withdraw", "subscription"} THEN {OutRow(r)} ELSE {})
  \cup (IF TwoLegged(call[r]) THEN {InRow(r)} ELSE {})

HoldsRows(r) ==
  /\ SameRow(call[r].from, seen[r]["from"])
  /\ TwoLegged(call[r]) => SameRow(call[r].to, seen[r]["to"])

(***************************************************************************)
(* The $transaction: all its writes, at its commit.  It never reads what   *)
(* it overwrites.  The answer of COMMIT may be lost, and Prisma then       *)
(* throws although the writes are durable.                                 *)
(***************************************************************************)
Commit(r) ==
  LET c == call[r] IN
  /\ pc[r] = "commit"
  /\ HoldsRows(r)
  /\ wallet' = IF TwoLegged(c)
               THEN [wallet EXCEPT ![c.from].bal = NewFrom(r), ![c.to].bal = NewTo(r)]
               ELSE [wallet EXCEPT ![c.from].bal = NewFrom(r)]
  /\ ledger' = ledger \cup Rows(r)
  /\ vip' = IF c.kind = "subscription" THEN [vip EXCEPT ![c.from[1]] = TRUE] ELSE vip
  /\ \/ Goto(r, "done")
     \/ Faults /\ Goto(r, OnError(c))
  /\ UNCHANGED <<call, seen, payouts>>

(* The $transaction rolls back: a wallet it updates is gone, two transfers
   deadlock on each other's row locks, the connection drops. *)
Rollback(r) ==
  /\ pc[r] = "commit"
  /\ Faults \/ ~HoldsRows(r)
  /\ Goto(r, OnError(call[r]))
  /\ UNCHANGED <<wallet, ledger, call, seen, payouts, vip>>

(* The catch block of withdrawVex: a 'failed' row without balance_after.  The
   insert needs the wallet (foreign key) and may fail like any other. *)
MarkFailed(r) ==
  /\ pc[r] = "markFailed"
  /\ \/ /\ SameRow(call[r].from, seen[r]["from"])
        /\ ledger' = ledger \cup {FailedRow(r)}
     \/ /\ Faults \/ ~SameRow(call[r].from, seen[r]["from"])
        /\ UNCHANGED ledger
  /\ Goto(r, "failed")
  /\ UNCHANGED <<wallet, call, seen, payouts, vip>>

(* The process that serves the request dies. *)
Crash(r) ==
  /\ Faults
  /\ InFlight(r)
  /\ Goto(r, "crashed")
  /\ UNCHANGED <<wallet, ledger, call, seen, payouts, vip>>

(* deleteWallet(user_id), an administrator's call of one statement. *)
Delete(u) ==
  /\ \E w \in Wallets : w[1] = u /\ wallet[w].live
  /\ \A w \in Wallets : w[1] = u => wallet[w].gen < MaxGen
  /\ DeleteWallets(u)
  /\ UNCHANGED <<call, pc, seen, payouts, vip>>
-----------------------------------------------------------------------------
NoRow == [live |-> FALSE, gen |-> 0, bal |-> 0]

Init ==
  /\ wallet \in [Wallets -> {NoRow} \cup [live : {TRUE}, gen : {0}, bal : InitBalances]]
  /\ ledger = {}
  /\ call \in [Requests -> {c \in Calls : c.kind \in Kinds}]
  /\ pc = [r \in Requests |-> "idle"]
  /\ seen = [r \in Requests |-> [leg \in Legs |-> NoRow]]
  /\ payouts = {}
  /\ vip = [u \in Users |-> FALSE]

Step(r) ==
  \/ \E leg \in Legs : Find(r, leg) \/ Miss(r, leg) \/ Create(r, leg) \/ CreateLost(r, leg)
  \/ Payout(r) \/ PayoutThrows(r)
  \/ Commit(r) \/ Rollback(r) \/ MarkFailed(r)

Next ==
  \/ \E r \in Requests : Step(r) \/ Crash(r)
  \/ \E u \in Users : Delete(u)

Spec == Init /\ [][Next]_vars

(* Every await of a running handler settles: Node's event loop, Prisma and
   the PayPal client answer or throw.  Nothing makes a client call again. *)
FairSpec == Spec /\ \A r \in Requests : WF_vars(pc[r] # "idle" /\ Step(r))
-----------------------------------------------------------------------------
TypeOK ==
  /\ TablesOK
  /\ call \in [Requests -> Calls]
  /\ pc \in [Requests -> PCs]
  /\ seen \in [Requests -> [Legs -> WalletRow]]
  /\ payouts \subseteq Requests
  /\ vip \in [Users -> BOOLEAN]

(***************************************************************************)
(* Safety under every schedule, crash and failure.                         *)
(***************************************************************************)

(* The wallets an administrator's call sets below zero: updateWallet and
   createWallet write any number. *)
Indebted ==
  {w \in Wallets : \E r \in Requests : call[r].kind = "set" /\ call[r].from = w /\ call[r].amount < 0}

(* The lost updates of concurrent handlers drive no wallet below zero, unless
   an administrator sets that wallet below zero: each one writes what it read
   minus an amount it compared with what it read.  And whatever administrators
   set, no debit on record leaves its wallet below zero. *)
NoOverdraft ==
  /\ \A w \in Wallets \ Indebted : wallet[w].bal >= 0
  /\ \A row \in ledger : row.status = "success" /\ row.amount < 0 => row.after >= 0

(* A withdrawal recorded as successful has been paid by PayPal: however the
   payout, the debit, the failure row and a crash interleave, withdrawVex
   never takes VEX for money it did not send. *)
DebitHasPayout ==
  \A row \in ledger :
    row.type = "withdraw" /\ row.status = "success" => row.ref \in payouts

(* A step of a request that changes a balance without adding the transaction
   record that explains it. *)
SilentChange(w) ==
  /\ wallet[w].live /\ wallet'[w].live
  /\ wallet'[w].bal # wallet[w].bal
  /\ ~ \E row \in ledger' \ ledger :
        /\ row.wallet = w
        /\ row.status = "success"
        /\ row.after = wallet'[w].bal

(* Diamonds move only with a record in the same commit whose balance_after is
   the balance the wallet then holds, administrators aside; creating a wallet
   again, losing an update or retrying a failed call changes nothing in
   silence.  (Conversion moves VEX without one, see ConvertRecordsBothSides.) *)
DiamondsMoveOnRecord ==
  [][\A u \in Users :
       SilentChange(<<u, "diamond">>) =>
         \E r \in Requests : call[r].kind \in AdminKinds /\ pc[r] = "commit"
                              /\ pc'[r] # "commit"]_vars

(* A request answered with a 4xx, or failed before its commit, left no record:
   the only records of a request that is not past its commit are none. *)
NoRecordBeforeCommit ==
  \A row \in ledger : pc[row.ref] \in {"done", "markFailed", "failed", "crashed"}

(***************************************************************************)
(* Liveness, when the database and PayPal answer (~Faults).                *)
(***************************************************************************)

(* A withdrawal PayPal has paid is recorded as successful, whatever requests
   run beside it, unless an administrator deletes the wallet under it. *)
PaidIsRecorded ==
  \A r \in Requests :
    r \in payouts ~> \/ \E row \in ledger : row.ref = r /\ row.status = "success"
                     \/ wallet[call[r].from].gen > 0

(* A call that has started is answered, also when the wallet it creates is
   created by another call first, or the wallet it holds is deleted. *)
EveryCallAnswered ==
  \A r \in Requests : pc[r] # "idle" ~> pc[r] \in Ended
===============================================================================
