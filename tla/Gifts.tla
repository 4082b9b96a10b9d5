-------------------------------- MODULE Gifts --------------------------------
(***************************************************************************)
(* Gifts and the bags they fill: GiftCrudService (gift-crud.service.ts),   *)
(* InventoryService (profile/inventory/service/inventory.service.ts) and   *)
(* the removal of a catalogue item (gift-item-admin.service.ts).           *)
(*                                                                         *)
(* One item of the catalogue is followed.  Its bag items are rows of       *)
(* res_item found by name, which is not unique, so there may be several.   *)
(* A request is one member of Calls; its steps are its awaits.  A database *)
(* transaction is two steps: BeginTx is what it reads (a paid one has      *)
(* written its wallet row and holds the lock), Commit its writes.          *)
(***************************************************************************)
EXTENDS Integers, FiniteSets, Functions

CONSTANTS Users, Calls,
          ItemIds,   \* ids res_item rows may get
          Requests,  \* the requests clients make
          Price,     \* Diamonds, of the catalogue item
          TopUp,     \* Diamonds of one top-up of a wallet by another module
          MaxFunds,  \* bound: per user, Diamonds the wallet is given in all
          InitFunds, \* per user, the Diamond balance at the start, or None
          InitBags,  \* per user and item, the quantities at the start, or None
          None,      \* no row, nothing read
          Gone       \* a row that was deleted after it was read

Paid == {"buy", "give"}
Sending == {"give", "pass"}
Kinds == {"buy", "give", "pass", "stock", "set", "drop", "remove", "delist"}
Request == [kind: Kinds, by: Users, to: Users, item: ItemIds, qty: Int]
Row == Int \cup {None}

ASSUME GiftsAssumption ==
    /\ Price \in Nat \ {0} /\ TopUp \in Nat /\ MaxFunds \in [Users -> Nat]
    /\ IsFiniteSet(Users) /\ IsFiniteSet(ItemIds) /\ IsFiniteSet(Calls)
    /\ Requests \subseteq Request /\ Requests # {}
    /\ \A r \in Requests : r.kind \in Paid \cup Sending => r.qty > 0
    /\ InitFunds \in [Users -> Nat \cup {None}] /\ InitBags \subseteq [Users -> [ItemIds -> Row]]
    /\ None \notin Int /\ Gone \notin Row /\ None \notin ItemIds

VARIABLES
    funds,   \* per user, the balance of the Diamond wallet, None without the row
    listed,  \* the catalogue item exists
    items,   \* res_item rows of its name
    bag,     \* per user and item, the quantity of the res_inventory row, or None
    gift,    \* res_gift rows, named by the request that created them
    call,    \* per request, what it asks
    pc,      \* per request, the statement it awaits
    seen,    \* per request, the balance, the item and the bag row it has read
    topup,   \* per user, the balances read by top-ups that have yet to write
    spent,   \* history: per user, Diamonds of the committed purchases
    topped,  \* history: per user, Diamonds the wallet started with or was given
    owed,    \* history: per user, what the committed requests put into the bag
    raced,   \* history: users two requests in flight at once were about
    crossed, \* history: users of whom a top-up overlapped a payment or a top-up
    late     \* history: gifts made when a removal had already counted them

rows == <<funds, listed, items, bag, gift>>
handler == <<call, pc, seen>>
history == <<topup, spent, topped, owed, raced, crossed, late>>
vars == <<rows, handler, history>>

Blank == [bal |-> None, item |-> None, row |-> None]
Active(c) == pc[c] \notin {"new", "done"}
Cost(r) == Price * r.qty

\* The users whose bag or wallet a request is about.
About(r) == IF r.kind \in {"remove", "delist"} THEN {}
            ELSE IF r.kind \in Sending THEN {r.by, r.to} ELSE {r.by}

Goto(c, to) == pc' = [pc EXCEPT ![c] = to]
Answer(c) == Goto(c, "done") /\ UNCHANGED <<rows, call, seen, history>>

\* The row of u and i is deleted: requests that hold it hold a row that is gone.
Forget(u, i, others) ==
    [d \in Calls |-> IF d \in others /\ Active(d) /\ seen[d].item = i /\ seen[d].row # None
                        /\ (IF pc[d] = "put" THEN call[d].to ELSE call[d].by) = u
                     THEN [seen[d] EXCEPT !.row = Gone] ELSE seen[d]]

First == [buy |-> "catalog", give |-> "catalog", pass |-> "row", stock |-> "insert",
          set |-> "row", drop |-> "row", remove |-> "find", delist |-> "count"]

\* Nobody sends a gift to himself.
Accepted(r) == r.kind \in Sending => r.by # r.to

Start(c) ==
    /\ pc[c] = "new"
    /\ \E r \in Requests :
        /\ Accepted(r)
        /\ call' = [call EXCEPT ![c] = r]
        /\ Goto(c, First[r.kind])
        /\ raced' = raced \cup UNION {About(r) \cap About(call[d]) : d \in {e \in Calls : Active(e)}}
    /\ UNCHANGED <<rows, seen, topup, spent, topped, owed, crossed, late>>

-----------------------------------------------------------------------------
\* purchaseGift and create find the item of the catalogue.
ReadCatalog(c) ==
    /\ pc[c] = "catalog" /\ listed
    /\ Goto(c, IF call[c].kind = "pass" THEN "tx" ELSE "wallet")
    /\ UNCHANGED <<rows, call, seen, history>>

Unlisted(c) == pc[c] = "catalog" /\ ~listed /\ Answer(c)

\* Mutant: the balance is not compared with the price.
AffordsAny(bal, r) == bal \in Int
Affords(bal, r) == bal >= Cost(r)

\* The balance is read, and compared, before the transaction.
ReadWallet(c) ==
    /\ pc[c] = "wallet" /\ funds[call[c].by] # None
    /\ LET bal == funds[call[c].by] IN
        IF Affords(bal, call[c])
        THEN Goto(c, "tx") /\ seen' = [seen EXCEPT ![c].bal = bal]
        ELSE Goto(c, "done") /\ UNCHANGED seen
    /\ UNCHANGED <<rows, call, history>>

NoWallet(c) ==
    /\ pc[c] = "wallet" /\ funds[call[c].by] = None
    /\ Goto(c, "open") /\ UNCHANGED <<rows, call, seen, history>>

\* The empty wallet it creates pays for nothing; if another request was first,
\* the unique index refuses it.
OpenWallet(c) ==
    /\ pc[c] = "open"
    /\ funds' = [funds EXCEPT ![call[c].by] = IF @ = None THEN 0 ELSE @]
    /\ Goto(c, "done")
    /\ UNCHANGED <<listed, items, bag, gift, call, seen, history>>

\* A bag row is looked for by its owner, whether the client names the row or
\* its item; a gift from the bag must also be covered by it.
ReadRow(c) ==
    /\ pc[c] = "row"
    /\ LET r == call[c]
           row == bag[r.by][r.item]
       IN IF row # None /\ (r.kind = "pass" => row >= r.qty)
          THEN /\ Goto(c, IF r.kind = "pass" THEN "catalog" ELSE "write")
               /\ seen' = [seen EXCEPT ![c] = [@ EXCEPT !.item = r.item, !.row = row]]
          ELSE Goto(c, "done") /\ UNCHANGED seen
    /\ UNCHANGED <<rows, call, history>>

-----------------------------------------------------------------------------
Amount(row) == IF row = None THEN 0 ELSE row

Locked(u) == \E d \in Calls : pc[d] = "commit" /\ call[d].kind \in Paid /\ call[d].by = u

\* The reads of a transaction: a paid one waits for the wallet row; a purchase
\* reads an item of the name and its bag row, a gift from the bag reads the row
\* again.
BeginTx(c) ==
    /\ pc[c] = "tx"
    /\ call[c].kind \in Paid => ~Locked(call[c].by)
    /\ LET u == call[c].by
           ReadBag(i) == seen' = [seen EXCEPT ![c] = [@ EXCEPT !.item = i, !.row = bag[u][i]]]
       IN \/ call[c].kind = "give" /\ UNCHANGED seen
          \/ call[c].kind = "pass" /\ ReadBag(call[c].item)
          \/ call[c].kind = "buy" /\ \E i \in items : ReadBag(i)
          \/ call[c].kind = "buy" /\ items = {} /\ UNCHANGED seen
    /\ Goto(c, "commit")
    /\ UNCHANGED <<rows, call, history>>

\* Whether the writes of the transaction succeed: a row updated or deleted by
\* its id is still there, a row created is not, and the gift has its item.
Commits(c) ==
    /\ call[c].kind \in Sending => listed
    /\ seen[c].row # Gone
    /\ call[c].kind = "buy" /\ seen[c].item # None /\ seen[c].row = None => bag[call[c].by][seen[c].item] = None

\* What a paid request writes as the balance: what it read before, less the cost.
Charged(c) == seen[c].bal - Cost(call[c])

Charge(c) ==
    /\ funds' = [funds EXCEPT ![call[c].by] = Charged(c)]
    /\ spent' = [spent EXCEPT ![call[c].by] = @ + Cost(call[c])]
    /\ crossed' = IF topup[call[c].by] # {} THEN crossed \cup {call[c].by} ELSE crossed

\* Mutant: without the transaction, the debit stands.
RollbackNot(c) ==
    /\ pc[c] = "commit" /\ ~Commits(c)
    /\ funds' = IF call[c].kind \in Paid THEN [funds EXCEPT ![call[c].by] = Charged(c)] ELSE funds
    /\ Goto(c, "done")
    /\ UNCHANGED <<listed, items, bag, gift, call, seen, history>>
Rollback(c) == pc[c] = "commit" /\ ~Commits(c) /\ Answer(c)

\* The gift row; then the request goes on to the receiver's bag.
GiveRow(c) ==
    /\ gift' = gift \cup {c}
    /\ late' = IF \E d \in Calls : pc[d] = "unlist" THEN late \cup {c} ELSE late
    /\ owed' = [owed EXCEPT ![call[c].to] = @ + call[c].qty]
    /\ Goto(c, "deliver")

CommitGive(c) ==
    /\ pc[c] = "commit" /\ call[c].kind = "give" /\ Commits(c)
    /\ Charge(c) /\ GiveRow(c)
    /\ UNCHANGED <<listed, items, bag, call, seen, topup, topped, raced>>

\* The first gift of a name creates its item; each id is given out once.
CommitBuy(c) ==
    /\ pc[c] = "commit" /\ call[c].kind = "buy" /\ Commits(c)
    /\ Charge(c)
    /\ \E i \in IF seen[c].item = None THEN ItemIds \ items ELSE {seen[c].item} :
        /\ items' = items \cup {i}
        /\ bag' = [bag EXCEPT ![call[c].by][i] = Amount(seen[c].row) + call[c].qty]
    /\ owed' = [owed EXCEPT ![call[c].by] = @ + call[c].qty]
    /\ Goto(c, "done")
    /\ UNCHANGED <<listed, gift, call, seen, topup, topped, raced, late>>

\* The bag row loses the quantity, and is deleted if nothing is left.
CommitPass(c) ==
    /\ pc[c] = "commit" /\ call[c].kind = "pass" /\ Commits(c) /\ seen[c].row # None
    /\ LET u == call[c].by
           left == seen[c].row - call[c].qty
       IN /\ bag' = [bag EXCEPT ![u][seen[c].item] = IF left > 0 THEN left ELSE None]
          /\ seen' = [(IF left > 0 THEN seen ELSE Forget(u, seen[c].item, Calls)) EXCEPT ![c] = Blank]
          /\ gift' = gift \cup {c}
          /\ late' = IF \E d \in Calls : pc[d] = "unlist" THEN late \cup {c} ELSE late
          /\ owed' = [owed EXCEPT ![call[c].to] = @ + call[c].qty, ![u] = @ - call[c].qty]
          /\ Goto(c, "deliver")
    /\ UNCHANGED <<funds, listed, items, call, topup, spent, topped, raced, crossed>>

\* The row the first check found has gone: the gift is made all the same.
CommitPassFree(c) ==
    /\ pc[c] = "commit" /\ call[c].kind = "pass" /\ Commits(c) /\ seen[c].row = None
    /\ GiveRow(c)
    /\ seen' = [seen EXCEPT ![c] = Blank]
    /\ UNCHANGED <<funds, listed, items, bag, call, topup, spent, topped, raced, crossed>>

-----------------------------------------------------------------------------
\* addGiftToInventory, after the transaction: find an item of the name or
\* create one, read the receiver's row, then update or create it.  Its errors
\* are logged and the request succeeds.
FindItem(c) ==
    /\ pc[c] = "deliver"
    /\ \/ \E i \in items : seen' = [seen EXCEPT ![c] = [Blank EXCEPT !.item = i]] /\ Goto(c, "receive")
       \/ items = {} /\ Goto(c, "forge") /\ UNCHANGED seen
    /\ UNCHANGED <<rows, call, history>>

ForgeItem(c) ==
    /\ pc[c] = "forge"
    /\ \E i \in ItemIds \ items :
        /\ items' = items \cup {i}
        /\ seen' = [seen EXCEPT ![c] = [Blank EXCEPT !.item = i]]
    /\ Goto(c, "receive")
    /\ UNCHANGED <<funds, listed, bag, gift, call, history>>

ReadReceiver(c) ==
    /\ pc[c] = "receive"
    /\ seen' = [seen EXCEPT ![c].row = bag[call[c].to][seen[c].item]]
    /\ Goto(c, "put")
    /\ UNCHANGED <<rows, call, history>>

\* Mutant: an existing row is overwritten.
GrownAnew(row, qty) == qty
Grown(row, qty) == Amount(row) + qty

PutRow(c) ==
    /\ pc[c] = "put"
    /\ LET i == seen[c].item
           row == seen[c].row
       IN bag' = IF row = Gone \/ (row = None /\ bag[call[c].to][i] # None) THEN bag
                 ELSE [bag EXCEPT ![call[c].to][i] = Grown(row, call[c].qty)]
    /\ Goto(c, "done")
    /\ UNCHANGED <<funds, listed, items, gift, call, seen, history>>

\* The process dies, or an error is swallowed, between the gift and the bag.
Lose(c) ==
    /\ pc[c] \in {"deliver", "forge", "receive", "put"}
    /\ raced' = raced \cup {call[c].to}
    /\ Goto(c, "done")
    /\ UNCHANGED <<rows, call, seen, topup, spent, topped, owed, crossed, late>>

-----------------------------------------------------------------------------
\* addInventoryItem: any quantity, of an item that exists and is not in the bag.
Stock(c) ==
    /\ pc[c] = "insert"
    /\ LET r == call[c] IN
        IF r.item \in items /\ bag[r.by][r.item] = None
        THEN /\ bag' = [bag EXCEPT ![r.by][r.item] = r.qty]
             /\ owed' = [owed EXCEPT ![r.by] = @ + r.qty]
        ELSE UNCHANGED <<bag, owed>>
    /\ Goto(c, "done")
    /\ UNCHANGED <<funds, listed, items, gift, call, seen, topup, spent, topped, raced, crossed, late>>

\* updateInventoryItem and deleteInventoryItem write by the id they found.
WriteRow(c) ==
    /\ pc[c] = "write" /\ seen[c].row # Gone
    /\ LET r == call[c]
           qty == IF r.kind = "set" THEN r.qty ELSE None
       IN /\ bag' = [bag EXCEPT ![r.by][r.item] = qty]
          /\ seen' = IF r.kind = "drop" THEN Forget(r.by, r.item, Calls) ELSE seen
          /\ owed' = [owed EXCEPT ![r.by] = @ - seen[c].row + Amount(qty)]
    /\ Goto(c, "done")
    /\ UNCHANGED <<funds, listed, items, gift, call, topup, spent, topped, raced, crossed, late>>

WriteLost(c) == pc[c] = "write" /\ seen[c].row = Gone /\ Answer(c)

-----------------------------------------------------------------------------
\* remove: the sender finds his gift, and deletes it by id; one that has been
\* deleted meanwhile is answered 404.
FindGift(c) ==
    /\ pc[c] = "find"
    /\ \/ \E g \in gift : /\ call[g].by = call[c].by
                          /\ seen' = [seen EXCEPT ![c].item = g] /\ Goto(c, "delete")
       \/ Goto(c, "done") /\ UNCHANGED seen
    /\ UNCHANGED <<rows, call, history>>

DeleteGift(c) ==
    /\ pc[c] = "delete"
    /\ gift' = gift \ {seen[c].item}
    /\ Goto(c, "done")
    /\ UNCHANGED <<funds, listed, items, bag, call, seen, history>>

\* Mutant: gifts made of the item are not counted.
UnusedAny(made) == made \subseteq Calls
Unused(made) == made = {}

\* The administrator's removal counts the gifts of the item, and then deletes
\* it; the deletion cascades to the gifts made since.
CountGifts(c) ==
    /\ pc[c] = "count"
    /\ Goto(c, IF listed /\ Unused(gift) THEN "unlist" ELSE "done")
    /\ UNCHANGED <<rows, call, seen, history>>

Delist(c) ==
    /\ pc[c] = "unlist"
    /\ listed' = FALSE
    /\ gift' = IF listed THEN {} ELSE gift
    /\ Goto(c, "done")
    /\ UNCHANGED <<funds, items, bag, call, seen, history>>

\* A top-up (a conversion of VEX, a payment) reads the balance, creating the
\* wallet if there is none, before its transaction.  Several may have read the
\* same one.
ReadBalance(u) ==
    /\ topped[u] + TopUp <= MaxFunds[u]
    /\ funds' = [funds EXCEPT ![u] = Amount(@)]
    /\ topup' = [topup EXCEPT ![u] = @ \cup {Amount(funds[u])}]
    /\ UNCHANGED <<listed, items, bag, gift, handler, spent, topped, owed, raced, crossed, late>>

\* Its transaction waits for the row, and writes what it read and the Diamonds
\* bought, whatever was written since.
WriteBalance(u) ==
    /\ topped[u] + TopUp <= MaxFunds[u] /\ ~Locked(u)
    /\ \E bal \in topup[u] :
        /\ funds' = [funds EXCEPT ![u] = bal + TopUp]
        /\ \E others \in {topup[u], topup[u] \ {bal}} : topup' = [topup EXCEPT ![u] = others]
    /\ topped' = [topped EXCEPT ![u] = @ + TopUp]
    /\ crossed' = IF topup'[u] # {} \/ \E c \in Calls : pc[c] = "tx" /\ call[c].kind \in Paid /\ call[c].by = u
                  THEN crossed \cup {u} ELSE crossed
    /\ UNCHANGED <<listed, items, bag, gift, handler, spent, owed, raced, late>>

-----------------------------------------------------------------------------
Handle(c) ==
    \/ Start(c) \/ ReadCatalog(c) \/ Unlisted(c) \/ ReadWallet(c) \/ NoWallet(c) \/ OpenWallet(c) \/ ReadRow(c)
    \/ BeginTx(c) \/ Rollback(c) \/ CommitGive(c) \/ CommitBuy(c) \/ CommitPass(c) \/ CommitPassFree(c)
    \/ FindItem(c) \/ ForgeItem(c) \/ ReadReceiver(c) \/ PutRow(c) \/ Lose(c)
    \/ Stock(c) \/ WriteRow(c) \/ WriteLost(c)
    \/ FindGift(c) \/ DeleteGift(c) \/ CountGifts(c) \/ Delist(c)

\* What the rows of a bag add up to.
Held(u) == SumFunctionOnSet([i \in ItemIds |-> Amount(bag[u][i])], ItemIds)

\* What is on its way into the bag of u: with one request, with all of them.
Arriving(c, u) == IF pc[c] \in {"deliver", "forge", "receive", "put"} /\ call[c].to = u THEN call[c].qty ELSE 0
InTransit(u) == SumFunctionOnSet([c \in Calls |-> Arriving(c, u)], Calls)

Init ==
    /\ funds = InitFunds /\ listed = TRUE
    /\ bag \in InitBags /\ items = {i \in ItemIds : \E u \in Users : bag[u][i] # None}
    /\ gift = {}
    /\ call \in [Calls -> {CHOOSE r \in Requests : TRUE}] /\ pc = [c \in Calls |-> "new"]
    /\ seen = [c \in Calls |-> Blank]
    /\ topup = [u \in Users |-> {}] /\ spent = [u \in Users |-> 0] /\ owed = [u \in Users |-> Held(u)]
    /\ topped = [u \in Users |-> IF InitFunds[u] = None THEN 0 ELSE InitFunds[u]]
    /\ raced = {} /\ crossed = {} /\ late = {}

Next == (\E c \in Calls : Handle(c)) \/ (\E u \in Users : ReadBalance(u) \/ WriteBalance(u))

Spec == Init /\ [][Next]_vars

-----------------------------------------------------------------------------
Labels == {"new", "done", "catalog", "wallet", "open", "row", "tx", "commit", "deliver", "forge", "receive", "put",
           "insert", "write", "find", "delete", "count", "unlist"}

Seen == [bal: Nat \cup {None}, item: ItemIds \cup Calls \cup {None}, row: Row \cup {Gone}]

\* A bag holds rows of items that exist, a gift was sent to someone else, and a
\* commit that debits has read a balance.
TypeOK ==
    /\ funds \in [Users -> Nat \cup {None}] /\ listed \in BOOLEAN /\ items \subseteq ItemIds
    /\ bag \in [Users -> [ItemIds -> Row]]
    /\ \A u \in Users, i \in ItemIds : bag[u][i] # None => i \in items
    /\ call \in [Calls -> Requests] /\ pc \in [Calls -> Labels]
    /\ seen \in [Calls -> Seen]
    /\ gift \subseteq {c \in Calls : pc[c] \in {"deliver", "forge", "receive", "put", "done"}}
    /\ \A c \in gift : call[c].by # call[c].to
    /\ \A c \in Calls : pc[c] \in {"tx", "commit"} /\ call[c].kind \in Paid => seen[c].bal # None
    /\ topup \in [Users -> SUBSET Nat] /\ spent \in [Users -> Nat] /\ topped \in [Users -> Nat]
    /\ raced \subseteq Users /\ crossed \subseteq Users /\ late \subseteq Calls

\* However purchases of one user overlap, nobody pays more than the prices of
\* what was committed: the balance read before the transaction may be too high
\* when it is written back, never too low, unless a top-up came in between, or
\* read a balance of its own in between.
NeverOvercharged ==
    \A u \in Users \ crossed : funds[u] # None => funds[u] >= topped[u] - spent[u]

\* A user whose requests and top-ups came one after another paid
\* exactly the prices of what was committed.
PaidExact == \A u \in Users \ (raced \cup crossed) : funds[u] # None => funds[u] = topped[u] - spent[u]

\* The Diamond wallet loses what purchases and gifts cost: never more, and
\* exactly that when nothing overlaps.
ChargesRight == NeverOvercharged /\ PaidExact

\* The bag of a user whose requests came one after another is exact: over all
\* items of the name, and with what is on its way, it holds what he bought, was
\* given and stocked less what he sent.
BagExact == \A u \in Users \ raced : Held(u) + InTransit(u) = owed[u]

\* Removing an item from the catalogue deletes no gift that was there when the
\* removal counted them (the foreign key cascades).
GiftsSurviveDelisting == [][listed /\ ~listed' => gift \subseteq late]_vars
==============================================================================
