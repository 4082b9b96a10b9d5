----------------------------- MODULE Gifts_proofs -----------------------------
(***************************************************************************)
(* Proofs about Gifts for every set of users, requests, items and prices,  *)
(* and for every interleaving of the requests with each other and with the *)
(* top-ups of other modules.                                               *)
(***************************************************************************)
EXTENDS Gifts, FiniteSetTheorems, TLAPS

(* What a request has read when it is about to write: a paid one a balance
   that covers its price, of a wallet that exists; one that puts into a bag an
   item that exists; a purchase no item before its transaction. *)
ReadsRight ==
  \A c \in Calls :
    /\ pc[c] \in {"tx", "commit"} /\ call[c].kind \in Paid =>
         /\ seen[c].bal \in Nat /\ seen[c].bal >= Cost(call[c])
         /\ funds[call[c].by] # None
    /\ pc[c] = "new" \/ (pc[c] \in {"catalog", "wallet", "tx"} /\ call[c].kind = "buy") => seen[c].item = None
    /\ pc[c] \in {"catalog", "wallet", "tx"} => call[c].kind \in {"buy", "give", "pass"}
    /\ pc[c] = "wallet" => call[c].kind # "pass"
    /\ pc[c] \in {"catalog", "tx", "commit"} /\ call[c].kind = "pass" =>
         call[c].item \in items /\ (pc[c] = "commit" => seen[c].item = call[c].item)
    /\ pc[c] = "commit" /\ call[c].kind = "buy" => seen[c].item \in items \cup {None}
    /\ pc[c] \in {"receive", "put"} => seen[c].item \in items
    /\ pc[c] = "write" => call[c].item \in items /\ seen[c].row \in Int \cup {Gone}
    /\ Active(c) => (call[c].kind \in Sending => call[c].by # call[c].to)

Typed == TypeOK /\ ReadsRight

(* Requests about one user that run at once have been noticed. *)
Noticed ==
  \A c, d \in Calls : c # d /\ Active(c) /\ Active(d) => About(call[c]) \cap About(call[d]) \subseteq raced

(* Paid requests that have read a balance and not yet written it. *)
Paying(c, u) == pc[c] \in {"tx", "commit"} /\ call[c].kind \in Paid /\ call[c].by = u

(* NeverOvercharged needs the same of the balances requests have read: they
   write them back, less the price. *)
ReadsNeverLow ==
  \A u \in Users \ crossed, c \in Calls : Paying(c, u) => seen[c].bal >= topped[u] - spent[u]
NoAccount == \A u \in Users : funds[u] = None => topped[u] = 0 /\ spent[u] = 0
ReadsExact ==
  \A u \in Users \ (raced \cup crossed), c \in Calls : Paying(c, u) => seen[c].bal = topped[u] - spent[u]

(* What a top-up has read is still the balance when it writes it back. *)
TopUpsTrue == \A u \in Users \ crossed : topup[u] \subseteq {funds[u]}

Money == NoAccount /\ NeverOvercharged /\ ReadsNeverLow /\ PaidExact /\ ReadsExact /\ TopUpsTrue

(* While a removal is between its count and its deletion, every gift is one
   that it has not counted. *)
Uncounted == (\E d \in Calls : pc[d] = "unlist") => gift \subseteq late

(* What a request has read of the bag it will write to is what the bag holds,
   if no other request about that user ran at the same time. *)
RowCurrent(c) ==
  LET r == call[c]
      s == seen[c]
  IN /\ pc[c] \in {"deliver", "forge", "receive", "put"} => r.kind \in Sending
     /\ pc[c] = "row" => r.kind \in {"pass", "set", "drop"}
     /\ pc[c] = "commit" => r.kind \in {"buy", "give", "pass"}
     /\ pc[c] = "insert" => r.kind = "stock"
     /\ pc[c] = "write" => r.kind \in {"set", "drop"} /\ (r.by \notin raced => s.row = bag[r.by][r.item])
     /\ pc[c] = "new" \/ (pc[c] \in {"catalog", "wallet", "tx"} /\ r.kind = "buy") => s.row = None
     /\ pc[c] = "commit" /\ r.kind = "buy" =>
          IF s.item = None THEN s.row = None ELSE r.by \notin raced => s.row = bag[r.by][s.item]
     /\ pc[c] \in {"catalog", "tx", "commit"} /\ r.kind = "pass" /\ r.by \notin raced =>
          /\ bag[r.by][r.item] \in Int /\ bag[r.by][r.item] >= r.qty
          /\ pc[c] = "commit" => s.row = bag[r.by][r.item]
     /\ pc[c] = "put" /\ r.to \notin raced => s.row = bag[r.to][s.item]

RowsCurrent == \A c \in Calls : RowCurrent(c)

(* Whose bag a request reads and writes. *)
Target(c) == IF pc[c] = "put" THEN call[c].to ELSE call[c].by

Balanced == owed \in [Users -> Int] /\ BagExact

IInv == Typed /\ Noticed /\ Money /\ Uncounted /\ RowsCurrent /\ Balanced
-----------------------------------------------------------------------------
(* None and Gone are no values. *)
LEMMA Absent == None \notin Int /\ Gone \notin Int /\ Gone # None /\ None \notin ItemIds
BY GiftsAssumption DEF Row

LEMMA RequestFacts ==
  ASSUME NEW r \in Requests
  PROVE  /\ r.kind \in Kinds /\ r.by \in Users /\ r.to \in Users /\ r.item \in ItemIds /\ r.qty \in Int
         /\ r.kind \in Paid \cup Sending => r.qty > 0
         /\ r.kind \in Paid => Cost(r) \in Nat
<1>1. r \in Request
  BY GiftsAssumption
<1>2. r.kind \in Paid \cup Sending => r.qty > 0
  BY GiftsAssumption
<1>3. ASSUME r.qty \in Nat PROVE Cost(r) \in Nat
  BY <1>3, GiftsAssumption DEF Cost
<1>4. QED
  BY <1>1, <1>2, <1>3 DEF Request

(* Forgetting a row marks it in what requests hold, and nothing else. *)
LEMMA ForgetFacts ==
  ASSUME TypeOK, NEW u \in Users, NEW i \in ItemIds
  PROVE  /\ Forget(u, i, Calls) \in [Calls -> Seen]
         /\ \A d \in Calls : LET s == Forget(u, i, Calls)[d] IN
              s.bal = seen[d].bal /\ s.item = seen[d].item /\ s.row \in {seen[d].row, Gone}
<1>1. ASSUME NEW s \in Seen
      PROVE  LET t == [s EXCEPT !.row = Gone] IN t \in Seen /\ t.bal = s.bal /\ t.item = s.item /\ t.row = Gone
  BY DEF Seen
<1>2. ASSUME NEW d \in Calls
      PROVE  LET s == Forget(u, i, Calls)[d] IN
             s \in Seen /\ s.bal = seen[d].bal /\ s.item = seen[d].item /\ s.row \in {seen[d].row, Gone}
  <2>1. seen[d] \in Seen
    BY DEF TypeOK
  <2>2. Forget(u, i, Calls)[d] = seen[d] \/ Forget(u, i, Calls)[d] = [seen[d] EXCEPT !.row = Gone]
    BY DEF Forget
  <2>3. QED
    BY <1>1, <2>1, <2>2
<1>3. Forget(u, i, Calls) = [d \in Calls |-> Forget(u, i, Calls)[d]]
  BY DEF Forget
<1>4. QED
  BY <1>2, <1>3

LEMMA TypedStep == ASSUME Typed, Next PROVE Typed'
<1> USE DEF Typed, Goto, rows, handler, history, Paid, Sending, Active
<1>1. ASSUME NEW c \in Calls, Start(c) PROVE Typed'
  <2>1. PICK r \in Requests :
          /\ pc[c] = "new" /\ Accepted(r)
          /\ call' = [call EXCEPT ![c] = r]
          /\ pc' = [pc EXCEPT ![c] = First[r.kind]]
          /\ raced' = raced \cup UNION {About(r) \cap About(call[d]) : d \in {e \in Calls : Active(e)}}
          /\ UNCHANGED <<rows, seen, topup, spent, topped, owed, crossed, late>>
    BY <1>1, Zenon DEF Start
  <2>2. First[r.kind] \in Labels \ {"deliver", "forge", "receive", "put", "done", "tx", "commit", "write"}
        /\ (r.kind = "pass" => First[r.kind] = "row") /\ First[r.kind] # "wallet"
        /\ (First[r.kind] = "catalog" => r.kind \in Paid)
    BY RequestFacts DEF First, Kinds, Labels
  <2>3. raced' \subseteq Users
    BY <2>1, RequestFacts DEF TypeOK, About
  <2>4. TypeOK'
    BY <2>1, <2>2, <2>3 DEF TypeOK, Labels
  <2>5. ReadsRight'
    BY <2>1, <2>2 DEF TypeOK, ReadsRight, Accepted
  <2>6. QED
    BY <2>4, <2>5
<1>2. ASSUME NEW c \in Calls, ReadCatalog(c) PROVE Typed'
  <2>1. TypeOK'
    BY <1>2, GiftsAssumption, RequestFacts DEF TypeOK, Row, Seen, ReadsRight, Blank, Labels, ReadCatalog
  <2>2. ReadsRight'
    BY <1>2, GiftsAssumption, RequestFacts DEF TypeOK, Row, Seen, ReadsRight, Blank, ReadCatalog
  <2>3. QED
    BY <2>1, <2>2
<1>3. ASSUME NEW c \in Calls, Unlisted(c) PROVE Typed'
  <2>1. TypeOK'
    BY <1>3, GiftsAssumption, RequestFacts DEF TypeOK, Row, Seen, ReadsRight, Blank, Labels, Unlisted, Answer
  <2>2. ReadsRight'
    BY <1>3, GiftsAssumption, RequestFacts DEF TypeOK, Row, Seen, ReadsRight, Blank, Unlisted, Answer
  <2>3. QED
    BY <2>1, <2>2
<1>4. ASSUME NEW c \in Calls, ReadWallet(c) PROVE Typed'
  <2> DEFINE bal == funds[call[c].by]
  <2>1. bal \in Nat /\ pc[c] = "wallet"
    BY <1>4, RequestFacts DEF ReadWallet, TypeOK
  <2>2. CASE Affords(bal, call[c])
    <3>1. /\ pc' = [pc EXCEPT ![c] = "tx"] /\ seen' = [seen EXCEPT ![c] = [seen[c] EXCEPT !.bal = bal]]
          /\ UNCHANGED <<rows, call, history>>
      BY <1>4, <2>2 DEF ReadWallet
    <3>2. [seen[c] EXCEPT !.bal = bal] \in Seen /\ [seen[c] EXCEPT !.bal = bal].bal = bal
      <4>1. seen[c] \in Seen
        BY DEF TypeOK
      <4>2. QED
        BY <4>1, <2>1 DEF Seen
    <3>3. TypeOK'
      BY <2>1, <3>1, <3>2, Absent DEF TypeOK, Labels
    <3>4. seen'[c].bal = bal /\ \A d \in Calls \ {c} : seen'[d] = seen[d]
      BY <3>1, <3>2 DEF TypeOK
    <3>5. QED
      <4>1. bal # None /\ bal >= Cost(call[c])
        BY <2>1, <2>2, Absent DEF Affords
      <4>2. seen'[c].item = seen[c].item
        BY <3>1, <3>2 DEF TypeOK
      <4> HIDE DEF bal
      <4>3. \A d \in Calls : (seen'[d].item = seen[d].item /\ seen'[d].row = seen[d].row) \/ d = c
        BY <3>4
      <4>4. pc'[c] = "tx" /\ \A d \in Calls \ {c} : pc'[d] = pc[d]
        BY <3>1 DEF TypeOK
      <4>5. funds[call[c].by] # None
        BY <4>1 DEF bal
      <4>6. call[c].kind \in Paid
        BY <2>1 DEF ReadsRight
      <4>7. QED
        BY <2>1, <3>1, <3>3, <3>4, <4>1, <4>2, <4>3, <4>4, <4>5, <4>6 DEF ReadsRight
  <2>3. CASE ~Affords(bal, call[c])
    <3>1. pc' = [pc EXCEPT ![c] = "done"] /\ UNCHANGED <<rows, call, seen, history>>
      BY <1>4, <2>3 DEF ReadWallet
    <3>2. QED
      BY <2>1, <3>1 DEF TypeOK, ReadsRight, Labels
  <2>4. QED
    BY <2>2, <2>3
<1>5. ASSUME NEW c \in Calls, NoWallet(c) PROVE Typed'
  <2>1. TypeOK'
    BY <1>5, GiftsAssumption, RequestFacts DEF TypeOK, Row, Seen, ReadsRight, Blank, Labels, NoWallet
  <2>2. ReadsRight'
    BY <1>5, GiftsAssumption, RequestFacts DEF TypeOK, Row, Seen, ReadsRight, Blank, NoWallet
  <2>3. QED
    BY <2>1, <2>2
<1>6. ASSUME NEW c \in Calls, OpenWallet(c) PROVE Typed'
  <2>1. TypeOK'
    BY <1>6, GiftsAssumption, RequestFacts DEF TypeOK, Row, Seen, ReadsRight, Blank, Labels, OpenWallet
  <2>2. ReadsRight'
    BY <1>6, GiftsAssumption, RequestFacts DEF TypeOK, Row, Seen, ReadsRight, Blank, OpenWallet
  <2>3. QED
    BY <2>1, <2>2
<1>7. ASSUME NEW c \in Calls, ReadRow(c) PROVE Typed'
  <2> DEFINE r == call[c]
             row == bag[r.by][r.item]
  <2>1. row \in Row /\ pc[c] = "row" /\ (row # None => r.item \in items) /\ r.item \in ItemIds
    BY <1>7, RequestFacts DEF ReadRow, TypeOK
  <2>2. CASE row # None /\ (r.kind = "pass" => row >= r.qty)
    <3>1. /\ pc' = [pc EXCEPT ![c] = IF r.kind = "pass" THEN "catalog" ELSE "write"]
          /\ seen' = [seen EXCEPT ![c] = [seen[c] EXCEPT !.item = r.item, !.row = row]]
          /\ UNCHANGED <<rows, call, history>>
      BY <1>7, <2>2 DEF ReadRow
    <3>2. LET t == [seen[c] EXCEPT !.item = r.item, !.row = row] IN t \in Seen /\ t.row = row /\ t.item = r.item
      <4>1. seen[c] \in Seen
        BY DEF TypeOK
      <4>2. QED
        BY <4>1, <2>1 DEF Seen
    <3>3. TypeOK'
      BY <2>1, <3>1, <3>2 DEF TypeOK, Labels
    <3>4. seen'[c].row = row
      BY <2>1, <3>1, <3>2 DEF TypeOK
    <3>5. QED
      BY <2>1, <2>2, <3>1, <3>3, <3>4 DEF TypeOK, ReadsRight, Row
  <2>3. CASE ~(row # None /\ (r.kind = "pass" => row >= r.qty))
    <3>1. pc' = [pc EXCEPT ![c] = "done"] /\ UNCHANGED <<rows, call, seen, history>>
      BY <1>7, <2>3 DEF ReadRow
    <3>2. QED
      BY <2>1, <3>1 DEF TypeOK, ReadsRight, Labels
  <2>4. QED
    BY <2>2, <2>3
<1>8. ASSUME NEW c \in Calls, BeginTx(c) PROVE Typed'
  <2> DEFINE k == call[c].kind
             u == call[c].by
             Bag(i) == [seen[c] EXCEPT !.item = i, !.row = bag[u][i]]
  <2>1. pc[c] = "tx" /\ pc' = [pc EXCEPT ![c] = "commit"] /\ UNCHANGED <<rows, call, history>>
    BY <1>8 DEF BeginTx
  <2>2. \/ k = "give" /\ seen' = seen
        \/ k = "pass" /\ seen' = [seen EXCEPT ![c] = Bag(call[c].item)]
        \/ k = "buy" /\ \E i \in items : seen' = [seen EXCEPT ![c] = Bag(i)]
        \/ k = "buy" /\ items = {} /\ seen' = seen
    BY <1>8 DEF BeginTx
  <2>3. ASSUME NEW i \in items
        PROVE  Bag(i) \in Seen /\ Bag(i).bal = seen[c].bal /\ Bag(i).item = i
    <3>1. seen[c] \in Seen /\ i \in ItemIds /\ bag[u][i] \in Row
      BY RequestFacts DEF TypeOK
    <3>2. QED
      BY <3>1 DEF Seen
  <2> HIDE DEF Bag
  <2>4. seen' \in [Calls -> Seen] /\ seen'[c].bal = seen[c].bal /\ \A d \in Calls \ {c} : seen'[d] = seen[d]
    <3>1. seen \in [Calls -> Seen]
      BY DEF TypeOK
    <3>2. k = "pass" => call[c].item \in items
      BY <2>1 DEF ReadsRight
    <3>3. CASE seen' = seen
      BY <3>1, <3>3
    <3>4. ASSUME NEW i \in items, seen' = [seen EXCEPT ![c] = Bag(i)] 
          PROVE  seen' \in [Calls -> Seen] /\ seen'[c].bal = seen[c].bal /\ \A d \in Calls \ {c} : seen'[d] = seen[d]
      BY <2>3, <3>1, <3>4
    <3>5. QED
      BY <2>2, <3>2, <3>3, <3>4
  <2>5. TypeOK'
    BY <2>1, <2>4 DEF TypeOK, Labels
  <2>6. CASE k = "buy"
    <3>1. seen'[c].item \in items \cup {None}
      BY <2>1, <2>2, <2>3, <2>6 DEF TypeOK, ReadsRight
    <3>2. QED
      BY <2>1, <2>4, <2>5, <2>6, <3>1 DEF TypeOK, ReadsRight
  <2>7. CASE k # "buy"
    <3>1. k = "pass" => seen'[c].item = call[c].item
      BY <2>1, <2>2, <2>3, <2>7 DEF TypeOK, ReadsRight
    <3>2. QED
      BY <2>1, <2>4, <2>5, <2>7, <3>1 DEF TypeOK, ReadsRight
  <2>8. QED
    BY <2>6, <2>7
<1>9. ASSUME NEW c \in Calls, Rollback(c) PROVE Typed'
  <2>1. TypeOK'
    BY <1>9, GiftsAssumption, RequestFacts DEF TypeOK, Row, Seen, ReadsRight, Blank, Labels, Rollback, Answer, Commits
  <2>2. ReadsRight'
    BY <1>9, GiftsAssumption, RequestFacts DEF TypeOK, Row, Seen, ReadsRight, Blank, Rollback, Answer, Commits
  <2>3. QED
    BY <2>1, <2>2
<1>10. ASSUME NEW c \in Calls, CommitGive(c) PROVE Typed'
  <2>1. TypeOK'
    BY <1>10, GiftsAssumption, RequestFacts DEF TypeOK, Row, Seen, ReadsRight, Blank, Labels, CommitGive, Commits, Charge, Charged, GiveRow
  <2>2. ReadsRight'
    BY <1>10, GiftsAssumption, RequestFacts DEF TypeOK, Row, Seen, ReadsRight, Blank, CommitGive, Commits, Charge, Charged, GiveRow
  <2>3. QED
    BY <2>1, <2>2
<1>11. ASSUME NEW c \in Calls, CommitBuy(c) PROVE Typed'
  <2>1. TypeOK'
    BY <1>11, GiftsAssumption, RequestFacts DEF TypeOK, Row, Seen, ReadsRight, Blank, Labels, CommitBuy, Amount, Commits, Charge, Charged
  <2>2. ReadsRight'
    BY <1>11, GiftsAssumption, RequestFacts DEF TypeOK, Row, Seen, ReadsRight, Blank, CommitBuy, Amount, Commits, Charge, Charged
  <2>3. QED
    BY <2>1, <2>2
<1>12. ASSUME NEW c \in Calls, CommitPass(c) PROVE Typed'
  <2> DEFINE u == call[c].by
             i == seen[c].item
             left == seen[c].row - call[c].qty
  <2>1. /\ pc[c] = "commit" /\ call[c].kind = "pass" /\ pc' = [pc EXCEPT ![c] = "deliver"]
        /\ UNCHANGED <<funds, listed, items, call, topup, spent, topped, raced, crossed>>
        /\ bag' = [bag EXCEPT ![u][i] = IF left > 0 THEN left ELSE None]
        /\ gift' = gift \cup {c}
    BY <1>12 DEF CommitPass
  <2>2. u \in Users /\ call[c].qty \in Int /\ i \in items /\ call[c].by # call[c].to
    BY <2>1, RequestFacts DEF TypeOK, ReadsRight
  <2>3. left \in Int
    BY <1>12, <2>2 DEF CommitPass, Commits, TypeOK, Seen, Row
  <2> HIDE DEF left
  <2>4. bag' \in [Users -> [ItemIds -> Row]] /\ \A v \in Users, j \in ItemIds : bag'[v][j] # None => j \in items
    BY <2>1, <2>2, <2>3 DEF TypeOK, Row
  <2>5. PICK s : s \in {seen, Forget(u, i, Calls)} /\ seen' = [s EXCEPT ![c] = Blank]
    BY <1>12 DEF CommitPass, left
  <2>6. /\ s \in [Calls -> Seen]
        /\ \A d \in Calls : /\ s[d].bal = seen[d].bal /\ s[d].item = seen[d].item
                            /\ s[d].row \in {seen[d].row, Gone}
    <3>1. i \in ItemIds
      BY <2>2 DEF TypeOK
    <3>2. QED
      BY <2>2, <2>5, <3>1, ForgetFacts DEF TypeOK
  <2>7. Blank \in Seen
    BY DEF Blank, Seen, Row
  <2>8. late' \subseteq Calls
    BY <1>12 DEF CommitPass, TypeOK
  <2>9. TypeOK'
    BY <2>1, <2>2, <2>3, <2>4, <2>5, <2>6, <2>7, <2>8 DEF TypeOK, Labels
  <2>10. \A d \in Calls \ {c} : /\ seen'[d].bal = seen[d].bal /\ seen'[d].item = seen[d].item
                              /\ seen'[d].row \in {seen[d].row, Gone} /\ pc'[d] = pc[d]
    BY <2>1, <2>5, <2>6 DEF TypeOK
  <2>11. pc'[c] = "deliver" /\ UNCHANGED <<funds, items, call>>
    BY <2>1 DEF TypeOK
  <2>12. ReadsRight'
    BY <2>2, <2>10, <2>11 DEF ReadsRight
  <2>13. QED
    BY <2>9, <2>12
<1>13. ASSUME NEW c \in Calls, CommitPassFree(c) PROVE Typed'
  <2>1. TypeOK'
    <3>1. /\ pc[c] = "commit" /\ call[c].kind = "pass" /\ pc' = [pc EXCEPT ![c] = "deliver"]
          /\ UNCHANGED <<funds, listed, items, bag, call, topup, spent, topped, raced, crossed>>
          /\ gift' = gift \cup {c} /\ seen' = [seen EXCEPT ![c] = Blank] /\ late' \subseteq late \cup {c}
      BY <1>13 DEF CommitPassFree, GiveRow
    <3>2. Blank \in Seen /\ call[c].by # call[c].to
      BY <3>1 DEF Blank, Seen, Row, TypeOK, ReadsRight
    <3>3. QED
      BY <3>1, <3>2 DEF TypeOK, Labels
  <2>2. ReadsRight'
    BY <1>13, GiftsAssumption, RequestFacts DEF TypeOK, Row, Seen, ReadsRight, Blank, CommitPassFree, Commits, GiveRow
  <2>3. QED
    BY <2>1, <2>2
<1>14. ASSUME NEW c \in Calls, FindItem(c) PROVE Typed'
  <2>1. CASE items = {} /\ Goto(c, "forge") /\ UNCHANGED seen
    BY <1>14, <2>1 DEF TypeOK, Labels, ReadsRight, FindItem
  <2>2. ASSUME NEW i \in items, seen' = [seen EXCEPT ![c] = [Blank EXCEPT !.item = i]], Goto(c, "receive")
        PROVE  Typed'
    <3>1. [Blank EXCEPT !.item = i] \in Seen /\ [Blank EXCEPT !.item = i].item = i
      BY DEF Blank, Seen, TypeOK, Row
    <3>2. TypeOK'
      BY <1>14, <2>2, <3>1 DEF TypeOK, Labels, FindItem
    <3>3. QED
      BY <1>14, <2>2, <3>1, <3>2 DEF TypeOK, ReadsRight, FindItem
  <2>3. QED
    BY <1>14, <2>1, <2>2 DEF FindItem
<1>15. ASSUME NEW c \in Calls, ForgeItem(c) PROVE Typed'
  <2>1. TypeOK'
    BY <1>15, GiftsAssumption, RequestFacts DEF TypeOK, Row, Seen, ReadsRight, Blank, Labels, ForgeItem
  <2>2. ReadsRight'
    BY <1>15, GiftsAssumption, RequestFacts DEF TypeOK, Row, Seen, ReadsRight, Blank, ForgeItem
  <2>3. QED
    BY <2>1, <2>2
<1>16. ASSUME NEW c \in Calls, ReadReceiver(c) PROVE Typed'
  <2> DEFINE row == bag[call[c].to][seen[c].item]
  <2>1. seen[c].item \in ItemIds /\ row \in Row /\ pc[c] = "receive"
    BY <1>16, RequestFacts DEF ReadReceiver, TypeOK, ReadsRight
  <2>2. [seen[c] EXCEPT !.row = row] \in Seen /\ [seen[c] EXCEPT !.row = row].item = seen[c].item
    <3>1. seen[c] \in Seen
      BY DEF TypeOK
    <3>2. QED
      BY <3>1, <2>1 DEF Seen
  <2>3. TypeOK'
    BY <1>16, <2>1, <2>2 DEF TypeOK, Labels, ReadReceiver
  <2>4. QED
    BY <1>16, <2>1, <2>2, <2>3 DEF TypeOK, ReadsRight, ReadReceiver
<1>17. ASSUME NEW c \in Calls, PutRow(c) PROVE Typed'
  <2>1. TypeOK'
    BY <1>17, GiftsAssumption, RequestFacts DEF TypeOK, Row, Seen, ReadsRight, Blank, Labels, PutRow, Grown, Amount
  <2>2. ReadsRight'
    BY <1>17, GiftsAssumption, RequestFacts DEF TypeOK, Row, Seen, ReadsRight, Blank, PutRow, Grown, Amount
  <2>3. QED
    BY <2>1, <2>2
<1>18. ASSUME NEW c \in Calls, Lose(c) PROVE Typed'
  <2>1. TypeOK'
    BY <1>18, GiftsAssumption, RequestFacts DEF TypeOK, Row, Seen, ReadsRight, Blank, Labels, Lose
  <2>2. ReadsRight'
    BY <1>18, GiftsAssumption, RequestFacts DEF TypeOK, Row, Seen, ReadsRight, Blank, Lose
  <2>3. QED
    BY <2>1, <2>2
<1>19. ASSUME NEW c \in Calls, Stock(c) PROVE Typed'
  <2>1. pc[c] = "insert" /\ pc' = [pc EXCEPT ![c] = "done"]
        /\ UNCHANGED <<funds, listed, items, gift, call, seen, topup, spent, topped, raced, crossed, late>>
    BY <1>19 DEF Stock
  <2>2. bag' \in [Users -> [ItemIds -> Row]] /\ \A u \in Users, i \in ItemIds : bag'[u][i] # None => i \in items
    <3>1. call[c].item \in items => bag' = bag \/ bag' = [bag EXCEPT ![call[c].by][call[c].item] = call[c].qty]
      BY <1>19 DEF Stock
    <3>2. call[c].item \notin items => bag' = bag
      BY <1>19 DEF Stock
    <3>3. call[c].by \in Users /\ call[c].qty \in Row
      BY RequestFacts DEF TypeOK, Row
    <3>4. CASE bag' = bag
      BY <3>4 DEF TypeOK
    <3>5. CASE call[c].item \in items /\ bag' = [bag EXCEPT ![call[c].by][call[c].item] = call[c].qty]
      <4> DEFINE by == call[c].by
                 it == call[c].item
                 qty == call[c].qty
      <4>1. by \in Users /\ it \in items /\ it \in ItemIds /\ qty \in Row
        BY <3>3, <3>5 DEF TypeOK
      <4>2. bag' = [bag EXCEPT ![by][it] = qty]
        BY <3>5
      <4> HIDE DEF by, it, qty
      <4>3. QED
        BY <4>1, <4>2 DEF TypeOK
    <3>6. QED
      BY <3>1, <3>2, <3>4, <3>5
  <2>3. TypeOK'
    BY <2>1, <2>2 DEF TypeOK, Labels
  <2>4. QED
    BY <2>1, <2>3 DEF TypeOK, ReadsRight
<1>20. ASSUME NEW c \in Calls, WriteRow(c) PROVE Typed'
  <2>1. /\ pc[c] = "write" /\ pc' = [pc EXCEPT ![c] = "done"]
        /\ UNCHANGED <<funds, listed, items, gift, call, topup, spent, topped, raced, crossed, late>>
        /\ seen' = seen \/ seen' = Forget(call[c].by, call[c].item, Calls)
    BY <1>20 DEF WriteRow
  <2>2. bag' \in [Users -> [ItemIds -> Row]] /\ \A u \in Users, i \in ItemIds : bag'[u][i] # None => i \in items
    BY <1>20, RequestFacts DEF WriteRow, TypeOK, ReadsRight, Row
  <2>3. /\ seen' \in [Calls -> Seen]
        /\ \A d \in Calls : /\ seen'[d].bal = seen[d].bal /\ seen'[d].item = seen[d].item
                            /\ seen'[d].row \in {seen[d].row, Gone}
    <3>1. call[c].by \in Users /\ call[c].item \in ItemIds
      BY RequestFacts DEF TypeOK
    <3>2. QED
      BY <2>1, <3>1, ForgetFacts DEF TypeOK
  <2>4. TypeOK'
    BY <2>1, <2>2, <2>3 DEF TypeOK, Labels
  <2>5. pc \in [Calls -> Labels] /\ UNCHANGED <<funds, items, call>>
    BY <2>1 DEF TypeOK
  <2>6. \A d \in Calls \ {c} : pc'[d] = pc[d]
    BY <2>1, <2>5
  <2>7. pc'[c] = "done"
    BY <2>1, <2>5
  <2>8. QED
    BY <2>3, <2>4, <2>5, <2>6, <2>7 DEF ReadsRight
<1>21. ASSUME NEW c \in Calls, WriteLost(c) PROVE Typed'
  <2>1. TypeOK'
    BY <1>21, GiftsAssumption, RequestFacts DEF TypeOK, Row, Seen, ReadsRight, Blank, Labels, WriteLost, Answer
  <2>2. ReadsRight'
    BY <1>21, GiftsAssumption, RequestFacts DEF TypeOK, Row, Seen, ReadsRight, Blank, WriteLost, Answer
  <2>3. QED
    BY <2>1, <2>2
<1>22. ASSUME NEW c \in Calls, FindGift(c) PROVE Typed'
  <2>1. CASE pc' = [pc EXCEPT ![c] = "done"] /\ UNCHANGED seen
    BY <1>22, <2>1 DEF TypeOK, Labels, ReadsRight, FindGift
  <2>2. ASSUME NEW g \in gift, seen' = [seen EXCEPT ![c].item = g], pc' = [pc EXCEPT ![c] = "delete"]
        PROVE  Typed'
    <3>1. [seen[c] EXCEPT !.item = g] \in Seen
      <4>1. seen[c] \in Seen /\ g \in Calls
        BY DEF TypeOK
      <4>2. QED
        BY <4>1 DEF Seen
    <3>2. TypeOK'
      BY <1>22, <2>2, <3>1 DEF TypeOK, Labels, FindGift
    <3>3. QED
      BY <1>22, <2>2, <3>1, <3>2 DEF TypeOK, ReadsRight, FindGift
  <2>3. QED
    BY <1>22, <2>1, <2>2 DEF FindGift
<1>23. ASSUME NEW c \in Calls, DeleteGift(c) PROVE Typed'
  <2>1. TypeOK'
    BY <1>23, GiftsAssumption, RequestFacts DEF TypeOK, Row, Seen, ReadsRight, Blank, Labels, DeleteGift
  <2>2. ReadsRight'
    BY <1>23, GiftsAssumption, RequestFacts DEF TypeOK, Row, Seen, ReadsRight, Blank, DeleteGift
  <2>3. QED
    BY <2>1, <2>2
<1>24. ASSUME NEW c \in Calls, CountGifts(c) PROVE Typed'
  <2>1. TypeOK'
    BY <1>24, GiftsAssumption, RequestFacts DEF TypeOK, Row, Seen, ReadsRight, Blank, Labels, CountGifts, Unused
  <2>2. ReadsRight'
    BY <1>24, GiftsAssumption, RequestFacts DEF TypeOK, Row, Seen, ReadsRight, Blank, CountGifts, Unused
  <2>3. QED
    BY <2>1, <2>2
<1>25. ASSUME NEW c \in Calls, Delist(c) PROVE Typed'
  <2>1. TypeOK'
    BY <1>25, GiftsAssumption, RequestFacts DEF TypeOK, Row, Seen, ReadsRight, Blank, Labels, Delist
  <2>2. ReadsRight'
    BY <1>25, GiftsAssumption, RequestFacts DEF TypeOK, Row, Seen, ReadsRight, Blank, Delist
  <2>3. QED
    BY <2>1, <2>2
<1>26. ASSUME NEW u \in Users, ReadBalance(u) \/ WriteBalance(u) PROVE Typed'
  <2>1. \E n \in Nat : funds' = [funds EXCEPT ![u] = n]
    <3>1. Amount(funds[u]) \in Nat
      BY Absent DEF TypeOK, Amount
    <3>2. CASE ReadBalance(u)
      BY <3>1, <3>2 DEF ReadBalance
    <3>3. CASE WriteBalance(u)
      <4>1. PICK bal \in topup[u] : funds' = [funds EXCEPT ![u] = bal + TopUp]
        BY <3>3 DEF WriteBalance
      <4>2. bal \in Nat /\ TopUp \in Nat
        BY GiftsAssumption DEF TypeOK
      <4>3. bal + TopUp \in Nat
        BY <4>2
      <4>4. QED
        BY <4>1, <4>3, Zenon
    <3>4. QED
      BY <1>26, <3>2, <3>3
  <2>2. topup' \in [Users -> SUBSET Nat] /\ topped' \in [Users -> Nat] /\ crossed' \subseteq Users
    <3>1. Amount(funds[u]) \in Nat
      BY Absent DEF TypeOK, Amount
    <3>2. CASE ReadBalance(u)
      BY <3>1, <3>2 DEF ReadBalance, TypeOK
    <3>3. CASE WriteBalance(u)
      <4>1. \E others \in SUBSET Nat : topup' = [topup EXCEPT ![u] = others]
        BY <3>3 DEF WriteBalance, TypeOK
      <4>2. topped' = [topped EXCEPT ![u] = @ + TopUp] /\ crossed' \subseteq crossed \cup {u}
        BY <3>3 DEF WriteBalance
      <4>3. QED
        BY <4>1, <4>2, GiftsAssumption DEF TypeOK
    <3>4. QED
      BY <1>26, <3>2, <3>3
  <2>3. UNCHANGED <<listed, items, bag, gift, call, pc, seen, spent, raced, late>>
    BY <1>26 DEF ReadBalance, WriteBalance
  <2>4. TypeOK'
    <3>1. funds' \in [Users -> Nat \cup {None}]
      BY <2>1 DEF TypeOK
    <3>2. QED
      BY <2>2, <2>3, <3>1 DEF TypeOK
  <2>5. \A v \in Users : funds[v] # None => funds'[v] # None
    BY <2>1, Absent DEF TypeOK
  <2>6. ReadsRight'
    BY <2>3, <2>5, RequestFacts DEF TypeOK, ReadsRight
  <2>7. QED
    BY <2>4, <2>6
<1>27. QED
  BY <1>1, <1>2, <1>3, <1>4, <1>5, <1>6, <1>7, <1>8, <1>9, <1>10, <1>11, <1>12, <1>13, <1>14, <1>15, <1>16, <1>17, <1>18, <1>19, <1>20, <1>21, <1>22, <1>23, <1>24, <1>25, <1>26 DEF Next, Handle
-----------------------------------------------------------------------------
(* A step of one request changes no other, and none that has ended starts again. *)
LEMMA NoticedStep == ASSUME Typed, Noticed, Next PROVE Noticed'
<1>1. ASSUME NEW c \in Calls, Start(c) PROVE Noticed'
  <2>1. PICK r \in Requests :
          /\ call' = [call EXCEPT ![c] = r]
          /\ pc' = [pc EXCEPT ![c] = First[r.kind]]
          /\ raced' = raced \cup UNION {About(r) \cap About(call[d]) : d \in {e \in Calls : Active(e)}}
    BY <1>1, Zenon DEF Start, Goto
  <2>2. pc[c] = "new" /\ pc \in [Calls -> Labels] /\ call \in [Calls -> Requests]
    BY <1>1 DEF Start, Typed, TypeOK
  <2>3. call'[c] = r /\ \A d \in Calls \ {c} : call'[d] = call[d] /\ pc'[d] = pc[d]
    BY <2>1, <2>2
  <2>4. ASSUME NEW d \in Calls \ {c}, Active(d)
        PROVE  About(r) \cap About(call[d]) \subseteq raced'
    BY <2>1, <2>4, Zenon
  <2>5. raced \subseteq raced'
    BY <2>1
  <2>6. SUFFICES ASSUME NEW a \in Calls, NEW b \in Calls, a # b, Active(a)', Active(b)'
                 PROVE  (About(call[a]) \cap About(call[b]) \subseteq raced)'
    BY DEF Noticed
  <2>7. CASE a = c
    <3>1. call'[a] = r /\ call'[b] = call[b] /\ Active(b)
      BY <2>3, <2>6, <2>7 DEF Active
    <3>2. QED
      BY <2>4, <2>6, <2>7, <3>1 DEF About
  <2>8. CASE b = c
    <3>1. call'[b] = r /\ call'[a] = call[a] /\ Active(a)
      BY <2>3, <2>6, <2>8 DEF Active
    <3>2. QED
      BY <2>4, <2>6, <2>8, <3>1 DEF About
  <2>9. CASE a # c /\ b # c
    <3>1. call'[a] = call[a] /\ Active(a) /\ call'[b] = call[b] /\ Active(b)
      BY <2>3, <2>6, <2>9 DEF Active
    <3>2. QED
      BY <2>5, <2>6, <3>1 DEF Noticed, About
  <2>10. QED
    BY <2>7, <2>8, <2>9
<1>2. ASSUME UNCHANGED call, raced \subseteq raced', \A c \in Calls : Active(c)' => Active(c) PROVE Noticed'
  BY <1>2 DEF Noticed, About
<1>3. ASSUME NEW c \in Calls, Handle(c), ~Start(c) PROVE Noticed'
  <2>1. UNCHANGED call /\ raced \subseteq raced' /\ pc[c] \notin {"new", "done"} /\ \E l : pc' = [pc EXCEPT ![c] = l]
    BY <1>3 DEF Handle, ReadCatalog, Unlisted, ReadWallet, NoWallet, OpenWallet, ReadRow, BeginTx, Rollback, CommitGive, CommitBuy, CommitPass, CommitPassFree, FindItem, ForgeItem, ReadReceiver, PutRow, Lose, Stock, WriteRow, WriteLost, FindGift, DeleteGift, CountGifts, Delist, Answer, Goto, GiveRow, Charge, rows, history
  <2>2. \A d \in Calls : Active(d)' => Active(d)
    BY <2>1 DEF Active, Typed, TypeOK
  <2>3. QED
    BY <1>2, <2>1, <2>2
<1>4. ASSUME NEW u \in Users, ReadBalance(u) \/ WriteBalance(u) PROVE Noticed'
  BY <1>2, <1>4 DEF ReadBalance, WriteBalance, handler, Active
<1>5. QED
  BY <1>1, <1>3, <1>4 DEF Next
-----------------------------------------------------------------------------
(* A step that leaves the money and what was read of it alone keeps the accounts. *)
LEMMA Quiet ==
  ASSUME Money, UNCHANGED <<funds, topup, spent, topped, crossed>>, raced \subseteq raced',
         \A c \in Calls, u \in Users : Paying(c, u)' => Paying(c, u) /\ seen'[c].bal = seen[c].bal
  PROVE  Money'
<1>1. NoAccount' /\ NeverOvercharged' /\ PaidExact' /\ TopUpsTrue'
  BY DEF Money, NoAccount, NeverOvercharged, PaidExact, TopUpsTrue
<1>2. ReadsNeverLow'
  BY DEF Money, ReadsNeverLow
<1>3. ReadsExact'
  BY DEF Money, ReadsExact
<1>4. QED
  BY <1>1, <1>2, <1>3 DEF Money

(* A paid request's debit: what it read, less the price, for the price more spent. *)
LEMMA ChargeStep ==
  ASSUME Typed, Noticed, Money, NEW c \in Calls, pc[c] = "commit", call[c].kind \in Paid, Charge(c),
         UNCHANGED <<call, seen, topup, topped, raced>>,
         NEW l \in {"deliver", "done"}, pc' = [pc EXCEPT ![c] = l]
  PROVE  Money'
<1> DEFINE u == call[c].by
           cost == Cost(call[c])
<1>1. /\ u \in Users /\ cost \in Nat /\ seen[c].bal \in Nat /\ seen[c].bal >= cost
      /\ funds \in [Users -> Nat \cup {None}] /\ spent \in [Users -> Nat] /\ topped \in [Users -> Nat]
      /\ pc \in [Calls -> Labels]
  BY RequestFacts DEF Typed, TypeOK, ReadsRight
<1>2. Paying(c, u)
  BY DEF Paying
<1>3. funds' = [funds EXCEPT ![u] = seen[c].bal - cost] /\ spent' = [spent EXCEPT ![u] = @ + cost]
      /\ crossed' = IF topup[u] # {} THEN crossed \cup {u} ELSE crossed
  BY DEF Charge, Charged
<1>4. ASSUME NEW d \in Calls, NEW v \in Users, Paying(d, v)'
      PROVE  d # c /\ Paying(d, v) /\ seen'[d] = seen[d]
  BY <1>1, <1>4 DEF Paying
<1> HIDE DEF cost, u
<1>5. /\ funds'[u] = seen[c].bal - cost /\ spent'[u] = spent[u] + cost
      /\ \A v \in Users \ {u} : funds'[v] = funds[v] /\ spent'[v] = spent[v]
      /\ \A v \in Users : spent[v] \in Nat /\ topped[v] \in Nat /\ spent'[v] >= spent[v]
      /\ crossed \subseteq crossed' /\ (u \notin crossed' => topup[u] = {})
  BY <1>1, <1>3
<1>6. funds'[u] # None /\ funds'[u] \in Nat
  BY <1>1, <1>5, Absent
<1>7. NoAccount'
  BY <1>5, <1>6 DEF Money, NoAccount
<1>8. NeverOvercharged'
  <2>1. u \notin crossed => funds'[u] >= topped[u] - spent'[u]
    BY <1>1, <1>2, <1>5 DEF Money, ReadsNeverLow
  <2>2. QED
    BY <1>5, <2>1 DEF Money, NeverOvercharged
<1>9. ReadsNeverLow'
  <2>1. SUFFICES ASSUME NEW v \in Users \ crossed', NEW d \in Calls, Paying(d, v)'
                 PROVE  seen'[d].bal >= topped'[v] - spent'[v]
    BY DEF ReadsNeverLow
  <2>2. Paying(d, v) /\ seen'[d] = seen[d] /\ v \in Users \ crossed
    BY <1>4, <1>5, <2>1
  <2>3. seen[d].bal >= topped[v] - spent[v] /\ seen[d].bal \in Nat
    BY <2>2 DEF Money, ReadsNeverLow, Paying, Typed, ReadsRight
  <2>4. spent[v] \in Nat /\ topped[v] \in Nat /\ spent'[v] \in Nat /\ spent'[v] >= spent[v]
    BY <1>1, <1>5
  <2>5. QED
    BY <2>2, <2>3, <2>4
<1>10. PaidExact'
  <2>1. u \notin raced \cup crossed => funds'[u] = topped[u] - spent'[u]
    BY <1>1, <1>2, <1>5 DEF Money, ReadsExact
  <2>2. QED
    BY <1>5, <2>1 DEF Money, PaidExact
<1>11. ReadsExact'
  <2>1. SUFFICES ASSUME NEW v \in Users \ (raced' \cup crossed'), NEW d \in Calls, Paying(d, v)'
                 PROVE  seen'[d].bal = topped'[v] - spent'[v]
    BY DEF ReadsExact
  <2>2. d # c /\ Paying(d, v) /\ seen'[d] = seen[d] /\ v \in Users \ (raced \cup crossed)
    BY <1>4, <1>5, <2>1
  <2>3. v # u
    <3>1. Active(c) /\ Active(d)
      BY <1>2, <2>2 DEF Active, Paying
    <3>2. u \in About(call[c]) /\ v \in About(call[d])
      BY <1>2, <2>2 DEF About, Paying, Paid
    <3>3. QED
      BY <2>2, <3>1, <3>2 DEF Noticed
  <2>4. QED
    BY <1>5, <2>2, <2>3 DEF Money, ReadsExact
<1>12. TopUpsTrue'
  BY <1>5 DEF Money, TopUpsTrue
<1>13. QED
  BY <1>7, <1>8, <1>9, <1>10, <1>11, <1>12 DEF Money

(* Creating an empty wallet where there is none changes nobody's account. *)
LEMMA Opened ==
  ASSUME Typed, Money, NEW u \in Users, funds' = [funds EXCEPT ![u] = Amount(@)],
         UNCHANGED <<seen, spent, topped, crossed, raced>>,
         topup' = topup \/ topup' = [topup EXCEPT ![u] = @ \cup {Amount(funds[u])}],
         \A d \in Calls, v \in Users : Paying(d, v)' => Paying(d, v)
  PROVE  Money'
<1>1. funds \in [Users -> Nat \cup {None}] /\ topup \in [Users -> SUBSET Nat]
  BY DEF Typed, TypeOK
<1>2. ReadsNeverLow' /\ ReadsExact'
  BY DEF Money, ReadsNeverLow, ReadsExact
<1>3. ASSUME NEW v \in Users
      PROVE  funds'[v] = funds[v] \/ (funds[v] = None /\ funds'[v] = 0)
  BY <1>1 DEF Amount
<1>4. NoAccount'
  BY <1>3 DEF Money, NoAccount
<1>5. NeverOvercharged'
  BY <1>3 DEF Money, NoAccount, NeverOvercharged
<1>6. PaidExact'
  BY <1>3 DEF Money, NoAccount, PaidExact
<1>7. \A v \in Users : v # u => funds'[v] = funds[v] /\ topup'[v] = topup[v]
  BY <1>1
<1>8. funds'[u] = Amount(funds[u]) /\ topup'[u] \subseteq topup[u] \cup {Amount(funds[u])}
  BY <1>1
<1>9. \A b \in Nat : b = funds[u] => b = Amount(funds[u])
  BY Absent DEF Amount
<1>10. TopUpsTrue'
  BY <1>1, <1>7, <1>8, <1>9 DEF Money, TopUpsTrue
<1>11. QED
  BY <1>2, <1>4, <1>5, <1>6, <1>10 DEF Money

LEMMA MoneyStep == ASSUME Typed, Noticed, Money, Next PROVE Money'
<1>1. ASSUME NEW c \in Calls, Start(c) PROVE Money'
  <2>1. PICK r \in Requests :
          /\ call' = [call EXCEPT ![c] = r] /\ pc' = [pc EXCEPT ![c] = First[r.kind]]
          /\ raced \subseteq raced' /\ UNCHANGED <<rows, seen, topup, spent, topped, owed, crossed, late>>
    BY <1>1, Zenon DEF Start, Goto
  <2>2. First[r.kind] \notin {"tx", "commit"}
    BY RequestFacts DEF First, Kinds
  <2>3. \A d \in Calls, u \in Users : Paying(d, u)' => Paying(d, u) /\ seen'[d].bal = seen[d].bal
    BY <2>1, <2>2 DEF Paying, Typed, TypeOK
  <2>4. QED
    BY <2>1, <2>3, Quiet DEF rows
<1>2. ASSUME NEW c \in Calls, ReadWallet(c) PROVE Money'
  <2> DEFINE u == call[c].by
             bal == funds[u]
  <2>1. /\ pc[c] = "wallet" /\ bal # None /\ u \in Users /\ bal \in Nat /\ seen \in [Calls -> Seen]
        /\ pc \in [Calls -> Labels] /\ UNCHANGED <<funds, topup, spent, topped, crossed, raced, call>>
    BY <1>2, RequestFacts DEF ReadWallet, Typed, TypeOK, rows, history
  <2>2. CASE Affords(bal, call[c])
    <3>1. pc' = [pc EXCEPT ![c] = "tx"] /\ seen' = [seen EXCEPT ![c] = [seen[c] EXCEPT !.bal = bal]]
      BY <1>2, <2>2 DEF ReadWallet, Goto
    <3>2. seen'[c].bal = bal /\ \A d \in Calls \ {c} : seen'[d] = seen[d] /\ pc'[d] = pc[d]
      BY <2>1, <3>1 DEF Seen
    <3>3. ASSUME NEW d \in Calls, NEW v \in Users, Paying(d, v)'
          PROVE  IF d = c THEN v = u ELSE Paying(d, v) /\ seen'[d] = seen[d]
      BY <2>1, <3>2, <3>3 DEF Paying
    <3>4. NoAccount' /\ NeverOvercharged' /\ PaidExact' /\ TopUpsTrue'
      BY <2>1 DEF Money, NoAccount, NeverOvercharged, PaidExact, TopUpsTrue
    <3>5. u \notin crossed => bal >= topped[u] - spent[u]
      BY <2>1 DEF Money, NeverOvercharged
    <3>6. u \notin raced \cup crossed => bal = topped[u] - spent[u]
      BY <2>1 DEF Money, PaidExact
    <3> HIDE DEF bal, u
    <3>7. ReadsNeverLow'
      BY <2>1, <3>2, <3>3, <3>5 DEF Money, ReadsNeverLow
    <3>8. ReadsExact'
      BY <2>1, <3>2, <3>3, <3>6 DEF Money, ReadsExact
    <3>9. QED
      BY <3>4, <3>7, <3>8 DEF Money
  <2>3. CASE ~Affords(bal, call[c])
    <3>1. pc' = [pc EXCEPT ![c] = "done"] /\ seen' = seen
      BY <1>2, <2>3 DEF ReadWallet, Goto
    <3>2. \A d \in Calls, v \in Users : Paying(d, v)' => Paying(d, v) /\ seen'[d].bal = seen[d].bal
      BY <2>1, <3>1 DEF Paying
    <3>3. QED
      BY <2>1, <3>2, Quiet
  <2>4. QED
    BY <2>2, <2>3
<1>3. ASSUME NEW c \in Calls, OpenWallet(c) PROVE Money'
  <2>1. /\ call[c].by \in Users /\ funds' = [funds EXCEPT ![call[c].by] = Amount(@)]
        /\ pc' = [pc EXCEPT ![c] = "done"] /\ UNCHANGED <<call, seen, topup, spent, topped, crossed, raced>>
        /\ pc \in [Calls -> Labels]
    BY <1>3, RequestFacts DEF OpenWallet, Goto, history, Amount, Typed, TypeOK
  <2>2. \A d \in Calls, v \in Users : Paying(d, v)' => Paying(d, v)
    BY <2>1 DEF Paying
  <2>3. QED
    BY <2>1, <2>2, Opened
<1>4. ASSUME NEW c \in Calls, CommitGive(c) PROVE Money'
  BY <1>4, ChargeStep DEF CommitGive, GiveRow, Goto, Paid
<1>5. ASSUME NEW c \in Calls, CommitBuy(c) PROVE Money'
  BY <1>5, ChargeStep DEF CommitBuy, Goto, Paid
<1>6. ASSUME NEW u \in Users, ReadBalance(u) PROVE Money'
  <2>1. /\ funds' = [funds EXCEPT ![u] = Amount(@)]
        /\ topup' = [topup EXCEPT ![u] = @ \cup {Amount(funds[u])}]
        /\ UNCHANGED <<pc, call, seen, spent, topped, crossed, raced>>
    BY <1>6 DEF ReadBalance, handler
  <2>2. \A d \in Calls, v \in Users : Paying(d, v)' => Paying(d, v)
    BY <2>1 DEF Paying
  <2>3. QED
    BY <2>1, <2>2, Opened
<1>7. ASSUME NEW u \in Users, WriteBalance(u) PROVE Money'
  <2>1. PICK bal \in topup[u] :
          /\ ~Locked(u) /\ funds' = [funds EXCEPT ![u] = bal + TopUp]
          /\ \E others : topup' = [topup EXCEPT ![u] = others]
          /\ topped' = [topped EXCEPT ![u] = @ + TopUp]
          /\ UNCHANGED <<pc, call, seen, spent, raced>>
    BY <1>7 DEF WriteBalance, handler
  <2>2. /\ funds \in [Users -> Nat \cup {None}] /\ spent \in [Users -> Nat] /\ topped \in [Users -> Nat]
        /\ TopUp \in Nat /\ topup \in [Users -> SUBSET Nat] /\ bal \in Nat
    BY <2>1, GiftsAssumption DEF Typed, TypeOK
  <2>3. /\ crossed \subseteq crossed' /\ crossed' \subseteq crossed \cup {u}
        /\ topup'[u] # {} => u \in crossed'
        /\ (\E c \in Calls : pc[c] = "tx" /\ call[c].kind \in Paid /\ call[c].by = u) => u \in crossed'
    BY <1>7 DEF WriteBalance
  <2>4. u \notin crossed' => \A c \in Calls : ~Paying(c, u)
    BY <2>1, <2>3 DEF Paying, Locked
  <2>5. /\ funds'[u] = bal + TopUp /\ topped'[u] = topped[u] + TopUp /\ funds'[u] # None
        /\ \A v \in Users \ {u} : funds'[v] = funds[v] /\ topped'[v] = topped[v] /\ topup'[v] = topup[v]
    BY <2>1, <2>2, Absent
  <2>6. u \notin crossed => bal = funds[u] /\ funds[u] # None
    BY <2>1, <2>2, Absent DEF Money, TopUpsTrue
  <2>7. NoAccount'
    BY <2>1, <2>5 DEF Money, NoAccount
  <2>8. NeverOvercharged'
    BY <2>1, <2>2, <2>3, <2>5, <2>6 DEF Money, NeverOvercharged
  <2>9. PaidExact'
    BY <2>1, <2>2, <2>3, <2>5, <2>6 DEF Money, PaidExact
  <2>10. \A c \in Calls, v \in Users : Paying(c, v)' = Paying(c, v)
    BY <2>1 DEF Paying
  <2>11. ReadsNeverLow' /\ ReadsExact'
    BY <2>1, <2>3, <2>4, <2>5, <2>10 DEF Money, ReadsNeverLow, ReadsExact
  <2>12. TopUpsTrue'
    BY <2>3, <2>5 DEF Money, TopUpsTrue
  <2>13. QED
    BY <2>7, <2>8, <2>9, <2>11, <2>12 DEF Money
<1>8. ASSUME NEW c \in Calls, Handle(c), ~Start(c), ~ReadWallet(c), ~OpenWallet(c), ~CommitGive(c), ~CommitBuy(c)
      PROVE  Money'
  <2>1. /\ UNCHANGED <<funds, call, topup, spent, topped, crossed>> /\ raced \subseteq raced'
        /\ \E l : pc' = [pc EXCEPT ![c] = l] /\ (l = "tx" => call[c].kind = "pass") /\ (l = "commit" => pc[c] = "tx")
    BY <1>8 DEF Handle, ReadCatalog, Unlisted, NoWallet, ReadRow, BeginTx, Rollback, CommitPass, CommitPassFree, FindItem, ForgeItem, ReadReceiver, PutRow, Lose, Stock, WriteRow, WriteLost, FindGift, DeleteGift, CountGifts, Delist, Answer, Goto, GiveRow, rows, history
  <2>2. \A d \in Calls : seen'[d].bal = seen[d].bal \/ (d = c /\ pc'[d] \notin {"tx", "commit"})
    <3>1. TypeOK /\ ReadsRight /\ seen \in [Calls -> Seen] /\ pc \in [Calls -> Labels]
      BY DEF Typed, TypeOK
    <3>2. CASE UNCHANGED seen
      BY <3>2
    <3>3. ASSUME NEW s \in [Calls -> Seen], \A d \in Calls : s[d].bal = seen[d].bal, NEW x,
                 seen' = [s EXCEPT ![c] = x], x.bal = seen[c].bal \/ pc'[c] \notin {"tx", "commit"}
          PROVE  \A d \in Calls : seen'[d].bal = seen[d].bal \/ (d = c /\ pc'[d] \notin {"tx", "commit"})
      BY <3>3
    <3>4. ASSUME NEW x, seen' = [seen EXCEPT ![c] = x], x.bal = seen[c].bal \/ pc'[c] \notin {"tx", "commit"}
          PROVE  \A d \in Calls : seen'[d].bal = seen[d].bal \/ (d = c /\ pc'[d] \notin {"tx", "commit"})
      BY <3>1, <3>4
    <3>5. seen[c] \in Seen
      BY <3>1
    <3>6. CASE ReadRow(c)
      <4>1. ASSUME NEW i, NEW row PROVE [seen[c] EXCEPT !.item = i, !.row = row].bal = seen[c].bal
        BY <3>5 DEF Seen
      <4>2. seen' = seen \/ \E i, row : seen' = [seen EXCEPT ![c] = [seen[c] EXCEPT !.item = i, !.row = row]]
        BY <3>6 DEF ReadRow
      <4>3. QED
        BY <3>2, <3>4, <4>1, <4>2
    <3>7. CASE BeginTx(c)
      <4>1. ASSUME NEW i, NEW row PROVE [seen[c] EXCEPT !.item = i, !.row = row].bal = seen[c].bal
        BY <3>5 DEF Seen
      <4>2. seen' = seen \/ \E i, row : seen' = [seen EXCEPT ![c] = [seen[c] EXCEPT !.item = i, !.row = row]]
        BY <3>7 DEF BeginTx
      <4>3. QED
        BY <3>2, <3>4, <4>1, <4>2
    <3>8. CASE CommitPass(c)
      <4>1. call[c].by \in Users /\ seen[c].item \in ItemIds
        BY <3>1, <3>8, RequestFacts DEF TypeOK, ReadsRight, CommitPass
      <4>2. pc'[c] = "deliver"
        BY <3>1, <3>8 DEF CommitPass, Goto
      <4>3. PICK s \in {seen, Forget(call[c].by, seen[c].item, Calls)} : seen' = [s EXCEPT ![c] = Blank]
        BY <3>8 DEF CommitPass
      <4>4. s \in [Calls -> Seen] /\ \A d \in Calls : s[d].bal = seen[d].bal
        BY <3>1, <4>1, <4>3, ForgetFacts
      <4>5. QED
        BY <3>3, <4>2, <4>3, <4>4
    <3>9. CASE CommitPassFree(c)
      <4>1. pc'[c] = "deliver"
        BY <3>1, <3>9 DEF CommitPassFree, GiveRow, Goto
      <4>2. QED
        BY <3>4, <3>9, <4>1 DEF CommitPassFree
    <3>10. CASE FindItem(c)
      <4>1. pc'[c] \in {"receive", "forge"}
        BY <3>1, <3>10 DEF FindItem, Goto
      <4>2. seen' = seen \/ \E i : seen' = [seen EXCEPT ![c] = [Blank EXCEPT !.item = i]]
        BY <3>10 DEF FindItem
      <4>3. QED
        BY <3>2, <3>4, <4>1, <4>2
    <3>11. CASE ForgeItem(c)
      <4>1. pc'[c] = "receive"
        BY <3>1, <3>11 DEF ForgeItem, Goto
      <4>2. \E i : seen' = [seen EXCEPT ![c] = [Blank EXCEPT !.item = i]]
        BY <3>11 DEF ForgeItem
      <4>3. QED
        BY <3>4, <4>1, <4>2
    <3>12. CASE ReadReceiver(c)
      <4>1. pc'[c] = "put"
        BY <3>1, <3>12 DEF ReadReceiver, Goto
      <4>2. \E row : seen' = [seen EXCEPT ![c] = [seen[c] EXCEPT !.row = row]]
        BY <3>12 DEF ReadReceiver
      <4>3. QED
        BY <3>4, <4>1, <4>2
    <3>13. CASE WriteRow(c)
      <4>1. call[c].by \in Users /\ call[c].item \in ItemIds
        BY <3>1, RequestFacts DEF TypeOK
      <4>2. seen' = seen \/ seen' = Forget(call[c].by, call[c].item, Calls)
        BY <3>13 DEF WriteRow
      <4>3. QED
        BY <3>1, <3>2, <4>1, <4>2, ForgetFacts
    <3>14. CASE FindGift(c)
      <4>1. pc'[c] \in {"delete", "done"}
        BY <3>1, <3>14 DEF FindGift, Goto
      <4>2. seen' = seen \/ \E g : seen' = [seen EXCEPT ![c] = [seen[c] EXCEPT !.item = g]]
        BY <3>14 DEF FindGift
      <4>3. QED
        BY <3>2, <3>4, <4>1, <4>2
    <3>15. ASSUME ~ReadRow(c), ~BeginTx(c), ~CommitPass(c), ~CommitPassFree(c), ~FindItem(c), ~ForgeItem(c),
                  ~ReadReceiver(c), ~WriteRow(c), ~FindGift(c)
           PROVE  UNCHANGED seen
      BY <1>8, <3>15 DEF Handle, ReadCatalog, Unlisted, NoWallet, Rollback, PutRow, Lose, Stock, WriteLost, DeleteGift,
         CountGifts, Delist, Answer
    <3>16. QED
      BY <3>2, <3>6, <3>7, <3>8, <3>9, <3>10, <3>11, <3>12, <3>13, <3>14, <3>15
  <2>3. \A d \in Calls, u \in Users : Paying(d, u)' => Paying(d, u) /\ seen'[d].bal = seen[d].bal
    BY <2>1, <2>2 DEF Paying, Paid, Typed, TypeOK
  <2>4. QED
    BY <2>1, <2>3, Quiet
<1>9. QED
  BY <1>1, <1>2, <1>3, <1>4, <1>5, <1>6, <1>7, <1>8 DEF Next
-----------------------------------------------------------------------------
(* A gift is made before the count, and counted, or while a removal has counted. *)
LEMMA UncountedStep == ASSUME Typed, Uncounted, Next PROVE Uncounted'
<1>1. ASSUME NEW c \in Calls, CountGifts(c) PROVE Uncounted'
  BY <1>1 DEF CountGifts, Unused, Uncounted, Goto, rows, history, Typed, TypeOK
<1>2. ASSUME NEW c \in Calls, NEW l, l # "unlist", pc' = [pc EXCEPT ![c] = l],
             \/ gift' \subseteq gift /\ late' = late
             \/ /\ gift' = gift \cup {c}
                /\ late' = IF \E d \in Calls : pc[d] = "unlist" THEN late \cup {c} ELSE late
      PROVE  Uncounted'
  <2>1. \A d \in Calls : pc'[d] = "unlist" => pc[d] = "unlist"
    BY <1>2 DEF Typed, TypeOK
  <2>2. QED
    BY <1>2, <2>1 DEF Uncounted
<1>3. ASSUME NEW c \in Calls, Start(c) PROVE Uncounted'
  <2>1. PICK r \in Requests : pc' = [pc EXCEPT ![c] = First[r.kind]] /\ UNCHANGED <<gift, late>>
    BY <1>3, Zenon DEF Start, Goto, rows
  <2>2. First[r.kind] # "unlist"
    BY RequestFacts DEF First, Kinds
  <2>3. QED
    BY <1>2, <2>1, <2>2
<1>4. ASSUME NEW c \in Calls, Handle(c), ~Start(c), ~CountGifts(c) PROVE Uncounted'
  <2>1. \E l : /\ l # "unlist" /\ pc' = [pc EXCEPT ![c] = l]
               /\ \/ gift' \subseteq gift /\ late' = late
                  \/ /\ gift' = gift \cup {c}
                     /\ late' = IF \E d \in Calls : pc[d] = "unlist" THEN late \cup {c} ELSE late
    BY <1>4 DEF Handle, ReadCatalog, Unlisted, ReadWallet, NoWallet, OpenWallet, ReadRow, BeginTx, Rollback, CommitGive, CommitBuy, CommitPass, CommitPassFree, FindItem, ForgeItem, ReadReceiver, PutRow, Lose, Stock, WriteRow, WriteLost, FindGift, DeleteGift, Delist, Answer, Goto, GiveRow, rows, history
  <2>2. QED
    BY <1>2, <2>1
<1>5. ASSUME NEW u \in Users, ReadBalance(u) \/ WriteBalance(u) PROVE Uncounted'
  BY <1>5 DEF ReadBalance, WriteBalance, handler, Uncounted
<1>6. QED
  BY <1>1, <1>3, <1>4, <1>5 DEF Next

-----------------------------------------------------------------------------
(* Sums over finite sets. *)
Any(s) == CHOOSE x \in s : TRUE

(* g gives every subset of S the sum the fold computes, one element after the other. *)
FoldOf(g, f, S) == g = [s \in SUBSET S |-> IF s = {} THEN 0 ELSE f[Any(s)] + g[s \ {Any(s)}]]

(* g gives every subset of S the sum of f, whichever element is taken first. *)
Sums(g, f, S) ==
  /\ g \in [SUBSET S -> Int] /\ g[{}] = 0
  /\ \A s \in SUBSET S : \A x \in s : g[s] = f[x] + g[s \ {x}]

(* Induction, stated of a set: the set contains every natural number, every
   subset of a finite set. *)
LEMMA NatSets ==
  ASSUME NEW A, 0 \in A, \A n \in Nat : n \in A => n + 1 \in A
  PROVE  Nat \subseteq A
<1> SUFFICES ASSUME Nat \ A # {} PROVE FALSE
  OBVIOUS
<1>1. PICK n \in Nat \ A : \A m \in Nat \ A : ~ <<m, n>> \in OpToRel(<, Nat)
  BY WFMin, NatLessThanWellFounded, Zenon
<1>2. \A m \in Nat \ A : ~ (m < n)
  BY <1>1 DEF OpToRel
<1>3. n - 1 \in Nat /\ n - 1 < n
  OBVIOUS
<1>4. QED
  BY <1>2, <1>3

LEMMA AnyIn == ASSUME NEW s, s # {} PROVE Any(s) \in s
BY DEF Any

LEMMA OneLess ==
  ASSUME NEW s, IsFiniteSet(s), NEW n \in Nat, Cardinality(s) = n + 1, NEW x \in s
  PROVE  Cardinality(s \ {x}) = n
<1>1. Cardinality(s \ {x}) = Cardinality(s) - 1
  BY FS_RemoveElement
<1>2. QED
  BY <1>1

LEMMA Subsets ==
  ASSUME NEW S, IsFiniteSet(S), NEW A, {} \in A, \A T \in SUBSET S : \A x \in S : T \in A => T \cup {x} \in A
  PROVE  SUBSET S \subseteq A
<1> DEFINE B == {n \in Nat : \A T \in SUBSET S : Cardinality(T) = n => T \in A}
<1>1. 0 \in B
  BY FS_EmptySet, FS_Subset
<1>2. ASSUME NEW n \in Nat, n \in B PROVE n + 1 \in B
  <2>1. ASSUME NEW T \in SUBSET S, Cardinality(T) = n + 1 PROVE T \in A
    <3>1. IsFiniteSet(T) /\ T # {}
      BY <2>1, FS_Subset, FS_EmptySet
    <3>2. PICK x : x \in T
      BY <3>1
    <3>3. Cardinality(T \ {x}) = n
      BY <2>1, <3>1, <3>2, OneLess
    <3>4. T \ {x} \in A /\ T = (T \ {x}) \cup {x} /\ x \in S
      BY <1>2, <3>2, <3>3
    <3>5. QED
      BY <3>4
  <2>2. QED
    BY <2>1
<1>3. Nat \subseteq B
  <2> HIDE DEF B
  <2>1. QED
    BY <1>1, <1>2, NatSets
<1>4. ASSUME NEW T \in SUBSET S PROVE T \in A
  <2>1. Cardinality(T) \in Nat
    BY FS_Subset, FS_CardinalityType
  <2>2. QED
    BY <1>3, <2>1
<1>5. QED
  BY <1>4

LEMMA FoldExists ==
  ASSUME NEW S, IsFiniteSet(S), NEW f, \A x \in S : f[x] \in Int
  PROVE  \E g : g \in [SUBSET S -> Int] /\ FoldOf(g, f, S)
<1> DEFINE Right(g, s) == g[s] = IF s = {} THEN 0 ELSE f[Any(s)] + g[s \ {Any(s)}]
           B == {n \in Nat : \E g \in [SUBSET S -> Int] : \A s \in SUBSET S : Cardinality(s) <= n => Right(g, s)}
<1>0. \A s \in SUBSET S : IsFiniteSet(s) /\ Cardinality(s) \in Nat
  BY FS_Subset, FS_CardinalityType
<1>1. 0 \in B
  <2>1. [s \in SUBSET S |-> 0] \in [SUBSET S -> Int]
    OBVIOUS
  <2>2. \A s \in SUBSET S : Cardinality(s) <= 0 => s = {}
    BY <1>0, FS_EmptySet
  <2>3. QED
    BY <2>1, <2>2
<1>2. ASSUME NEW n \in Nat, n \in B PROVE n + 1 \in B
  <2>1. PICK g \in [SUBSET S -> Int] : \A s \in SUBSET S : Cardinality(s) <= n => Right(g, s)
    BY <1>2
  <2> DEFINE h == [s \in SUBSET S |-> IF Cardinality(s) = n + 1 THEN f[Any(s)] + g[s \ {Any(s)}] ELSE g[s]]
  <2>2. ASSUME NEW s \in SUBSET S, Cardinality(s) = n + 1
        PROVE  s # {} /\ Any(s) \in S /\ s \ {Any(s)} \in SUBSET S /\ Cardinality(s \ {Any(s)}) = n
    <3>1. s # {}
      BY <1>0, <2>2, FS_EmptySet
    <3>2. QED
      BY <1>0, <2>2, <3>1, AnyIn, OneLess
  <2>3. h \in [SUBSET S -> Int]
    BY <2>2
  <2>4. ASSUME NEW s \in SUBSET S, Cardinality(s) <= n + 1 PROVE Right(h, s)
    <3>1. CASE Cardinality(s) = n + 1
      BY <2>2, <3>1
    <3>2. CASE Cardinality(s) <= n
      <4>1. h[s] = g[s] /\ Right(g, s)
        BY <2>1, <3>2, <1>0
      <4>2. ASSUME s # {} PROVE h[s \ {Any(s)}] = g[s \ {Any(s)}]
        <5>1. s \ {Any(s)} \in SUBSET S /\ Cardinality(s \ {Any(s)}) = Cardinality(s) - 1
          BY <1>0, <4>2, AnyIn, FS_RemoveElement
        <5>2. Cardinality(s) \in Nat /\ Cardinality(s \ {Any(s)}) # n + 1
          BY <1>0, <3>2, <5>1
        <5>3. QED
          BY <5>1, <5>2
      <4>3. QED
        BY <4>1, <4>2
    <3>3. QED
      BY <1>0, <2>4, <3>1, <3>2
  <2>5. QED
    <3> HIDE DEF h, Right
    <3>1. QED
      BY <2>3, <2>4
<1>3. Nat \subseteq B
  <2> HIDE DEF B
  <2>1. QED
    BY <1>1, <1>2, NatSets
<1>4. PICK g \in [SUBSET S -> Int] : \A s \in SUBSET S : Cardinality(s) <= Cardinality(S) => Right(g, s)
  <2>1. Cardinality(S) \in B
    BY <1>3, FS_CardinalityType
  <2> HIDE DEF Right
  <2>2. QED
    BY <2>1
<1>5. \A s \in SUBSET S : Right(g, s)
  <2> HIDE DEF Right
  <2>1. QED
    BY <1>4, FS_Subset
<1>6. QED
  BY <1>5 DEF FoldOf

LEMMA FoldSums ==
  ASSUME NEW S, IsFiniteSet(S), NEW f, \A x \in S : f[x] \in Int, NEW g, FoldOf(g, f, S), g \in [SUBSET S -> Int]
  PROVE  Sums(g, f, S)
<1> DEFINE B == {n \in Nat : \A s \in SUBSET S : Cardinality(s) = n => \A x \in s : g[s] = f[x] + g[s \ {x}]}
<1>0. \A s \in SUBSET S : IsFiniteSet(s) /\ Cardinality(s) \in Nat
  BY FS_Subset, FS_CardinalityType
<1>1. \A s \in SUBSET S : g[s] = IF s = {} THEN 0 ELSE f[Any(s)] + g[s \ {Any(s)}]
  BY DEF FoldOf
<1>2. 0 \in B
  BY <1>0, FS_EmptySet
<1>3. ASSUME NEW n \in Nat, n \in B PROVE n + 1 \in B
  <2>1. ASSUME NEW s \in SUBSET S, Cardinality(s) = n + 1, NEW x \in s PROVE g[s] = f[x] + g[s \ {x}]
    <3> DEFINE y == Any(s)
    <3>1. y \in s /\ g[s] = f[y] + g[s \ {y}]
      BY <1>1, AnyIn
    <3> HIDE DEF y
    <3>2. CASE x = y
      BY <3>1, <3>2
    <3>3. CASE x # y
      <4>1. Cardinality(s \ {x}) = n /\ Cardinality(s \ {y}) = n
        BY <1>0, <1>3, <2>1, <3>1, OneLess
      <4>2. g[s \ {y}] = f[x] + g[(s \ {y}) \ {x}]
        BY <1>3, <3>1, <3>3, <4>1
      <4>3. g[s \ {x}] = f[y] + g[(s \ {x}) \ {y}]
        BY <1>3, <3>1, <3>3, <4>1
      <4> DEFINE r == g[(s \ {x}) \ {y}]
      <4>4. (s \ {y}) \ {x} = (s \ {x}) \ {y}
        OBVIOUS
      <4>5. r \in Int /\ f[x] \in Int /\ f[y] \in Int
        BY <3>1
      <4>6. g[s \ {y}] = f[x] + r /\ g[s \ {x}] = f[y] + r
        BY <4>2, <4>3, <4>4
      <4> HIDE DEF r
      <4>7. QED
        BY <3>1, <4>5, <4>6
    <3>4. QED
      BY <3>2, <3>3
  <2>2. QED
    BY <2>1
<1>4. Nat \subseteq B
  <2> HIDE DEF B
  <2>1. QED
    BY <1>2, <1>3, NatSets
<1>5. QED
  BY <1>0, <1>1, <1>4 DEF Sums

LEMMA FoldUnique ==
  ASSUME NEW S, IsFiniteSet(S), NEW f, NEW g, NEW h, FoldOf(g, f, S), FoldOf(h, f, S)
  PROVE  g = h
<1> DEFINE B == {n \in Nat : \A s \in SUBSET S : Cardinality(s) = n => g[s] = h[s]}
<1>0. \A s \in SUBSET S : IsFiniteSet(s) /\ Cardinality(s) \in Nat
  BY FS_Subset, FS_CardinalityType
<1>1. \A s \in SUBSET S : /\ g[s] = IF s = {} THEN 0 ELSE f[Any(s)] + g[s \ {Any(s)}]
                          /\ h[s] = IF s = {} THEN 0 ELSE f[Any(s)] + h[s \ {Any(s)}]
  BY DEF FoldOf
<1>2. 0 \in B
  BY <1>0, <1>1, FS_EmptySet
<1>3. ASSUME NEW n \in Nat, n \in B PROVE n + 1 \in B
  <2>1. ASSUME NEW s \in SUBSET S, Cardinality(s) = n + 1 PROVE g[s] = h[s]
    <3>1. s # {}
      BY <1>0, <2>1, FS_EmptySet
    <3>2. s \ {Any(s)} \in SUBSET S /\ Cardinality(s \ {Any(s)}) = n
      BY <1>0, <2>1, <3>1, AnyIn, OneLess
    <3>3. QED
      BY <1>1, <1>3, <3>1, <3>2
  <2>2. QED
    BY <2>1
<1>4. Nat \subseteq B
  <2> HIDE DEF B
  <2>1. QED
    BY <1>2, <1>3, NatSets
<1>5. \A s \in SUBSET S : g[s] = h[s]
  BY <1>0, <1>4
<1>6. QED
  BY <1>5 DEF FoldOf

(* What the fold of the community modules computes is the sum. *)
LEMMA SumIsSum ==
  ASSUME NEW S, IsFiniteSet(S), NEW f, \A x \in S : f[x] \in Int
  PROVE  \E g : Sums(g, f, S) /\ SumFunctionOnSet(f, S) = g[S]
<1>1. PICK g : g \in [SUBSET S -> Int] /\ FoldOf(g, f, S)
  BY FoldExists
<1> DEFINE h == CHOOSE h : FoldOf(h, f, S)
<1>2. FoldOf(h, f, S)
  BY <1>1
<1>3. SumFunctionOnSet(f, S) = h[S]
  BY DEF SumFunctionOnSet, FoldFunctionOnSet, MapThenFoldSet, FoldOf, Any
<1> HIDE DEF h
<1>4. h = g
  BY <1>1, <1>2, FoldUnique
<1>5. QED
  BY <1>1, <1>3, <1>4, FoldSums

(* Functions that agree on a set have the same sum over it. *)
LEMMA SumsAgree ==
  ASSUME NEW S, NEW T, NEW U, IsFiniteSet(U), U \subseteq S, U \subseteq T, NEW f, NEW f2, NEW g, NEW g2,
         Sums(g, f, S), Sums(g2, f2, T), \A x \in U : f[x] = f2[x]
  PROVE  g[U] = g2[U]
<1> DEFINE A == {s \in SUBSET U : g[s] = g2[s]}
<1>1. {} \in A
  BY DEF Sums
<1>2. ASSUME NEW s \in SUBSET U, NEW x \in U, s \in A PROVE s \cup {x} \in A
  <2>1. CASE x \in s
    <3>1. s \cup {x} = s
      BY <2>1
    <3>2. QED
      BY <1>2, <3>1
  <2>2. CASE x \notin s
    <3>1. (s \cup {x}) \ {x} = s /\ x \in s \cup {x} /\ s \cup {x} \in SUBSET U
      BY <2>2
    <3> DEFINE t == s \cup {x}
    <3>2. t \ {x} = s /\ x \in t /\ t \in SUBSET U /\ t \in SUBSET S /\ t \in SUBSET T
      BY <3>1
    <3> HIDE DEF t
    <3>3. g[t] = f[x] + g[s] /\ g2[t] = f2[x] + g2[s]
      BY <3>2 DEF Sums
    <3>4. t \in A
      BY <1>2, <3>2, <3>3
    <3>5. QED
      BY <3>4 DEF t
  <2>3. QED
    BY <2>1, <2>2
<1>3. SUBSET U \subseteq A
  <2> HIDE DEF A
  <2>1. QED
    BY <1>1, <1>2, Subsets
<1>4. QED
  BY <1>3

LEMMA SumSame ==
  ASSUME NEW S, IsFiniteSet(S), NEW f, NEW f2, \A x \in S : f[x] \in Int /\ f2[x] = f[x]
  PROVE  SumFunctionOnSet(f2, S) = SumFunctionOnSet(f, S)
<1>1. PICK g : Sums(g, f, S) /\ SumFunctionOnSet(f, S) = g[S]
  BY SumIsSum
<1>2. PICK g2 : Sums(g2, f2, S) /\ SumFunctionOnSet(f2, S) = g2[S]
  BY SumIsSum
<1>3. g2[S] = g[S]
  BY <1>1, <1>2, SumsAgree
<1>4. QED
  BY <1>1, <1>2, <1>3

(* An element more adds what it is worth. *)
LEMMA SumMore ==
  ASSUME NEW S, IsFiniteSet(S), NEW x, x \notin S, NEW f, NEW f2,
         f[x] \in Int, \A y \in S : f[y] \in Int /\ f2[y] = f[y]
  PROVE  SumFunctionOnSet(f, S \cup {x}) = f[x] + SumFunctionOnSet(f2, S)
<1> DEFINE T == S \cup {x}
<1>1. IsFiniteSet(T) /\ (\A y \in T : f[y] \in Int) /\ T \ {x} = S /\ x \in T
  BY FS_AddElement
<1> HIDE DEF T
<1>2. PICK g : Sums(g, f, T) /\ SumFunctionOnSet(f, T) = g[T]
  BY <1>1, SumIsSum
<1>3. PICK g2 : Sums(g2, f2, S) /\ SumFunctionOnSet(f2, S) = g2[S]
  BY SumIsSum
<1>4. g[S] = g2[S]
  <2>1. S \subseteq T /\ S \subseteq S /\ \A y \in S : f[y] = f2[y]
    BY <1>1
  <2>2. QED
    BY <1>2, <1>3, <2>1, SumsAgree
<1>5. g[T] = f[x] + g[S]
  BY <1>1, <1>2 DEF Sums
<1>6. QED
  BY <1>2, <1>3, <1>4, <1>5 DEF T

LEMMA SumInt ==
  ASSUME NEW S, IsFiniteSet(S), NEW f, \A x \in S : f[x] \in Int
  PROVE  SumFunctionOnSet(f, S) \in Int
<1>1. PICK g : Sums(g, f, S) /\ SumFunctionOnSet(f, S) = g[S]
  BY SumIsSum
<1>2. QED
  BY <1>1 DEF Sums

(* One value changes. *)
LEMMA SumChange ==
  ASSUME NEW S, IsFiniteSet(S), NEW x \in S, NEW f, NEW f2, f2[x] \in Int,
         \A y \in S : f[y] \in Int /\ (y # x => f2[y] = f[y])
  PROVE  SumFunctionOnSet(f2, S) = SumFunctionOnSet(f, S) - f[x] + f2[x]
<1> DEFINE T == S \ {x}
<1>1. IsFiniteSet(T) /\ T \cup {x} = S /\ x \notin T /\ T \subseteq S
  BY FS_RemoveElement
<1>2. \A y \in T : f[y] \in Int /\ f2[y] = f[y]
  OBVIOUS
<1> HIDE DEF T
<1>3. SumFunctionOnSet(f, S) = f[x] + SumFunctionOnSet(f, T)
  <2>1. SumFunctionOnSet(f, T \cup {x}) = f[x] + SumFunctionOnSet(f, T)
    BY <1>1, <1>2, SumMore
  <2>2. QED
    BY <1>1, <2>1
<1>4. SumFunctionOnSet(f2, S) = f2[x] + SumFunctionOnSet(f, T)
  <2>1. SumFunctionOnSet(f2, T \cup {x}) = f2[x] + SumFunctionOnSet(f, T)
    BY <1>1, <1>2, SumMore
  <2>2. QED
    BY <1>1, <2>1
<1>5. SumFunctionOnSet(f, T) \in Int
  BY <1>1, <1>2, SumInt
<1>6. QED
  BY <1>3, <1>4, <1>5

LEMMA SumZero ==
  ASSUME NEW S, IsFiniteSet(S), NEW f, \A x \in S : f[x] = 0
  PROVE  SumFunctionOnSet(f, S) = 0
<1>1. PICK g : Sums(g, f, S) /\ SumFunctionOnSet(f, S) = g[S]
  BY SumIsSum
<1> DEFINE A == {s \in SUBSET S : g[s] = 0}
<1>2. {} \in A
  BY <1>1 DEF Sums
<1>3. ASSUME NEW s \in SUBSET S, NEW x \in S, s \in A PROVE s \cup {x} \in A
  <2> DEFINE t == s \cup {x}
  <2>1. CASE x \in s
    <3>1. t = s
      BY <2>1
    <3>2. QED
      BY <1>3, <3>1
  <2>2. CASE x \notin s
    <3>1. t \ {x} = s /\ x \in t /\ t \in SUBSET S
      BY <2>2
    <3> HIDE DEF t
    <3>2. g[t] = f[x] + g[s]
      BY <1>1, <3>1 DEF Sums
    <3>3. t \in A
      BY <1>3, <3>1, <3>2
    <3>4. QED
      BY <3>3 DEF t
  <2>3. QED
    BY <2>1, <2>2
<1>4. SUBSET S \subseteq A
  <2> HIDE DEF A
  <2>1. QED
    BY <1>2, <1>3, Subsets
<1>5. QED
  BY <1>1, <1>4
-----------------------------------------------------------------------------
(* The bags. *)
LEMMA AmountInt == ASSUME NEW row \in Row PROVE Amount(row) \in Int
BY DEF Row, Amount

LEMMA HeldSame == ASSUME NEW u \in Users, bag'[u] = bag[u] PROVE Held(u)' = Held(u)
BY DEF Held

LEMMA HeldInt == ASSUME TypeOK, NEW u \in Users PROVE Held(u) \in Int
<1>1. \A i \in ItemIds : [j \in ItemIds |-> Amount(bag[u][j])][i] \in Int
  BY AmountInt DEF TypeOK
<1>2. QED
  BY <1>1, SumInt, GiftsAssumption DEF Held

LEMMA HeldChange ==
  ASSUME TypeOK, NEW u \in Users, NEW i \in ItemIds, NEW row \in Row, bag'[u] = [bag[u] EXCEPT ![i] = row]
  PROVE  Held(u)' = Held(u) - Amount(bag[u][i]) + Amount(row)
<1> DEFINE f == [j \in ItemIds |-> Amount(bag[u][j])]
           g == [j \in ItemIds |-> Amount(bag'[u][j])]
<1>1. Held(u) = SumFunctionOnSet(f, ItemIds) /\ Held(u)' = SumFunctionOnSet(g, ItemIds)
  BY DEF Held
<1>2. bag[u] \in [ItemIds -> Row]
  BY DEF TypeOK
<1>3. \A j \in ItemIds : f[j] \in Int /\ (j # i => g[j] = f[j])
  BY <1>2, AmountInt
<1>4. g[i] = Amount(row) /\ f[i] = Amount(bag[u][i]) /\ g[i] \in Int
  BY <1>2, AmountInt
<1> HIDE DEF f, g
<1>5. SumFunctionOnSet(g, ItemIds) = SumFunctionOnSet(f, ItemIds) - f[i] + g[i]
  BY <1>3, <1>4, SumChange, GiftsAssumption
<1>6. QED
  BY <1>1, <1>4, <1>5

LEMMA ArrivingInt == ASSUME TypeOK, NEW c \in Calls, NEW u PROVE Arriving(c, u) \in Int
BY RequestFacts DEF TypeOK, Arriving

LEMMA TransitChange ==
  ASSUME TypeOK, TypeOK', NEW u \in Users, NEW c \in Calls,
         \A d \in Calls \ {c} : call'[d] = call[d] /\ pc'[d] = pc[d]
  PROVE  InTransit(u)' = InTransit(u) - Arriving(c, u) + Arriving(c, u)' /\ InTransit(u) \in Int
<1> DEFINE f == [d \in Calls |-> Arriving(d, u)]
           g == [d \in Calls |-> Arriving(d, u)']
<1>1. InTransit(u) = SumFunctionOnSet(f, Calls) /\ InTransit(u)' = SumFunctionOnSet(g, Calls)
  BY DEF InTransit
<1>2. \A d \in Calls : f[d] \in Int
  BY ArrivingInt
<1>3. \A d \in Calls : d # c => g[d] = f[d]
  BY DEF Arriving
<1>4. g[c] = Arriving(c, u)' /\ f[c] = Arriving(c, u)
  OBVIOUS
<1>5. Arriving(c, u)' \in Int
  BY RequestFacts DEF TypeOK, Arriving
<1> HIDE DEF f, g
<1>6. SumFunctionOnSet(g, Calls) = SumFunctionOnSet(f, Calls) - f[c] + g[c]
  BY <1>2, <1>3, <1>4, <1>5, SumChange, GiftsAssumption
<1>7. SumFunctionOnSet(f, Calls) \in Int
  BY <1>2, SumInt, GiftsAssumption
<1>8. QED
  BY <1>1, <1>4, <1>6, <1>7

(* What one request changes in the account of one bag. *)
LEMMA BalanceStep ==
  ASSUME TypeOK, TypeOK', Balanced, owed' \in [Users -> Int], NEW u \in Users \ raced, NEW c \in Calls,
         \A d \in Calls \ {c} : call'[d] = call[d] /\ pc'[d] = pc[d],
         \/ bag'[u] = bag[u] /\ owed'[u] = owed[u] - Arriving(c, u) + Arriving(c, u)'
         \/ \E i \in ItemIds, row \in Row :
              /\ bag'[u] = [bag[u] EXCEPT ![i] = row]
              /\ owed'[u] = owed[u] - Arriving(c, u) + Arriving(c, u)' - Amount(bag[u][i]) + Amount(row)
  PROVE  Held(u)' + InTransit(u)' = owed'[u]
<1>1. Held(u) + InTransit(u) = owed[u] /\ Held(u) \in Int /\ owed[u] \in Int
  BY HeldInt DEF Balanced, BagExact
<1>2. InTransit(u)' = InTransit(u) - Arriving(c, u) + Arriving(c, u)' /\ InTransit(u) \in Int
  BY TransitChange
<1>3. Arriving(c, u) \in Int /\ Arriving(c, u)' \in Int
  <2>1. Arriving(c, u) \in Int
    BY ArrivingInt
  <2>2. Arriving(c, u)' \in Int
    BY RequestFacts DEF TypeOK, Arriving
  <2>3. QED
    BY <2>1, <2>2
<1>4. CASE bag'[u] = bag[u] /\ owed'[u] = owed[u] - Arriving(c, u) + Arriving(c, u)'
  <2>1. Held(u)' = Held(u)
    BY <1>4, HeldSame
  <2>2. QED
    BY <1>1, <1>2, <1>3, <1>4, <2>1
<1>5. ASSUME NEW i \in ItemIds, NEW row \in Row, bag'[u] = [bag[u] EXCEPT ![i] = row],
             owed'[u] = owed[u] - Arriving(c, u) + Arriving(c, u)' - Amount(bag[u][i]) + Amount(row)
      PROVE  Held(u)' + InTransit(u)' = owed'[u]
  <2>1. Held(u)' = Held(u) - Amount(bag[u][i]) + Amount(row)
    BY <1>5, HeldChange
  <2>2. Amount(bag[u][i]) \in Int /\ Amount(row) \in Int
    BY AmountInt DEF TypeOK
  <2>3. QED
    BY <1>1, <1>2, <1>3, <1>5, <2>1, <2>2
<1>6. QED
  BY <1>4, <1>5

LEMMA ForgetOnly ==
  ASSUME TypeOK, NEW u \in Users, NEW i \in ItemIds, NEW d \in Calls
  PROVE  LET s == Forget(u, i, Calls)[d] IN
         s.row = seen[d].row \/ (Active(d) /\ Target(d) = u /\ seen[d].row # None)
<1>1. CASE Forget(u, i, Calls)[d] = seen[d]
  BY <1>1
<1>2. CASE Active(d) /\ Target(d) = u /\ seen[d].row # None
  BY <1>2
<1>3. QED
  BY <1>1, <1>2 DEF Forget, Target

(* The other requests about a bag a request writes to are noticed. *)
LEMMA Alone ==
  ASSUME Noticed, RowsCurrent, NEW c \in Calls, NEW d \in Calls, c # d, Active(c), NEW u \in About(call[c]),
         \/ pc[d] \in {"write", "put"}
         \/ pc[d] \in {"catalog", "tx", "commit"} /\ call[d].kind \in {"buy", "pass"},
         Target(d) = u
  PROVE  u \in raced
<1>1. Active(d)
  BY DEF Active
<1>2. u \in About(call[d])
  BY DEF RowsCurrent, RowCurrent, About, Target, Sending
<1>3. QED
  BY <1>1, <1>2 DEF Noticed

(* What a request does not own it leaves as the others have read it. *)
LEMMA OthersKeep ==
  ASSUME Typed, Noticed, RowsCurrent, NEW c \in Calls, NEW d \in Calls \ {c},
         call'[d] = call[d], pc'[d] = pc[d], raced \subseteq raced',
         seen'[d].item = seen[d].item,
         \/ seen'[d].row = seen[d].row
         \/ seen[d].row # None /\ Active(d) /\ Active(c) /\ Target(d) \in About(call[c]),
         \A u \in Users : bag'[u] = bag[u] \/ (Active(c) /\ u \in About(call[c]))
  PROVE  RowCurrent(d)'
<1> DEFINE r == call[d]
           s == seen[d]
           u == Target(d)
<1>1. r \in Requests /\ r.by \in Users /\ r.to \in Users /\ u \in Users
  BY RequestFacts DEF Typed, TypeOK, Target
<1>2. RowCurrent(d)
  BY DEF RowsCurrent
<1>3. CASE u \in About(call[c]) /\ Active(c)
  <2>1. \/ pc[d] \in {"write", "put"}
        \/ pc[d] \in {"catalog", "tx", "commit"} /\ call[d].kind \in {"buy", "pass"}
        => u \in raced'
    BY <1>3, Alone
  <2>2. s.row = None => seen'[d].row = None
    OBVIOUS
  <2>3. pc[d] = "new" => seen'[d].row = s.row
    BY DEF Active
  <2> HIDE DEF u
  <2>4. QED
    BY <1>2, <2>1, <2>2, <2>3 DEF RowCurrent, u, Target
<1>4. CASE ~(u \in About(call[c]) /\ Active(c))
  <2>1. bag'[u] = bag[u] /\ seen'[d].row = s.row
    BY <1>1, <1>4
  <2>2. (pc[d] = "put" => u = r.to) /\ (pc[d] # "put" => u = r.by)
    BY DEF Target
  <2> HIDE DEF u
  <2>3. QED
    BY <1>2, <2>1, <2>2 DEF RowCurrent
<1>5. QED
  BY <1>3, <1>4

LEMMA DoneCurrent == ASSUME NEW c \in Calls, pc'[c] = "done" PROVE RowCurrent(c)'
BY DEF RowCurrent

(* A step that changes at most what its own request has read, and no bag. *)
LEMMA ReadsOnly ==
  ASSUME Typed, Noticed, RowsCurrent, NEW c \in Calls, bag' = bag, raced \subseteq raced', RowCurrent(c)',
         \A d \in Calls \ {c} : call'[d] = call[d] /\ pc'[d] = pc[d] /\ seen'[d] = seen[d]
  PROVE  RowsCurrent'
<1>1. ASSUME NEW d \in Calls \ {c} PROVE RowCurrent(d)'
  BY <1>1, OthersKeep
<1>2. QED
  BY <1>1 DEF RowsCurrent

LEMMA RowsStep == ASSUME Typed, Typed', Noticed, RowsCurrent, Next PROVE RowsCurrent'
<1>0. /\ TypeOK /\ ReadsRight /\ TypeOK' /\ ReadsRight' /\ pc \in [Calls -> Labels] /\ seen \in [Calls -> Seen]
      /\ call \in [Calls -> Requests] /\ bag \in [Users -> [ItemIds -> Row]]
  BY DEF Typed, TypeOK
<1>1. ASSUME NEW c \in Calls, Start(c) PROVE RowsCurrent'
  <2>1. PICK r \in Requests :
          /\ pc[c] = "new" /\ Accepted(r)
          /\ call' = [call EXCEPT ![c] = r]
          /\ pc' = [pc EXCEPT ![c] = First[r.kind]]
          /\ raced \subseteq raced' /\ bag' = bag /\ seen' = seen
    BY <1>1, Zenon DEF Start, Goto, rows
  <2>2. seen[c].row = None
    BY <2>1 DEF RowsCurrent, RowCurrent
  <2>3. r.kind \in Kinds
    BY RequestFacts
  <2>4. pc'[c] = First[r.kind] /\ call'[c] = r
    BY <1>0, <2>1
  <2>5. /\ pc'[c] \in {"catalog", "row", "insert", "find", "count"}
        /\ pc'[c] = "catalog" => r.kind \in {"buy", "give"}
        /\ pc'[c] = "row" => r.kind \in {"pass", "set", "drop"}
        /\ pc'[c] = "insert" => r.kind = "stock"
    BY <2>3, <2>4 DEF First, Kinds
  <2>6. RowCurrent(c)'
    BY <2>1, <2>2, <2>4, <2>5 DEF RowCurrent
  <2>7. QED
    BY <1>0, <2>1, <2>6, ReadsOnly
<1>2. ASSUME NEW c \in Calls, pc' = [pc EXCEPT ![c] = "done"], UNCHANGED <<bag, call, seen>>, raced \subseteq raced'
      PROVE  RowsCurrent'
  BY <1>0, <1>2, DoneCurrent, ReadsOnly
<1>3. ASSUME NEW c \in Calls, Unlisted(c) \/ OpenWallet(c) \/ Rollback(c) \/ Lose(c) \/ WriteLost(c)
                              \/ DeleteGift(c) \/ Delist(c)
      PROVE  RowsCurrent'
  BY <1>2, <1>3 DEF Unlisted, OpenWallet, Rollback, Lose, WriteLost, DeleteGift, Delist, Answer, Goto, rows, history
<1>4. ASSUME NEW c \in Calls, ReadCatalog(c) PROVE RowsCurrent'
  <2>1. pc[c] = "catalog" /\ UNCHANGED <<bag, call, seen, raced>> /\ RowCurrent(c)
        /\ pc' = [pc EXCEPT ![c] = IF call[c].kind = "pass" THEN "tx" ELSE "wallet"]
    BY <1>4 DEF ReadCatalog, Goto, rows, history, RowsCurrent
  <2>2. RowCurrent(c)'
    BY <1>0, <2>1 DEF RowCurrent
  <2>3. QED
    BY <1>0, <2>1, <2>2, ReadsOnly
<1>5. ASSUME NEW c \in Calls, ReadWallet(c) PROVE RowsCurrent'
  <2> DEFINE bal == funds[call[c].by]
  <2>1. pc[c] = "wallet" /\ UNCHANGED <<bag, call, raced>> /\ RowCurrent(c) /\ call[c].kind # "pass"
    BY <1>0, <1>5 DEF ReadWallet, rows, history, RowsCurrent, ReadsRight
  <2>2. CASE Affords(bal, call[c])
    <3>1. pc' = [pc EXCEPT ![c] = "tx"] /\ seen' = [seen EXCEPT ![c] = [seen[c] EXCEPT !.bal = bal]]
      BY <1>5, <2>2 DEF ReadWallet, Goto
    <3>2. [seen[c] EXCEPT !.bal = bal].row = seen[c].row
      BY <1>0 DEF Seen
    <3>3. RowCurrent(c)'
      BY <1>0, <2>1, <3>1, <3>2 DEF RowCurrent
    <3>4. QED
      BY <1>0, <2>1, <3>1, <3>3, ReadsOnly
  <2>3. CASE ~Affords(bal, call[c])
    BY <1>2, <1>5, <2>1, <2>3 DEF ReadWallet, Goto
  <2>4. QED
    BY <2>2, <2>3
<1>6. ASSUME NEW c \in Calls, NoWallet(c) PROVE RowsCurrent'
  <2>1. UNCHANGED <<bag, call, seen, raced>> /\ pc' = [pc EXCEPT ![c] = "open"]
    BY <1>6 DEF NoWallet, Goto, rows, history
  <2>2. RowCurrent(c)'
    BY <1>0, <2>1 DEF RowCurrent
  <2>3. QED
    BY <1>0, <2>1, <2>2, ReadsOnly
<1>7. ASSUME NEW c \in Calls, ReadRow(c) PROVE RowsCurrent'
  <2> DEFINE r == call[c]
             row == bag[r.by][r.item]
  <2>1. pc[c] = "row" /\ UNCHANGED <<bag, call, raced>> /\ RowCurrent(c) /\ r.kind \in {"pass", "set", "drop"}
        /\ r.by \in Users /\ r.item \in ItemIds /\ row \in Row
    BY <1>0, <1>7, RequestFacts DEF ReadRow, rows, history, RowsCurrent, RowCurrent
  <2>2. CASE row # None /\ (r.kind = "pass" => row >= r.qty)
    <3>1. /\ pc' = [pc EXCEPT ![c] = IF r.kind = "pass" THEN "catalog" ELSE "write"]
          /\ seen' = [seen EXCEPT ![c] = [seen[c] EXCEPT !.item = r.item, !.row = row]]
      BY <1>7, <2>2 DEF ReadRow, Goto
    <3>2. [seen[c] EXCEPT !.item = r.item, !.row = row].row = row
      BY <1>0 DEF Seen
    <3>3. row \in Int
      BY <2>1, <2>2 DEF Row
    <3>4. RowCurrent(c)'
      BY <1>0, <2>1, <2>2, <3>1, <3>2, <3>3 DEF RowCurrent
    <3>5. QED
      BY <1>0, <2>1, <3>1, <3>4, ReadsOnly
  <2>3. CASE ~(row # None /\ (r.kind = "pass" => row >= r.qty))
    BY <1>2, <1>7, <2>1, <2>3 DEF ReadRow, Goto
  <2>4. QED
    BY <2>2, <2>3
<1>8. ASSUME NEW c \in Calls, BeginTx(c) PROVE RowsCurrent'
  <2> DEFINE r == call[c]
             Bag(i) == [seen[c] EXCEPT !.item = i, !.row = bag[r.by][i]]
  <2>1. pc[c] = "tx" /\ pc' = [pc EXCEPT ![c] = "commit"] /\ UNCHANGED <<bag, call, items, raced>> /\ RowCurrent(c)
        /\ r.kind \in {"buy", "give", "pass"}
    BY <1>0, <1>8 DEF BeginTx, Goto, rows, history, RowsCurrent, ReadsRight
  <2>2. \/ r.kind = "give" /\ seen' = seen
        \/ r.kind = "pass" /\ seen' = [seen EXCEPT ![c] = Bag(r.item)]
        \/ r.kind = "buy" /\ \E i \in items : seen' = [seen EXCEPT ![c] = Bag(i)]
        \/ r.kind = "buy" /\ seen' = seen
    BY <1>8 DEF BeginTx
  <2>3. ASSUME NEW i PROVE Bag(i).item = i /\ Bag(i).row = bag[r.by][i]
    BY <1>0 DEF Seen
  <2> HIDE DEF Bag
  <2>4. RowCurrent(c)'
    <3>1. CASE r.kind = "give"
      BY <1>0, <2>1, <3>1 DEF RowCurrent
    <3>2. CASE r.kind = "pass"
      <4>1. seen'[c].row = bag[r.by][r.item]
        BY <1>0, <2>2, <2>3, <3>2
      <4>2. QED
        BY <1>0, <2>1, <3>2, <4>1 DEF RowCurrent
    <3>3. CASE r.kind = "buy" /\ seen' = seen
      <4>1. seen[c].item = None /\ seen[c].row = None
        BY <1>0, <2>1, <3>3 DEF ReadsRight, RowCurrent
      <4>2. QED
        BY <1>0, <2>1, <3>3, <4>1 DEF RowCurrent
    <3>4. ASSUME NEW i \in items, r.kind = "buy", seen' = [seen EXCEPT ![c] = Bag(i)] PROVE RowCurrent(c)'
      <4>1. seen'[c].item = i /\ seen'[c].row = bag[r.by][i] /\ i # None
        BY <1>0, <2>3, <3>4, Absent DEF TypeOK
      <4>2. QED
        BY <1>0, <2>1, <3>4, <4>1 DEF RowCurrent
    <3>5. QED
      BY <2>1, <2>2, <3>1, <3>2, <3>3, <3>4
  <2>5. \A d \in Calls \ {c} : seen'[d] = seen[d]
    BY <1>0, <2>2
  <2>6. QED
    BY <1>0, <2>1, <2>4, <2>5, ReadsOnly
<1>9. ASSUME NEW c \in Calls, CommitGive(c) PROVE RowsCurrent'
  <2>1. UNCHANGED <<bag, call, seen, raced>> /\ pc' = [pc EXCEPT ![c] = "deliver"] /\ call[c].kind = "give"
    BY <1>9 DEF CommitGive, GiveRow, Goto
  <2>2. RowCurrent(c)'
    BY <1>0, <2>1 DEF RowCurrent, Sending
  <2>3. QED
    BY <1>0, <2>1, <2>2, ReadsOnly
<1>10. ASSUME NEW c \in Calls, CommitPassFree(c) PROVE RowsCurrent'
  <2>1. /\ UNCHANGED <<bag, call, raced>> /\ pc' = [pc EXCEPT ![c] = "deliver"] /\ call[c].kind = "pass"
        /\ seen' = [seen EXCEPT ![c] = Blank]
    BY <1>10 DEF CommitPassFree, GiveRow, Goto
  <2>2. RowCurrent(c)'
    BY <1>0, <2>1 DEF RowCurrent, Sending
  <2>3. QED
    BY <1>0, <2>1, <2>2, ReadsOnly
<1>11. ASSUME NEW c \in Calls, FindItem(c) \/ ForgeItem(c) PROVE RowsCurrent'
  <2>1. /\ UNCHANGED <<bag, call, raced>> /\ pc[c] \in {"deliver", "forge"} /\ RowCurrent(c)
        /\ \E l \in {"receive", "forge"} : pc' = [pc EXCEPT ![c] = l]
        /\ seen' = seen \/ \E i : seen' = [seen EXCEPT ![c] = [Blank EXCEPT !.item = i]]
    BY <1>11 DEF FindItem, ForgeItem, Goto, rows, history, RowsCurrent
  <2>2. RowCurrent(c)'
    BY <1>0, <2>1 DEF RowCurrent
  <2>3. QED
    BY <1>0, <2>1, <2>2, ReadsOnly
<1>12. ASSUME NEW c \in Calls, ReadReceiver(c) PROVE RowsCurrent'
  <2> DEFINE row == bag[call[c].to][seen[c].item]
  <2>1. /\ UNCHANGED <<bag, call, raced>> /\ pc[c] = "receive" /\ RowCurrent(c)
        /\ pc' = [pc EXCEPT ![c] = "put"]
        /\ seen' = [seen EXCEPT ![c] = [seen[c] EXCEPT !.row = row]]
    BY <1>12 DEF ReadReceiver, Goto, rows, history, RowsCurrent
  <2>2. [seen[c] EXCEPT !.row = row].row = row /\ [seen[c] EXCEPT !.row = row].item = seen[c].item
    BY <1>0 DEF Seen
  <2>3. seen'[c].row = row /\ seen'[c].item = seen[c].item
    BY <1>0, <2>1, <2>2
  <2>4. RowCurrent(c)'
    BY <1>0, <2>1, <2>3 DEF RowCurrent
  <2>5. QED
    BY <1>0, <2>1, <2>4, ReadsOnly
<1>13. ASSUME NEW c \in Calls, FindGift(c) \/ CountGifts(c) PROVE RowsCurrent'
  <2>1. /\ UNCHANGED <<bag, call, raced>>
        /\ \E l \in {"delete", "done", "unlist"} : pc' = [pc EXCEPT ![c] = l]
        /\ seen' = seen \/ \E g : seen' = [seen EXCEPT ![c] = [seen[c] EXCEPT !.item = g]]
    BY <1>13 DEF FindGift, CountGifts, Goto, rows, history
  <2>2. RowCurrent(c)'
    BY <1>0, <2>1 DEF RowCurrent
  <2>3. QED
    BY <1>0, <2>1, <2>2, ReadsOnly
(* The steps that write a row of a bag of a user the request is about. *)
<1>14. ASSUME NEW c \in Calls, NEW u \in About(call[c]), Active(c), pc' = [pc EXCEPT ![c] = "done"] ,
              UNCHANGED <<call, seen, raced>>, \A v \in Users \ {u} : bag'[v] = bag[v]
       PROVE  RowsCurrent'
  <2>1. ASSUME NEW d \in Calls \ {c} PROVE RowCurrent(d)'
    <3>1. call'[d] = call[d] /\ pc'[d] = pc[d] /\ seen'[d] = seen[d]
      BY <1>0, <1>14
    <3>2. \A v \in Users : bag'[v] = bag[v] \/ (Active(c) /\ v \in About(call[c]))
      BY <1>14
    <3>3. QED
      BY <1>14, <3>1, <3>2, OthersKeep
  <2>2. RowCurrent(c)'
    BY <1>0, <1>14, DoneCurrent
  <2>3. QED
    BY <2>1, <2>2 DEF RowsCurrent
<1>15. ASSUME NEW c \in Calls, CommitBuy(c) PROVE RowsCurrent'
  <2>1. /\ pc[c] = "commit" /\ call[c].kind = "buy" /\ pc' = [pc EXCEPT ![c] = "done"]
        /\ UNCHANGED <<call, seen, raced>> /\ \A v \in Users \ {call[c].by} : bag'[v] = bag[v]
    BY <1>0, <1>15 DEF CommitBuy, Goto
  <2>2. call[c].by \in About(call[c]) /\ Active(c)
    BY <2>1 DEF About, Sending, Active
  <2>3. QED
    BY <1>14, <2>1, <2>2
<1>16. ASSUME NEW c \in Calls, PutRow(c) PROVE RowsCurrent'
  <2>1. /\ pc[c] = "put" /\ call[c].kind \in Sending /\ pc' = [pc EXCEPT ![c] = "done"]
        /\ UNCHANGED <<call, seen, raced>> /\ \A v \in Users \ {call[c].to} : bag'[v] = bag[v]
    BY <1>0, <1>16 DEF PutRow, Goto, history, RowsCurrent, RowCurrent
  <2>2. call[c].to \in About(call[c]) /\ Active(c)
    BY <2>1 DEF About, Sending, Active
  <2>3. QED
    BY <1>14, <2>1, <2>2
<1>17. ASSUME NEW c \in Calls, Stock(c) PROVE RowsCurrent'
  <2>1. /\ pc[c] = "insert" /\ call[c].kind = "stock" /\ pc' = [pc EXCEPT ![c] = "done"]
        /\ UNCHANGED <<call, seen, raced>> /\ \A v \in Users \ {call[c].by} : bag'[v] = bag[v]
    BY <1>0, <1>17 DEF Stock, Goto, RowsCurrent, RowCurrent
  <2>2. call[c].by \in About(call[c]) /\ Active(c)
    BY <2>1 DEF About, Sending, Active
  <2>3. QED
    BY <1>14, <2>1, <2>2
(* The steps that may delete a row: others that hold it hold a row that is gone. *)
<1>18. ASSUME NEW c \in Calls, NEW u \in About(call[c]) \cap Users, NEW i \in ItemIds, Active(c),
              \A d \in Calls \ {c} : pc'[d] = pc[d] /\ (seen'[d] = seen[d] \/ seen'[d] = Forget(u, i, Calls)[d]),
              UNCHANGED <<call, raced>>, \A v \in Users \ {u} : bag'[v] = bag[v], RowCurrent(c)'
       PROVE  RowsCurrent'
  <2>1. ASSUME NEW d \in Calls \ {c} PROVE RowCurrent(d)'
    <3>1. call'[d] = call[d] /\ pc'[d] = pc[d]
      BY <1>18
    <3>2. seen'[d].item = seen[d].item
      BY <1>0, <1>18, ForgetFacts
    <3>3. \/ seen'[d].row = seen[d].row
          \/ seen[d].row # None /\ Active(d) /\ Active(c) /\ Target(d) \in About(call[c])
      BY <1>0, <1>18, ForgetOnly
    <3>4. \A v \in Users : bag'[v] = bag[v] \/ (Active(c) /\ v \in About(call[c]))
      BY <1>18
    <3>5. QED
      BY <1>18, <3>1, <3>2, <3>3, <3>4, OthersKeep
  <2>2. QED
    BY <1>18, <2>1 DEF RowsCurrent
<1>19. ASSUME NEW c \in Calls, WriteRow(c) PROVE RowsCurrent'
  <2> DEFINE u == call[c].by
             i == call[c].item
  <2>1. /\ pc[c] = "write" /\ call[c].kind \in {"set", "drop"} /\ pc' = [pc EXCEPT ![c] = "done"]
        /\ UNCHANGED <<call, raced>> /\ \A v \in Users \ {u} : bag'[v] = bag[v]
        /\ seen' = seen \/ seen' = Forget(u, i, Calls)
    BY <1>0, <1>19 DEF WriteRow, Goto, RowsCurrent, RowCurrent
  <2>2. u \in About(call[c]) /\ u \in Users /\ i \in ItemIds /\ Active(c)
    BY <1>0, <2>1, RequestFacts DEF About, Sending, Active
  <2>3. RowCurrent(c)'
    BY <1>0, <2>1, DoneCurrent
  <2> HIDE DEF u, i
  <2>4. \A d \in Calls \ {c} : pc'[d] = pc[d] /\ (seen'[d] = seen[d] \/ seen'[d] = Forget(u, i, Calls)[d])
    BY <1>0, <2>1
  <2>5. QED
    BY <1>18, <2>1, <2>2, <2>3, <2>4
<1>20. ASSUME NEW c \in Calls, CommitPass(c) PROVE RowsCurrent'
  <2> DEFINE u == call[c].by
             i == seen[c].item
             left == seen[c].row - call[c].qty
  <2>1. /\ pc[c] = "commit" /\ call[c].kind = "pass" /\ pc' = [pc EXCEPT ![c] = "deliver"]
        /\ UNCHANGED <<call, raced>> /\ bag' = [bag EXCEPT ![u][i] = IF left > 0 THEN left ELSE None]
        /\ seen' = [(IF left > 0 THEN seen ELSE Forget(u, i, Calls)) EXCEPT ![c] = Blank]
    BY <1>20 DEF CommitPass, Goto
  <2>2. PICK s \in {seen, Forget(u, i, Calls)} : seen' = [s EXCEPT ![c] = Blank]
    BY <2>1
  <2>3. u \in About(call[c]) /\ u \in Users /\ i \in ItemIds /\ Active(c)
    BY <1>0, <2>1, RequestFacts DEF About, Sending, Active, ReadsRight
  <2>4. \A v \in Users \ {u} : bag'[v] = bag[v]
    BY <1>0, <2>1
  <2>5. RowCurrent(c)'
    BY <1>0, <2>1 DEF RowCurrent, Sending
  <2> HIDE DEF u, i
  <2>6. s \in [Calls -> Seen]
    BY <1>0, <2>2, <2>3, ForgetFacts
  <2>7. \A d \in Calls \ {c} : pc'[d] = pc[d] /\ (seen'[d] = seen[d] \/ seen'[d] = Forget(u, i, Calls)[d])
    BY <1>0, <2>1, <2>2, <2>6
  <2>8. QED
    BY <1>18, <2>1, <2>3, <2>4, <2>5, <2>7
<1>21. ASSUME NEW u \in Users, ReadBalance(u) \/ WriteBalance(u) PROVE RowsCurrent'
  BY <1>21 DEF ReadBalance, WriteBalance, handler, RowsCurrent, RowCurrent
<1>22. QED
  BY <1>1, <1>3, <1>4, <1>5, <1>6, <1>7, <1>8, <1>9, <1>10, <1>11, <1>12, <1>13, <1>15, <1>16, <1>17, <1>19, <1>20,
     <1>21 DEF Next, Handle

(* The account of every bag that no two requests were about at once. *)
LEMMA BalancedStep == ASSUME Typed, Typed', RowsCurrent, Balanced, Next PROVE Balanced'
<1>0. /\ TypeOK /\ ReadsRight /\ TypeOK' /\ pc \in [Calls -> Labels] /\ seen \in [Calls -> Seen]
      /\ call \in [Calls -> Requests] /\ bag \in [Users -> [ItemIds -> Row]] /\ owed \in [Users -> Int]
  BY DEF Typed, TypeOK, Balanced
<1>a. \A c \in Calls : call[c].by \in Users /\ call[c].to \in Users /\ call[c].item \in ItemIds /\ call[c].qty \in Int
  BY <1>0, RequestFacts
<1> DEFINE Goes(c) == \A d \in Calls \ {c} : call'[d] = call[d] /\ pc'[d] = pc[d]
           Same(c, u) == bag'[u] = bag[u] /\ owed'[u] = owed[u] - Arriving(c, u) + Arriving(c, u)'
           OneRow(c, u) == \E i \in ItemIds, row \in Row :
              /\ bag'[u] = [bag[u] EXCEPT ![i] = row]
              /\ owed'[u] = owed[u] - Arriving(c, u) + Arriving(c, u)' - Amount(bag[u][i]) + Amount(row)
<1>1. ASSUME NEW c \in Calls, Goes(c), raced \subseteq raced', owed' \in [Users -> Int],
             \A u \in Users \ raced' : Same(c, u) \/ OneRow(c, u)
      PROVE  Balanced'
  <2>1. ASSUME NEW u \in Users \ raced' PROVE Held(u)' + InTransit(u)' = owed'[u]
    <3>1. u \in Users \ raced /\ (Same(c, u) \/ OneRow(c, u))
      BY <1>1
    <3>2. QED
      BY <1>0, <1>1, <3>1, BalanceStep
  <2>2. QED
    BY <1>1, <2>1 DEF Balanced, BagExact
<1>2. ASSUME NEW c \in Calls, Goes(c), raced \subseteq raced', UNCHANGED <<bag, owed>>,
             \A u \in Users \ raced' : Arriving(c, u)' = Arriving(c, u)
      PROVE  Balanced'
  <2>1. ASSUME NEW u \in Users \ raced' PROVE Same(c, u)
    <3>1. Arriving(c, u) \in Int /\ owed[u] \in Int
      BY <1>0, ArrivingInt
    <3>2. QED
      BY <1>2, <3>1
  <2> HIDE DEF Goes, Same, OneRow
  <2>2. QED
    BY <1>0, <1>1, <1>2, <2>1
<1> DEFINE Way == {"deliver", "forge", "receive", "put"}
(* A request starts, reads, ends without having written, or delivers step by step. *)
<1>3. ASSUME NEW c \in Calls, NEW l, pc' = [pc EXCEPT ![c] = l], l \in Way <=> pc[c] \in Way,
             call' = call \/ (pc[c] \notin Way /\ \A d \in Calls \ {c} : call'[d] = call[d]),
             raced \subseteq raced', UNCHANGED <<bag, owed>>
      PROVE  Balanced'
  <2>1. Goes(c)
    BY <1>0, <1>3
  <2>2. \A u \in Users : Arriving(c, u)' = Arriving(c, u)
    BY <1>0, <1>3 DEF Arriving
  <2> HIDE DEF Goes, Way
  <2>3. QED
    BY <1>2, <1>3, <2>1, <2>2
<1>4. ASSUME NEW c \in Calls, Start(c) PROVE Balanced'
  <2>1. PICK r \in Requests :
          /\ pc[c] = "new" /\ call' = [call EXCEPT ![c] = r] /\ pc' = [pc EXCEPT ![c] = First[r.kind]]
          /\ raced \subseteq raced' /\ UNCHANGED <<bag, owed>>
    BY <1>4, Zenon DEF Start, Goto, rows
  <2>2. First[r.kind] \notin Way
    <3>1. r.kind \in Kinds
      BY RequestFacts
    <3>2. QED
      BY <3>1 DEF First, Kinds
  <2>3. \A d \in Calls \ {c} : call'[d] = call[d]
    BY <1>0, <2>1
  <2>4. QED
    BY <1>3, <2>1, <2>2, <2>3
<1>5. ASSUME NEW c \in Calls,
             \/ ReadCatalog(c) \/ Unlisted(c) \/ ReadWallet(c) \/ NoWallet(c) \/ OpenWallet(c) \/ ReadRow(c)
             \/ BeginTx(c) \/ Rollback(c) \/ FindItem(c) \/ ForgeItem(c) \/ ReadReceiver(c) \/ WriteLost(c)
             \/ FindGift(c) \/ DeleteGift(c) \/ CountGifts(c) \/ Delist(c)
      PROVE  Balanced'
  <2>1. /\ \E l : pc' = [pc EXCEPT ![c] = l] /\ (l \in Way <=> pc[c] \in Way)
        /\ call' = call /\ raced' = raced /\ UNCHANGED <<bag, owed>>
    BY <1>5 DEF ReadCatalog, Unlisted, ReadWallet, NoWallet, OpenWallet, ReadRow, BeginTx, Rollback, FindItem, ForgeItem, ReadReceiver, WriteLost, FindGift, DeleteGift, CountGifts, Delist, Answer, Goto, rows, history
  <2>2. QED
    BY <1>3, <2>1
<1>6. ASSUME NEW c \in Calls, Lose(c) PROVE Balanced'
  <2>1. /\ pc' = [pc EXCEPT ![c] = "done"] /\ UNCHANGED <<bag, owed, call>> /\ raced' = raced \cup {call[c].to}
    BY <1>6 DEF Lose, Goto, rows
  <2>2. Goes(c)
    BY <1>0, <2>1
  <2>3. \A u \in Users \ raced' : Arriving(c, u)' = Arriving(c, u)
    BY <1>0, <2>1 DEF Arriving
  <2> HIDE DEF Goes
  <2>4. QED
    BY <1>2, <2>1, <2>2, <2>3
<1>7. ASSUME NEW c \in Calls, CommitGive(c) \/ CommitPassFree(c) PROVE Balanced'
  <2>1. /\ pc[c] = "commit" /\ pc' = [pc EXCEPT ![c] = "deliver"] /\ UNCHANGED <<bag, call, raced>>
        /\ owed' = [owed EXCEPT ![call[c].to] = owed[call[c].to] + call[c].qty]
    BY <1>7 DEF CommitGive, CommitPassFree, GiveRow, Goto
  <2>2. Goes(c) /\ owed' \in [Users -> Int]
    BY <1>0, <1>a, <2>1
  <2>3. ASSUME NEW u \in Users PROVE Same(c, u)
    <3>1. Arriving(c, u) = 0 /\ Arriving(c, u)' = IF call[c].to = u THEN call[c].qty ELSE 0
      BY <1>0, <2>1 DEF Arriving
    <3>2. QED
      BY <1>0, <1>a, <2>1, <3>1
  <2> HIDE DEF Goes, Same, OneRow
  <2>4. QED
    BY <1>1, <2>1, <2>2, <2>3
(* The writers of a bag: their row is the one they have read. *)
<1> DEFINE Writes(c, v, i, row) ==
             /\ v \in Users /\ i \in ItemIds /\ row \in Row
             /\ bag' = [bag EXCEPT ![v][i] = row] /\ UNCHANGED <<call, raced>>
             /\ owed' \in [Users -> Int]
             /\ \A u \in Users \ raced :
                  owed'[u] = owed[u] - Arriving(c, u) + Arriving(c, u)'
                             + IF u = v THEN Amount(row) - Amount(bag[v][i]) ELSE 0
<1>8. ASSUME NEW c \in Calls, NEW l, pc' = [pc EXCEPT ![c] = l], NEW v, NEW i, NEW row, Writes(c, v, i, row)
      PROVE  Balanced'
  <2>1. Goes(c)
    BY <1>0, <1>8
  <2>2. ASSUME NEW u \in Users \ raced' PROVE Same(c, u) \/ OneRow(c, u)
    <3>1. Arriving(c, u) \in Int /\ Arriving(c, u)' \in Int /\ owed[u] \in Int /\ Amount(row) \in Int /\ Amount(bag[v][i]) \in Int
      <4>1. Arriving(c, u)' \in Int
        BY <1>0, <1>8, <1>a DEF Arriving
      <4>2. QED
        BY <1>0, <1>8, <4>1, ArrivingInt, AmountInt
    <3>2. CASE u = v
      <4>1. bag'[u] = [bag[u] EXCEPT ![i] = row]
        BY <1>0, <1>8, <3>2
      <4>2. owed'[u] = owed[u] - Arriving(c, u) + Arriving(c, u)' - Amount(bag[u][i]) + Amount(row)
        BY <1>8, <3>1, <3>2
      <4>3. QED
        BY <1>8, <4>1, <4>2
    <3>3. CASE u # v
      <4>1. bag'[u] = bag[u]
        BY <1>0, <1>8, <3>3
      <4>2. owed'[u] = owed[u] - Arriving(c, u) + Arriving(c, u)'
        BY <1>8, <3>1, <3>3
      <4>3. QED
        BY <4>1, <4>2
    <3>4. QED
      BY <3>2, <3>3
  <2> HIDE DEF Goes, Same, OneRow
  <2>3. QED
    BY <1>1, <1>8, <2>1, <2>2
<1>9. ASSUME NEW c \in Calls, CommitBuy(c) PROVE Balanced'
  <2> DEFINE v == call[c].by
             q == call[c].qty
             old == Amount(seen[c].row)
  <2>1. /\ pc[c] = "commit" /\ call[c].kind = "buy" /\ Commits(c)
        /\ pc' = [pc EXCEPT ![c] = "done"] /\ UNCHANGED <<call, raced>>
        /\ owed' = [owed EXCEPT ![v] = owed[v] + q]
    BY <1>9 DEF CommitBuy, Goto
  <2>2. PICK i \in IF seen[c].item = None THEN ItemIds \ items ELSE {seen[c].item} :
             bag' = [bag EXCEPT ![v][i] = old + q]
    BY <1>9 DEF CommitBuy
  <2>3. i \in ItemIds /\ v \in Users /\ q \in Int
    BY <1>0, <1>a, <2>1, <2>2 DEF ReadsRight, TypeOK
  <2>4. seen[c].row \in Row
    BY <1>0, <2>1 DEF Seen, Commits
  <2>5. old \in Int /\ old + q \in Row /\ Amount(old + q) = old + q
    BY <2>3, <2>4, Absent DEF Row, Amount
  <2>6. v \notin raced => Amount(bag[v][i]) = old
    <3>1. CASE seen[c].item = None
      <4>1. seen[c].row = None /\ bag[v][i] = None
        BY <1>0, <2>1, <2>2, <2>3, <3>1 DEF RowsCurrent, RowCurrent, TypeOK
      <4>2. QED
        BY <4>1 DEF Amount
    <3>2. CASE seen[c].item # None
      <4>1. v \notin raced => seen[c].row = bag[v][i]
        BY <2>1, <2>2, <3>2 DEF RowsCurrent, RowCurrent
      <4>2. QED
        BY <4>1 DEF Amount
    <3>3. QED
      BY <3>1, <3>2
  <2>7. \A u \in Users : Arriving(c, u) = 0 /\ Arriving(c, u)' = 0
    BY <1>0, <2>1 DEF Arriving
  <2> HIDE DEF old, v, q
  <2>8. \A u \in Users : owed[u] \in Int /\ owed'[u] = owed[u] + IF u = v THEN q ELSE 0
    BY <1>0, <2>1, <2>3
  <2>9. owed' \in [Users -> Int]
    BY <1>0, <2>1, <2>3
  <2>10. ASSUME NEW u \in Users \ raced
         PROVE  owed'[u] = owed[u] - Arriving(c, u) + Arriving(c, u)'
                           + IF u = v THEN Amount(old + q) - Amount(bag[v][i]) ELSE 0
    BY <2>3, <2>5, <2>6, <2>7, <2>8
  <2>11. Writes(c, v, i, old + q)
    BY <2>1, <2>2, <2>3, <2>5, <2>9, <2>10
  <2> HIDE DEF Writes
  <2>12. QED
    BY <1>8, <2>1, <2>11
<1>10. ASSUME NEW c \in Calls, CommitPass(c) PROVE Balanced'
  <2> DEFINE v == call[c].by
             w == call[c].to
             i == seen[c].item
             q == call[c].qty
             left == seen[c].row - q
             row == IF left > 0 THEN left ELSE None
  <2>1. /\ pc[c] = "commit" /\ call[c].kind = "pass" /\ Commits(c) /\ seen[c].row # None
        /\ pc' = [pc EXCEPT ![c] = "deliver"] /\ UNCHANGED <<call, raced>>
        /\ bag' = [bag EXCEPT ![v][i] = row]
        /\ owed' = [owed EXCEPT ![w] = owed[w] + q, ![v] = @ - q]
    BY <1>10 DEF CommitPass, Goto
  <2>2. i = call[c].item /\ v # w /\ v \in Users /\ w \in Users /\ i \in ItemIds /\ q \in Int
    BY <1>0, <1>a, <2>1 DEF ReadsRight, Active, Sending
  <2>3. seen[c].row \in Int /\ left \in Int
    <3>1. seen[c].row \in Int
      BY <1>0, <2>1 DEF Seen, Commits, Row
    <3>2. QED
      BY <2>2, <3>1
  <2>4. v \notin raced => bag[v][i] = seen[c].row /\ left >= 0
    <3>1. v \notin raced => bag[v][i] = seen[c].row /\ seen[c].row >= q
      BY <2>1, <2>2 DEF RowsCurrent, RowCurrent
    <3>2. QED
      BY <2>2, <2>3, <3>1
  <2>5. row \in Row /\ (v \notin raced => Amount(row) = left /\ Amount(bag[v][i]) = left + q)
    <3>1. row \in Row
      BY <2>3 DEF Row
    <3>2. left >= 0 => Amount(row) = left
      BY <2>3, Absent DEF Amount
    <3>3. v \notin raced => Amount(bag[v][i]) = seen[c].row
      BY <2>3, <2>4, Absent DEF Amount
    <3>4. seen[c].row = left + q
      BY <2>2, <2>3
    <3>5. QED
      BY <2>4, <3>1, <3>2, <3>3, <3>4
  <2>6. \A u \in Users : Arriving(c, u) = 0 /\ Arriving(c, u)' = IF u = w THEN q ELSE 0
    BY <1>0, <2>1 DEF Arriving
  <2> HIDE DEF left, row, i, q, v, w
  <2>7. ASSUME NEW u \in Users
        PROVE  owed[u] \in Int /\ owed'[u] = owed[u] + (IF u = w THEN q ELSE 0) - (IF u = v THEN q ELSE 0)
    <3>1. owed[u] \in Int
      BY <1>0
    <3>2. owed'[w] = owed[w] + q /\ owed'[v] = owed[v] - q /\ (u \notin {v, w} => owed'[u] = owed[u])
      BY <1>0, <2>1, <2>2
    <3>3. QED
      BY <2>2, <3>1, <3>2
  <2>8. owed' \in [Users -> Int]
    BY <1>0, <2>1, <2>2
  <2>9. ASSUME NEW u \in Users \ raced
        PROVE  owed'[u] = owed[u] - Arriving(c, u) + Arriving(c, u)'
                          + IF u = v THEN Amount(row) - Amount(bag[v][i]) ELSE 0
    BY <2>2, <2>3, <2>5, <2>6, <2>7
  <2>10. Writes(c, v, i, row)
    BY <2>1, <2>2, <2>5, <2>8, <2>9
  <2> HIDE DEF Writes
  <2>11. QED
    BY <1>8, <2>1, <2>10
<1>11. ASSUME NEW c \in Calls, PutRow(c) PROVE Balanced'
  <2> DEFINE v == call[c].to
             i == seen[c].item
             q == call[c].qty
             row == Grown(seen[c].row, q)
             Skips == seen[c].row = Gone \/ (seen[c].row = None /\ bag[v][i] # None)
  <2>1. /\ pc[c] = "put" /\ pc' = [pc EXCEPT ![c] = "done"] /\ UNCHANGED <<call, raced, owed>>
        /\ bag' = IF Skips THEN bag ELSE [bag EXCEPT ![v][i] = row]
    BY <1>11 DEF PutRow, Goto, history
  <2>2. v \in Users /\ i \in ItemIds /\ q \in Int
    BY <1>0, <1>a, <2>1 DEF ReadsRight, TypeOK
  <2>3. v \notin raced => seen[c].row = bag[v][i]
    BY <2>1 DEF RowsCurrent, RowCurrent
  <2>4. \A u \in Users : Arriving(c, u) = (IF u = v THEN q ELSE 0) /\ Arriving(c, u)' = 0
    BY <1>0, <2>1 DEF Arriving
  <2>5. CASE Skips
    <3>1. v \in raced
      BY <1>0, <2>2, <2>3, <2>5, Absent DEF Row
    <3>2. Goes(c)
      BY <1>0, <2>1
    <3>3. \A u \in Users \ raced' : Arriving(c, u)' = Arriving(c, u)
      BY <2>1, <2>4, <3>1
    <3> HIDE DEF Goes
    <3>4. QED
      BY <1>2, <2>1, <2>5, <3>2, <3>3
  <2>6. CASE ~Skips
    <3>1. seen[c].row \in Row
      BY <1>0, <2>6 DEF Seen
    <3>2. row \in Int /\ row = Amount(seen[c].row) + q /\ Amount(row) = row /\ row \in Row /\ Amount(seen[c].row) \in Int
      BY <2>2, <3>1, Absent DEF Grown, Amount, Row
    <3>3. \A u \in Users : owed[u] \in Int /\ owed'[u] = owed[u]
      BY <1>0, <2>1
    <3> HIDE DEF row, v, i, q
    <3>4. ASSUME NEW u \in Users \ raced
          PROVE  owed'[u] = owed[u] - Arriving(c, u) + Arriving(c, u)'
                            + IF u = v THEN Amount(row) - Amount(bag[v][i]) ELSE 0
      BY <2>2, <2>3, <2>4, <3>2, <3>3
    <3>5. Writes(c, v, i, row)
      BY <1>0, <2>1, <2>2, <2>6, <3>2, <3>4
    <3> HIDE DEF Writes
    <3>6. QED
      BY <1>8, <2>1, <3>5
  <2>7. QED
    BY <2>5, <2>6
<1>12. ASSUME NEW c \in Calls, Stock(c) PROVE Balanced'
  <2> DEFINE v == call[c].by
             i == call[c].item
             q == call[c].qty
  <2>1. /\ pc[c] = "insert" /\ pc' = [pc EXCEPT ![c] = "done"] /\ UNCHANGED <<call, raced>>
        /\ IF i \in items /\ bag[v][i] = None
           THEN bag' = [bag EXCEPT ![v][i] = q] /\ owed' = [owed EXCEPT ![v] = owed[v] + q]
           ELSE UNCHANGED <<bag, owed>>
    BY <1>12 DEF Stock, Goto
  <2>2. CASE i \in items /\ bag[v][i] = None
    <3>1. v \in Users /\ i \in ItemIds /\ q \in Int /\ q \in Row /\ Amount(q) = q /\ Amount(bag[v][i]) = 0
      BY <1>a, <2>2, Absent DEF Amount, Row
    <3>2. \A u \in Users : Arriving(c, u) = 0 /\ Arriving(c, u)' = 0
      BY <1>0, <2>1 DEF Arriving
    <3> HIDE DEF v, i, q
    <3>3. owed' \in [Users -> Int] /\ \A u \in Users : owed[u] \in Int /\ owed'[u] = owed[u] + IF u = v THEN q ELSE 0
      BY <1>0, <2>1, <2>2, <3>1
    <3>4. ASSUME NEW u \in Users \ raced
          PROVE  owed'[u] = owed[u] - Arriving(c, u) + Arriving(c, u)'
                            + IF u = v THEN Amount(q) - Amount(bag[v][i]) ELSE 0
      BY <3>1, <3>2, <3>3
    <3>5. Writes(c, v, i, q)
      BY <2>1, <2>2, <3>1, <3>3, <3>4
    <3> HIDE DEF Writes
    <3>6. QED
      BY <1>8, <2>1, <3>5
  <2>3. CASE ~(i \in items /\ bag[v][i] = None)
    BY <1>3, <2>1, <2>3
  <2>4. QED
    BY <2>2, <2>3
<1>13. ASSUME NEW c \in Calls, WriteRow(c) PROVE Balanced'
  <2> DEFINE v == call[c].by
             i == call[c].item
             row == IF call[c].kind = "set" THEN call[c].qty ELSE None
             old == seen[c].row
  <2>1. /\ pc[c] = "write" /\ old # Gone /\ pc' = [pc EXCEPT ![c] = "done"] /\ UNCHANGED <<call, raced>>
        /\ bag' = [bag EXCEPT ![v][i] = row]
        /\ owed' = [owed EXCEPT ![v] = owed[v] - old + Amount(row)]
    BY <1>13 DEF WriteRow, Goto
  <2>2. v \in Users /\ i \in ItemIds /\ old \in Int /\ row \in Row
    BY <1>0, <1>a, <2>1 DEF ReadsRight, Row
  <2>3. Amount(row) \in Int /\ (v \notin raced => Amount(bag[v][i]) = old)
    BY <2>1, <2>2, AmountInt, Absent DEF RowsCurrent, RowCurrent, Amount
  <2>4. \A u \in Users : Arriving(c, u) = 0 /\ Arriving(c, u)' = 0
    BY <1>0, <2>1 DEF Arriving
  <2> HIDE DEF v, i, row, old
  <2>5. owed' \in [Users -> Int] /\ \A u \in Users : owed[u] \in Int /\ owed'[u] = owed[u] + IF u = v THEN Amount(row) - old ELSE 0
    BY <1>0, <2>1, <2>2, <2>3
  <2>6. ASSUME NEW u \in Users \ raced
        PROVE  owed'[u] = owed[u] - Arriving(c, u) + Arriving(c, u)'
                          + IF u = v THEN Amount(row) - Amount(bag[v][i]) ELSE 0
    BY <2>2, <2>3, <2>4, <2>5
  <2>7. Writes(c, v, i, row)
    BY <2>1, <2>2, <2>5, <2>6
  <2> HIDE DEF Writes
  <2>8. QED
    BY <1>8, <2>1, <2>7
<1>14. ASSUME NEW u \in Users, ReadBalance(u) \/ WriteBalance(u) PROVE Balanced'
  <2>1. UNCHANGED <<bag, call, pc, owed, raced>>
    BY <1>14 DEF ReadBalance, WriteBalance, handler
  <2>2. QED
    BY <2>1 DEF Balanced, BagExact, Held, InTransit, Arriving
<1>15. QED
  BY <1>4, <1>5, <1>6, <1>7, <1>9, <1>10, <1>11, <1>12, <1>13, <1>14 DEF Next, Handle
-----------------------------------------------------------------------------
(* The invariant at the start, and over a step that changes nothing. *)
LEMMA InitInvariant == Init => IInv
<1> SUFFICES ASSUME Init PROVE IInv
  OBVIOUS
<1>1. call \in [Calls -> Requests]
  <2>1. (CHOOSE r \in Requests : TRUE) \in Requests
    BY GiftsAssumption
  <2>2. QED
    BY <2>1 DEF Init
<1>2. pc = [c \in Calls |-> "new"] /\ gift = {} /\ raced = {} /\ crossed = {} /\ late = {}
  BY DEF Init
<1>3. Blank \in Seen
  BY DEF Blank, Seen, Row
<1>4. bag \in [Users -> [ItemIds -> Row]] /\ \A u \in Users, i \in ItemIds : bag[u][i] # None => i \in items
  BY GiftsAssumption DEF Init
<1>5. funds \in [Users -> Nat \cup {None}] /\ spent = [u \in Users |-> 0] /\ topup = [u \in Users |-> {}]
      /\ topped = [u \in Users |-> IF funds[u] = None THEN 0 ELSE funds[u]]
  BY GiftsAssumption DEF Init
<1>6. \A u \in Users : spent[u] = 0 /\ topped[u] \in Nat /\ (funds[u] = None => topped[u] = 0)
                       /\ (funds[u] # None => topped[u] = funds[u] /\ funds[u] \in Nat)
  BY <1>5
<1>7. topped \in [Users -> Nat] /\ spent \in [Users -> Nat] /\ topup \in [Users -> SUBSET Nat]
  BY <1>5
<1>8. listed \in BOOLEAN /\ items \subseteq ItemIds
  BY DEF Init
<1>9. seen \in [Calls -> Seen] /\ \A c \in Calls : seen[c].item = None
  BY <1>3 DEF Init, Blank
<1>10. TypeOK
  BY <1>1, <1>2, <1>4, <1>5, <1>7, <1>8, <1>9 DEF TypeOK, Labels
<1>11. ReadsRight
  BY <1>2, <1>9 DEF ReadsRight, Active
<1>12. Noticed /\ Uncounted
  BY <1>2 DEF Noticed, Uncounted, Active
<1>13. Money
  BY <1>2, <1>5, <1>6 DEF Money, NoAccount, NeverOvercharged, ReadsNeverLow, PaidExact, ReadsExact, TopUpsTrue, Paying
<1>14. RowsCurrent
  BY <1>2 DEF RowsCurrent, RowCurrent, Init, Blank
<1>15. Balanced
  <2>1. owed = [u \in Users |-> Held(u)]
    BY DEF Init
  <2>2. ASSUME NEW u \in Users PROVE Held(u) \in Int /\ InTransit(u) = 0
    <3>1. \A c \in Calls : [d \in Calls |-> Arriving(d, u)][c] = 0
      BY <1>2 DEF Arriving
    <3>2. QED
      BY <1>10, <3>1, HeldInt, SumZero, GiftsAssumption DEF InTransit
  <2>3. QED
    BY <2>1, <2>2 DEF Balanced, BagExact
<1>16. QED
  BY <1>10, <1>11, <1>12, <1>13, <1>14, <1>15 DEF IInv, Typed

LEMMA InvariantStep == IInv /\ [Next]_vars => IInv'
<1>1. ASSUME IInv, Next PROVE IInv'
  BY <1>1, TypedStep, NoticedStep, MoneyStep, UncountedStep, RowsStep, BalancedStep DEF IInv
<1>2. ASSUME IInv, UNCHANGED vars PROVE IInv'
  <2>1. UNCHANGED <<funds, listed, items, bag, gift, call, pc, seen, topup, spent, topped, owed, raced, crossed, late>>
    BY <1>2 DEF vars, rows, handler, history
  <2>2. Typed'
    BY <1>2, <2>1 DEF IInv, Typed, TypeOK, ReadsRight, Active
  <2>3. Noticed' /\ Uncounted'
    BY <1>2, <2>1 DEF IInv, Noticed, Uncounted, Active
  <2>4. Money'
    BY <1>2, <2>1, Quiet DEF IInv, Paying
  <2>5. RowsCurrent' /\ Balanced'
    BY <1>2, <2>1 DEF IInv, RowsCurrent, RowCurrent, Balanced, BagExact, Held, InTransit, Arriving
  <2>6. QED
    BY <2>2, <2>3, <2>4, <2>5 DEF IInv
<1>3. QED
  BY <1>1, <1>2

THEOREM Invariance == Spec => []IInv
<1>1. Init => IInv
  BY InitInvariant
<1>2. IInv /\ [Next]_vars => IInv'
  BY InvariantStep
<1>3. QED
  BY <1>1, <1>2, PTL DEF Spec
-----------------------------------------------------------------------------
(* Type correctness: a bag row belongs to an item that exists, a request about
   to debit a wallet has read its balance, a gift was sent to someone else. *)
THEOREM TypeCorrect == Spec => []TypeOK
<1>1. IInv => TypeOK
  BY DEF IInv, Typed
<1>2. QED
  BY <1>1, Invariance, PTL

(* However the purchases and gifts of a user overlap, with each other and with
   the requests of everyone else, he never pays more than what was committed
   for him costs, unless a top-up came between a read and its write; and when
   neither happened he pays exactly that (gift-crud.service.ts:77-135, 410-470). *)
THEOREM ChargedRightly == Spec => []ChargesRight
<1>1. IInv => ChargesRight
  BY DEF IInv, Money, ChargesRight
<1>2. QED
  BY <1>1, Invariance, PTL

(* The bag of a user whose requests came one after another holds, with what is
   on its way to it, exactly what he bought, was given and stocked less what he
   sent, whatever runs for everyone else at the same time
   (gift-crud.service.ts:176-270, inventory.service.ts:66-152). *)
THEOREM BagsExact == Spec => []BagExact
<1>1. IInv => BagExact
  BY DEF IInv, Balanced
<1>2. QED
  BY <1>1, Invariance, PTL

(* Removing an item from the catalogue deletes only gifts made after the
   removal had counted them (gift-item-admin.service.ts). *)
THEOREM DelistingSparesGifts == Spec => GiftsSurviveDelisting
<1>1. ASSUME IInv, Next, listed, ~listed' PROVE gift \subseteq late
  <2>1. ASSUME NEW c \in Calls, Handle(c) PROVE gift \subseteq late
    <3>1. Delist(c)
      BY <1>1, <2>1 DEF Handle, Start, ReadCatalog, Unlisted, ReadWallet, NoWallet, OpenWallet, ReadRow, BeginTx, Rollback, CommitGive, CommitBuy, CommitPass, CommitPassFree, FindItem, ForgeItem, ReadReceiver, PutRow, Lose, Stock, WriteRow, WriteLost, FindGift, DeleteGift, CountGifts, Answer, GiveRow, rows
    <3>2. QED
      BY <1>1, <3>1 DEF Delist, IInv, Uncounted
  <2>2. ASSUME NEW u \in Users, ReadBalance(u) \/ WriteBalance(u) PROVE FALSE
    BY <1>1, <2>2 DEF ReadBalance, WriteBalance
  <2>3. QED
    BY <1>1, <2>1, <2>2 DEF Next
<1>2. IInv /\ [Next]_vars => [listed /\ ~listed' => gift \subseteq late]_vars
  BY <1>1 DEF vars
<1>3. QED
  BY <1>2, Invariance, PTL DEF Spec, GiftsSurviveDelisting
==============================================================================
