------------------------------- MODULE MCGifts --------------------------------
(* A small instance of Gifts for TLC. *)
EXTENDS Gifts, TLC

CONSTANTS u1, u2, i1, i2

MCUsers == {u1, u2}
MCItemIds == {i1, i2}
MCInitFunds == (u1 :> None) @@ (u2 :> 1)
MCMaxFunds == (u1 :> 4) @@ (u2 :> 0)
\* u1 has two of an item, or there is no item yet.
Empty == [i \in MCItemIds |-> None]
MCInitBags == {(u1 :> bag1) @@ (u2 :> Empty) : bag1 \in {Empty, [Empty EXCEPT ![i1] = 2]}}

\* Every kind; the fields a kind does not read have one value.  u1 has no wallet
\* at first and is topped up twice; u2 only buys and sends from his bag.
MCRequests ==
    {r \in [kind: Kinds, by: MCUsers, to: MCUsers, item: MCItemIds, qty: {1, 2}] :
        /\ r.kind \notin Sending => r.to = r.by
        /\ r.kind \notin {"pass", "stock", "set", "drop"} => r.item = i1
        /\ r.kind \in {"drop", "remove", "delist"} => r.qty = 1
        /\ r.kind = "delist" => r.by = u1
        /\ r.by = u2 => r.kind \in {"buy", "pass"} /\ r.qty = 1
        /\ r.kind = "stock" => r.item = i2 /\ r.qty = 1
        /\ r.kind \in {"set", "drop", "pass"} => r.item = i1
        /\ r.kind \in {"set", "give"} => r.qty = 1
        /\ r.kind = "buy" /\ r.by = u1 => r.qty = 2}

MCSymmetry == Permutations(Calls)
===============================================================================
