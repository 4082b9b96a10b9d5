------------------------------- MODULE Recharge -------------------------------
(***************************************************************************)
(* What buying currency promises: the money of each payment is credited at *)
(* most once, after the buyer has paid, to the account of one purchase and *)
(* with its amount; an account has exactly what it is due, unless two of   *)
(* its credits overlap, and then never more.  Nothing else moves money but *)
(* an administrator who deletes accounts.                                  *)
(***************************************************************************)
EXTENDS Integers

CONSTANTS
  Payments,  \* payments buyers may make, one for each purchase
  Accounts   \* wallets they may credit

VARIABLES
  purchase,  \* the account and the amount of each purchase
  paid,      \* payments the buyer's money was taken for
  settled,   \* payments that have been credited
  due,       \* what each account should have
  funds,     \* what it has
  mixed      \* accounts of which credits have overlapped

vars == <<purchase, paid, settled, due, funds, mixed>>

Init ==
  /\ purchase \in [Payments -> [wallet : Accounts, amount : Nat]]
  /\ paid = {}
  /\ settled = {}
  /\ due \in [Accounts -> Nat]
  /\ funds = due
  /\ mixed = {}

Pay(k) ==
  /\ k \notin paid
  /\ paid' = paid \cup {k}
  /\ UNCHANGED <<purchase, settled, due, funds, mixed>>

(* Payment k is used for purchase t. *)
Settle(k, t) ==
  LET a == purchase[t].wallet IN
  /\ k \in paid \ settled
  /\ settled' = settled \cup {k}
  /\ due' = [due EXCEPT ![a] = @ + purchase[t].amount]
  /\ funds' \in [Accounts -> Int]
  /\ \A b \in Accounts \ {a} : funds'[b] = funds[b]
  /\ funds'[a] <= due'[a]
  /\ a \notin mixed => funds'[a] = due'[a]
  /\ UNCHANGED <<purchase, paid, mixed>>

(* Two payments are on their way to one account. *)
Overlap(a) ==
  /\ \E j, k \in paid \ settled : j # k
  /\ mixed' = mixed \cup {a}
  /\ UNCHANGED <<purchase, paid, settled, due, funds>>

Delete(S) ==
  /\ due' = [a \in Accounts |-> IF a \in S THEN 0 ELSE due[a]]
  /\ funds' = [a \in Accounts |-> IF a \in S THEN 0 ELSE funds[a]]
  /\ mixed' = mixed \ S
  /\ UNCHANGED <<purchase, paid, settled>>

Next ==
  \/ \E k \in Payments : Pay(k) \/ \E t \in Payments : Settle(k, t)
  \/ \E a \in Accounts : Overlap(a)
  \/ \E S \in SUBSET Accounts : Delete(S)

Spec == Init /\ [][Next]_vars
===============================================================================
