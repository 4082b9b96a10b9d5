------------------------------ MODULE WalletBank ------------------------------
(***************************************************************************)
(* Wallet implements Bank when calls on a common wallet do not overlap     *)
(* (Exclusive), nothing fails half-way (~Faults) and no wallet is deleted  *)
(* under a call (MaxGen = 0).  A withdrawal takes effect when PayPal pays: *)
(* until its debit commits, the amount is no longer the user's.            *)
(***************************************************************************)
EXTENDS Wallet

(* The withdrawals of wallet w that are paid and not yet debited. *)
Undebited(w) ==
  {r \in Requests : call[r].kind = "withdraw" /\ call[r].from = w /\ pc[r] = "commit"}

(* With Exclusive there is at most one of them. *)
OwedBy(w) ==
  IF Undebited(w) = {} THEN 0 ELSE call[CHOOSE r \in Undebited(w) : TRUE].amount

(* What each wallet holds for its user. *)
Funds == [w \in Wallets |-> wallet[w].bal - OwedBy(w)]

B == INSTANCE Bank WITH
       funds <- Funds,
       sent <- payouts,
       member <- vip

(* Money moves as the service promises: no VEX or Diamond appears, is lost
   or is paid out without being covered, whatever awaits the non-overlapping
   calls interleave at. *)
ImplementsBank == B!Spec

(* A wallet covers the withdrawal that is paid and not yet debited: nothing is
   paid out of money another call has already used. *)
PayoutsCovered == \A w \in Wallets : Undebited(w) # {} => wallet[w].bal >= OwedBy(w)
===============================================================================
