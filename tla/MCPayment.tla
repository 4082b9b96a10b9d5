------------------------------ MODULE MCPayment -------------------------------
(***************************************************************************)
(* Small instances of Payment, and of its refinement of Recharge, for TLC; *)
(* and what a document of the payment module says of it, and the code does *)
(* not do: the one property of a run that TLC refutes.                     *)
(***************************************************************************)
EXTENDS PaymentRecharge, TLC

(* PayPal's ids: apart from every reference_id. *)
MCOrderId == [t \in Refs |-> <<"PayPal order of", t>>]

MCSymmetry == Permutations(Users) \cup Permutations(Refs) \cup Permutations(Handlers)

(* PAYMENT_GATEWAY_INTEGRATION.md:24-28: PayPal reports a payment to the
   webhook, which sets the transaction to 'success' and adds the Diamonds.  Its
   handler searches reference_id for PayPal's order id, so a payment whose
   capture was answered too late for the first handler stays uncredited. *)
WebhookSettles ==
  \A h \in Handlers :
    call[h].kind = "completed" /\ pc[h] = "done" ~> Credited(Txn(h))
===============================================================================
