--------------------------- MODULE PaymentRecharge ----------------------------
(***************************************************************************)
(* Payment implements Recharge, for every interleaving of its handlers,    *)
(* also when they crash, answers are lost, buyers cancel, wallets are      *)
(* deleted and calls name a transaction other than the order's.  A payment *)
(* of Recharge is a PayPal order.                                          *)
(***************************************************************************)
EXTENDS Payment

R == INSTANCE Recharge WITH
       Payments <- Refs,
       Accounts <- Wallets,
       purchase <- deposit,
       paid     <- {t \in Refs : order[t] = "captured"},
       settled  <- {Token(h) : h \in credits},
       funds    <- [w \in Wallets |-> wallet[w].bal]

(* Every checkout, capture, credit, cancellation and webhook is a payment, a
   credit of one paid order, an overlap of two, or no movement of money at all;
   a wallet whose credits did not overlap has exactly what was credited to it,
   any other at most that. *)
ImplementsRecharge == R!Spec
===============================================================================
