--------------------------------- MODULE Bank ---------------------------------
(***************************************************************************)
(* What the wallet service promises its users: every operation takes       *)
(* effect at once, on the balances as they are at that moment.  Wallet is  *)
(* shown to implement it for calls that do not overlap on a wallet and do  *)
(* not fail half-way (WalletBank).                                         *)
(***************************************************************************)
EXTENDS Integers

CONSTANTS Users, Refs, Amounts, Packages, CardPrices, AdminBalances

VARIABLES
  funds,    \* <<user, currency>> |-> balance
  sent,     \* the withdrawals paid out to PayPal
  member    \* the users with a monthly card

bankVars == <<funds, sent, member>>

Vex(u)     == <<u, "vex">>
Diamond(u) == <<u, "diamond">>

Covers(w, a) == funds[w] >= a

Init ==
  /\ funds \in [Users \X {"vex", "diamond"} -> Nat]
  /\ sent = {}
  /\ member = [u \in Users |-> FALSE]

Transfer(u, v, a) ==
  /\ u # v /\ Covers(Vex(u), a)
  /\ funds' = [funds EXCEPT ![Vex(u)] = @ - a, ![Vex(v)] = @ + a]
  /\ UNCHANGED <<sent, member>>

Convert(u, a) ==
  /\ a \in DOMAIN Packages /\ Covers(Vex(u), a)
  /\ funds' = [funds EXCEPT ![Vex(u)] = @ - a, ![Diamond(u)] = @ + Packages[a]]
  /\ UNCHANGED <<sent, member>>

(* The VEX leave the wallet and reach PayPal together, once. *)
Withdraw(u, a, ref) ==
  /\ ref \notin sent /\ Covers(Vex(u), a)
  /\ funds' = [funds EXCEPT ![Vex(u)] = @ - a]
  /\ sent' = sent \cup {ref}
  /\ UNCHANGED member

Subscribe(u, p) ==
  /\ Covers(Diamond(u), p)
  /\ funds' = [funds EXCEPT ![Diamond(u)] = @ - p]
  /\ member' = [member EXCEPT ![u] = TRUE]
  /\ UNCHANGED sent

SetBalance(w, b) ==
  /\ funds' = [funds EXCEPT ![w] = b]
  /\ UNCHANGED <<sent, member>>

Next ==
  \/ \E u, v \in Users, a \in Amounts : Transfer(u, v, a)
  \/ \E u \in Users, a \in Amounts : Convert(u, a)
  \/ \E u \in Users, a \in Amounts, ref \in Refs : Withdraw(u, a, ref)
  \/ \E u \in Users, p \in CardPrices : Subscribe(u, p)
  \/ \E w \in Users \X {"vex", "diamond"}, b \in AdminBalances : SetBalance(w, b)

Spec == Init /\ [][Next]_bankVars
===============================================================================
