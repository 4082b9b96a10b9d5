------------------------------- MODULE MCWallet -------------------------------
(***************************************************************************)
(* Instances of Wallet, and of its refinement of Bank, for TLC; and what   *)
(* an API description of the wallet module says of it, and the code does   *)
(* not do: the one property of a run that TLC refutes.                     *)
(***************************************************************************)
EXTENDS WalletBank, TLC, FiniteSetsExt

(* A conversion table of one package: 2 VEX buy 3 Diamonds; an amount of 1
   is in no package. *)
MCPackages == 2 :> 3

(* An administrator sets a wallet below zero, too. *)
MCAdminBalances == {-1, 2}

(* Requests and users are interchangeable; no cfg that checks liveness uses
   the symmetry. *)
MCSymmetry == Permutations(Refs) \cup Permutations(Users)

TotalVex ==
  MapThenSumSet(LAMBDA u : wallet[<<u, "vex">>].bal, Users)

(* wallet.controller.ts:384: a transfer "is performed atomically to ensure
   data consistency": the VEX the users hold together stay the same.  Two
   overlapping transfers overwrite each other's balances. *)
TransfersConserveVex == [][TotalVex' = TotalVex]_vars
===============================================================================
