-------------------------------- MODULE Ledger --------------------------------
(***************************************************************************)
(* The two tables every money operation of the backend writes: res_wallet  *)
(* and res_wallet_transaction (src/src/prisma/schema.prisma).  The modules *)
(* that model the services which use them (Wallet, Payment) extend this    *)
(* one, so that they can share the tables when they are composed.          *)
(***************************************************************************)
EXTENDS Integers, FiniteSets

CONSTANTS
  Users,      \* users of the platform
  Refs,       \* reference_id values: one per money operation
  NULL        \* the database NULL

ASSUME NullIsNoAmount == NULL \notin Int

VARIABLES
  wallet,     \* res_wallet, by its unique key <<user_id, currency>>
  ledger      \* res_wallet_transaction: a set of rows

tables == <<wallet, ledger>>

Currencies == {"vex", "diamond"}

(* @@unique([user_id, currency]): at most one live wallet per pair. *)
Wallets == Users \X Currencies

(***************************************************************************)
(* A wallet row.  `gen' stands for its primary key: it changes when the    *)
(* row is deleted, so a request that still holds the id of a deleted       *)
(* wallet does not reach the one created after it.  Amounts are integers:  *)
(* the code's Decimal(12,2) is exact, no property is about fractions.      *)
(***************************************************************************)
WalletRow == [live : BOOLEAN, gen : Nat, bal : Int]

Types    == {"deposit", "withdraw", "gift", "convert", "transfer", "subscription"}
Statuses == {"pending", "success", "failed"}

TransactionRow ==
  [ref : Refs, wallet : Wallets, type : Types, amount : Int,
   before : Int, after : Int \cup {NULL}, status : Statuses]

TablesOK ==
  /\ wallet \in [Wallets -> WalletRow]
  /\ ledger \subseteq TransactionRow

(* The row a held id points to is still there (otherwise Prisma's update
   by id raises P2025 and the surrounding $transaction rolls back). *)
SameRow(w, held) == wallet[w].live /\ wallet[w].gen = held.gen

(* create({ data: { user_id, currency, balance } }) on a free key. *)
NewWallet(w, balance) == [live |-> TRUE, gen |-> wallet[w].gen, bal |-> balance]

(* Mutant: a foreign key without onDelete: Cascade. *)
DeleteWalletsOnly(u) ==
  /\ wallet' = [w \in Wallets |->
                  IF w[1] = u /\ wallet[w].live
                  THEN [live |-> FALSE, gen |-> wallet[w].gen + 1, bal |-> 0]
                  ELSE wallet[w]]
  /\ UNCHANGED ledger

(* deleteMany({ where: { user_id } }): the rows of res_wallet_transaction go
   with their wallet (onDelete: Cascade). *)
DeleteWallets(u) ==
  /\ wallet' = [w \in Wallets |->
                  IF w[1] = u /\ wallet[w].live
                  THEN [live |-> FALSE, gen |-> wallet[w].gen + 1, bal |-> 0]
                  ELSE wallet[w]]
  /\ ledger' = {row \in ledger : row.wallet[1] # u}
===============================================================================
