------------------------------ MODULE Balances ------------------------------
(***************************************************************************)
(* What a user is told of his wallets: WalletSummaryService and            *)
(* TransactionService (wallet/service).  An answer is put together from    *)
(* several statements, may make the VEX wallet it misses, and is kept in   *)
(* the cache; the operations that move money tell the cache or do not.     *)
(***************************************************************************)
EXTENDS Naturals, FiniteSets

CONSTANTS Calls, Moves, \* requests that read, and that move money
          MaxMoves,     \* bound on what each wallet sees
          None

Answers == {"summary", "vex", "diamond", "history"}
Parts == [summary |-> {"diamond", "vex", "vip"}, vex |-> {"vex", "transactions"}, diamond |-> {"diamond"}, history |-> {"transactions"}]
Tables == {"vex", "diamond", "vip", "transactions"}

\* WalletService and gifts delete wallet:{user}:*; transfers, deposits, conversions,
\* payments and subscriptions do not.
Tells == {"update", "open", "gift"}
Changes == [update |-> {"diamond"}, open |-> {"vex"}, gift |-> {"diamond", "transactions"}, transfer |-> {"vex", "transactions"},
            convert |-> {"vex", "diamond", "transactions"}, card |-> {"vip", "diamond", "transactions"}]

BalancesAssumption == MaxMoves \in Nat \ {0} /\ Calls \cap Moves = {}

VARIABLES
    table,   \* per table, how often the user's rows changed; None without a wallet
    told,    \* per answer, the cached one, or None
    ask, at, \* per request, its kind and the statement it awaits
    got,     \* per request, what it has read so far
    torn,    \* history: money moved while an answer was put together
    cut,     \* history: an operation died before it told the cache
    silent,  \* history: an operation that does not tell the cache
    met      \* history: two requests made the VEX wallet at once

Requests == Calls \cup Moves
history == <<torn, cut, silent, met>>
vars == <<table, told, ask, at, got, history>>

Go(c, to) == at' = [at EXCEPT ![c] = to] /\ UNCHANGED ask
Wait(c) == at[c] \in {"read", "make"}

Start(c) ==
    /\ at[c] = "new"
    /\ \E k \in IF c \in Calls THEN Answers ELSE DOMAIN Changes :
        ask' = [ask EXCEPT ![c] = k] /\ at' = [at EXCEPT ![c] = IF c \in Calls THEN "cache" ELSE "move"]
    /\ UNCHANGED <<table, told, got, history>>

Cached(c) ==
    /\ at[c] = "cache"
    /\ Go(c, IF told[ask[c]] = None THEN "read" ELSE "done")
    /\ UNCHANGED <<table, told, got, history>>

\* One statement per table, in the order of the code, but that of the transactions
\* stands for several; the VEX wallet a balance misses is made.
Order == [summary |-> <<"diamond", "vex", "vip">>, vex |-> <<"vex", "transactions">>, diamond |-> <<"diamond">>,
          history |-> <<"transactions">>]
NextTable(c) == Order[ask[c]][Cardinality(got[c]) + 1]

Read(c) ==
    /\ at[c] = "read"
    /\ LET t == NextTable(c) IN
        IF t = "vex" /\ table[t] = None
        THEN Go(c, "make") /\ UNCHANGED got
        ELSE /\ got' = [got EXCEPT ![c] = @ \cup {<<t, table[t]>>}]
             /\ Go(c, IF Cardinality(got[c]) + 1 = Cardinality(Parts[ask[c]]) THEN "store" ELSE "read")
    /\ UNCHANGED <<table, told, history>>

\* The unique index of (user, currency) refuses a second wallet: the answer fails.
Make(c) ==
    /\ at[c] = "make"
    /\ IF table["vex"] = None
       THEN /\ table' = [table EXCEPT !["vex"] = 0]
            /\ got' = [got EXCEPT ![c] = @ \cup {<<"vex", 0>>}]
            /\ Go(c, "read")
            /\ met' = (met \/ \E d \in Requests \ {c} : Wait(d))
       ELSE Go(c, "failed") /\ UNCHANGED <<table, got, met>>
    /\ UNCHANGED <<told, torn, cut, silent>>

Store(c) ==
    /\ at[c] = "store"
    /\ told' = [told EXCEPT ![ask[c]] = got[c]]
    /\ Go(c, "done") /\ UNCHANGED <<table, got, history>>

-----------------------------------------------------------------------------
\* An operation moves money in one transaction.
Value(t) == IF table[t] = None THEN 0 ELSE table[t]
Busy == \E c \in Calls : at[c] \in {"make", "store"} \/ (at[c] = "read" /\ got[c] # {})

Move(m) ==
    /\ at[m] = "move"
    /\ LET ts == Changes[ask[m]] IN
        /\ \A t \in ts : Value(t) < MaxMoves
        /\ table' = [t \in Tables |-> IF t \in ts THEN Value(t) + 1 ELSE table[t]]
        /\ torn' = (torn \/ Busy)
        /\ silent' = (silent \/ ask[m] \notin Tells)
        /\ met' = (met \/ ("vex" \in ts /\ Busy))
    /\ Go(m, IF ask[m] \in Tells THEN "tell" ELSE "done")
    /\ UNCHANGED <<told, got, cut>>

\* Mutant: only the balances are deleted, not the history.
ToldBalances == {"summary", "vex", "diamond"}
Told == Answers

Tell(m) ==
    /\ at[m] = "tell"
    /\ told' = [a \in Answers |-> IF a \in Told THEN None ELSE told[a]]
    /\ Go(m, "done") /\ UNCHANGED <<table, got, history>>

Expire(a) == told[a] # None /\ told' = [told EXCEPT ![a] = None] /\ UNCHANGED <<table, ask, at, got, history>>

Crash(m) == at[m] = "tell" /\ cut' = TRUE /\ Go(m, "done") /\ UNCHANGED <<table, told, got, torn, silent, met>>

Init ==
    /\ table \in {[t \in Tables |-> IF t \in {"vex", "diamond"} THEN w ELSE 0] : w \in {None, 0}}
    /\ told = [a \in Answers |-> None] /\ ask = [c \in Requests |-> None] /\ at = [c \in Requests |-> "new"]
    /\ got = [c \in Requests |-> {}] /\ torn = FALSE /\ cut = FALSE /\ silent = FALSE /\ met = FALSE

Next ==
    \/ \E c \in Requests : Start(c) \/ Cached(c) \/ Read(c) \/ Make(c) \/ Store(c) \/ Move(c) \/ Tell(c) \/ Crash(c)
    \/ \E a \in Answers : Expire(a)
Spec == Init /\ [][Next]_vars

-----------------------------------------------------------------------------
TypeOK ==
    /\ table \in [Tables -> (0 .. MaxMoves) \cup {None}] /\ ask \in [Requests -> Answers \cup DOMAIN Changes \cup {None}]
    /\ at \in [Requests -> {"new", "done", "failed", "cache", "read", "make", "store", "move", "tell"}]
    /\ \A c \in Calls : at[c] = "store" => {p[1] : p \in got[c]} = Parts[ask[c]]

\* A cached answer is what the tables say, unless an operation ran meanwhile that
\* does not tell the cache, died before it did, or moved money under a reader; a
\* wallet the answer made counts as the empty one it found.
BalancesCurrent ==
    ~torn /\ ~cut /\ ~silent /\ (\A m \in Moves : at[m] # "tell") =>
        \A a \in Answers : told[a] # None => \A p \in told[a] : p[2] = table[p[1]] \/ (p[2] = None /\ table[p[1]] = 0)

\* An answer fails only when another request made the wallet it was to make.
AnswersGiven == (\E c \in Calls : at[c] = "failed") => met
=============================================================================
