----------------------------- MODULE RateLimit -----------------------------
(***************************************************************************)
(* One key of the rate limiter: UserRateLimitService (common/rate-limit)   *)
(* in the processes that serve the API.  The counter is read through       *)
(* CacheService, which asks the memory of its process and only then Redis, *)
(* and is written back to both by later statements.  The fallback of the   *)
(* catch clause is not modelled: the cache swallows its errors, so nothing *)
(* reaches it.                                                             *)
(***************************************************************************)
EXTENDS Naturals

CONSTANTS Calls, Processes,
          Limit, Ttl, \* of the guarded endpoint
          MaxTime,    \* bound of the clock
          None        \* no entry, no process

Times == 0 .. MaxTime + Ttl
Entry == [count: Nat \ {0}, reset: Times]
RateLimitAssumption ==
    Limit \in Nat \ {0} /\ Ttl \in Nat \ {0} /\ MaxTime \in Nat /\ None \notin Entry \cup Processes

VARIABLES
    clock,
    mem, red, \* count and resetTime, or None: per process, in its memory; in Redis
    proc,     \* per request, the process that serves it, or None
    at, got,  \* per request, the statement it awaits; the entry and the time it has read
    allowed,  \* history: requests let through, per process and resetTime of their window
    raced,    \* history: processes that checked two requests at once, or reset the entry
    lost      \* history: processes whose counter was lost to them

vars == <<clock, mem, red, proc, at, got, allowed, raced, lost>>
Busy(c) == at[c] \notin {"new", "done"}
Go(c, to) == at' = [at EXCEPT ![c] = to]

\* A process whose memory holds nothing relies on the entry in Redis, once it
\* has let a request through.
Serving(p) == \E t \in Times : allowed[p][t] > 0
Relying(p) == mem[p] = None /\ Serving(p)

\* The memory of the process answers, or Redis is asked.
Read(c) ==
    /\ at[c] = "new"
    /\ \E p \in Processes :
        /\ proc' = [proc EXCEPT ![c] = p]
        /\ got' = [got EXCEPT ![c] = [entry |-> mem[p], now |-> clock]]
        /\ raced' = IF \E d \in Calls : Busy(d) /\ proc[d] = p THEN raced \cup {p} ELSE raced
        /\ Go(c, IF mem[p] = None THEN "fetch" ELSE "decide")
    /\ UNCHANGED <<clock, mem, red, allowed, lost>>

\* What Redis answers is kept in memory; without a connection it is a miss.
Fetch(c) ==
    /\ at[c] = "fetch"
    /\ \/ /\ got' = [got EXCEPT ![c].entry = red]
          /\ mem' = IF red = None THEN mem ELSE [mem EXCEPT ![proc[c]] = red]
          /\ UNCHANGED lost
       \/ /\ lost' = IF Serving(proc[c]) THEN lost \cup {proc[c]} ELSE lost
          /\ UNCHANGED <<got, mem>>
    /\ Go(c, "decide") /\ UNCHANGED <<clock, red, proc, allowed, raced>>

\* Mutant: one request too many.
SpentPlus(e) == e.count > Limit
Spent(e) == e.count >= Limit

\* What is written back: a new window, or the old one with one more.
Counted(g) == IF g.entry = None \/ g.entry.reset < g.now THEN [count |-> 1, reset |-> g.now + Ttl]
            ELSE [g.entry EXCEPT !.count = @ + 1]
Refused(g) == g.entry # None /\ g.entry.reset >= g.now /\ Spent(g.entry)

Decide(c) ==
    /\ at[c] = "decide"
    /\ IF Refused(got[c]) THEN Go(c, "done") /\ UNCHANGED <<mem, got, allowed>>
       ELSE LET e == Counted(got[c]) IN
            /\ mem' = [mem EXCEPT ![proc[c]] = e] /\ got' = [got EXCEPT ![c].entry = e]
            /\ allowed' = [allowed EXCEPT ![proc[c]][e.reset] = @ + 1]
            /\ Go(c, "store")
    /\ UNCHANGED <<clock, red, proc, raced, lost>>

\* Whoever else changes the entry in Redis takes it from those who rely on it.
Taken(P) == lost' = lost \cup {p \in P : Relying(p)}

\* The write to Redis, which fails without a word.
Store(c) ==
    /\ at[c] = "store"
    /\ \/ red' = got[c].entry /\ Taken(Processes \ {proc[c]})
       \/ UNCHANGED <<red, lost>>
    /\ Go(c, "done") /\ UNCHANGED <<clock, mem, proc, got, allowed, raced>>

\* resetRateLimit, in one of the processes: the memories of the others stay.
Reset(p) ==
    /\ mem' = [mem EXCEPT ![p] = None] /\ red' = None /\ raced' = raced \cup {p}
    /\ Taken(Processes) /\ UNCHANGED <<clock, proc, at, got, allowed>>

\* What a memory drops is still in Redis, if nobody wrote it meanwhile.
Evict(p) ==
    /\ mem[p] # None
    /\ mem' = [mem EXCEPT ![p] = None]
    /\ lost' = IF red = mem[p] THEN lost ELSE lost \cup {p}
    /\ UNCHANGED <<clock, red, proc, at, got, allowed, raced>>

Expire ==
    /\ red # None
    /\ red' = None /\ Taken(Processes) /\ UNCHANGED <<clock, mem, proc, at, got, allowed, raced>>

Tick == clock < MaxTime /\ clock' = clock + 1 /\ UNCHANGED <<mem, red, proc, at, got, allowed, raced, lost>>

Init ==
    /\ clock = 0 /\ mem = [p \in Processes |-> None] /\ red = None
    /\ proc = [c \in Calls |-> None] /\ at = [c \in Calls |-> "new"] /\ got = [c \in Calls |-> None]
    /\ allowed = [p \in Processes |-> [t \in Times |-> 0]] /\ raced = {} /\ lost = {}
Next ==
    \/ \E c \in Calls : Read(c) \/ Fetch(c) \/ Decide(c) \/ Store(c)
    \/ \E p \in Processes : Reset(p) \/ Evict(p)
    \/ Expire \/ Tick
Spec == Init /\ [][Next]_vars

-----------------------------------------------------------------------------
Got == [entry: Entry \cup {None}, now: 0 .. MaxTime]
TypeOK ==
    /\ clock \in 0 .. MaxTime /\ mem \in [Processes -> Entry \cup {None}] /\ red \in Entry \cup {None}
    /\ proc \in [Calls -> Processes \cup {None}]
    /\ at \in [Calls -> {"new", "fetch", "decide", "store", "done"}]
    /\ got \in [Calls -> Got \cup {None}]
    /\ allowed \in [Processes -> [Times -> Nat]] /\ raced \subseteq Processes /\ lost \subseteq Processes

\* Of the requests of one window a process lets Limit through at most, whatever
\* the others write to Redis, unless it checked two at once or its counter was lost:
\* its memory dropped it while Redis held another, or none.  All the processes
\* together let Limit through each.
RateHeld == \A p \in Processes \ (raced \cup lost) : \A t \in Times : allowed[p][t] <= Limit
=============================================================================
