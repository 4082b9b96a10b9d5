------------------------------ MODULE Caching ------------------------------
(***************************************************************************)
(* One key of the two-tier cache: CacheService and MemoryCacheService      *)
(* (common/cache), as its callers use them.  Each process of the API has a *)
(* memory of its own over one Redis; the value is a version of what the    *)
(* database holds.                                                         *)
(***************************************************************************)
EXTENDS Naturals, FiniteSets

CONSTANTS Processes, Calls,
          None \* no entry

\* get and set; getOrSet; a write with del; a write with delPattern; and the
\* administrator's clear.
Kinds == {"read", "getOrSet", "write", "writePattern", "clear"}
Writers == {"write", "writePattern"}
CachingAssumption == Processes # {} /\ None \notin Nat

VARIABLES
    db,      \* the version in the database
    mem,     \* per process, the version its memory holds, or None
    red,     \* the version Redis holds, or None
    up,      \* per process, isRedisConnected
    job, at, \* per request, its kind and process, and the statement it awaits
    got,     \* per request, the version it has read
    overlap, \* history: a read and a write of the key ran at once
    away,    \* history: a write found an entry in another process's memory
    cut      \* history: a write was cut off, by a crash or from Redis

tiers == <<db, mem, red>>
history == <<overlap, away, cut>>
vars == <<tiers, up, job, at, got, history>>

Busy(c) == at[c] \notin {"new", "done"}
Goto(c, to) == at' = [at EXCEPT ![c] = to] /\ UNCHANGED job
Go(c, to) == Goto(c, to) /\ UNCHANGED got
Stored == [p \in Processes |-> mem[p]]
Proc(c) == job[c].proc
Connected(c) == up[Proc(c)]

Start(c) ==
    /\ at[c] = "new"
    /\ \E k \in Kinds, p \in Processes :
        LET clash(d) == Busy(d) /\ (k \in Writers) # (job[d].kind \in Writers) IN
        /\ job' = [job EXCEPT ![c] = [kind |-> k, proc |-> p]]
        /\ at' = [at EXCEPT ![c] = IF k \in Writers THEN "write" ELSE IF k = "clear" THEN "forget" ELSE "memory"]
        /\ overlap' = (overlap \/ \E d \in Calls : clash(d))
    /\ UNCHANGED <<tiers, up, got, away, cut>>

-----------------------------------------------------------------------------
\* getOrSet does not look at the memory either without Redis; get does.
Memory(c) ==
    /\ at[c] = "memory"
    /\ Go(c, IF job[c].kind = "getOrSet" /\ ~Connected(c) THEN "fetch"
             ELSE IF mem[Proc(c)] # None THEN "done"
             ELSE IF Connected(c) THEN "redis" ELSE "fetch")
    /\ UNCHANGED <<tiers, up, history>>

\* A command that fails is a miss.
Redis(c) ==
    /\ at[c] = "redis"
    /\ IF red # None /\ Connected(c) THEN got' = [got EXCEPT ![c] = red] /\ Goto(c, "promote") ELSE Go(c, "fetch")
    /\ UNCHANGED <<tiers, up, history>>

\* What Redis held is put in the memory, for five minutes from its last use.
Promote(c) ==
    /\ at[c] = "promote"
    /\ mem' = [mem EXCEPT ![Proc(c)] = got[c]]
    /\ Go(c, "done") /\ UNCHANGED <<db, red, up, history>>

Fetch(c) ==
    /\ at[c] = "fetch"
    /\ got' = [got EXCEPT ![c] = db]
    /\ Goto(c, "fill") /\ UNCHANGED <<tiers, up, history>>

Fill(c) ==
    /\ at[c] = "fill"
    /\ IF job[c].kind = "getOrSet" /\ ~Connected(c) THEN Go(c, "done") /\ UNCHANGED mem
       ELSE mem' = [mem EXCEPT ![Proc(c)] = got[c]] /\ Go(c, IF Connected(c) THEN "setex" ELSE "done")
    /\ UNCHANGED <<db, red, up, history>>

Setex(c) ==
    /\ at[c] = "setex"
    /\ red' = IF Connected(c) THEN got[c] ELSE red
    /\ Go(c, "done") /\ UNCHANGED <<db, mem, up, history>>

-----------------------------------------------------------------------------
Write(c) ==
    /\ at[c] = "write"
    /\ db' = db + 1
    /\ away' = (away \/ \E p \in Processes \ {Proc(c)} : mem[p] # None)
    /\ Go(c, "forget") /\ UNCHANGED <<mem, red, up, overlap, cut>>

\* Mutant: a write leaves the memory as it is.
ForgottenNot(c) == IF job[c].kind = "write" THEN Stored ELSE [mem EXCEPT ![Proc(c)] = None]
Forgotten(c) == [mem EXCEPT ![Proc(c)] = None]

\* The memory first; without Redis that is all.
Forget(c) ==
    /\ at[c] = "forget"
    /\ mem' = Forgotten(c)
    /\ Go(c, IF ~Connected(c) THEN "done" ELSE IF job[c].kind = "write" THEN "del" ELSE "keys")
    /\ cut' = (cut \/ ~Connected(c)) /\ UNCHANGED <<db, red, up, overlap, away>>

\* delPattern deletes the keys it has listed.
ListKeys(c) ==
    /\ at[c] = "keys"
    /\ Go(c, IF Connected(c) /\ red # None THEN "del" ELSE "done")
    /\ cut' = (cut \/ ~Connected(c)) /\ UNCHANGED <<tiers, up, overlap, away>>

Del(c) ==
    /\ at[c] = "del"
    /\ red' = IF Connected(c) THEN None ELSE red
    /\ cut' = (cut \/ ~Connected(c))
    /\ Go(c, "done") /\ UNCHANGED <<db, mem, up, overlap, away>>

-----------------------------------------------------------------------------
\* Redis comes and goes; entries expire; a process restarts with an empty memory.
Connection(p) == up' = [up EXCEPT ![p] = ~@] /\ UNCHANGED <<tiers, job, at, got, history>>
ExpireMemory(p) == mem[p] # None /\ mem' = [mem EXCEPT ![p] = None] /\ UNCHANGED <<db, red, up, job, at, got, history>>
ExpireRedis == red # None /\ red' = None /\ UNCHANGED <<db, mem, up, job, at, got, history>>

Restart(p) ==
    /\ mem' = [mem EXCEPT ![p] = None]
    /\ at' = [c \in Calls |-> IF Busy(c) /\ Proc(c) = p THEN "done" ELSE at[c]]
    /\ cut' = (cut \/ \E c \in Calls : Busy(c) /\ Proc(c) = p /\ job[c].kind \in Writers /\ at[c] # "write")
    /\ UNCHANGED <<db, red, up, job, got, overlap, away>>

Init ==
    /\ db = 0 /\ mem = [p \in Processes |-> None] /\ red \in {None, 0} /\ up \in [Processes -> BOOLEAN]
    /\ job = [c \in Calls |-> None] /\ at = [c \in Calls |-> "new"] /\ got = [c \in Calls |-> None]
    /\ overlap = FALSE /\ away = FALSE /\ cut = FALSE

Next ==
    \/ \E c \in Calls : \/ Start(c) \/ Memory(c) \/ Redis(c) \/ Promote(c) \/ Fetch(c) \/ Fill(c) \/ Setex(c)
                        \/ Write(c) \/ Forget(c) \/ ListKeys(c) \/ Del(c)
    \/ \E p \in Processes : Connection(p) \/ ExpireMemory(p) \/ Restart(p)
    \/ ExpireRedis
Spec == Init /\ [][Next]_vars

-----------------------------------------------------------------------------
Steps == {"new", "done", "memory", "redis", "promote", "fetch", "fill", "setex", "write", "forget", "keys", "del"}

TypeOK ==
    /\ db \in Nat /\ mem \in [Processes -> Nat \cup {None}] /\ red \in Nat \cup {None} /\ up \in [Processes -> BOOLEAN]
    /\ job \in [Calls -> [kind: Kinds, proc: Processes] \cup {None}] /\ at \in [Calls -> Steps]
    /\ got \in [Calls -> Nat \cup {None}]

\* Between writes no tier holds an old version, unless a read ran along a write,
\* a write was cut off, or another process had the entry in its memory.
CacheFresh ==
    ~overlap /\ ~away /\ ~cut /\ ~(\E c \in Calls : Busy(c) /\ job[c].kind \in Writers)
        => red \in {None, db} /\ \A p \in Processes : mem[p] \in {None, db}
=============================================================================
