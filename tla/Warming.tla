------------------------------ MODULE Warming ------------------------------
(***************************************************************************)
(* The cache warm-up: CacheWarmingService (common/cache).  Runs of several *)
(* processes exclude each other with a lock in Redis that expires; a run   *)
(* knows its lock by traceId, a field all the runs of its process share.   *)
(* What is warmed is one key, a version of what the database holds.        *)
(***************************************************************************)
EXTENDS Naturals, FiniteSets

CONSTANTS Processes, Runs,
          MaxRetries, \* MAX_RETRIES
          MaxWrites,  \* bound of db
          None        \* no lock, no version

WarmingAssumption == MaxRetries \in Nat \ {0} /\ MaxWrites \in Nat /\ None \notin Runs \cup Nat

VARIABLES
    lock,   \* the trace of the holder, or None
    trace,  \* per process, its field traceId
    status, \* per process, warmUpStatus
    proc,   \* per run, its process, or None
    at,     \* per run, the statement it awaits
    tries,  \* per run, the attempts at the present step
    late,   \* versions read by attempts that have not stored them yet
    db, warm, \* the version in the database, and the one warmed, or None
    lapsed, \* history: a lock expired while its run went on
    orphans \* history: runs that died, that lost their name to another of their
            \* process, or whose commands to Redis failed

vars == <<lock, trace, status, proc, at, tries, late, db, warm, lapsed, orphans>>
data == <<late, db, warm>>
Running == {r \in Runs : at[r] \notin {"new", "acquire", "done"}}
Go(r, to) == at' = [at EXCEPT ![r] = to]

\* warmUpCache, by the timer, at the start or by the administrator, names its
\* run before it asks for the lock.
Begin(r) ==
    /\ at[r] = "new"
    /\ \E p \in Processes :
        /\ proc' = [proc EXCEPT ![r] = p] /\ trace' = [trace EXCEPT ![p] = r]
        /\ orphans' = orphans \cup {s \in Runs : at[s] \notin {"new", "done"} /\ proc[s] = p}
    /\ Go(r, "acquire") /\ UNCHANGED <<lock, status, tries, data, lapsed>>

\* Mutant: SET without NX.
FreeAlways == TRUE
FreeLock == lock = None

Acquire(r) ==
    /\ at[r] = "acquire"
    /\ IF FreeLock THEN /\ lock' = r /\ status' = [status EXCEPT ![proc[r]] = "running"] /\ Go(r, "connect")
       ELSE Go(r, "done") /\ UNCHANGED <<lock, status>>
    /\ tries' = [tries EXCEPT ![r] = 0] /\ UNCHANGED <<trace, proc, data, lapsed, orphans>>

\* The commands to Redis bypass CacheService, which swallows errors: one that
\* throws ends the run, done by Redis or not.
Fail(r) ==
    /\ at[r] \in {"acquire", "release", "delete"}
    /\ lock' \in {lock} \cup (IF at[r] = "acquire" /\ FreeLock THEN {r} ELSE IF at[r] = "delete" THEN {None} ELSE {})
    /\ orphans' = orphans \cup {r} /\ Go(r, "done")
    /\ UNCHANGED <<trace, status, proc, tries, data, lapsed>>

\* Mutant: the number of attempts tested before this one is counted.
LastTryPlus(r) == tries[r] = MaxRetries
LastTry(r) == tries[r] + 1 = MaxRetries

\* retryWithBackoff: an attempt that fails, or takes too long, is made again;
\* what took too long goes on.
Attempt(r, step, then, failed) ==
    /\ at[r] = step
    /\ \/ Go(r, then) /\ tries' = [tries EXCEPT ![r] = 0]
       \/ /\ tries' = [tries EXCEPT ![r] = @ + 1]
          /\ Go(r, IF LastTry(r) THEN failed ELSE step)
    /\ UNCHANGED <<lock, trace, proc, lapsed, orphans>>

Connect(r) ==
    /\ Attempt(r, "connect", "warm", "release")
    /\ status' = IF at'[r] = "release" THEN [status EXCEPT ![proc[r]] = "failed"] ELSE status
    /\ UNCHANGED data

\* Each attempt reads, and stores what it has read some time later; a failure
\* of the warming itself is only logged.
Warm(r) ==
    /\ Attempt(r, "warm", "release", "release")
    /\ late' = late \cup {db}
    /\ status' = IF at'[r] = "release" THEN [status EXCEPT ![proc[r]] = "completed"] ELSE status
    /\ UNCHANGED <<db, warm>>

Store(v) ==
    /\ v \in late
    /\ warm' = v /\ late' = late \ {v}
    /\ UNCHANGED <<lock, trace, status, proc, at, tries, db, lapsed, orphans>>

\* finally: the lock is compared with the field, and deleted by a later statement.
Compare(r) ==
    /\ at[r] = "release"
    /\ Go(r, IF lock # None /\ lock = trace[proc[r]] THEN "delete" ELSE "done")
    /\ UNCHANGED <<lock, trace, status, proc, tries, data, lapsed, orphans>>

Delete(r) ==
    /\ at[r] = "delete"
    /\ lock' = None
    /\ Go(r, "done") /\ UNCHANGED <<trace, status, proc, tries, data, lapsed, orphans>>

\* After WARMUP_LOCK_TTL the lock goes, whatever its run does.
Expire ==
    /\ lock # None
    /\ lock' = None /\ lapsed' = (lapsed \/ Running # {})
    /\ UNCHANGED <<trace, status, proc, at, tries, data, orphans>>

\* The process of a run restarts.
Die(p) ==
    /\ \E r \in Running : proc[r] = p
    /\ at' = [r \in Runs |-> IF proc[r] = p THEN "done" ELSE at[r]]
    /\ trace' = [trace EXCEPT ![p] = None] /\ status' = [status EXCEPT ![p] = "idle"]
    /\ orphans' = orphans \cup {r \in Running : proc[r] = p}
    /\ UNCHANGED <<lock, proc, tries, data, lapsed>>

Write == db < MaxWrites /\ db' = db + 1 /\ UNCHANGED <<lock, trace, status, proc, at, tries, late, warm, lapsed, orphans>>

Init ==
    /\ lock = None /\ trace = [p \in Processes |-> None] /\ status = [p \in Processes |-> "idle"]
    /\ proc = [r \in Runs |-> None] /\ at = [r \in Runs |-> "new"] /\ tries = [r \in Runs |-> 0]
    /\ late = {} /\ db = 0 /\ warm = None /\ lapsed = FALSE /\ orphans = {}

Next ==
    \/ \E r \in Runs : Begin(r) \/ Acquire(r) \/ Fail(r) \/ Connect(r) \/ Warm(r) \/ Compare(r) \/ Delete(r)
    \/ \E v \in late : Store(v)
    \/ \E p \in Processes : Die(p)
    \/ Expire \/ Write
Spec == Init /\ [][Next]_vars

-----------------------------------------------------------------------------
TypeOK ==
    /\ lock \in Runs \cup {None} /\ trace \in [Processes -> Runs \cup {None}]
    /\ status \in [Processes -> {"idle", "running", "completed", "failed"}] /\ proc \in [Runs -> Processes \cup {None}]
    /\ at \in [Runs -> {"new", "acquire", "connect", "warm", "release", "delete", "done"}]
    /\ tries \in [Runs -> 0 .. MaxRetries] /\ late \subseteq 0 .. db /\ db \in 0 .. MaxWrites /\ warm \in 0 .. db \cup {None}

\* One run warms the cache at a time, in all the processes, unless the lock
\* expired under a run.
WarmersExclusive == ~lapsed => Cardinality(Running) <= 1

\* No lock is left behind by a run that has ended, but one that died, that lost its
\* name to another run of its process, or whose commands to Redis failed.
NoLockLeft == lock \notin Running \cup {None} => lock \in orphans
=============================================================================
