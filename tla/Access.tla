------------------------------- MODULE Access -------------------------------
(***************************************************************************)
(* The components that admit a request, side by side: accounts, sessions,  *)
(* the cache, the rate limiter and the warm-up.  One runs in each          *)
(* behaviour; the variables two of them name alike are one.                *)
(***************************************************************************)
EXTENDS Naturals, Sequences, FiniteSets, TLC

CONSTANTS
    Calls,      \* requests to the accounts, the sessions and the limiter
    CacheCalls, \* requests to the cache
    Runs,       \* of the warm-up
    Processes,
    MaxAttempts, Limit, Ttl, MaxTime, MaxRetries, MaxWrites,
    First, None

VARIABLES
    mode, \* the component that runs
    associate, codes, job, at, got, spent, twice, guessed, rushed, two, refresh, minted, temp, black, blocked,
    cached, read, used, raced, late, db, mem, red, up, overlap, away, cut, clock, allowed, lost, lock,
    trace, status, proc, tries, warm, lapsed, orphans

Account == INSTANCE Accounts
Login == INSTANCE Sessions
Cache == INSTANCE Caching WITH Calls <- CacheCalls
Rate == INSTANCE RateLimit
Warm == INSTANCE Warming

OffAccount == <<mode, two, refresh, minted, temp, black, blocked, cached, read, used, raced, late, db, mem, red, up, overlap,
    away, cut, clock, allowed, lost, lock, trace, status, proc, tries, warm, lapsed, orphans>>
OffLogin == <<mode, associate, codes, got, spent, guessed, rushed, db, mem, red, up, overlap, away, cut, clock,
    allowed, lost, lock, trace, status, proc, tries, warm, lapsed, orphans>>
OffCache == <<mode, associate, codes, spent, twice, guessed, rushed, two, refresh, minted, temp, black, blocked, cached,
    read, used, raced, late, clock, allowed, lost, lock, trace, status, proc, tries, warm, lapsed, orphans>>
OffRate == <<mode, associate, codes, job, spent, twice, guessed, rushed, two, refresh, minted, temp, black, blocked,
    cached, read, used, late, db, up, overlap, away, cut, lock, trace, status, tries, warm,
    lapsed, orphans>>
OffWarm == <<mode, associate, codes, job, got, spent, twice, guessed, rushed, two, refresh, minted, temp, black, blocked,
    cached, read, used, raced, mem, red, up, overlap, away, cut, clock, allowed, lost>>

Init ==
    \/ /\ mode = "Account" /\ Account!Init
       /\ two = None /\ refresh = None /\ minted = None /\ temp = None /\ black = None /\ blocked = None /\ cached = None /\ read = None /\ used = None
       /\ raced = None /\ late = None /\ db = None /\ mem = None /\ red = None /\ up = None /\ overlap = None /\ away = None /\ cut = None
       /\ clock = None /\ allowed = None /\ lost = None /\ lock = None /\ trace = None /\ status = None /\ proc = None /\ tries = None
       /\ warm = None /\ lapsed = None /\ orphans = None
    \/ /\ mode = "Login" /\ Login!Init
       /\ associate = None /\ codes = None /\ got = None /\ spent = None /\ guessed = None /\ rushed = None /\ db = None /\ mem = None /\ red = None
       /\ up = None /\ overlap = None /\ away = None /\ cut = None /\ clock = None /\ allowed = None /\ lost = None /\ lock = None
       /\ trace = None /\ status = None /\ proc = None /\ tries = None /\ warm = None /\ lapsed = None /\ orphans = None
    \/ /\ mode = "Cache" /\ Cache!Init
       /\ associate = None /\ codes = None /\ spent = None /\ twice = None /\ guessed = None /\ rushed = None /\ two = None /\ refresh = None /\ minted = None
       /\ temp = None /\ black = None /\ blocked = None /\ cached = None /\ read = None /\ used = None /\ raced = None /\ late = None /\ clock = None
       /\ allowed = None /\ lost = None /\ lock = None /\ trace = None /\ status = None /\ proc = None /\ tries = None /\ warm = None
       /\ lapsed = None /\ orphans = None
    \/ /\ mode = "Rate" /\ Rate!Init
       /\ associate = None /\ codes = None /\ job = None /\ spent = None /\ twice = None /\ guessed = None /\ rushed = None /\ two = None /\ refresh = None
       /\ minted = None /\ temp = None /\ black = None /\ blocked = None /\ cached = None /\ read = None /\ used = None /\ late = None /\ db = None
       /\ up = None /\ overlap = None /\ away = None /\ cut = None /\ lock = None /\ trace = None /\ status = None
       /\ tries = None /\ warm = None /\ lapsed = None /\ orphans = None
    \/ /\ mode = "Warm" /\ Warm!Init
       /\ associate = None /\ codes = None /\ job = None /\ got = None /\ spent = None /\ twice = None /\ guessed = None /\ rushed = None /\ two = None
       /\ refresh = None /\ minted = None /\ temp = None /\ black = None /\ blocked = None /\ cached = None /\ read = None /\ used = None /\ raced = None
       /\ mem = None /\ red = None /\ up = None /\ overlap = None /\ away = None /\ cut = None /\ clock = None /\ allowed = None
       /\ lost = None

Next ==
    \/ mode = "Account" /\ Account!Next /\ UNCHANGED OffAccount
    \/ mode = "Login" /\ Login!Next /\ UNCHANGED OffLogin
    \/ mode = "Cache" /\ Cache!Next /\ UNCHANGED OffCache
    \/ mode = "Rate" /\ Rate!Next /\ UNCHANGED OffRate
    \/ mode = "Warm" /\ Warm!Next /\ UNCHANGED OffWarm

vars == <<mode, associate, codes, job, at, got, spent, twice, guessed, rushed, two, refresh, minted, temp, black,
          blocked, cached, read, used, raced, late, db, mem, red, up, overlap, away, cut, clock, allowed, lost,
          lock, trace, status, proc, tries, warm, lapsed, orphans>>
Spec == Init /\ [][Next]_vars

ASSUME AccessAssumption ==
    /\ Account!AccountsAssumption /\ Login!SessionsAssumption /\ Cache!CachingAssumption
    /\ Rate!RateLimitAssumption /\ Warm!WarmingAssumption

TypeOK ==
    /\ mode = "Account" => Account!TypeOK
    /\ mode = "Login" => Login!TypeOK
    /\ mode = "Cache" => Cache!TypeOK
    /\ mode = "Rate" => Rate!TypeOK
    /\ mode = "Warm" => Warm!TypeOK

\* A refresh token, a backup code and a verification code serve once, a code is
\* guessed a bounded number of times, and an address has one owner (token.service.ts,
\* two-factor.service.ts, verification.service.ts, registration.service.ts).
SecretsSpentOnce ==
    /\ mode = "Login" => Login!TokensSpentOnce
    /\ mode = "Account" => Account!CodesBounded /\ Account!OneOwner

\* What the caches hold is what the database says: an entry of CacheService, and
\* the validation of an access token (cache.service.ts, jwt.strategy.ts).
CachesTell ==
    /\ mode = "Cache" => Cache!CacheFresh
    /\ mode = "Login" => Login!RevokedIsOut

\* A window lets its limit of requests through, and one run of the warm-up works
\* at a time and leaves no lock (user-rate-limit.service.ts, cache-warming.service.ts).
GatesHold ==
    /\ mode = "Rate" => Rate!RateHeld
    /\ mode = "Warm" => Warm!WarmersExclusive /\ Warm!NoLockLeft
======================================================================
