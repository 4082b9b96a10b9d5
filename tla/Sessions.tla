------------------------------ MODULE Sessions ------------------------------
(***************************************************************************)
(* The sessions of one account: LoginService, TokenService,                *)
(* TwoFactorService, AuthService (auth) and the JWT strategy that admits   *)
(* requests, with its cache of validated tokens.  A token is named by the  *)
(* request that issued it; each awaited statement is a step.               *)
(***************************************************************************)
EXTENDS Naturals, FiniteSets

CONSTANTS Calls,
          First, \* the issuer of what exists at the start
          None

Issuers == Calls \cup {First}
Kinds == {"login", "second", "refresh", "logout", "fetch", "setup", "enable", "disable", "block"}
TouchCodes == {"second", "enable", "disable"}
SessionsAssumption == First \notin Calls /\ None \notin Issuers

VARIABLES
    two,     \* the res_two_factor row: enabled, and issuers of the backup codes left; or None
    refresh, \* per issuer, the refresh token: "none", "live" or "over"
    minted,  \* issuers of access tokens
    temp,    \* issuers of tokens that ask for the second factor
    black,   \* blacklisted access tokens
    blocked, \* is_blocked
    cached,  \* access tokens whose validation the memory cache holds
    job, at, \* per request, what it asks and the statement it awaits
    read,    \* per request, the backup codes it has read
    used, twice, \* history: tokens and codes exchanged, and whether one was again
    raced,   \* history: two requests used one token, or changed the backup codes, at once
    late     \* history: access tokens revoked while their validation was cached or on its way

account == <<two, refresh, minted, temp, black, blocked, cached>>
history == <<used, twice, raced, late>>
vars == <<account, job, at, read, history>>

Busy(c) == at[c] \notin {"new", "done"}
Goto(c, to) == at' = [at EXCEPT ![c] = to] /\ UNCHANGED job
Go(c, to) == Goto(c, to) /\ UNCHANGED read
Enabled == two # None /\ two.enabled
Spend(s) == used' = used \cup {s} /\ twice' = (twice \/ s \in used)

\* The tokens a client of each kind has been handed.
Held == [login |-> {None}, second |-> temp, refresh |-> {t \in Issuers : refresh[t] # "none"}, logout |-> minted,
         fetch |-> minted, setup |-> minted, enable |-> minted, disable |-> minted, block |-> {None}]
\* A backup code somebody may hold, or None for a one-time password.
Codes == {None, First} \cup {c \in Calls : job[c] # None /\ job[c].kind = "enable" /\ at[c] = "done"}
Entry == [login |-> "credentials", second |-> "record", refresh |-> "resolve", logout |-> "blacklist", fetch |-> "cache",
          setup |-> "secret", enable |-> "record", disable |-> "record", block |-> "block"]

Start(c) ==
    /\ at[c] = "new"
    /\ \E k \in Kinds : \E t \in Held[k] : \E b \in IF k = "second" THEN Codes ELSE {None} :
        LET rivals == {job[d] : d \in {e \in Calls : Busy(e)}} IN
        /\ job' = [job EXCEPT ![c] = [kind |-> k, token |-> t, code |-> b]] /\ at' = [at EXCEPT ![c] = Entry[k]]
        /\ raced' = (raced \/ \E r \in rivals : \/ k = "refresh" /\ r.kind = "refresh" /\ r.token = t
                                                \/ k \in TouchCodes /\ r.kind \in TouchCodes)
    /\ UNCHANGED <<account, read, used, twice, late>>

-----------------------------------------------------------------------------
\* A wrong password or an unverified contact ends the request.
Credentials(c) ==
    /\ at[c] = "credentials"
    /\ \/ Go(c, "done") /\ UNCHANGED temp
       \/ IF Enabled THEN temp' = temp \cup {c} /\ Go(c, "done") ELSE Go(c, "session") /\ UNCHANGED temp
    /\ UNCHANGED <<two, refresh, minted, black, blocked, cached, history>>

\* Only a code still listed passes; a one-time password is right or wrong.
AfterRecord(r) ==
    CASE r.kind = "second" -> IF ~Enabled \/ (r.code # None /\ r.code \notin two.codes) THEN "done"
                              ELSE IF r.code = None THEN "session" ELSE "consume"
      [] r.kind = "enable" -> IF two = None THEN "done" ELSE "turn on"
      [] r.kind = "disable" -> IF Enabled THEN "turn off" ELSE "done"

Record(c) ==
    /\ at[c] = "record"
    /\ read' = [read EXCEPT ![c] = IF two = None THEN {} ELSE two.codes]
    /\ Goto(c, AfterRecord(job[c])) \/ Goto(c, "done")
    /\ UNCHANGED <<account, history>>

\* Mutant: the code stays in the list.
LeftAll(c) == read[c]
\* consumeBackupCode writes back the list it has read without the code.
Left(c) == read[c] \ {job[c].code}

Consume(c) ==
    /\ at[c] = "consume"
    /\ two' = [two EXCEPT !.codes = Left(c)]
    /\ Spend(<<"code", job[c].code>>) /\ Go(c, "session")
    /\ UNCHANGED <<refresh, minted, temp, black, blocked, cached, raced, late>>

Session(c) ==
    /\ at[c] = "session"
    /\ refresh' = [refresh EXCEPT ![c] = "live"] /\ minted' = minted \cup {c}
    /\ Go(c, "done") /\ UNCHANGED <<two, temp, black, blocked, cached, history>>

\* A new secret turns the second factor off, without asking for a code.
Secret(c) ==
    /\ at[c] = "secret"
    /\ two' = [enabled |-> FALSE, codes |-> IF two = None THEN {} ELSE two.codes]
    /\ Go(c, "done") /\ UNCHANGED <<refresh, minted, temp, black, blocked, cached, history>>

Turn(c) ==
    /\ at[c] \in {"turn on", "turn off"}
    /\ two' = IF at[c] = "turn on" THEN [enabled |-> TRUE, codes |-> {c}] ELSE [enabled |-> FALSE, codes |-> {}]
    /\ Go(c, "done") /\ UNCHANGED <<refresh, minted, temp, black, blocked, cached, history>>

-----------------------------------------------------------------------------
\* refreshTokens and logout take a live token of this account.
Resolve(c) ==
    /\ at[c] = "resolve"
    /\ IF job[c].kind = "refresh" THEN Go(c, IF refresh[job[c].token] = "live" THEN "issue" ELSE "done")
       ELSE Go(c, IF refresh[job[c].token] = "live" THEN "revoke" ELSE "done")
    /\ UNCHANGED <<account, history>>

\* The new token is created before the old one is revoked.
Issue(c) ==
    /\ at[c] = "issue"
    /\ refresh' = [refresh EXCEPT ![c] = "live"]
    /\ Go(c, "rotate") /\ UNCHANGED <<two, minted, temp, black, blocked, cached, history>>

Rotate(c) ==
    /\ at[c] = "rotate"
    /\ refresh' = [refresh EXCEPT ![job[c].token] = "over"] /\ minted' = minted \cup {c}
    /\ Spend(<<"token", job[c].token>>) /\ Go(c, "done")
    /\ UNCHANGED <<two, temp, black, blocked, cached, raced, late>>

\* The process dies between the two: the old token can be used again.
Crash(c) == at[c] = "rotate" /\ Go(c, "done") /\ UNCHANGED <<account, history>>

Revoke(c) ==
    /\ at[c] = "revoke"
    /\ refresh' = [refresh EXCEPT ![job[c].token] = "over"]
    /\ Go(c, "done") /\ UNCHANGED <<two, minted, temp, black, blocked, cached, history>>

Expire(t) ==
    /\ refresh[t] = "live"
    /\ refresh' = [refresh EXCEPT ![t] = "over"]
    /\ UNCHANGED <<two, minted, temp, black, blocked, cached, job, at, read, history>>

-----------------------------------------------------------------------------
\* What is cached, or about to be, when tokens are revoked.
Overtaken(ts) == late' = late \cup {t \in ts : t \in cached \/ \E d \in Calls : at[d] = "store" /\ job[d].token = t}

\* The memory cache is not told of a logout, nor of a block.
Blacklist(c) ==
    /\ at[c] = "blacklist"
    /\ black' = black \cup {job[c].token} /\ Overtaken({job[c].token})
    /\ Go(c, IF refresh[job[c].token] # "none" THEN "resolve" ELSE "done")
    /\ UNCHANGED <<two, refresh, minted, temp, blocked, cached, used, twice, raced>>

Block(c) ==
    /\ at[c] = "block"
    /\ blocked' \in BOOLEAN /\ IF blocked' THEN Overtaken(minted) ELSE UNCHANGED late
    /\ Go(c, "done") /\ UNCHANGED <<two, refresh, minted, temp, black, cached, used, twice, raced>>

\* validate: a cached validation admits at once.
Cache(c) ==
    /\ at[c] = "cache"
    /\ Go(c, IF job[c].token \in cached THEN "done" ELSE "lookup")
    /\ UNCHANGED <<account, history>>

Lookup(c) ==
    /\ at[c] = "lookup"
    /\ Go(c, IF job[c].token \in black \/ blocked THEN "done" ELSE "store")
    /\ UNCHANGED <<account, history>>

Store(c) ==
    /\ at[c] = "store"
    /\ cached' = cached \cup {job[c].token}
    /\ Go(c, "done") /\ UNCHANGED <<two, refresh, minted, temp, black, blocked, history>>

\* A minute without a request, or the least recent of a thousand.
Evict(t) ==
    /\ t \in cached
    /\ cached' = cached \ {t}
    /\ UNCHANGED <<two, refresh, minted, temp, black, blocked, job, at, read, history>>

-----------------------------------------------------------------------------
Handle(c) ==
    \/ Start(c) \/ Credentials(c) \/ Record(c) \/ Consume(c) \/ Session(c) \/ Secret(c) \/ Turn(c) \/ Resolve(c)
    \/ Issue(c) \/ Rotate(c) \/ Crash(c) \/ Revoke(c) \/ Blacklist(c) \/ Block(c) \/ Cache(c) \/ Lookup(c) \/ Store(c)

\* One session, with a second factor or without.
Init ==
    /\ two \in {None, [enabled |-> TRUE, codes |-> {First}]}
    /\ refresh = [t \in Issuers |-> IF t = First THEN "live" ELSE "none"] /\ minted = {First}
    /\ temp = {} /\ black = {} /\ blocked = FALSE /\ cached = {}
    /\ job = [c \in Calls |-> None] /\ at = [c \in Calls |-> "new"] /\ read = [c \in Calls |-> {}]
    /\ used = {} /\ twice = FALSE /\ raced = FALSE /\ late = {}

Next == (\E c \in Calls : Handle(c)) \/ (\E t \in Issuers : Expire(t) \/ Evict(t))
Spec == Init /\ [][Next]_vars

-----------------------------------------------------------------------------
Steps == {"new", "done", "credentials", "session", "record", "consume", "secret", "turn on", "turn off", "resolve", "issue",
          "rotate", "revoke", "blacklist", "block", "cache", "lookup", "store"}

TypeOK ==
    /\ two \in [enabled: BOOLEAN, codes: SUBSET Issuers] \cup {None}
    /\ refresh \in [Issuers -> {"none", "live", "over"}] /\ minted \subseteq Issuers /\ temp \subseteq Calls
    /\ black \subseteq minted /\ cached \subseteq minted /\ blocked \in BOOLEAN
    /\ job \in [Calls -> [kind: Kinds, token: Issuers \cup {None}, code: Issuers \cup {None}] \cup {None}]
    /\ at \in [Calls -> Steps] /\ read \in [Calls -> SUBSET Issuers]

\* No refresh token and no backup code is exchanged twice, unless two requests
\* had it, or the list of codes, in hand at once.
TokensSpentOnce == twice => raced

\* A token revoked by a logout or a block is not in the cache that admits
\* requests, unless it was there, or on its way, when it was revoked.
RevokedIsOut == \A t \in cached : t \in black \/ blocked => t \in late
=============================================================================
