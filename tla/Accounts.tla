------------------------------ MODULE Accounts ------------------------------
(***************************************************************************)
(* The accounts of one e-mail address and one phone number, and the codes  *)
(* that prove somebody reads them: RegistrationService, OAuthService,      *)
(* EmailVerificationService, PasswordResetService and VerificationService  *)
(* (auth/services, auth/security).  A row is named by the request that     *)
(* created it.  No index makes an address unique.                          *)
(***************************************************************************)
EXTENDS Naturals, FiniteSets, Sequences

CONSTANTS Calls,
          MaxAttempts, \* maxAttempts of VerificationService
          None         \* no row

Targets == {"email", "phone"}
Providers == {"password", "phone", "google"}
Kinds == {"register", "oauth", "resend", "forgot", "otp", "verify", "reset", "phone"}
Target(k) == IF k \in {"otp", "phone"} THEN "phone" ELSE "email"
Spends == {"verify", "reset", "phone"}
Creates == {"register", "oauth", "phone"}
Rows == [user: Calls, provider: Providers, target: Targets, verified: BOOLEAN, hash: Calls \cup {None}]
AccountsAssumption == MaxAttempts \in Nat \ {0} /\ None \notin Calls /\ None \notin Rows /\ IsFiniteSet(Calls)

VARIABLES
    associate, \* per id, the res_associate row: user, provider, target, verified, hash; or None
    codes,     \* per target, the res_verification_code rows in order of creation
    job, at,   \* per request, its kind and the statement it awaits
    got,       \* per request, the row it has read: an associate's id, a code's index, or None
    spent,     \* history: codes accepted
    twice,     \* history: a code was accepted twice
    guessed,   \* history: two requests tried a code of one target at once
    rushed     \* history: two requests made an account for one address at once

rows == <<associate, codes>>
history == <<spent, twice, guessed, rushed>>
vars == <<rows, job, at, got, history>>

Busy(c) == at[c] \notin {"new", "done"}
Goto(c, to) == at' = [at EXCEPT ![c] = to] /\ UNCHANGED job
Go(c, to) == Goto(c, to) /\ UNCHANGED got
Ids == {i \in Calls : associate[i] # None}
Matching(t) == {i \in Ids : associate[i].target = t}
OfProvider(t, p) == {i \in Matching(t) : associate[i].provider = p}

\* findFirst: any of the rows, or none of an empty set.
Reads(c, S, found, missing) ==
    IF S = {} THEN got' = [got EXCEPT ![c] = None] /\ Goto(c, missing)
    ELSE \E i \in S : got' = [got EXCEPT ![c] = i] /\ Goto(c, found)

Entry == [register |-> "exists", oauth |-> "linked", resend |-> "account", forgot |-> "account", otp |-> "send",
          verify |-> "code", reset |-> "code", phone |-> "code"]

Start(c) ==
    /\ at[c] = "new"
    /\ \E k \in Kinds :
        LET rivals == {job[d] : d \in {e \in Calls : Busy(e)}} IN
        /\ job' = [job EXCEPT ![c] = k] /\ at' = [at EXCEPT ![c] = Entry[k]]
        /\ guessed' = (guessed \/ (k \in Spends /\ \E r \in rivals : r \in Spends /\ Target(r) = Target(k)))
        /\ rushed' = (rushed \/ (k \in Creates /\ \E r \in rivals : r \in Creates /\ Target(r) = Target(k)))
    /\ UNCHANGED <<rows, got, spent, twice>>

-----------------------------------------------------------------------------
Row(c, u, p, v) == [user |-> u, provider |-> p, target |-> Target(job[c]), verified |-> v, hash |-> IF p = "password" THEN c ELSE None]

Exists(c) ==
    /\ at[c] = "exists"
    /\ Reads(c, Matching("email"), "done", "create")
    /\ UNCHANGED <<rows, history>>

\* The row of the provider; else the user of an account with the same e-mail.
Linked(c) ==
    /\ at[c] = "linked"
    /\ Reads(c, OfProvider("email", "google"), "done", "same email")
    /\ UNCHANGED <<rows, history>>

SameEmail(c) ==
    /\ at[c] = "same email"
    /\ Reads(c, Matching("email"), "create", "create")
    /\ UNCHANGED <<rows, history>>

\* Mutant: the provider's account gets a user of its own.
OwnerNew(c) == c
Owner(c) == IF got[c] = None THEN c ELSE associate[got[c]].user

Create(c) ==
    /\ at[c] = "create"
    /\ associate' = [associate EXCEPT ![c] =
        CASE job[c] = "register" -> Row(c, c, "password", FALSE)
          [] job[c] = "oauth" -> Row(c, Owner(c), "google", TRUE)
          [] job[c] = "phone" -> Row(c, c, "phone", TRUE)]
    /\ Go(c, IF job[c] = "register" THEN "send" ELSE "done")
    /\ UNCHANGED <<codes, history>>

Account(c) ==
    /\ at[c] = "account"
    /\ Reads(c, IF job[c] = "forgot" THEN OfProvider("email", "password") ELSE Matching("email"), "send", "done")
    /\ UNCHANGED <<rows, history>>

\* A crash after the account was created sends no code.
Send(c) ==
    /\ at[c] = "send"
    /\ \/ codes' = [codes EXCEPT ![Target(job[c])] = Append(@, [attempts |-> 0, verified |-> FALSE, live |-> TRUE])]
       \/ UNCHANGED codes
    /\ Go(c, "done") /\ UNCHANGED <<associate, history>>

-----------------------------------------------------------------------------
\* Mutant: one attempt too many.
OpenLong(code) == ~code.verified /\ code.live /\ code.attempts <= MaxAttempts
Open(code) == ~code.verified /\ code.live /\ code.attempts < MaxAttempts

\* verifyCode looks at the latest code of the target, whatever it was sent for.
FindCode(c) ==
    /\ at[c] = "code"
    /\ LET t == Target(job[c]) IN
        IF codes[t] # <<>> /\ Open(codes[t][Len(codes[t])])
        THEN got' = [got EXCEPT ![c] = Len(codes[t])] /\ (Goto(c, "right") \/ Goto(c, "wrong"))
        ELSE Go(c, "done")
    /\ UNCHANGED <<rows, history>>

Wrong(c) ==
    /\ at[c] = "wrong"
    /\ codes' = [codes EXCEPT ![Target(job[c])][got[c]].attempts = @ + 1]
    /\ Go(c, "done") /\ UNCHANGED <<associate, history>>

Right(c) ==
    /\ at[c] = "right"
    /\ LET t == Target(job[c]) IN
        /\ codes' = [codes EXCEPT ![t][got[c]].verified = TRUE]
        /\ spent' = spent \cup {<<t, got[c]>>} /\ twice' = (twice \/ <<t, got[c]>> \in spent)
    /\ Go(c, "owner") /\ UNCHANGED <<associate, guessed, rushed>>

\* verifyPhoneOtp makes an account for a number that has none.
FindOwner(c) ==
    /\ at[c] = "owner"
    /\ Reads(c, IF job[c] = "reset" THEN OfProvider("email", "password") ELSE Matching(Target(job[c])), "update",
             IF job[c] = "phone" THEN "create" ELSE "done")
    /\ UNCHANGED <<rows, history>>

\* A weak password costs the code and changes nothing.
Update(c) ==
    /\ at[c] = "update"
    /\ IF job[c] = "reset" THEN associate' = [associate EXCEPT ![got[c]].hash = c] \/ UNCHANGED associate
       ELSE associate' = [associate EXCEPT ![got[c]].verified = TRUE]
    /\ Go(c, "done") /\ UNCHANGED <<codes, history>>

Expire(t, i) ==
    /\ i \in DOMAIN codes[t] /\ codes[t][i].live
    /\ codes' = [codes EXCEPT ![t][i].live = FALSE]
    /\ UNCHANGED <<associate, job, at, got, history>>

-----------------------------------------------------------------------------
Handle(c) ==
    \/ Start(c) \/ Exists(c) \/ Linked(c) \/ SameEmail(c) \/ Create(c) \/ Account(c) \/ Send(c)
    \/ FindCode(c) \/ Wrong(c) \/ Right(c) \/ FindOwner(c) \/ Update(c)

\* Nobody has registered; somebody may have been sent a code by telephone.
Init ==
    /\ associate = [i \in Calls |-> None]
    /\ \E sent \in {<<>>, <<[attempts |-> 0, verified |-> FALSE, live |-> TRUE]>>} : codes = [email |-> <<>>, phone |-> sent]
    /\ job = [c \in Calls |-> None] /\ at = [c \in Calls |-> "new"] /\ got = [c \in Calls |-> None]
    /\ spent = {} /\ twice = FALSE /\ guessed = FALSE /\ rushed = FALSE

Next == (\E c \in Calls : Handle(c)) \/ (\E t \in Targets : \E i \in DOMAIN codes[t] : Expire(t, i))
Spec == Init /\ [][Next]_vars

-----------------------------------------------------------------------------
Steps == {"new", "done", "exists", "linked", "same email", "create", "account", "send", "code", "right", "wrong", "owner", "update"}

TypeOK ==
    /\ associate \in [Calls -> Rows \cup {None}]
    /\ \A t \in Targets : \A i \in DOMAIN codes[t] :
        codes[t][i] \in [attempts: 0 .. MaxAttempts + Cardinality(Calls), verified: BOOLEAN, live: BOOLEAN]
    /\ job \in [Calls -> Kinds \cup {None}] /\ at \in [Calls -> Steps] /\ got \in [Calls -> Calls \cup Nat \cup {None}]

\* An e-mail address belongs to one user, however often people register or come
\* from a provider, and so does a phone number, unless two of them came at once.
OneOwner == ~rushed => \A t \in Targets : Cardinality({associate[i].user : i \in Matching(t)}) <= 1

\* A code is accepted once, and answered wrong MaxAttempts times at most, unless
\* two requests tried it at once.
CodesBounded == ~guessed => ~twice /\ \A t \in Targets : \A i \in DOMAIN codes[t] : codes[t][i].attempts <= MaxAttempts
=============================================================================
