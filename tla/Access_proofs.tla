---------------------------- MODULE Access_proofs ----------------------------
(***************************************************************************)
(* What Access promises, for every number of requests, processes and runs. *)
(* Each component has an inductive invariant of its own; one section sets  *)
(* it up, and the last joins the five.                                     *)
(***************************************************************************)
EXTENDS Access, FiniteSetTheorems, TLAPS

-----------------------------------------------------------------------------
(* RateLimit: a process that checks its requests one after the other finds in its
   memory, or else in Redis, at least what the window has let through by it. *)
Told(p, e) ==
  IF e = None THEN \A t \in Rate!Times : allowed[p][t] = 0
  ELSE allowed[p][e.reset] <= e.count /\ \A t \in Rate!Times : t > e.reset => allowed[p][t] = 0
Held(p) == IF mem[p] = None THEN red ELSE mem[p]
RateOf(p) ==
  /\ \A c, d \in Calls : Rate!Busy(c) /\ Rate!Busy(d) /\ proc[c] = p /\ proc[d] = p => c = d
  /\ \A t \in Rate!Times : allowed[p][t] <= Limit
  /\ Told(p, Held(p))
  /\ \A c \in Calls : proc[c] = p => /\ at[c] = "fetch" => mem[p] = None
                                     /\ at[c] \in {"decide", "store"} => Told(p, got[c].entry)
RateJobs ==
  \A c \in Calls : Rate!Busy(c) => proc[c] \in Processes /\ got[c] \in Rate!Got /\ (at[c] = "store" => got[c].entry # None)
RateAt == \A p \in Processes : p \notin raced \cup lost => RateOf(p)
RateInv == Rate!TypeOK /\ RateJobs /\ RateAt

(* The limiter starts with no counter. *)
LEMMA RateInit == ASSUME Rate!RateLimitAssumption, Rate!Init PROVE RateInv
<1> USE DEF Rate!RateLimitAssumption, Rate!Init, Rate!Times
<1>1. Rate!TypeOK
  <2>1. allowed \in [Processes -> [Rate!Times -> Nat]] /\ clock \in 0 .. MaxTime
    OBVIOUS
  <2>2. QED
    BY <2>1 DEF Rate!TypeOK
<1>2. RateAt /\ RateJobs
  BY DEF RateAt, RateOf, RateJobs, Told, Held, Rate!Busy
<1>3. QED
  BY <1>1, <1>2 DEF RateInv

(* An entry tells any process that has let nothing through what it needs to know. *)
LEMMA ToldIdle ==
  ASSUME RateInv, NEW p \in Processes, ~Rate!Serving(p), NEW e \in Rate!Entry \cup {None} PROVE Told(p, e)
<1>1. allowed[p] \in [Rate!Times -> Nat]
  BY DEF RateInv, Rate!TypeOK
<1>2. \A t \in Rate!Times : allowed[p][t] = 0
  BY <1>1 DEF Rate!Serving
<1>3. e # None => e.reset \in Rate!Times /\ e.count \in Nat \ {0}
  BY DEF Rate!Entry
<1>4. QED
  BY <1>2, <1>3 DEF Told

(* What a request asks first. *)
LEMMA RateRead == ASSUME Rate!RateLimitAssumption, RateInv, NEW c \in Calls, Rate!Read(c) PROVE RateInv'
<1> USE DEF RateInv, Rate!RateLimitAssumption
<1>1. PICK q \in Processes :
        /\ proc' = [proc EXCEPT ![c] = q]
        /\ got' = [got EXCEPT ![c] = [entry |-> mem[q], now |-> clock]]
        /\ raced' = IF \E d \in Calls : Rate!Busy(d) /\ proc[d] = q THEN raced \cup {q} ELSE raced
        /\ at' = [at EXCEPT ![c] = IF mem[q] = None THEN "fetch" ELSE "decide"]
  BY DEF Rate!Read, Rate!Go
<1>2. at[c] = "new" /\ UNCHANGED <<clock, mem, red, allowed, lost>>
  BY DEF Rate!Read
<1>3. [entry |-> mem[q], now |-> clock] \in Rate!Got
  BY DEF Rate!TypeOK, Rate!Got
<1>4. Rate!TypeOK'
  BY <1>1, <1>2, <1>3 DEF Rate!TypeOK
<1>5. RateJobs'
  BY <1>1, <1>2, <1>3 DEF RateJobs, Rate!Busy, Rate!TypeOK
<1>6. ASSUME NEW p \in Processes, p \notin raced' \cup lost' PROVE RateOf(p)'
  <2>1. RateOf(p)
    BY <1>1, <1>2, <1>6 DEF RateAt
  <2>2. \A d \in Calls : p = q => ~(Rate!Busy(d) /\ proc[d] = p)
    BY <1>1, <1>6
  <2>3. \A e : Told(p, e)' <=> Told(p, e)
    BY <1>2 DEF Told
  <2>4. Told(p, Held(p))'
    BY <1>2, <2>1 DEF RateOf, Held, Told
  <2>5. \A d, b \in Calls : (Rate!Busy(d) /\ Rate!Busy(b) /\ proc[d] = p /\ proc[b] = p)' => d = b
    BY <1>1, <1>2, <2>1, <2>2 DEF RateOf, Rate!Busy, Rate!TypeOK
  <2>6. \A d \in Calls : proc'[d] = p => /\ at'[d] = "fetch" => mem[p] = None
                                         /\ at'[d] \in {"decide", "store"} => Told(p, got'[d].entry)
    BY <1>1, <1>2, <2>1 DEF RateOf, Held, Rate!TypeOK
  <2>7. QED
    BY <1>2, <2>1, <2>4, <2>5, <2>6 DEF RateOf, Told
<1>7. QED
  BY <1>4, <1>5, <1>6 DEF RateAt

(* What Redis answers. *)
LEMMA RateFetch == ASSUME Rate!RateLimitAssumption, RateInv, NEW c \in Calls, Rate!Fetch(c) PROVE RateInv'
<1> USE DEF RateInv, Rate!RateLimitAssumption
<1>1. at[c] = "fetch" /\ at' = [at EXCEPT ![c] = "decide"] /\ UNCHANGED <<clock, red, proc, allowed, raced>>
  BY DEF Rate!Fetch, Rate!Go
<1>2. \/ /\ got' = [got EXCEPT ![c].entry = red] /\ lost' = lost
         /\ mem' = IF red = None THEN mem ELSE [mem EXCEPT ![proc[c]] = red]
      \/ /\ lost' = IF Rate!Serving(proc[c]) THEN lost \cup {proc[c]} ELSE lost
         /\ UNCHANGED <<got, mem>>
  BY DEF Rate!Fetch
<1>3. got[c] \in Rate!Got /\ proc[c] \in Processes
  BY <1>1 DEF RateJobs, Rate!Busy
<1>4. Rate!TypeOK'
  <2>1. CASE got' = [got EXCEPT ![c].entry = red] /\ lost' = lost /\ mem' = IF red = None THEN mem ELSE [mem EXCEPT ![proc[c]] = red]
    <3>1. [got[c] EXCEPT !.entry = red] \in Rate!Got
      BY <1>3 DEF Rate!TypeOK, Rate!Got
    <3>2. got' \in [Calls -> Rate!Got \cup {None}]
      BY <2>1, <3>1 DEF Rate!TypeOK
    <3>3. mem' \in [Processes -> Rate!Entry \cup {None}]
      BY <2>1, <1>3 DEF Rate!TypeOK
    <3>4. QED
      BY <1>1, <2>1, <3>2, <3>3 DEF Rate!TypeOK
  <2>2. CASE UNCHANGED <<got, mem>> /\ lost' = IF Rate!Serving(proc[c]) THEN lost \cup {proc[c]} ELSE lost
    BY <1>1, <1>3, <2>2 DEF Rate!TypeOK
  <2>3. QED
    BY <1>2, <2>1, <2>2
<1>5. RateJobs'
  BY <1>1, <1>2, <1>3 DEF RateJobs, Rate!Busy, Rate!TypeOK, Rate!Got
<1>6. ASSUME NEW p \in Processes, p \notin raced' \cup lost' PROVE RateOf(p)'
  <2>1. RateOf(p) /\ p \notin lost
    BY <1>1, <1>2, <1>6 DEF RateAt
  <2>2. \A e : Told(p, e)' <=> Told(p, e)
    BY <1>1 DEF Told
  <2>3. proc[c] = p => mem[p] = None /\ Told(p, red)
    BY <1>1, <2>1 DEF RateOf, Held
  <2>4. Told(p, Held(p)')
    BY <1>1, <1>2, <2>1, <2>3 DEF RateOf, Held, Rate!TypeOK
  <2>5. proc[c] = p => Told(p, got'[c].entry)
    <3>1. CASE got' = [got EXCEPT ![c].entry = red]
      BY <1>3, <2>3, <3>1 DEF Rate!TypeOK, Rate!Got
    <3>2. CASE lost' = IF Rate!Serving(proc[c]) THEN lost \cup {proc[c]} ELSE lost
      <4>1. proc[c] = p => ~Rate!Serving(p)
        BY <1>6, <3>2
      <4>2. got'[c].entry \in Rate!Entry \cup {None}
        BY <1>4, <1>5, <1>1 DEF RateJobs, Rate!Busy, Rate!TypeOK, Rate!Got
      <4>3. QED
        BY <4>1, <4>2, ToldIdle
    <3>3. QED
      BY <1>2, <3>1, <3>2
  <2>6. \A d \in Calls \ {c} : at'[d] = at[d] /\ got'[d] = got[d] /\ (at[d] = "fetch" /\ proc[d] = p => proc[c] # p)
    BY <1>1, <1>2, <2>1 DEF RateOf, Rate!Busy, Rate!TypeOK
  <2>7. \A d \in Calls : proc'[d] = p => /\ at'[d] = "fetch" => mem'[p] = None
                                         /\ at'[d] \in {"decide", "store"} => Told(p, got'[d].entry)
    BY <1>1, <1>2, <2>1, <2>5, <2>6 DEF RateOf, Rate!TypeOK
  <2>8. \A d, b \in Calls : (Rate!Busy(d) /\ Rate!Busy(b) /\ proc[d] = p /\ proc[b] = p)' => d = b
    BY <1>1, <2>1 DEF RateOf, Rate!Busy, Rate!TypeOK
  <2>9. Told(p, Held(p))' /\ (\A d \in Calls : proc'[d] = p /\ at'[d] \in {"decide", "store"} => Told(p, got[d].entry)')
    BY <1>1, <2>4, <2>7 DEF Told
  <2>10. \A t \in Rate!Times : allowed'[p][t] <= Limit
    BY <1>1, <2>1 DEF RateOf
  <2>11. QED
    BY <2>7, <2>8, <2>9, <2>10 DEF RateOf
<1>7. QED
  BY <1>4, <1>5, <1>6 DEF RateAt

(* A request that is let through is counted with those before it. *)
LEMMA RateDecide == ASSUME Rate!RateLimitAssumption, RateInv, NEW c \in Calls, Rate!Decide(c) PROVE RateInv'
<1> USE DEF RateInv, Rate!RateLimitAssumption
<1>1. at[c] = "decide" /\ UNCHANGED <<clock, red, proc, raced, lost>>
  BY DEF Rate!Decide
<1>2. got[c] \in Rate!Got /\ proc[c] \in Processes
  BY <1>1 DEF RateJobs, Rate!Busy
<1>3. CASE Rate!Refused(got[c])
  <2>1. at' = [at EXCEPT ![c] = "done"] /\ UNCHANGED <<mem, got, allowed>>
    BY <1>3 DEF Rate!Decide, Rate!Go
  <2>2. Rate!TypeOK' /\ RateJobs'
    BY <1>1, <2>1 DEF Rate!TypeOK, RateJobs, Rate!Busy
  <2>3. RateAt'
    BY <1>1, <2>1 DEF RateAt, RateOf, Told, Held, Rate!Busy, Rate!TypeOK
  <2>4. QED
    BY <2>2, <2>3
<1>4. CASE ~Rate!Refused(got[c])
  <2>1. PICK e : e = Rate!Counted(got[c])
    OBVIOUS
  <2>2. PICK q : q = proc[c]
    OBVIOUS
  <2>3. /\ mem' = [mem EXCEPT ![q] = e] /\ got' = [got EXCEPT ![c].entry = e]
        /\ allowed' = [allowed EXCEPT ![q][e.reset] = allowed[q][e.reset] + 1] /\ at' = [at EXCEPT ![c] = "store"]
    BY <1>4, <2>1, <2>2 DEF Rate!Decide, Rate!Go
  <2>4. e \in Rate!Entry
    <3>1. CASE got[c].entry = None \/ got[c].entry.reset < got[c].now
      <4>1. e = [count |-> 1, reset |-> got[c].now + Ttl]
        BY <2>1, <3>1 DEF Rate!Counted
      <4>2. got[c].now + Ttl \in Rate!Times
        BY <1>2 DEF Rate!Got, Rate!Times
      <4>3. QED
        BY <4>1, <4>2 DEF Rate!Entry
    <3>2. CASE ~(got[c].entry = None \/ got[c].entry.reset < got[c].now)
      <4>1. e = [got[c].entry EXCEPT !.count = @ + 1] /\ got[c].entry \in Rate!Entry
        BY <1>2, <2>1, <3>2 DEF Rate!Counted, Rate!Got
      <4>2. QED
        BY <4>1 DEF Rate!Entry
    <3>3. QED
      BY <3>1, <3>2
  <2>5. e.reset \in Rate!Times /\ e.count \in Nat
    BY <2>4 DEF Rate!Entry
  <2>6. allowed' \in [Processes -> [Rate!Times -> Nat]]
    BY <1>2, <2>2, <2>3, <2>5 DEF Rate!TypeOK
  <2>7. Rate!TypeOK'
    BY <1>1, <1>2, <2>2, <2>3, <2>4, <2>6 DEF Rate!TypeOK, Rate!Got
  <2>8. RateJobs'
    BY <1>1, <1>2, <2>2, <2>3, <2>4 DEF RateJobs, Rate!Busy, Rate!TypeOK, Rate!Got
  <2>9. ASSUME NEW p \in Processes, p \notin raced' \cup lost' PROVE RateOf(p)'
    <3>1. RateOf(p)
      BY <1>1, <2>9 DEF RateAt
    <3>2. \A d, b \in Calls : (Rate!Busy(d) /\ Rate!Busy(b) /\ proc[d] = p /\ proc[b] = p)' => d = b
      BY <1>1, <2>3, <3>1 DEF RateOf, Rate!Busy, Rate!TypeOK
    <3>3. CASE p # q
      <4>1. mem'[p] = mem[p] /\ allowed'[p] = allowed[p]
        BY <2>3, <3>3 DEF Rate!TypeOK
      <4>2. \A d \in Calls : proc[d] = p => at'[d] = at[d] /\ got'[d] = got[d]
        BY <2>2, <2>3, <3>3 DEF Rate!TypeOK
      <4>3. QED
        BY <1>1, <3>1, <3>2, <4>1, <4>2 DEF RateOf, Told, Held
    <3>4. CASE p = q
      <4>1. Told(p, got[c].entry) /\ \A d \in Calls \ {c} : proc[d] = p => at[d] \in {"new", "done"}
        BY <1>1, <2>2, <3>1, <3>4 DEF RateOf, Rate!Busy, Rate!TypeOK
      <4>2. allowed[p][e.reset] + 1 <= e.count /\ e.count <= Limit /\ \A t \in Rate!Times : t > e.reset => allowed[p][t] = 0
        <5>1. CASE got[c].entry = None
          BY <2>1, <2>5, <4>1, <5>1 DEF Told, Rate!Counted
        <5>2. CASE got[c].entry # None /\ got[c].entry.reset < got[c].now
          <6>1. e.count = 1 /\ e.reset > got[c].entry.reset
            BY <1>2, <2>1, <5>2 DEF Rate!Counted, Rate!Got, Rate!Entry, Rate!Times
          <6>2. got[c].entry.reset \in Rate!Times
            BY <1>2, <5>2 DEF Rate!Got, Rate!Entry
          <6>3. \A t \in Rate!Times : t >= e.reset => allowed[p][t] = 0
            BY <2>5, <4>1, <5>2, <6>1, <6>2 DEF Told, Rate!Times
          <6>4. QED
            BY <2>5, <6>1, <6>3 DEF Rate!Times
        <5>3. CASE got[c].entry # None /\ ~(got[c].entry.reset < got[c].now)
          <6>1. got[c].entry \in Rate!Entry /\ got[c].now \in Nat
            BY <1>2, <5>3 DEF Rate!Got
          <6>2. e.count = got[c].entry.count + 1 /\ e.reset = got[c].entry.reset
            BY <2>1, <5>3, <6>1 DEF Rate!Counted, Rate!Entry
          <6>3. ~(got[c].entry.count >= Limit)
            BY <1>4, <5>3, <6>1 DEF Rate!Refused, Rate!Spent, Rate!Entry, Rate!Times
          <6>4. allowed[p][e.reset] \in Nat
            BY <2>5 DEF Rate!TypeOK
          <6>5. QED
            BY <4>1, <5>3, <6>1, <6>2, <6>3, <6>4 DEF Told, Rate!Entry
        <5>4. QED
          BY <5>1, <5>2, <5>3
      <4>3. /\ allowed'[p][e.reset] = allowed[p][e.reset] + 1
            /\ \A t \in Rate!Times : t # e.reset => allowed'[p][t] = allowed[p][t]
        BY <2>3, <2>5, <3>4 DEF Rate!TypeOK
      <4>4. \A t \in Rate!Times : allowed'[p][t] <= Limit
        <5>1. allowed[p] \in [Rate!Times -> Nat]
          BY DEF Rate!TypeOK
        <5>2. QED
          BY <2>5, <3>1, <4>2, <4>3, <5>1 DEF RateOf
      <4>5. e # None
        BY <2>4
      <4>6. allowed'[p][e.reset] <= e.count /\ \A t \in Rate!Times : t > e.reset => allowed'[p][t] = 0
        BY <2>5, <4>2, <4>3 DEF Rate!Times
      <4>7. mem'[p] = e /\ got'[c].entry = e
        BY <1>2, <2>2, <2>3, <3>4 DEF Rate!TypeOK, Rate!Got
      <4>8. Told(p, Held(p))' /\ Told(p, got[c].entry)'
        BY <4>5, <4>6, <4>7 DEF Told, Held
      <4>9. \A d \in Calls : proc'[d] = p => /\ at'[d] # "fetch"
                                             /\ at'[d] \in {"decide", "store"} => d = c
        BY <1>1, <2>3, <4>1 DEF Rate!TypeOK
      <4>10. QED
        BY <3>2, <4>4, <4>8, <4>9 DEF RateOf
    <3>5. QED
      BY <3>3, <3>4
  <2>10. QED
    BY <2>7, <2>8, <2>9 DEF RateAt
<1>5. QED
  BY <1>3, <1>4

(* Whoever changes the entry in Redis leaves those who hold it in memory alone,
   and those who have let nothing through. *)
LEMMA RateTaken ==
  ASSUME RateInv, NEW p \in Processes, RateOf(p), NEW P, p \in P, Rate!Taken(P), p \notin lost', red' \in Rate!Entry \cup {None},
         UNCHANGED <<mem, allowed>>
  PROVE Told(p, Held(p))'
<1>1. ~Rate!Relying(p)
  BY DEF Rate!Taken
<1>2. Told(p, IF mem[p] = None THEN red' ELSE mem[p])
  BY <1>1, ToldIdle DEF Rate!Relying, RateOf, Held
<1>3. QED
  BY <1>2 DEF Told, Held

(* The write to Redis. *)
LEMMA RateStore == ASSUME Rate!RateLimitAssumption, RateInv, NEW c \in Calls, Rate!Store(c) PROVE RateInv'
<1> USE DEF RateInv, Rate!RateLimitAssumption
<1>1. at[c] = "store" /\ at' = [at EXCEPT ![c] = "done"] /\ UNCHANGED <<clock, mem, proc, got, allowed, raced>>
  BY DEF Rate!Store, Rate!Go
<1>2. \/ red' = got[c].entry /\ Rate!Taken(Processes \ {proc[c]})
      \/ UNCHANGED <<red, lost>>
  BY DEF Rate!Store
<1>3. got[c] \in Rate!Got /\ proc[c] \in Processes /\ got[c].entry \in Rate!Entry
  BY <1>1 DEF RateJobs, Rate!Busy, Rate!Got
<1>4. lost' \subseteq Processes /\ lost \subseteq lost' /\ red' \in Rate!Entry \cup {None}
  BY <1>2, <1>3 DEF Rate!Taken, Rate!TypeOK
<1>5. Rate!TypeOK'
  BY <1>1, <1>4 DEF Rate!TypeOK
<1>6. RateJobs'
  BY <1>1 DEF RateJobs, Rate!Busy, Rate!TypeOK
<1>7. ASSUME NEW p \in Processes, p \notin raced' \cup lost' PROVE RateOf(p)'
  <2>1. RateOf(p)
    BY <1>1, <1>4, <1>7 DEF RateAt
  <2>2. Told(p, Held(p))'
    <3>1. CASE UNCHANGED <<red, lost>>
      BY <1>1, <2>1, <3>1 DEF RateOf, Told, Held
    <3>2. CASE red' = got[c].entry /\ p = proc[c]
      <4>1. Told(p, got[c].entry)
        BY <1>1, <2>1, <3>2 DEF RateOf
      <4>2. Told(p, Held(p)')
        BY <1>1, <2>1, <3>2, <4>1 DEF RateOf, Held
      <4>3. QED
        BY <1>1, <4>2 DEF Told
    <3>3. CASE Rate!Taken(Processes \ {proc[c]}) /\ p # proc[c]
      <4>1. PICK P : P = Processes \ {proc[c]}
        OBVIOUS
      <4>2. p \in P /\ Rate!Taken(P) /\ p \notin lost'
        BY <1>7, <3>3, <4>1
      <4>3. QED
        BY <1>1, <1>4, <2>1, <4>2, RateTaken
    <3>4. QED
      BY <1>2, <3>1, <3>2, <3>3
  <2>3. QED
    BY <1>1, <2>1, <2>2 DEF RateOf, Told, Rate!Busy, Rate!TypeOK
<1>8. QED
  BY <1>5, <1>6, <1>7 DEF RateAt

(* A reset in one process, the expiry in Redis. *)
LEMMA RateReset == ASSUME Rate!RateLimitAssumption, RateInv, NEW q \in Processes, Rate!Reset(q) PROVE RateInv'
<1> USE DEF RateInv, Rate!RateLimitAssumption
<1>1. /\ mem' = [mem EXCEPT ![q] = None] /\ red' = None /\ raced' = raced \cup {q} /\ Rate!Taken(Processes)
      /\ UNCHANGED <<clock, proc, at, got, allowed>>
  BY DEF Rate!Reset
<1>2. Rate!TypeOK' /\ RateJobs'
  BY <1>1 DEF Rate!TypeOK, RateJobs, Rate!Busy, Rate!Taken
<1>3. ASSUME NEW p \in Processes, p \notin raced' \cup lost' PROVE RateOf(p)'
  <2>1. RateOf(p) /\ p # q /\ mem'[p] = mem[p] /\ ~Rate!Relying(p)
    BY <1>1, <1>3 DEF RateAt, Rate!TypeOK, Rate!Taken
  <2>2. Told(p, IF mem[p] = None THEN None ELSE mem[p])
    BY <2>1, ToldIdle DEF RateOf, Held, Rate!Relying
  <2>3. Told(p, Held(p))'
    BY <1>1, <2>1, <2>2 DEF Told, Held
  <2>4. QED
    BY <1>1, <2>1, <2>3 DEF RateOf, Told, Rate!Busy
<1>4. QED
  BY <1>2, <1>3 DEF RateAt

LEMMA RateExpire == ASSUME Rate!RateLimitAssumption, RateInv, Rate!Expire PROVE RateInv'
<1> USE DEF RateInv, Rate!RateLimitAssumption
<1>1. red' = None /\ Rate!Taken(Processes) /\ UNCHANGED <<clock, mem, proc, at, got, allowed, raced>>
  BY DEF Rate!Expire
<1>2. Rate!TypeOK' /\ RateJobs'
  BY <1>1 DEF Rate!TypeOK, RateJobs, Rate!Busy, Rate!Taken
<1>3. ASSUME NEW p \in Processes, p \notin raced' \cup lost' PROVE RateOf(p)'
  <2>1. RateOf(p)
    BY <1>1, <1>3 DEF RateAt, Rate!Taken
  <2>2. Told(p, Held(p))'
    BY <1>1, <1>3, <2>1, RateTaken
  <2>3. QED
    BY <1>1, <2>1, <2>2 DEF RateOf, Told, Rate!Busy
<1>4. QED
  BY <1>2, <1>3 DEF RateAt

(* What a memory drops is still in Redis. *)
LEMMA RateEvict == ASSUME Rate!RateLimitAssumption, RateInv, NEW q \in Processes, Rate!Evict(q) PROVE RateInv'
<1> USE DEF RateInv, Rate!RateLimitAssumption
<1>1. /\ mem[q] # None /\ mem' = [mem EXCEPT ![q] = None] /\ lost' = IF red = mem[q] THEN lost ELSE lost \cup {q}
      /\ UNCHANGED <<clock, red, proc, at, got, allowed, raced>>
  BY DEF Rate!Evict
<1>2. Rate!TypeOK' /\ RateJobs'
  BY <1>1 DEF Rate!TypeOK, RateJobs, Rate!Busy
<1>3. ASSUME NEW p \in Processes, p \notin raced' \cup lost' PROVE RateOf(p)'
  <2>1. RateOf(p) /\ (p = q => red = mem[p])
    BY <1>1, <1>3 DEF RateAt
  <2>2. Held(p)' = Held(p)
    BY <1>1, <2>1 DEF Held, Rate!TypeOK
  <2>3. Told(p, Held(p))'
    BY <1>1, <2>1, <2>2 DEF Told, RateOf
  <2>4. mem[p] = None => mem'[p] = None
    BY <1>1 DEF Rate!TypeOK
  <2>5. QED
    BY <1>1, <2>1, <2>3, <2>4 DEF RateOf, Told, Rate!Busy
<1>4. QED
  BY <1>2, <1>3 DEF RateAt

(* Every step keeps count. *)
LEMMA RateStep == ASSUME Rate!RateLimitAssumption, RateInv, Rate!Next PROVE RateInv'
<1>1. CASE Rate!Tick
  <2>1. clock' \in 0 .. MaxTime /\ UNCHANGED <<mem, red, proc, at, got, allowed, raced, lost>>
    BY <1>1 DEF Rate!Tick, RateInv, Rate!TypeOK, Rate!RateLimitAssumption
  <2>2. QED
    BY <2>1 DEF RateInv, Rate!TypeOK, RateJobs, RateAt, RateOf, Told, Held, Rate!Busy
<1>2. QED
  BY <1>1, RateRead, RateFetch, RateDecide, RateStore, RateReset, RateEvict, RateExpire DEF Rate!Next

(* What the limiter promises follows. *)
LEMMA RateHolds == ASSUME RateInv PROVE Rate!RateHeld
BY DEF Rate!RateHeld, RateInv, RateAt, RateOf

-----------------------------------------------------------------------------
(* Warming: one run has the lock, and its process knows it. *)
(* The lock is with the run that works, and a run that is no orphan knows its own
   name. *)
WarmAt ==
  /\ ~lapsed => \A r \in Warm!Running : lock = r
  /\ \A r \in Runs : at[r] \notin {"new", "done"} => proc[r] \in Processes /\ (r \notin orphans => trace[proc[r]] = r)
  /\ lock \notin Warm!Running \cup {None} => lock \in orphans
  /\ \A r \in Runs : at[r] \in {"connect", "warm"} => tries[r] < MaxRetries
WarmInv == Warm!TypeOK /\ lapsed \in BOOLEAN /\ orphans \subseteq Runs /\ WarmAt

(* No process holds the lock at the start. *)
LEMMA WarmInit == ASSUME Warm!WarmingAssumption, Warm!Init PROVE WarmInv
<1> USE DEF Warm!WarmingAssumption, Warm!Init
<1>1. lapsed \in BOOLEAN /\ orphans \subseteq Runs
  OBVIOUS
<1>2. Warm!TypeOK
  BY DEF Warm!TypeOK
<1>3. Warm!Running = {} /\ WarmAt
  BY DEF WarmAt, Warm!Running
<1>4. QED
  BY <1>1, <1>2, <1>3 DEF WarmInv

(* One run works at a time, and a lock has a run. *)
LEMMA WarmHolds == ASSUME WarmInv PROVE Warm!WarmersExclusive /\ Warm!NoLockLeft
<1>1. ASSUME ~lapsed PROVE Cardinality(Warm!Running) <= 1
  <2>1. Warm!Running \subseteq {lock}
    BY <1>1 DEF WarmInv, WarmAt
  <2>2. IsFiniteSet({lock}) /\ Cardinality({lock}) = 1
    BY FS_Singleton
  <2>3. Cardinality(Warm!Running) <= Cardinality({lock})
    BY <2>1, <2>2, FS_Subset
  <2>4. QED
    BY <2>2, <2>3
<1>2. Warm!NoLockLeft
  BY DEF Warm!NoLockLeft, WarmInv, WarmAt
<1>3. Warm!WarmersExclusive
  BY <1>1, Zenon DEF Warm!WarmersExclusive, Warm!Cardinality, Cardinality
<1>4. QED
  BY <1>2, <1>3

(* No statement of a run takes the lock from another. *)
LEMMA WarmStep == ASSUME Warm!WarmingAssumption, WarmInv, Warm!Next PROVE WarmInv'
<1> USE DEF Warm!WarmingAssumption, WarmInv, WarmAt, Warm!TypeOK, Warm!Running, Warm!Go, Warm!data
<1>1. ASSUME NEW r \in Runs, Warm!Begin(r) PROVE WarmInv'
  <2>1. PICK p \in Processes :
          /\ proc' = [proc EXCEPT ![r] = p] /\ trace' = [trace EXCEPT ![p] = r]
          /\ orphans' = orphans \cup {s \in Runs : at[s] \notin {"new", "done"} /\ proc[s] = p}
    BY <1>1, Zenon DEF Warm!Begin
  <2>2. at[r] = "new" /\ at' = [at EXCEPT ![r] = "acquire"]
        /\ UNCHANGED <<lock, status, tries, late, db, warm, lapsed>>
    BY <1>1 DEF Warm!Begin
  <2>3. orphans' \subseteq Runs /\ orphans \subseteq orphans'
    BY <2>1
  <2>4. Warm!TypeOK'
    BY <2>1, <2>2
  <2>5. \A s \in Runs \ orphans' : at[s] \notin {"new", "done"} => proc[s] # p
    BY <2>1
  <2>6. WarmAt'
    BY <2>1, <2>2, <2>3, <2>5
  <2>7. QED
    BY <2>2, <2>3, <2>4, <2>6
<1>2. ASSUME NEW r \in Runs, Warm!Acquire(r) PROVE WarmInv'
  BY <1>2 DEF Warm!Acquire, Warm!FreeLock
<1>3. ASSUME NEW r \in Runs, Warm!Connect(r) PROVE WarmInv'
  <2>1. /\ at[r] = "connect"
        /\ \/ at' = [at EXCEPT ![r] = "warm"] /\ tries' = [tries EXCEPT ![r] = 0]
           \/ /\ tries' = [tries EXCEPT ![r] = tries[r] + 1]
              /\ at' = [at EXCEPT ![r] = IF tries[r] + 1 = MaxRetries THEN "release" ELSE "connect"]
        /\ UNCHANGED <<lock, trace, proc, lapsed, orphans, db, warm>>
    BY <1>3 DEF Warm!Connect, Warm!Attempt, Warm!LastTry
  <2>2. late' \in {late, late \cup {db}} /\ status' \in [Processes -> {"idle", "running", "completed", "failed"}]
    BY <1>3 DEF Warm!Connect
  <2>3. tries[r] \in Nat /\ tries[r] < MaxRetries
    BY <2>1
  <2>4. tries' \in [Runs -> 0 .. MaxRetries] /\ (at'[r] \in {"connect", "warm"} => tries'[r] < MaxRetries)
    BY <2>1, <2>3
  <2>5. Warm!TypeOK'
    BY <2>1, <2>2, <2>4
  <2>6. Warm!Running' = Warm!Running
    BY <2>1
  <2>7. \A s \in Runs \ {r} : at'[s] = at[s] /\ tries'[s] = tries[s]
    BY <2>1
  <2>8. at'[r] \notin {"new", "done"}
    BY <2>1
  <2>9. WarmAt'
    BY <2>1, <2>4, <2>6, <2>7, <2>8
  <2>10. QED
    BY <2>1, <2>5, <2>9
<1>4. ASSUME NEW r \in Runs, Warm!Warm(r) PROVE WarmInv'
  <2>1. /\ at[r] = "warm"
        /\ \/ at' = [at EXCEPT ![r] = "release"] /\ tries' = [tries EXCEPT ![r] = 0]
           \/ /\ tries' = [tries EXCEPT ![r] = tries[r] + 1]
              /\ at' = [at EXCEPT ![r] = IF tries[r] + 1 = MaxRetries THEN "release" ELSE "warm"]
        /\ UNCHANGED <<lock, trace, proc, lapsed, orphans, db, warm>>
    BY <1>4 DEF Warm!Warm, Warm!Attempt, Warm!LastTry
  <2>2. late' \in {late, late \cup {db}} /\ status' \in [Processes -> {"idle", "running", "completed", "failed"}]
    BY <1>4 DEF Warm!Warm
  <2>3. tries[r] \in Nat /\ tries[r] < MaxRetries
    BY <2>1
  <2>4. tries' \in [Runs -> 0 .. MaxRetries] /\ (at'[r] \in {"connect", "warm"} => tries'[r] < MaxRetries)
    BY <2>1, <2>3
  <2>5. Warm!TypeOK'
    BY <2>1, <2>2, <2>4
  <2>6. Warm!Running' = Warm!Running
    BY <2>1
  <2>7. \A s \in Runs \ {r} : at'[s] = at[s] /\ tries'[s] = tries[s]
    BY <2>1
  <2>8. at'[r] \notin {"new", "done"}
    BY <2>1
  <2>9. WarmAt'
    BY <2>1, <2>4, <2>6, <2>7, <2>8
  <2>10. QED
    BY <2>1, <2>5, <2>9
<1>5. ASSUME NEW r \in Runs, Warm!Compare(r) PROVE WarmInv'
  BY <1>5 DEF Warm!Compare
<1>6. ASSUME NEW r \in Runs, Warm!Delete(r) PROVE WarmInv'
  BY <1>6 DEF Warm!Delete
<1>7. ASSUME NEW v \in late, Warm!Store(v) PROVE WarmInv'
  BY <1>7 DEF Warm!Store
<1>8. ASSUME NEW p \in Processes, Warm!Die(p) PROVE WarmInv'
  BY <1>8 DEF Warm!Die
<1>9. CASE Warm!Expire
  BY <1>9 DEF Warm!Expire
<1>10. CASE Warm!Write
  BY <1>10 DEF Warm!Write
<1>11. ASSUME NEW r \in Runs, Warm!Fail(r) PROVE WarmInv'
  BY <1>11 DEF Warm!Fail, Warm!FreeLock
<1>12. QED
  BY <1>1, <1>2, <1>3, <1>4, <1>5, <1>6, <1>7, <1>8, <1>9, <1>10, <1>11 DEF Warm!Next

-----------------------------------------------------------------------------
(* Caching: reads and writes that did not meet leave the present version. *)
(* Nothing has disturbed the key. *)
Clean == ~overlap /\ ~away /\ ~cut

Reading(c) == Cache!Busy(c) /\ job[c].kind \notin Cache!Writers
Writing(c) == Cache!Busy(c) /\ job[c].kind \in Cache!Writers

(* While the key is undisturbed reads and writes do not meet, what a read holds
   is the present version, and an old version is where a write is about to
   delete it. *)
JobsKnown == \A c \in CacheCalls : Cache!Busy(c) => job[c] \in [kind: Cache!Kinds, proc: Processes]
WritersWrite ==
  \A c \in CacheCalls :
    /\ Writing(c) => at[c] \in {"write", "forget", "keys", "del"}
    /\ at[c] = "write" => Writing(c)
Apart == ~overlap => \A c, d \in CacheCalls : ~(Reading(c) /\ Writing(d))
ReadsNow == Clean => \A c \in CacheCalls : at[c] \in {"promote", "fill", "setex"} => got[c] = db
MemoryNow ==
  Clean => \A p \in Processes :
    mem[p] \in {None, db} \/ \E c \in CacheCalls : Writing(c) /\ at[c] = "forget" /\ Cache!Proc(c) = p
RedisNow == Clean => red \in {None, db} \/ \E c \in CacheCalls : Writing(c) /\ at[c] \in {"forget", "keys", "del"}

CacheInv ==
  /\ Cache!TypeOK /\ overlap \in BOOLEAN /\ away \in BOOLEAN /\ cut \in BOOLEAN
  /\ JobsKnown /\ WritersWrite /\ Apart /\ ReadsNow /\ MemoryNow /\ RedisNow

(* What the cache promises between writes follows. *)
LEMMA CacheHolds == ASSUME CacheInv PROVE Cache!CacheFresh
BY DEF Cache!CacheFresh, CacheInv, MemoryNow, RedisNow, Clean, Writing

(* The tiers start empty, or with the version of the database. *)
LEMMA CacheInit == ASSUME Cache!CachingAssumption, Cache!Init PROVE CacheInv
<1> USE DEF Cache!CachingAssumption, Cache!Init
<1>1. overlap \in BOOLEAN /\ away \in BOOLEAN /\ cut \in BOOLEAN
  OBVIOUS
<1>2. up \in [Processes -> BOOLEAN]
  OBVIOUS
<1>3. /\ db \in Nat /\ mem \in [Processes -> Nat \cup {None}] /\ red \in Nat \cup {None}
      /\ job \in [CacheCalls -> [kind: Cache!Kinds, proc: Processes] \cup {None}] /\ at \in [CacheCalls -> Cache!Steps]
      /\ got \in [CacheCalls -> Nat \cup {None}]
  BY DEF Cache!Steps
<1>4. Cache!TypeOK
  BY <1>2, <1>3 DEF Cache!TypeOK
<1>5. JobsKnown /\ WritersWrite /\ Apart /\ ReadsNow
  BY DEF JobsKnown, WritersWrite, Apart, ReadsNow, Clean, Reading, Writing, Cache!Busy
<1>6. MemoryNow /\ RedisNow
  BY DEF MemoryNow, RedisNow
<1>7. QED
  BY <1>1, <1>4, <1>5, <1>6 DEF CacheInv

(* A request goes on to a statement of its own handler. *)
LEMMA CacheGo ==
  ASSUME CacheInv, NEW c \in CacheCalls, Cache!Busy(c), NEW l \in Cache!Steps \ {"new", "write"},
         Writing(c) => l \in {"forget", "keys", "del", "done"},
         at' = [at EXCEPT ![c] = l], UNCHANGED <<job, overlap>>
  PROVE  /\ at' \in [CacheCalls -> Cache!Steps] /\ at'[c] = l /\ \A d \in CacheCalls \ {c} : at'[d] = at[d]
         /\ \A d \in CacheCalls : (Writing(d)' => Writing(d)) /\ (d # c => Writing(d)' = Writing(d))
         /\ l # "done" => Writing(c)' = Writing(c)
         /\ JobsKnown' /\ WritersWrite' /\ Apart'
<1>1. at \in [CacheCalls -> Cache!Steps]
  BY DEF CacheInv, Cache!TypeOK
<1>2. at' \in [CacheCalls -> Cache!Steps] /\ at'[c] = l /\ \A d \in CacheCalls \ {c} : at'[d] = at[d]
  BY <1>1
<1>3. \A d \in CacheCalls : (Cache!Busy(d)' => Cache!Busy(d)) /\ (d # c => Cache!Busy(d)' = Cache!Busy(d))
  BY <1>2 DEF Cache!Busy
<1>4. l # "done" => Cache!Busy(c)'
  BY <1>2 DEF Cache!Busy
<1>5. /\ \A d \in CacheCalls : (Writing(d)' => Writing(d)) /\ (d # c => Writing(d)' = Writing(d))
      /\ \A d \in CacheCalls : Reading(d)' => Reading(d)
      /\ l # "done" => Writing(c)' = Writing(c)
      /\ Writing(c)' => l # "done"
  BY <1>2, <1>3, <1>4 DEF Writing, Reading, Cache!Busy
<1>6. JobsKnown'
  BY <1>3 DEF CacheInv, JobsKnown
<1>7. WritersWrite'
  BY <1>2, <1>4, <1>5 DEF CacheInv, WritersWrite
<1>8. Apart'
  BY <1>5 DEF CacheInv, Apart
<1>9. QED
  BY <1>2, <1>5, <1>6, <1>7, <1>8

(* A statement of a read: it fills a tier with the version it holds, or reads. *)
LEMMA CacheRead ==
  ASSUME CacheInv, NEW c \in CacheCalls, Reading(c), NEW l \in Cache!Steps \ {"new", "write"},
         at' = [at EXCEPT ![c] = l], UNCHANGED <<job, up, overlap, away, db>>,
         cut' \in BOOLEAN, cut => cut',
         \/ mem' = mem
         \/ at[c] \in {"promote", "fill"} /\ mem' = [mem EXCEPT ![Cache!Proc(c)] = got[c]]
         \/ mem' = [mem EXCEPT ![Cache!Proc(c)] = None],
         red' \in {red, None} \/ (at[c] = "setex" /\ red' = got[c]),
         \/ got' = got /\ (l \in {"promote", "fill", "setex"} => at[c] \in {"promote", "fill", "setex"})
         \/ got' = [got EXCEPT ![c] = db]
         \/ red # None /\ got' = [got EXCEPT ![c] = red]
  PROVE  CacheInv'
<1>1. Cache!Busy(c) /\ ~Writing(c)
  BY DEF Reading, Writing
<1>2. /\ at' \in [CacheCalls -> Cache!Steps] /\ at'[c] = l /\ \A d \in CacheCalls \ {c} : at'[d] = at[d]
      /\ \A d \in CacheCalls : Writing(d) => (Writing(d)' /\ at'[d] = at[d])
      /\ JobsKnown' /\ WritersWrite' /\ Apart'
  BY <1>1, CacheGo
<1>3. /\ db \in Nat /\ mem \in [Processes -> Nat \cup {None}] /\ red \in Nat \cup {None}
      /\ got \in [CacheCalls -> Nat \cup {None}]
  BY DEF CacheInv, Cache!TypeOK
<1>4. got' \in [CacheCalls -> Nat \cup {None}] /\ \A d \in CacheCalls \ {c} : got'[d] = got[d]
  BY <1>3
<1>5. red' \in Nat \cup {None} /\ mem' \in [Processes -> Nat \cup {None}]
  BY <1>3
<1>6. Cache!TypeOK'
  BY <1>2, <1>4, <1>5 DEF CacheInv, Cache!TypeOK
<1>7. Clean => \A d \in CacheCalls : ~Writing(d)
  BY DEF CacheInv, Apart, Clean
<1>8. Clean => red \in {None, db} /\ \A p \in Processes : mem[p] \in {None, db}
  BY <1>7 DEF CacheInv, MemoryNow, RedisNow
<1>9. Clean' => Clean
  BY DEF Clean
<1>10. ReadsNow'
  <2>1. Clean => (at'[c] \in {"promote", "fill", "setex"} => got'[c] = db)
    BY <1>2, <1>3, <1>8 DEF CacheInv, ReadsNow
  <2>2. QED
    BY <1>2, <1>4, <1>9, <2>1 DEF CacheInv, ReadsNow
<1>11. MemoryNow'
  <2>1. Clean => (at[c] \in {"promote", "fill"} => got[c] = db)
    BY DEF CacheInv, ReadsNow
  <2>2. Clean => \A p \in Processes : mem'[p] \in {None, db}
    BY <1>3, <1>8, <2>1
  <2>3. QED
    BY <1>9, <2>2 DEF MemoryNow
<1>12. RedisNow'
  BY <1>8, <1>9 DEF CacheInv, ReadsNow, RedisNow
<1>13. overlap' \in BOOLEAN /\ away' \in BOOLEAN
  BY DEF CacheInv
<1>14. QED
  BY <1>2, <1>6, <1>10, <1>11, <1>12, <1>13 DEF CacheInv

(* A statement of a write, which finds the tiers as they were before it. *)
LEMMA CacheWrite ==
  ASSUME CacheInv, NEW c \in CacheCalls, Writing(c), NEW l \in {"forget", "keys", "del", "done"},
         at' = [at EXCEPT ![c] = l], UNCHANGED <<job, up, got, overlap>>,
         cut' \in BOOLEAN, away' \in BOOLEAN, cut => cut', away => away',
         \/ /\ at[c] = "write" /\ l = "forget" /\ db' = db + 1 /\ UNCHANGED <<mem, red>>
            /\ ~away' => \A p \in Processes \ {Cache!Proc(c)} : mem[p] = None
         \/ /\ at[c] = "forget" /\ l \in {"keys", "del", "done"} /\ UNCHANGED <<db, red>>
            /\ mem' = [mem EXCEPT ![Cache!Proc(c)] = None]
            /\ l = "done" => cut'
         \/ /\ at[c] \in {"keys", "del"} /\ l \in {"del", "done"} /\ UNCHANGED <<db, mem>>
            /\ red' \in {red, None}
            /\ l = "done" => cut' \/ red' = None
  PROVE  CacheInv'
<1>1. Cache!Busy(c)
  BY DEF Writing
<1>2. /\ at' \in [CacheCalls -> Cache!Steps] /\ at'[c] = l /\ \A d \in CacheCalls \ {c} : at'[d] = at[d]
      /\ \A d \in CacheCalls : (Writing(d)' => Writing(d)) /\ (d # c => Writing(d)' = Writing(d))
      /\ l # "done" => Writing(c)'
      /\ JobsKnown' /\ WritersWrite' /\ Apart'
  BY <1>1, CacheGo DEF Cache!Steps
<1>3. /\ db \in Nat /\ mem \in [Processes -> Nat \cup {None}] /\ red \in Nat \cup {None}
      /\ got \in [CacheCalls -> Nat \cup {None}] /\ Cache!Proc(c) \in Processes
  BY <1>1 DEF CacheInv, Cache!TypeOK, JobsKnown, Cache!Proc
<1>4. db' \in Nat /\ red' \in Nat \cup {None} /\ mem' \in [Processes -> Nat \cup {None}]
  BY <1>3
<1>5. Cache!TypeOK'
  BY <1>2, <1>4 DEF CacheInv, Cache!TypeOK
<1>6. Clean' => Clean /\ ~away' /\ ~cut'
  BY DEF Clean
<1>7. Clean => \A d \in CacheCalls : Cache!Busy(d) => Writing(d)
  BY DEF CacheInv, Apart, Clean, Reading, Writing
<1>8. ReadsNow'
  <2>1. SUFFICES ASSUME Clean', NEW d \in CacheCalls, at'[d] \in {"promote", "fill", "setex"} PROVE FALSE
    BY DEF ReadsNow
  <2>2. d # c /\ at[d] = at'[d] /\ Cache!Busy(d)
    BY <1>2, <2>1 DEF Cache!Busy
  <2>3. QED
    BY <1>6, <1>7, <2>1, <2>2 DEF CacheInv, WritersWrite
<1>9. MemoryNow'
  <2>1. SUFFICES ASSUME Clean', NEW p \in Processes, mem'[p] \notin {None, db'}
                 PROVE  \E d \in CacheCalls : (Writing(d) /\ at[d] = "forget" /\ Cache!Proc(d) = p)'
    BY DEF MemoryNow
  <2>2. CASE at[c] = "write"
    <3>1. p = Cache!Proc(c)
      BY <1>6, <2>1, <2>2
    <3>2. Writing(c)' /\ at'[c] = "forget" /\ Cache!Proc(c)' = p
      BY <1>2, <2>2, <3>1 DEF Cache!Proc
    <3>3. QED
      BY <3>2
  <2>3. CASE at[c] # "write"
    <3>1. mem[p] = mem'[p] /\ db' = db /\ (at[c] = "forget" => p # Cache!Proc(c))
      BY <1>3, <2>1, <2>3
    <3>2. PICK d \in CacheCalls : Writing(d) /\ at[d] = "forget" /\ Cache!Proc(d) = p
      BY <1>6, <2>1, <3>1 DEF CacheInv, MemoryNow
    <3>3. d # c
      BY <2>3, <3>1, <3>2
    <3>4. Writing(d)' /\ at'[d] = "forget" /\ Cache!Proc(d)' = p
      BY <1>2, <3>2, <3>3 DEF Cache!Proc
    <3>5. QED
      BY <3>4
  <2>4. QED
    BY <2>2, <2>3
<1>10. RedisNow'
  <2>1. SUFFICES ASSUME Clean', red' \notin {None, db'}
                 PROVE  \E d \in CacheCalls : (Writing(d) /\ at[d] \in {"forget", "keys", "del"})'
    BY DEF RedisNow
  <2>2. CASE l # "done"
    BY <1>2, <2>2
  <2>3. CASE l = "done"
    BY <1>6, <2>1, <2>3
  <2>4. QED
    BY <2>2, <2>3
<1>11. QED
  BY <1>2, <1>5, <1>8, <1>9, <1>10 DEF CacheInv

(* A request that comes notices whom it overlaps. *)
LEMMA CacheStart == ASSUME CacheInv, NEW c \in CacheCalls, Cache!Start(c) PROVE CacheInv'
<1>1. PICK k \in Cache!Kinds, p \in Processes :
        /\ job' = [job EXCEPT ![c] = [kind |-> k, proc |-> p]]
        /\ at' = [at EXCEPT ![c] = IF k \in Cache!Writers THEN "write" ELSE IF k = "clear" THEN "forget" ELSE "memory"]
        /\ overlap' = (overlap \/ \E d \in CacheCalls : Cache!Busy(d) /\ (k \in Cache!Writers) # (job[d].kind \in Cache!Writers))
  BY Zenon DEF Cache!Start
<1>2. at[c] = "new" /\ UNCHANGED <<db, mem, red, up, got, away, cut>>
  BY DEF Cache!Start, Cache!tiers
<1>3. overlap' \in BOOLEAN /\ (~overlap' => ~overlap)
      /\ (~overlap' => \A d \in CacheCalls : Cache!Busy(d) => (k \in Cache!Writers <=> job[d].kind \in Cache!Writers))
  BY <1>1, Zenon
<1>4. /\ job \in [CacheCalls -> [kind: Cache!Kinds, proc: Processes] \cup {None}] /\ at \in [CacheCalls -> Cache!Steps]
      /\ mem \in [Processes -> Nat \cup {None}] /\ red \in Nat \cup {None} /\ db \in Nat
  BY DEF CacheInv, Cache!TypeOK
<1>5. /\ job'[c] = [kind |-> k, proc |-> p]
      /\ at'[c] = IF k \in Cache!Writers THEN "write" ELSE IF k = "clear" THEN "forget" ELSE "memory"
      /\ \A d \in CacheCalls \ {c} : job'[d] = job[d] /\ at'[d] = at[d]
      /\ job' \in [CacheCalls -> [kind: Cache!Kinds, proc: Processes] \cup {None}] /\ at' \in [CacheCalls -> Cache!Steps]
  BY <1>1, <1>4 DEF Cache!Steps
<1>6. /\ ~Cache!Busy(c) /\ (Writing(c)' <=> k \in Cache!Writers) /\ (Reading(c)' <=> k \notin Cache!Writers)
      /\ \A d \in CacheCalls \ {c} : Writing(d)' = Writing(d) /\ Reading(d)' = Reading(d) /\ Cache!Busy(d)' = Cache!Busy(d)
  BY <1>2, <1>5 DEF Writing, Reading, Cache!Busy
<1>7. Cache!TypeOK'
  BY <1>2, <1>5 DEF CacheInv, Cache!TypeOK
<1>8. JobsKnown' /\ WritersWrite'
  BY <1>5, <1>6 DEF CacheInv, JobsKnown, WritersWrite
<1>9. Apart'
  BY <1>3, <1>5, <1>6 DEF CacheInv, Apart, Reading, Writing
<1>10. Clean' => Clean
  BY <1>2, <1>3 DEF Clean
<1>11. ReadsNow'
  BY <1>2, <1>5, <1>10 DEF CacheInv, ReadsNow
<1>12. Clean' => MemoryNow' /\ RedisNow'
  <2>1. ASSUME NEW d \in CacheCalls, Writing(d) PROVE Writing(d)' /\ at'[d] = at[d] /\ Cache!Proc(d)' = Cache!Proc(d)
    BY <1>5, <1>6, <2>1 DEF Writing, Cache!Proc
  <2>2. QED
    BY <1>2, <1>10, <2>1 DEF CacheInv, MemoryNow, RedisNow
<1>13. MemoryNow' /\ RedisNow'
  BY <1>12 DEF MemoryNow, RedisNow
<1>14. QED
  BY <1>2, <1>3, <1>7, <1>8, <1>9, <1>11, <1>13 DEF CacheInv

(* What comes from outside: tiers lose entries, Redis comes and goes. *)
LEMMA CacheOutside ==
  ASSUME CacheInv, UNCHANGED <<db, job, at, got, overlap, away, cut>>, up' \in [Processes -> BOOLEAN],
         red' \in {red, None},
         mem' = mem \/ \E p \in Processes : mem' = [mem EXCEPT ![p] = None]
  PROVE  CacheInv'
<1>1. mem \in [Processes -> Nat \cup {None}] /\ red \in Nat \cup {None}
  BY DEF CacheInv, Cache!TypeOK
<1>2. mem' \in [Processes -> Nat \cup {None}] /\ red' \in Nat \cup {None} /\ \A p \in Processes : mem'[p] \in {mem[p], None}
  BY <1>1
<1>3. Cache!TypeOK'
  BY <1>2 DEF CacheInv, Cache!TypeOK
<1>4. JobsKnown' /\ WritersWrite' /\ Apart' /\ ReadsNow'
  BY DEF CacheInv, JobsKnown, WritersWrite, Apart, ReadsNow, Clean, Reading, Writing, Cache!Busy
<1>5. MemoryNow' /\ RedisNow'
  BY <1>2 DEF CacheInv, MemoryNow, RedisNow, Clean, Writing, Cache!Busy, Cache!Proc
<1>6. QED
  BY <1>3, <1>4, <1>5 DEF CacheInv

(* A restart empties a memory and cuts off what the process was doing. *)
LEMMA CacheRestart == ASSUME CacheInv, NEW p \in Processes, Cache!Restart(p) PROVE CacheInv'
<1>1. /\ mem' = [mem EXCEPT ![p] = None]
      /\ at' = [c \in CacheCalls |-> IF Cache!Busy(c) /\ Cache!Proc(c) = p THEN "done" ELSE at[c]]
      /\ UNCHANGED <<db, red, up, job, got, overlap, away>>
  BY DEF Cache!Restart
<1>2. cut' \in BOOLEAN /\ (~cut' => ~cut)
      /\ (~cut' => \A c \in CacheCalls : Cache!Busy(c) /\ Cache!Proc(c) = p /\ job[c].kind \in Cache!Writers => at[c] = "write")
  <2>1. cut' = (cut \/ \E c \in CacheCalls : Cache!Busy(c) /\ Cache!Proc(c) = p /\ job[c].kind \in Cache!Writers /\ at[c] # "write")
    BY DEF Cache!Restart
  <2>2. QED
    BY <2>1, Zenon
<1>3. mem \in [Processes -> Nat \cup {None}] /\ at \in [CacheCalls -> Cache!Steps]
  BY DEF CacheInv, Cache!TypeOK
<1>4. /\ \A q \in Processes : mem'[q] \in {mem[q], None}
      /\ mem' \in [Processes -> Nat \cup {None}] /\ at' \in [CacheCalls -> Cache!Steps]
      /\ \A c \in CacheCalls : at'[c] = at[c] \/ (at'[c] = "done" /\ Cache!Busy(c) /\ Cache!Proc(c) = p)
  BY <1>1, <1>3 DEF Cache!Steps
<1>5. \A c \in CacheCalls : (Cache!Busy(c)' => Cache!Busy(c) /\ at'[c] = at[c])
  BY <1>4 DEF Cache!Busy
<1>6. \A c \in CacheCalls : (Writing(c)' => Writing(c)) /\ (Reading(c)' => Reading(c))
  BY <1>1, <1>5 DEF Writing, Reading
<1>7. Cache!TypeOK'
  BY <1>1, <1>4 DEF CacheInv, Cache!TypeOK
<1>8. JobsKnown' /\ WritersWrite' /\ Apart'
  <2>1. JobsKnown'
    BY <1>1, <1>5 DEF CacheInv, JobsKnown
  <2>2. WritersWrite'
    BY <1>1, <1>4, <1>5, <1>6 DEF CacheInv, WritersWrite, Writing, Cache!Busy
  <2>3. Apart'
    BY <1>1, <1>6 DEF CacheInv, Apart
  <2>4. QED
    BY <2>1, <2>2, <2>3
<1>9. Clean' => Clean
  BY <1>1, <1>2 DEF Clean
<1>10. ReadsNow'
  BY <1>1, <1>4, <1>9 DEF CacheInv, ReadsNow
<1>11. Clean' => \A c \in CacheCalls : Writing(c) /\ at[c] # "write" => Writing(c)' /\ at'[c] = at[c]
  BY <1>1, <1>2, <1>4 DEF Clean, Writing, Cache!Busy
<1>12. MemoryNow'
  BY <1>1, <1>4, <1>9, <1>11 DEF CacheInv, MemoryNow, Cache!Proc
<1>13. RedisNow'
  BY <1>1, <1>9, <1>11 DEF CacheInv, RedisNow
<1>14. QED
  BY <1>1, <1>2, <1>7, <1>8, <1>10, <1>12, <1>13 DEF CacheInv

(* Every step of the cache keeps the invariant. *)
LEMMA CacheStep == ASSUME Cache!CachingAssumption, CacheInv, Cache!Next PROVE CacheInv'
<1> USE DEF Cache!Go, Cache!Goto, Cache!tiers, Cache!history, Cache!Busy, Cache!Steps, Cache!Writers
<1>1. cut \in BOOLEAN /\ away \in BOOLEAN
  BY DEF CacheInv
<1>2. ASSUME NEW c \in CacheCalls, Cache!Busy(c) PROVE Writing(c) \/ Reading(c)
  BY <1>2 DEF Writing, Reading
<1>3. ASSUME NEW c \in CacheCalls, Cache!Busy(c), at[c] \notin {"write", "forget", "keys", "del"}
      PROVE  Reading(c)
  BY <1>3 DEF Reading, Writing, CacheInv, WritersWrite
<1>4. ASSUME NEW c \in CacheCalls, Cache!Memory(c) PROVE CacheInv'
  <2>1. Reading(c)
    BY <1>3, <1>4 DEF Cache!Memory
  <2>2. QED
    BY <1>1, <1>4, <2>1, CacheRead DEF Cache!Memory
<1>5. ASSUME NEW c \in CacheCalls, Cache!Redis(c) PROVE CacheInv'
  <2>1. Reading(c)
    BY <1>3, <1>5 DEF Cache!Redis
  <2>2. QED
    BY <1>1, <1>5, <2>1, CacheRead DEF Cache!Redis
<1>6. ASSUME NEW c \in CacheCalls, Cache!Promote(c) PROVE CacheInv'
  <2>1. Reading(c)
    BY <1>3, <1>6 DEF Cache!Promote
  <2>2. QED
    BY <1>1, <1>6, <2>1, CacheRead DEF Cache!Promote
<1>7. ASSUME NEW c \in CacheCalls, Cache!Fetch(c) PROVE CacheInv'
  <2>1. Reading(c)
    BY <1>3, <1>7 DEF Cache!Fetch
  <2>2. QED
    BY <1>1, <1>7, <2>1, CacheRead DEF Cache!Fetch
<1>8. ASSUME NEW c \in CacheCalls, Cache!Fill(c) PROVE CacheInv'
  <2>1. Reading(c)
    BY <1>3, <1>8 DEF Cache!Fill
  <2>2. QED
    BY <1>1, <1>8, <2>1, CacheRead DEF Cache!Fill
<1>9. ASSUME NEW c \in CacheCalls, Cache!Setex(c) PROVE CacheInv'
  <2>1. Reading(c)
    BY <1>3, <1>9 DEF Cache!Setex
  <2>2. QED
    BY <1>1, <1>9, <2>1, CacheRead DEF Cache!Setex
<1>10. ASSUME NEW c \in CacheCalls, Cache!Write(c) PROVE CacheInv'
  <2>1. Writing(c)
    BY <1>10 DEF Cache!Write, CacheInv, WritersWrite
  <2>2. away' \in BOOLEAN /\ (away => away') /\ (~away' => \A p \in Processes \ {Cache!Proc(c)} : mem[p] = None)
    <3>1. away' = (away \/ \E p \in Processes \ {Cache!Proc(c)} : mem[p] # None)
      BY <1>10 DEF Cache!Write
    <3>2. QED
      BY <3>1, Zenon
  <2>3. QED
    BY <1>1, <1>10, <2>1, <2>2, CacheWrite DEF Cache!Write
<1>11. ASSUME NEW c \in CacheCalls, Cache!Forget(c) PROVE CacheInv'
  <2>1. cut' \in BOOLEAN /\ (cut => cut') /\ (~cut' => Cache!Connected(c))
    <3>1. cut' = (cut \/ ~Cache!Connected(c))
      BY <1>11 DEF Cache!Forget
    <3>2. QED
      BY <3>1, Zenon
  <2>2. PICK l \in {"keys", "del", "done"} :
          at' = [at EXCEPT ![c] = l] /\ (l = "done" => ~Cache!Connected(c))
    BY <1>11 DEF Cache!Forget
  <2>3. /\ at[c] = "forget" /\ mem' = [mem EXCEPT ![Cache!Proc(c)] = None]
        /\ UNCHANGED <<db, red, up, job, got, overlap, away>>
    BY <1>11 DEF Cache!Forget, Cache!Forgotten
  <2>4. CASE Writing(c)
    BY <1>1, <2>1, <2>2, <2>3, <2>4, CacheWrite
  <2>5. CASE Reading(c)
    BY <1>1, <2>1, <2>2, <2>3, <2>5, CacheRead
  <2>6. QED
    BY <1>2, <2>3, <2>4, <2>5
<1>12. ASSUME NEW c \in CacheCalls, Cache!ListKeys(c) PROVE CacheInv'
  <2>1. cut' \in BOOLEAN /\ (cut => cut') /\ (~cut' => Cache!Connected(c))
    <3>1. cut' = (cut \/ ~Cache!Connected(c))
      BY <1>12 DEF Cache!ListKeys
    <3>2. QED
      BY <3>1, Zenon
  <2>2. PICK l \in {"del", "done"} :
          at' = [at EXCEPT ![c] = l] /\ (l = "done" => ~Cache!Connected(c) \/ red = None)
    BY <1>12 DEF Cache!ListKeys
  <2>3. at[c] = "keys" /\ UNCHANGED <<db, red, mem, up, job, got, overlap, away>>
    BY <1>12 DEF Cache!ListKeys
  <2>4. CASE Writing(c)
    BY <1>1, <2>1, <2>2, <2>3, <2>4, CacheWrite
  <2>5. CASE Reading(c)
    BY <1>1, <2>1, <2>2, <2>3, <2>5, CacheRead
  <2>6. QED
    BY <1>2, <2>3, <2>4, <2>5
<1>13. ASSUME NEW c \in CacheCalls, Cache!Del(c) PROVE CacheInv'
  <2>1. cut' \in BOOLEAN /\ (cut => cut') /\ (~cut' => Cache!Connected(c))
    <3>1. cut' = (cut \/ ~Cache!Connected(c))
      BY <1>13 DEF Cache!Del
    <3>2. QED
      BY <3>1, Zenon
  <2>2. at[c] = "del" /\ at' = [at EXCEPT ![c] = "done"] /\ UNCHANGED <<db, mem, up, job, got, overlap, away>>
    BY <1>13 DEF Cache!Del
  <2>3. red' \in {red, None} /\ (Cache!Connected(c) => red' = None)
    BY <1>13 DEF Cache!Del
  <2>4. CASE Writing(c)
    BY <1>1, <2>1, <2>2, <2>3, <2>4, CacheWrite
  <2>5. CASE Reading(c)
    BY <1>1, <2>1, <2>2, <2>3, <2>5, CacheRead
  <2>6. QED
    BY <1>2, <2>2, <2>4, <2>5
<1>14. ASSUME NEW p \in Processes, Cache!Connection(p) \/ Cache!ExpireMemory(p) PROVE CacheInv'
  <2>1. CASE Cache!Connection(p)
    <3>1. up' \in [Processes -> BOOLEAN]
      BY <2>1 DEF Cache!Connection, CacheInv, Cache!TypeOK
    <3>2. QED
      BY <2>1, <3>1, CacheOutside DEF Cache!Connection
  <2>2. CASE Cache!ExpireMemory(p)
    BY <2>2, CacheOutside DEF Cache!ExpireMemory, CacheInv, Cache!TypeOK
  <2>3. QED
    BY <1>14, <2>1, <2>2
<1>15. CASE Cache!ExpireRedis
  BY <1>15, CacheOutside DEF Cache!ExpireRedis, CacheInv, Cache!TypeOK
<1>16. QED
  BY <1>4, <1>5, <1>6, <1>7, <1>8, <1>9, <1>10, <1>11, <1>12, <1>13, <1>14, <1>15, CacheStart, CacheRestart DEF Cache!Next

-----------------------------------------------------------------------------
(* Sessions: what was exchanged is over, and what was revoked is not stored. *)
StepsOf == [login |-> {"credentials", "session"}, second |-> {"record", "consume", "session"},
            refresh |-> {"resolve", "issue", "rotate"}, logout |-> {"blacklist", "resolve", "revoke"},
            fetch |-> {"cache", "lookup", "store"}, setup |-> {"secret"}, enable |-> {"record", "turn on"},
            disable |-> {"record", "turn off"}, block |-> {"block"}]
Asked == [kind: Login!Kinds, token: Login!Issuers \cup {None}, code: Login!Issuers \cup {None}]

(* A request awaits a statement of its handler, and holds tokens that were issued. *)
Handling == \A c \in Calls : Login!Busy(c) => job[c] \in Asked /\ at[c] \in StepsOf[job[c].kind]
Holding ==
  /\ \A c \in Calls : Login!Busy(c) =>
       /\ job[c].kind = "refresh" => job[c].token \in Login!Issuers /\ refresh[job[c].token] # "none"
       /\ job[c].kind \in {"logout", "fetch"} => job[c].token \in minted
       /\ job[c].kind = "second" => job[c].code \in {None, First} \/ (job[c].code \in Calls /\ at[job[c].code] = "done")
  /\ \A t \in minted : refresh[t] # "none"
  /\ \A c \in Calls : /\ at[c] \notin {"rotate", "done"} => refresh[c] = "none"
                      /\ at[c] = "rotate" => refresh[c] # "none"

(* What undisturbed requests do not share. *)
Single ==
  ~raced => \A c, d \in Calls : c # d /\ Login!Busy(c) /\ Login!Busy(d) =>
    /\ ~(job[c].kind = "refresh" /\ job[d].kind = "refresh" /\ job[c].token = job[d].token)
    /\ ~(job[c].kind \in Login!TouchCodes /\ job[d].kind \in Login!TouchCodes)

(* A token that was exchanged is over, and one about to be exchanged was not. *)
TokensOver ==
  /\ \A t \in Login!Issuers : <<"token", t>> \in used => refresh[t] = "over"
  /\ ~raced => \A c \in Calls : at[c] \in {"issue", "rotate"} => <<"token", job[c].token>> \notin used

Factor == [enabled: BOOLEAN, codes: SUBSET Login!Issuers]

(* The codes left, and those a request has read, were not exchanged. *)
CodesLeft ==
  /\ \A b \in Calls : <<"code", b>> \in used => at[b] = "done"
  /\ \A c \in Calls : at[c] = "consume" => two \in Factor /\ job[c].code \in read[c]
  /\ ~raced /\ two # None => \A b \in two.codes : <<"code", b>> \notin used
  /\ ~raced => \A c \in Calls : at[c] = "consume" => \A b \in read[c] : <<"code", b>> \notin used

Once == ~raced => ~twice

(* What was revoked is not in the cache, nor on its way there, but for what is late. *)
Revoked(t) == t \in black \/ blocked
Out ==
  /\ \A t \in cached : Revoked(t) => t \in late
  /\ \A c \in Calls : at[c] = "store" /\ Revoked(job[c].token) => job[c].token \in late

LoginTyped == Login!TypeOK /\ raced \in BOOLEAN /\ twice \in BOOLEAN
LoginInv == LoginTyped /\ Handling /\ Holding /\ Single /\ TokensOver /\ CodesLeft /\ Once /\ Out

(* What the sessions promise follows. *)
LEMMA LoginHolds == ASSUME LoginInv PROVE Login!TokensSpentOnce /\ Login!RevokedIsOut
<1>1. Login!TokensSpentOnce
  BY Zenon DEF Login!TokensSpentOnce, LoginInv, Once
<1>2. Login!RevokedIsOut
  BY DEF Login!RevokedIsOut, LoginInv, Out, Revoked
<1>3. QED
  BY <1>1, <1>2

(* One session, not yet exchanged, at the start. *)
LEMMA LoginInit == ASSUME Login!SessionsAssumption, Login!Init PROVE LoginInv
<1>1. raced \in BOOLEAN /\ twice \in BOOLEAN /\ Once
  BY DEF Login!Init, Once
<1>2. blocked \in BOOLEAN
  BY DEF Login!Init
<1>3. Login!TypeOK
  <2>1. two \in [enabled: BOOLEAN, codes: SUBSET Login!Issuers] \cup {None}
    <3>1. {First} \in SUBSET Login!Issuers
      BY DEF Login!Issuers
    <3>2. [enabled |-> TRUE, codes |-> {First}] \in [enabled: BOOLEAN, codes: SUBSET Login!Issuers]
      BY <3>1, Zenon
    <3>3. two = None \/ two = [enabled |-> TRUE, codes |-> {First}]
      BY DEF Login!Init
    <3>4. QED
      BY <3>2, <3>3, Zenon
  <2>2. QED
    BY <1>2, <2>1 DEF Login!Init, Login!TypeOK, Login!Issuers, Login!Steps
<1>4. \A c \in Calls : at[c] = "new" /\ ~Login!Busy(c) /\ refresh[c] = "none"
  BY DEF Login!Init, Login!Busy, Login!SessionsAssumption, Login!Issuers
<1>5. used = {} /\ cached = {} /\ minted = {First} /\ refresh[First] = "live"
  BY DEF Login!Init, Login!Issuers
<1>6. Handling /\ Holding /\ Single /\ TokensOver /\ CodesLeft /\ Out
  BY <1>4, <1>5 DEF Handling, Holding, Single, TokensOver, CodesLeft, Out
<1>7. QED
  BY <1>1, <1>3, <1>6 DEF LoginInv, LoginTyped

(* The statements of a handler are statements of the module. *)
LEMMA LoginSteps ==
  ASSUME NEW k \in Login!Kinds
  PROVE  StepsOf[k] \subseteq Login!Steps \ {"new", "done"}
<1>1. CASE k = "login"
  BY <1>1 DEF StepsOf, Login!Steps
<1>2. CASE k = "second"
  BY <1>2 DEF StepsOf, Login!Steps
<1>3. CASE k = "refresh"
  BY <1>3 DEF StepsOf, Login!Steps
<1>4. CASE k = "logout"
  BY <1>4 DEF StepsOf, Login!Steps
<1>5. CASE k = "fetch"
  BY <1>5 DEF StepsOf, Login!Steps
<1>6. CASE k = "setup"
  BY <1>6 DEF StepsOf, Login!Steps
<1>7. CASE k = "enable"
  BY <1>7 DEF StepsOf, Login!Steps
<1>8. CASE k = "disable"
  BY <1>8 DEF StepsOf, Login!Steps
<1>9. CASE k = "block"
  BY <1>9 DEF StepsOf, Login!Steps
<1>10. QED
  BY <1>1, <1>2, <1>3, <1>4, <1>5, <1>6, <1>7, <1>8, <1>9 DEF Login!Kinds

(* A request goes on to a statement of its handler. *)
LEMMA LoginGo ==
  ASSUME LoginInv, NEW c \in Calls, Login!Busy(c), NEW l \in StepsOf[job[c].kind] \cup {"done"},
         at' = [at EXCEPT ![c] = l], UNCHANGED job
  PROVE  /\ at' \in [Calls -> Login!Steps] /\ at'[c] = l /\ \A d \in Calls \ {c} : at'[d] = at[d]
         /\ \A d \in Calls : at[d] = "done" => at'[d] = "done"
         /\ \A d \in Calls : Login!Busy(d)' => Login!Busy(d)
         /\ job[c] \in Asked /\ at[c] \in StepsOf[job[c].kind]
         /\ Handling' /\ (UNCHANGED raced => Single')
<1>1. at \in [Calls -> Login!Steps] /\ job[c] \in Asked /\ at[c] \in StepsOf[job[c].kind]
  BY DEF LoginInv, LoginTyped, Login!TypeOK, Handling
<1>2. l \in Login!Steps /\ l # "new" /\ at[c] # "done"
  <2>1. job[c].kind \in Login!Kinds
    BY <1>1 DEF Asked
  <2>2. QED
    BY <2>1, LoginSteps DEF Login!Steps, Login!Busy
<1>3. at' \in [Calls -> Login!Steps] /\ at'[c] = l /\ \A d \in Calls \ {c} : at'[d] = at[d]
  BY <1>1, <1>2
<1>4. \A d \in Calls : Login!Busy(d)' => Login!Busy(d)
  BY <1>3 DEF Login!Busy
<1>5. Handling'
  BY <1>1, <1>3, <1>4 DEF LoginInv, Handling, Login!Busy
<1>6. UNCHANGED raced => Single'
  BY <1>4 DEF LoginInv, Single
<1>7. QED
  BY <1>1, <1>2, <1>3, <1>4, <1>5, <1>6

(* The parts of the invariant a statement does not touch. *)
LEMMA HoldingQuiet ==
  ASSUME LoginInv, UNCHANGED <<job, refresh, minted>>,
         \A d \in Calls : (at[d] = "done" => at'[d] = "done") /\ (Login!Busy(d)' => Login!Busy(d)),
         \A d \in Calls : at'[d] \notin {"rotate", "done"} => at[d] \notin {"rotate", "done"},
         \A d \in Calls : at'[d] = "rotate" => at[d] = "rotate"
  PROVE  Holding'
BY DEF LoginInv, Holding

(* The same, of the tokens. *)
LEMMA TokensQuiet ==
  ASSUME LoginInv, UNCHANGED <<job, refresh, raced>>, \A t : <<"token", t>> \in used' => <<"token", t>> \in used,
         \A d \in Calls : at'[d] \in {"issue", "rotate"} => at[d] \in {"issue", "rotate"}
  PROVE  TokensOver'
BY DEF LoginInv, TokensOver

(* The same, of the codes. *)
LEMMA CodesQuiet ==
  ASSUME LoginInv, UNCHANGED <<job, two, raced>>, \A b : <<"code", b>> \in used' => <<"code", b>> \in used,
         \A d \in Calls : (at[d] = "done" => at'[d] = "done") /\ (at'[d] = "consume" => at[d] = "consume" /\ read'[d] = read[d])
  PROVE  CodesLeft'
BY DEF LoginInv, CodesLeft

(* The same, of what was revoked. *)
LEMMA OutQuiet ==
  ASSUME LoginInv, UNCHANGED <<job, black, blocked, late>>, cached' \subseteq cached,
         \A d \in Calls : at'[d] = "store" => at[d] = "store"
  PROVE  Out'
BY DEF LoginInv, Out, Revoked

(* The statement a request awaits says what it asks. *)
LEMMA LoginKinds ==
  ASSUME NEW k \in Login!Kinds
  PROVE  /\ "issue" \in StepsOf[k] \/ "rotate" \in StepsOf[k] => k = "refresh"
         /\ "resolve" \in StepsOf[k] => k \in {"refresh", "logout"}
         /\ "blacklist" \in StepsOf[k] \/ "revoke" \in StepsOf[k] => k = "logout"
         /\ "cache" \in StepsOf[k] \/ "lookup" \in StepsOf[k] \/ "store" \in StepsOf[k] => k = "fetch"
         /\ "consume" \in StepsOf[k] => k = "second"
         /\ "record" \in StepsOf[k] => k \in Login!TouchCodes
         /\ "turn on" \in StepsOf[k] \/ "turn off" \in StepsOf[k] => k \in {"enable", "disable"}
         /\ "credentials" \in StepsOf[k] => k = "login"
         /\ "session" \in StepsOf[k] => k \in {"login", "second"}
<1>1. CASE k = "login"
  BY <1>1 DEF StepsOf, Login!TouchCodes
<1>2. CASE k = "second"
  BY <1>2 DEF StepsOf, Login!TouchCodes
<1>3. CASE k = "refresh"
  BY <1>3 DEF StepsOf, Login!TouchCodes
<1>4. CASE k = "logout"
  BY <1>4 DEF StepsOf, Login!TouchCodes
<1>5. CASE k = "fetch"
  BY <1>5 DEF StepsOf, Login!TouchCodes
<1>6. CASE k = "setup"
  BY <1>6 DEF StepsOf, Login!TouchCodes
<1>7. CASE k = "enable"
  BY <1>7 DEF StepsOf, Login!TouchCodes
<1>8. CASE k = "disable"
  BY <1>8 DEF StepsOf, Login!TouchCodes
<1>9. CASE k = "block"
  BY <1>9 DEF StepsOf, Login!TouchCodes
<1>10. QED
  BY <1>1, <1>2, <1>3, <1>4, <1>5, <1>6, <1>7, <1>8, <1>9 DEF Login!Kinds

(* A request that comes notices whom it may collide with. *)
LEMMA LoginStart == ASSUME Login!SessionsAssumption, LoginInv, NEW c \in Calls, Login!Start(c) PROVE LoginInv'
<1>1. PICK k, t, b :
        /\ k \in Login!Kinds /\ t \in Login!Held[k] /\ b \in IF k = "second" THEN Login!Codes ELSE {None}
        /\ job' = [job EXCEPT ![c] = [kind |-> k, token |-> t, code |-> b]]
        /\ at' = [at EXCEPT ![c] = Login!Entry[k]]
        /\ raced' = (raced \/ \E r \in {job[d] : d \in {e \in Calls : Login!Busy(e)}} :
                                \/ k = "refresh" /\ r.kind = "refresh" /\ r.token = t
                                \/ k \in Login!TouchCodes /\ r.kind \in Login!TouchCodes)
  BY Zenon DEF Login!Start
<1>2. at[c] = "new" /\ UNCHANGED <<two, refresh, minted, temp, black, blocked, cached, read, used, twice, late>>
  BY DEF Login!Start, Login!account
<1>3. /\ raced' \in BOOLEAN /\ (~raced' => ~raced)
      /\ ~raced' => \A d \in Calls : Login!Busy(d) =>
           /\ ~(k = "refresh" /\ job[d].kind = "refresh" /\ job[d].token = t)
           /\ ~(k \in Login!TouchCodes /\ job[d].kind \in Login!TouchCodes)
  BY <1>1, Zenon
<1>4. /\ temp \subseteq Calls /\ minted \subseteq Login!Issuers /\ job \in [Calls -> Asked \cup {None}] /\ at \in [Calls -> Login!Steps]
      /\ Calls \subseteq Login!Issuers
  BY DEF LoginInv, LoginTyped, Login!TypeOK, Asked, Login!Issuers
<1>5. /\ Login!Entry[k] \in StepsOf[k] \ {"issue", "rotate", "consume", "store"}
      /\ k = "refresh" => t \in Login!Issuers /\ refresh[t] # "none"
      /\ k \in {"logout", "fetch"} => t \in minted
      /\ t \in Login!Issuers \cup {None}
  <2>0. t \in Login!Held[k]
    BY <1>1
  <2>1. CASE k \in {"login", "block"}
    <3>1. CASE k = "login"
      BY <1>4, <2>0, <3>1 DEF Login!Entry, StepsOf, Login!Held
    <3>2. CASE k = "block"
      BY <1>4, <2>0, <3>2 DEF Login!Entry, StepsOf, Login!Held
    <3>3. QED
      BY <2>1, <3>1, <3>2
  <2>2. CASE k = "second"
    BY <1>4, <2>0, <2>2 DEF Login!Entry, StepsOf, Login!Held
  <2>3. CASE k = "refresh"
    BY <1>4, <2>0, <2>3 DEF Login!Entry, StepsOf, Login!Held
  <2>4. CASE k \in {"logout", "fetch"}
    <3>1. CASE k = "logout"
      BY <1>4, <2>0, <3>1 DEF Login!Entry, StepsOf, Login!Held
    <3>2. CASE k = "fetch"
      BY <1>4, <2>0, <3>2 DEF Login!Entry, StepsOf, Login!Held
    <3>3. QED
      BY <2>4, <3>1, <3>2
  <2>5. CASE k \in {"setup", "enable", "disable"}
    <3>1. CASE k = "setup"
      BY <1>4, <2>0, <3>1 DEF Login!Entry, StepsOf, Login!Held
    <3>2. CASE k = "enable"
      BY <1>4, <2>0, <3>2 DEF Login!Entry, StepsOf, Login!Held
    <3>3. CASE k = "disable"
      BY <1>4, <2>0, <3>3 DEF Login!Entry, StepsOf, Login!Held
    <3>4. QED
      BY <2>5, <3>1, <3>2, <3>3
  <2>6. QED
    BY <1>1, <2>1, <2>2, <2>3, <2>4, <2>5 DEF Login!Kinds
<1>6. b \in Login!Issuers \cup {None} /\ (k = "second" => b \in {None, First} \/ (b \in Calls /\ at[b] = "done"))
  BY <1>1, <1>4 DEF Login!Codes, Login!Issuers
<1>7. Login!Entry[k] \in Login!Steps \ {"new", "done"}
  BY <1>1, <1>5, LoginSteps
<1> DEFINE j == [kind |-> k, token |-> t, code |-> b]
<1>8. j \in Asked /\ j.kind = k /\ j.token = t /\ j.code = b
  BY <1>1, <1>5, <1>6 DEF Asked
<1>9. job'[c] = j /\ job' \in [Calls -> Asked \cup {None}] /\ \A d \in Calls \ {c} : job'[d] = job[d] /\ at'[d] = at[d]
  BY <1>1, <1>4, <1>8
<1>10. at' \in [Calls -> Login!Steps] /\ at'[c] = Login!Entry[k]
  BY <1>1, <1>4, <1>7
<1> HIDE DEF j
<1>11. Login!TypeOK'
  BY <1>2, <1>9, <1>10 DEF LoginInv, LoginTyped, Login!TypeOK, Asked
<1>12. LoginTyped'
  BY <1>2, <1>3, <1>11 DEF LoginInv, LoginTyped
<1>13. ~Login!Busy(c) /\ Login!Busy(c)' /\ \A d \in Calls \ {c} : Login!Busy(d)' = Login!Busy(d)
  BY <1>2, <1>7, <1>9, <1>10 DEF Login!Busy
<1>14. Handling'
  BY <1>5, <1>8, <1>9, <1>10, <1>13 DEF LoginInv, Handling
<1>15. Holding'
  <2>1. \A d \in Calls : at[d] = "done" => at'[d] = "done"
    BY <1>2, <1>9
  <2>2. at'[c] # "rotate" /\ \A d \in Calls \ {c} : at'[d] = at[d]
    BY <1>5, <1>9, <1>10
  <2>3. \A d \in Calls : /\ at'[d] \notin {"rotate", "done"} => refresh[d] = "none"
                         /\ at'[d] = "rotate" => refresh[d] # "none"
    BY <1>2, <2>2 DEF LoginInv, Holding
  <2>4. ASSUME NEW d \in Calls, Login!Busy(d)'
        PROVE  /\ job'[d].kind = "refresh" => job'[d].token \in Login!Issuers /\ refresh[job'[d].token] # "none"
               /\ job'[d].kind \in {"logout", "fetch"} => job'[d].token \in minted
               /\ job'[d].kind = "second" => job'[d].code \in {None, First} \/ (job'[d].code \in Calls /\ at'[job'[d].code] = "done")
    <3>1. CASE d = c
      BY <1>5, <1>6, <1>8, <1>9, <2>1, <3>1
    <3>2. CASE d # c
      BY <1>9, <1>13, <2>1, <2>4, <3>2 DEF LoginInv, Holding
    <3>3. QED
      BY <3>1, <3>2
  <2>5. QED
    BY <1>2, <2>3, <2>4 DEF LoginInv, Holding
<1>16. Single'
  BY <1>3, <1>8, <1>9, <1>13 DEF LoginInv, Single
<1>17. TokensOver'
  BY <1>2, <1>3, <1>5, <1>9, <1>10 DEF LoginInv, TokensOver
<1>18. CodesLeft'
  BY <1>2, <1>3, <1>5, <1>9, <1>10 DEF LoginInv, CodesLeft
<1>19. Once'
  BY <1>2, <1>3, Zenon DEF LoginInv, Once
<1>20. Out'
  BY <1>2, <1>5, <1>9, <1>10 DEF LoginInv, Out, Revoked
<1>21. QED
  BY <1>12, <1>14, <1>15, <1>16, <1>17, <1>18, <1>19, <1>20 DEF LoginInv

(* A statement that writes nothing the invariant speaks of. *)
LEMMA LoginQuiet ==
  ASSUME LoginInv, NEW c \in Calls, Login!Busy(c),
         NEW l \in (StepsOf[job[c].kind] \cup {"done"}) \ {"issue", "rotate", "consume", "store"},
         at' = [at EXCEPT ![c] = l], at[c] = "rotate" => l = "done",
         UNCHANGED <<job, two, refresh, minted, black, blocked, cached, used, twice, raced, late>>,
         temp' \subseteq Calls, read' \in [Calls -> SUBSET Login!Issuers], \A d \in Calls \ {c} : read'[d] = read[d]
  PROVE  LoginInv'
<1>1. /\ at' \in [Calls -> Login!Steps] /\ at'[c] = l /\ \A d \in Calls \ {c} : at'[d] = at[d]
      /\ \A d \in Calls : (at[d] = "done" => at'[d] = "done") /\ (Login!Busy(d)' => Login!Busy(d))
      /\ Handling' /\ Single'
  BY LoginGo
<1>2. Login!TypeOK'
  BY <1>1 DEF LoginInv, LoginTyped, Login!TypeOK
<1>3. LoginTyped' /\ Once'
  BY <1>2 DEF LoginInv, LoginTyped, Once
<1>4. Holding'
  BY <1>1, HoldingQuiet DEF Login!Busy
<1>5. TokensOver'
  BY <1>1, TokensQuiet
<1>6. CodesLeft'
  BY <1>1, CodesQuiet
<1>7. Out'
  BY <1>1, OutQuiet
<1>8. QED
  BY <1>1, <1>3, <1>4, <1>5, <1>6, <1>7 DEF LoginInv

(* A request is at a statement of its handler. *)
LEMMA LoginIs ==
  ASSUME LoginInv, NEW c \in Calls, Login!Busy(c)
  PROVE  job[c].kind \in Login!Kinds /\ at[c] \in StepsOf[job[c].kind]
BY DEF LoginInv, Handling, Asked

(* The second factor: a code leaves the list as it is exchanged. *)
LEMMA LoginFactor ==
  ASSUME Login!SessionsAssumption, LoginInv, NEW c \in Calls, Login!Record(c) \/ Login!Consume(c) \/ Login!Secret(c) \/ Login!Turn(c)
  PROVE  LoginInv'
<1>1. /\ two \in [enabled: BOOLEAN, codes: SUBSET Login!Issuers] \cup {None}
      /\ read \in [Calls -> SUBSET Login!Issuers] /\ at \in [Calls -> Login!Steps] /\ temp \subseteq Calls
  BY DEF LoginInv, LoginTyped, Login!TypeOK
<1>2. two # None => two.codes \in SUBSET Login!Issuers
  BY <1>1
<1>3. CASE Login!Record(c)
  <2> DEFINE codes0 == IF two = None THEN {} ELSE two.codes
  <2>1. /\ at[c] = "record" /\ read' = [read EXCEPT ![c] = codes0] /\ UNCHANGED <<job, two, refresh, minted, temp, black, blocked, cached, used, twice, raced, late>>
        /\ at' = [at EXCEPT ![c] = Login!AfterRecord(job[c])] \/ at' = [at EXCEPT ![c] = "done"]
    BY <1>3 DEF Login!Record, Login!Goto, Login!account, Login!history
  <2>2. Login!Busy(c) /\ job[c].kind \in Login!TouchCodes
    BY <2>1, LoginIs, LoginKinds DEF Login!Busy
  <2>3. codes0 \in SUBSET Login!Issuers
    BY <1>2
  <2> HIDE DEF codes0
  <2>4. read' \in [Calls -> SUBSET Login!Issuers] /\ read'[c] = codes0 /\ \A d \in Calls \ {c} : read'[d] = read[d]
    BY <1>1, <2>1, <2>3
  <2>5. CASE at' = [at EXCEPT ![c] = "done"]
    BY <1>1, <2>1, <2>2, <2>4, <2>5, LoginQuiet
  <2>6. CASE at' = [at EXCEPT ![c] = Login!AfterRecord(job[c])] /\ Login!AfterRecord(job[c]) # "consume"
    <3>1. Login!AfterRecord(job[c]) \in (StepsOf[job[c].kind] \cup {"done"}) \ {"issue", "rotate", "consume", "store"}
      <4>1. CASE job[c].kind = "second"
        BY <2>6, <4>1 DEF Login!AfterRecord, StepsOf
      <4>2. CASE job[c].kind = "enable"
        <5>1. Login!AfterRecord(job[c]) \in {"done", "turn on"}
          BY <4>2 DEF Login!AfterRecord
        <5>2. StepsOf[job[c].kind] = {"record", "turn on"}
          BY <4>2 DEF StepsOf
        <5>3. QED
          BY <5>1, <5>2
      <4>3. CASE job[c].kind = "disable"
        <5>1. Login!AfterRecord(job[c]) \in {"done", "turn off"}
          BY <4>3 DEF Login!AfterRecord
        <5>2. StepsOf[job[c].kind] = {"record", "turn off"}
          BY <4>3 DEF StepsOf
        <5>3. QED
          BY <5>1, <5>2
      <4>4. QED
        BY <2>2, <4>1, <4>2, <4>3 DEF Login!TouchCodes
    <3>2. QED
      BY <1>1, <2>1, <2>2, <2>4, <2>6, <3>1, LoginQuiet
  <2>7. CASE at' = [at EXCEPT ![c] = "consume"] /\ Login!AfterRecord(job[c]) = "consume"
    <3>1. job[c].kind = "second" /\ two # None /\ job[c].code # None /\ job[c].code \in two.codes
      BY <2>2, <2>7 DEF Login!AfterRecord, Login!Enabled, Login!TouchCodes
    <3>2. "consume" \in StepsOf[job[c].kind]
      BY <3>1 DEF StepsOf
    <3>3. /\ at' \in [Calls -> Login!Steps] /\ at'[c] = "consume" /\ \A d \in Calls \ {c} : at'[d] = at[d]
          /\ \A d \in Calls : (at[d] = "done" => at'[d] = "done") /\ (Login!Busy(d)' => Login!Busy(d))
          /\ Handling' /\ Single'
      BY <2>1, <2>2, <2>7, <3>2, LoginGo
    <3>4. Login!TypeOK'
      BY <2>1, <2>4, <3>3 DEF LoginInv, LoginTyped, Login!TypeOK
    <3>5. LoginTyped' /\ Once'
      BY <2>1, <3>4 DEF LoginInv, LoginTyped, Once
    <3>6. Holding'
      BY <2>1, <3>3, HoldingQuiet
    <3>7. TokensOver'
      BY <2>1, <3>3, TokensQuiet
    <3>8. CodesLeft'
      BY <1>1, <2>1, <2>4, <3>1, <3>3 DEF LoginInv, CodesLeft, Factor, codes0
    <3>9. Out'
      BY <2>1, <3>3, OutQuiet
    <3>10. QED
      BY <3>3, <3>5, <3>6, <3>7, <3>8, <3>9 DEF LoginInv
  <2>8. QED
    BY <2>1, <2>5, <2>6, <2>7
<1>4. CASE Login!Consume(c)
  <2>1. /\ at[c] = "consume" /\ two' = [two EXCEPT !.codes = read[c] \ {job[c].code}] /\ at' = [at EXCEPT ![c] = "session"]
        /\ used' = used \cup {<<"code", job[c].code>>}
        /\ UNCHANGED <<job, refresh, minted, temp, black, blocked, cached, read, raced, late>>
    BY <1>4 DEF Login!Consume, Login!Left, Login!Go, Login!Goto, Login!Spend
  <2>2. twice' \in BOOLEAN /\ (twice' => twice \/ <<"code", job[c].code>> \in used)
    <3>1. twice' = (twice \/ <<"code", job[c].code>> \in used)
      BY <1>4 DEF Login!Consume, Login!Spend
    <3>2. QED
      BY <3>1, Zenon
  <2>3. Login!Busy(c) /\ job[c].kind = "second"
    BY <2>1, LoginIs, LoginKinds DEF Login!Busy
  <2>4. two \in Factor /\ job[c].code \in read[c] /\ (job[c].code \in {None, First} \/ (job[c].code \in Calls /\ at[job[c].code] = "done"))
    BY <2>1, <2>3 DEF LoginInv, CodesLeft, Holding
  <2>5. two' \in Factor /\ two'.codes = read[c] \ {job[c].code} 
    <3>1. read[c] \ {job[c].code} \in SUBSET Login!Issuers
      BY <1>1
    <3>2. QED
      BY <2>1, <2>4, <3>1 DEF Factor
  <2>6. "session" \in StepsOf[job[c].kind]
    BY <2>3 DEF StepsOf
  <2>7. /\ at' \in [Calls -> Login!Steps] /\ at'[c] = "session" /\ \A d \in Calls \ {c} : at'[d] = at[d]
        /\ \A d \in Calls : (at[d] = "done" => at'[d] = "done") /\ (Login!Busy(d)' => Login!Busy(d))
        /\ Handling' /\ Single'
    BY <2>1, <2>3, <2>6, LoginGo
  <2>8. LoginTyped'
    <3>1. two' \in [enabled: BOOLEAN, codes: SUBSET Login!Issuers] \cup {None}
      BY <2>5 DEF Factor
    <3>2. Login!TypeOK'
      BY <2>1, <2>7, <3>1 DEF LoginInv, LoginTyped, Login!TypeOK
    <3>3. QED
      BY <2>1, <2>2, <3>2 DEF LoginInv, LoginTyped
  <2>9. Holding'
    BY <2>1, <2>7, HoldingQuiet
  <2>10. TokensOver'
    BY <2>1, <2>7, TokensQuiet
  <2>11. CodesLeft'
    <3>1. \A b \in Calls : <<"code", b>> \in used' => at'[b] = "done"
      <4>1. ASSUME NEW b \in Calls, <<"code", b>> \in used' PROVE <<"code", b>> \in used \/ b = job[c].code
        BY <2>1, <4>1
      <4>2. QED
        BY <2>4, <2>7, <4>1 DEF LoginInv, CodesLeft, Login!SessionsAssumption, Login!Issuers
    <3>2. \A d \in Calls : at'[d] = "consume" => two' \in Factor /\ job'[d].code \in read'[d]
      BY <2>1, <2>5, <2>7 DEF LoginInv, CodesLeft
    <3>3. ~raced' /\ two' # None => \A b \in two'.codes : <<"code", b>> \notin used'
      BY <2>1, <2>5 DEF LoginInv, CodesLeft
    <3>4. ~raced' => \A d \in Calls : at'[d] = "consume" => \A b \in read'[d] : <<"code", b>> \notin used'
      <4>1. SUFFICES ASSUME ~raced, NEW d \in Calls, at'[d] = "consume" PROVE FALSE
        BY <2>1
      <4>2. d # c /\ Login!Busy(d) /\ at[d] = "consume"
        BY <2>7, <4>1 DEF Login!Busy
      <4>3. job[d].kind = "second"
        BY <4>2, LoginIs, LoginKinds
      <4>4. QED
        BY <2>3, <4>1, <4>2, <4>3 DEF LoginInv, Single, Login!TouchCodes
    <3>5. QED
      BY <3>1, <3>2, <3>3, <3>4 DEF CodesLeft
  <2>12. Once'
    BY <2>1, <2>2, <2>4 DEF LoginInv, Once, CodesLeft
  <2>13. Out'
    BY <2>1, <2>7, OutQuiet
  <2>14. QED
    BY <2>7, <2>8, <2>9, <2>10, <2>11, <2>12, <2>13 DEF LoginInv
<1>5. CASE Login!Secret(c) \/ Login!Turn(c)
  <2>1. /\ at[c] \in {"secret", "turn on", "turn off"} /\ at' = [at EXCEPT ![c] = "done"]
        /\ UNCHANGED <<job, refresh, minted, temp, black, blocked, cached, read, used, twice, raced, late>>
    BY <1>5 DEF Login!Secret, Login!Turn, Login!Go, Login!Goto, Login!history
  <2>2. PICK left : \E on \in BOOLEAN :
          /\ two' = [enabled |-> on, codes |-> left]
          /\ left = {} \/ (two # None /\ left = two.codes) \/ (at[c] = "turn on" /\ left = {c})
    <3>1. CASE Login!Secret(c)
      <4>1. two' = [enabled |-> FALSE, codes |-> IF two = None THEN {} ELSE two.codes]
        BY <3>1 DEF Login!Secret
      <4>2. CASE two = None
        <5>1. two' = [enabled |-> FALSE, codes |-> {}]
          BY <4>1, <4>2
        <5>2. QED
          BY <5>1
      <4>3. CASE two # None
        <5>1. two' = [enabled |-> FALSE, codes |-> two.codes]
          BY <4>1, <4>3
        <5>2. QED
          BY <4>3, <5>1
      <4>4. QED
        BY <4>2, <4>3
    <3>2. CASE Login!Turn(c)
      <4>1. CASE at[c] = "turn on"
        <5>1. two' = [enabled |-> TRUE, codes |-> {c}]
          BY <3>2, <4>1 DEF Login!Turn
        <5>2. QED
          BY <4>1, <5>1
      <4>2. CASE at[c] # "turn on"
        <5>1. two' = [enabled |-> FALSE, codes |-> {}]
          BY <3>2, <4>2 DEF Login!Turn
        <5>2. QED
          BY <5>1
      <4>3. QED
        BY <4>1, <4>2
    <3>3. QED
      BY <1>5, <3>1, <3>2
  <2>3. left \in SUBSET Login!Issuers
    BY <1>2, <2>2 DEF Login!Issuers
  <2>4. two' \in Factor /\ two'.codes = left
    <3>1. PICK on \in BOOLEAN : two' = [enabled |-> on, codes |-> left]
      BY <2>2
    <3>2. QED
      BY <2>3, <3>1 DEF Factor
  <2>5. Login!Busy(c)
    BY <2>1 DEF Login!Busy
  <2>6. /\ at' \in [Calls -> Login!Steps] /\ at'[c] = "done" /\ \A d \in Calls \ {c} : at'[d] = at[d]
        /\ \A d \in Calls : (at[d] = "done" => at'[d] = "done") /\ (Login!Busy(d)' => Login!Busy(d))
        /\ Handling' /\ Single'
    BY <2>1, <2>5, LoginGo
  <2>7. LoginTyped'
    <3>1. two' \in [enabled: BOOLEAN, codes: SUBSET Login!Issuers] \cup {None}
      BY <2>4 DEF Factor
    <3>2. Login!TypeOK'
      BY <2>1, <2>6, <3>1 DEF LoginInv, LoginTyped, Login!TypeOK
    <3>3. QED
      BY <2>1, <3>2 DEF LoginInv, LoginTyped
  <2>8. Holding'
    BY <2>1, <2>6, HoldingQuiet
  <2>9. TokensOver'
    BY <2>1, <2>6, TokensQuiet
  <2>10. CodesLeft'
    <3>1. ~raced => \A b \in left : <<"code", b>> \notin used
      BY <2>1, <2>2 DEF LoginInv, CodesLeft
    <3>2. QED
      BY <2>1, <2>4, <2>6, <3>1 DEF LoginInv, CodesLeft
  <2>11. Once'
    BY <2>1 DEF LoginInv, Once
  <2>12. Out'
    BY <2>1, <2>6, OutQuiet
  <2>13. QED
    BY <2>6, <2>7, <2>8, <2>9, <2>10, <2>11, <2>12 DEF LoginInv
<1>6. QED
  BY <1>3, <1>4, <1>5

(* Tokens: an old one is over once it is exchanged. *)
LEMMA LoginToken ==
  ASSUME Login!SessionsAssumption, LoginInv, NEW c \in Calls,
         \/ Login!Credentials(c) \/ Login!Session(c) \/ Login!Resolve(c) \/ Login!Issue(c) \/ Login!Rotate(c)
         \/ Login!Crash(c) \/ Login!Revoke(c)
  PROVE  LoginInv'
<1> USE DEF Login!Go, Login!Goto, Login!account, Login!history
<1>1. /\ refresh \in [Login!Issuers -> {"none", "live", "over"}] /\ minted \subseteq Login!Issuers /\ temp \subseteq Calls
      /\ read \in [Calls -> SUBSET Login!Issuers] /\ at \in [Calls -> Login!Steps] /\ Calls \subseteq Login!Issuers
  BY DEF LoginInv, LoginTyped, Login!TypeOK, Login!Issuers
<1>2. CASE Login!Credentials(c)
  <2>0. Login!Busy(c) /\ at[c] = "credentials"
    BY <1>2 DEF Login!Credentials, Login!Busy
  <2>1. Login!Busy(c) /\ job[c].kind = "login" /\ at[c] = "credentials"
    BY <2>0, LoginIs, LoginKinds
  <2>2. "session" \in StepsOf[job[c].kind]
    BY <2>1 DEF StepsOf
  <2>3. temp' \subseteq Calls
    BY <1>1, <1>2 DEF Login!Credentials
  <2>4. \E l \in {"session", "done"} : at' = [at EXCEPT ![c] = l]
    BY <1>2 DEF Login!Credentials
  <2>5. UNCHANGED <<job, two, refresh, minted, black, blocked, cached, read, used, twice, raced, late>>
    BY <1>2 DEF Login!Credentials
  <2>6. QED
    BY <1>1, <2>1, <2>2, <2>3, <2>4, <2>5, LoginQuiet
<1>3. CASE Login!Crash(c)
  BY <1>1, <1>3, LoginQuiet DEF Login!Crash, Login!Busy
<1>4. CASE Login!Session(c)
  <2>1. Login!Busy(c) /\ at[c] = "session" /\ at' = [at EXCEPT ![c] = "done"]
        /\ refresh' = [refresh EXCEPT ![c] = "live"] /\ minted' = minted \cup {c}
        /\ UNCHANGED <<job, two, temp, black, blocked, cached, read, used, twice, raced, late>>
    BY <1>4 DEF Login!Session, Login!Busy
  <2>2. /\ at' \in [Calls -> Login!Steps] /\ at'[c] = "done" /\ \A d \in Calls \ {c} : at'[d] = at[d]
        /\ \A d \in Calls : (at[d] = "done" => at'[d] = "done") /\ (Login!Busy(d)' => Login!Busy(d))
        /\ Handling' /\ Single'
    BY <2>1, LoginGo
  <2>3. refresh' \in [Login!Issuers -> {"none", "live", "over"}] /\ minted' \subseteq Login!Issuers
        /\ refresh'[c] = "live" /\ \A t \in Login!Issuers \ {c} : refresh'[t] = refresh[t]
    BY <1>1, <2>1
  <2>4. refresh[c] = "none"
    BY <2>1 DEF LoginInv, Holding
  <2>5. LoginTyped' /\ Once'
    <3>1. Login!TypeOK'
      BY <2>1, <2>2, <2>3 DEF LoginInv, LoginTyped, Login!TypeOK
    <3>2. QED
      BY <2>1, <3>1 DEF LoginInv, LoginTyped, Once
  <2>6. Holding'
    BY <1>1, <2>1, <2>2, <2>3 DEF LoginInv, Holding
  <2>7. TokensOver'
    BY <1>1, <2>1, <2>2, <2>3, <2>4 DEF LoginInv, TokensOver
  <2>8. CodesLeft'
    BY <2>1, <2>2, CodesQuiet
  <2>9. Out'
    BY <2>1, <2>2, OutQuiet
  <2>10. QED
    BY <2>2, <2>5, <2>6, <2>7, <2>8, <2>9 DEF LoginInv
<1>5. CASE Login!Resolve(c)
  <2>1. Login!Busy(c) /\ job[c].kind \in {"refresh", "logout"} /\ at[c] = "resolve"
    BY <1>5, LoginIs, LoginKinds DEF Login!Resolve, Login!Busy
  <2>2. UNCHANGED <<job, two, refresh, minted, temp, black, blocked, cached, read, used, twice, raced, late>>
    BY <1>5 DEF Login!Resolve
  <2>3. CASE at' = [at EXCEPT ![c] = "done"]
    BY <1>1, <2>1, <2>2, <2>3, LoginQuiet
  <2>4. CASE job[c].kind = "logout" /\ at' = [at EXCEPT ![c] = "revoke"]
    <3>1. "revoke" \in StepsOf[job[c].kind]
      BY <2>4 DEF StepsOf
    <3>2. QED
      BY <1>1, <2>1, <2>2, <2>4, <3>1, LoginQuiet
  <2>5. CASE job[c].kind = "refresh" /\ refresh[job[c].token] = "live" /\ at' = [at EXCEPT ![c] = "issue"]
    <3>1. "issue" \in StepsOf[job[c].kind]
      BY <2>5 DEF StepsOf
    <3>2. /\ at' \in [Calls -> Login!Steps] /\ at'[c] = "issue" /\ \A d \in Calls \ {c} : at'[d] = at[d]
          /\ \A d \in Calls : (at[d] = "done" => at'[d] = "done") /\ (Login!Busy(d)' => Login!Busy(d))
          /\ Handling' /\ Single'
      BY <2>1, <2>2, <2>5, <3>1, LoginGo
    <3>3. LoginTyped' /\ Once'
      <4>1. Login!TypeOK'
        BY <2>2, <3>2 DEF LoginInv, LoginTyped, Login!TypeOK
      <4>2. QED
        BY <2>2, <4>1 DEF LoginInv, LoginTyped, Once
    <3>4. Holding'
      BY <2>1, <2>2, <3>2, HoldingQuiet
    <3>5. job[c].token \in Login!Issuers
      BY <2>1, <2>5 DEF LoginInv, Holding
    <3>6. TokensOver'
      BY <2>2, <2>5, <3>2, <3>5 DEF LoginInv, TokensOver
    <3>7. CodesLeft'
      BY <2>2, <3>2, CodesQuiet
    <3>8. Out'
      BY <2>2, <3>2, OutQuiet
    <3>9. QED
      BY <3>2, <3>3, <3>4, <3>6, <3>7, <3>8 DEF LoginInv
  <2>6. QED
    BY <1>5, <2>1, <2>3, <2>4, <2>5 DEF Login!Resolve
<1>6. CASE Login!Issue(c)
  <2>1. /\ Login!Busy(c) /\ at[c] = "issue" /\ at' = [at EXCEPT ![c] = "rotate"]
        /\ refresh' = [refresh EXCEPT ![c] = "live"]
        /\ UNCHANGED <<job, two, minted, temp, black, blocked, cached, read, used, twice, raced, late>>
    BY <1>6 DEF Login!Issue, Login!Busy
  <2>2. job[c].kind = "refresh"
    BY <2>1, LoginIs, LoginKinds
  <2>3. "rotate" \in StepsOf[job[c].kind]
    BY <2>2 DEF StepsOf
  <2>4. /\ at' \in [Calls -> Login!Steps] /\ at'[c] = "rotate" /\ \A d \in Calls \ {c} : at'[d] = at[d]
        /\ \A d \in Calls : (at[d] = "done" => at'[d] = "done") /\ (Login!Busy(d)' => Login!Busy(d))
        /\ Handling' /\ Single'
    BY <2>1, <2>3, LoginGo
  <2>5. refresh' \in [Login!Issuers -> {"none", "live", "over"}]
        /\ refresh'[c] = "live" /\ \A t \in Login!Issuers \ {c} : refresh'[t] = refresh[t]
    BY <1>1, <2>1
  <2>6. refresh[c] = "none"
    BY <2>1 DEF LoginInv, Holding
  <2>7. LoginTyped' /\ Once'
    <3>1. Login!TypeOK'
      BY <2>1, <2>4, <2>5 DEF LoginInv, LoginTyped, Login!TypeOK
    <3>2. QED
      BY <2>1, <3>1 DEF LoginInv, LoginTyped, Once
  <2>8. Holding'
    BY <1>1, <2>1, <2>4, <2>5 DEF LoginInv, Holding
  <2>9. TokensOver'
    BY <1>1, <2>1, <2>4, <2>5, <2>6 DEF LoginInv, TokensOver
  <2>10. CodesLeft'
    BY <2>1, <2>4, CodesQuiet
  <2>11. Out'
    BY <2>1, <2>4, OutQuiet
  <2>12. QED
    BY <2>4, <2>7, <2>8, <2>9, <2>10, <2>11 DEF LoginInv
<1>7. CASE Login!Rotate(c)
  <2> DEFINE t0 == job[c].token
  <2>1. /\ Login!Busy(c) /\ at[c] = "rotate" /\ at' = [at EXCEPT ![c] = "done"]
        /\ refresh' = [refresh EXCEPT ![t0] = "over"] /\ minted' = minted \cup {c} /\ used' = used \cup {<<"token", t0>>}
        /\ UNCHANGED <<job, two, temp, black, blocked, cached, read, raced, late>>
    BY <1>7 DEF Login!Rotate, Login!Busy, Login!Spend
  <2>2. twice' \in BOOLEAN /\ (twice' => twice \/ <<"token", t0>> \in used)
    <3>1. twice' = (twice \/ <<"token", t0>> \in used)
      BY <1>7 DEF Login!Rotate, Login!Spend
    <3>2. QED
      BY <3>1, Zenon
  <2>3. job[c].kind = "refresh" /\ t0 \in Login!Issuers /\ refresh[t0] # "none"
    <3>1. job[c].kind = "refresh"
      BY <2>1, LoginIs, LoginKinds
    <3>2. QED
      BY <2>1, <3>1 DEF LoginInv, Holding
  <2>4. /\ at' \in [Calls -> Login!Steps] /\ at'[c] = "done" /\ \A d \in Calls \ {c} : at'[d] = at[d]
        /\ \A d \in Calls : (at[d] = "done" => at'[d] = "done") /\ (Login!Busy(d)' => Login!Busy(d))
        /\ Handling' /\ Single'
    BY <2>1, LoginGo
  <2>5. refresh' \in [Login!Issuers -> {"none", "live", "over"}] /\ minted' \subseteq Login!Issuers
        /\ refresh'[t0] = "over" /\ \A t \in Login!Issuers \ {t0} : refresh'[t] = refresh[t]
    BY <1>1, <2>1, <2>3
  <2> HIDE DEF t0
  <2>6. refresh[c] # "none"
    BY <2>1 DEF LoginInv, Holding
  <2>7. LoginTyped'
    <3>1. Login!TypeOK'
      BY <2>1, <2>4, <2>5 DEF LoginInv, LoginTyped, Login!TypeOK
    <3>2. QED
      BY <2>1, <2>2, <3>1 DEF LoginInv, LoginTyped
  <2>8. Holding'
    BY <1>1, <2>1, <2>3, <2>4, <2>5, <2>6 DEF LoginInv, Holding
  <2>9. TokensOver'
    <3>1. \A t \in Login!Issuers : <<"token", t>> \in used' => refresh'[t] = "over"
      BY <2>1, <2>5 DEF LoginInv, TokensOver
    <3>2. ASSUME ~raced, NEW d \in Calls, at'[d] \in {"issue", "rotate"}
          PROVE  <<"token", job[d].token>> \notin used'
      <4>1. d # c /\ at[d] \in {"issue", "rotate"} /\ Login!Busy(d)
        BY <2>4, <3>2 DEF Login!Busy
      <4>2. job[d].kind = "refresh"
        BY <4>1, LoginIs, LoginKinds
      <4>3. job[d].token # t0
        BY <2>1, <2>3, <3>2, <4>1, <4>2 DEF LoginInv, Single, t0
      <4>4. QED
        BY <2>1, <3>2, <4>1, <4>3 DEF LoginInv, TokensOver
    <3>3. QED
      BY <2>1, <3>1, <3>2 DEF TokensOver
  <2>10. CodesLeft'
    BY <2>1, <2>4, CodesQuiet
  <2>11. Once'
    BY <2>1, <2>2 DEF LoginInv, Once, TokensOver, t0
  <2>12. Out'
    BY <2>1, <2>4, OutQuiet
  <2>13. QED
    BY <2>4, <2>7, <2>8, <2>9, <2>10, <2>11, <2>12 DEF LoginInv
<1>8. CASE Login!Revoke(c)
  <2> DEFINE t0 == job[c].token
  <2>1. /\ Login!Busy(c) /\ at[c] = "revoke" /\ at' = [at EXCEPT ![c] = "done"]
        /\ refresh' = [refresh EXCEPT ![t0] = "over"]
        /\ UNCHANGED <<job, two, minted, temp, black, blocked, cached, read, used, twice, raced, late>>
    BY <1>8 DEF Login!Revoke, Login!Busy
  <2>2. job[c].kind = "logout"
    BY <2>1, LoginIs, LoginKinds
  <2>3. t0 \in Login!Issuers /\ refresh[t0] # "none"
    BY <1>1, <2>1, <2>2 DEF LoginInv, Holding
  <2>4. /\ at' \in [Calls -> Login!Steps] /\ at'[c] = "done" /\ \A d \in Calls \ {c} : at'[d] = at[d]
        /\ \A d \in Calls : (at[d] = "done" => at'[d] = "done") /\ (Login!Busy(d)' => Login!Busy(d))
        /\ Handling' /\ Single'
    BY <2>1, LoginGo
  <2>5. refresh' \in [Login!Issuers -> {"none", "live", "over"}]
        /\ refresh'[t0] = "over" /\ \A t \in Login!Issuers \ {t0} : refresh'[t] = refresh[t]
    BY <1>1, <2>1, <2>3
  <2> HIDE DEF t0
  <2>6. LoginTyped' /\ Once'
    <3>1. Login!TypeOK'
      BY <2>1, <2>4, <2>5 DEF LoginInv, LoginTyped, Login!TypeOK
    <3>2. QED
      BY <2>1, <3>1 DEF LoginInv, LoginTyped, Once
  <2>7. Holding'
    BY <1>1, <2>1, <2>3, <2>4, <2>5 DEF LoginInv, Holding
  <2>8. TokensOver'
    BY <2>1, <2>4, <2>5 DEF LoginInv, TokensOver
  <2>9. CodesLeft'
    BY <2>1, <2>4, CodesQuiet
  <2>10. Out'
    BY <2>1, <2>4, OutQuiet
  <2>11. QED
    BY <2>4, <2>6, <2>7, <2>8, <2>9, <2>10 DEF LoginInv
<1>9. QED
  BY <1>2, <1>3, <1>4, <1>5, <1>6, <1>7, <1>8

(* Tokens expire and validations are forgotten. *)
LEMMA LoginExpire ==
  ASSUME LoginInv, NEW t \in Login!Issuers, Login!Expire(t) \/ Login!Evict(t) PROVE LoginInv'
<1>1. CASE Login!Evict(t)
  <2>1. cached' = cached \ {t} /\ UNCHANGED <<two, refresh, minted, temp, black, blocked, job, at, read, used, twice, raced, late>>
    BY <1>1 DEF Login!Evict, Login!history
  <2>2. Login!TypeOK'
    BY <2>1 DEF LoginInv, LoginTyped, Login!TypeOK
  <2>3. Out'
    BY <2>1, OutQuiet
  <2>4. QED
    BY <2>1, <2>2, <2>3 DEF LoginInv, LoginTyped, Handling, Holding, Single, TokensOver, CodesLeft, Once, Login!Busy
<1>2. CASE Login!Expire(t)
  <2>1. /\ refresh[t] = "live" /\ refresh' = [refresh EXCEPT ![t] = "over"]
        /\ UNCHANGED <<two, minted, temp, black, blocked, cached, job, at, read, used, twice, raced, late>>
        /\ refresh \in [Login!Issuers -> {"none", "live", "over"}] /\ minted \subseteq Login!Issuers /\ Calls \subseteq Login!Issuers
    BY <1>2 DEF Login!Expire, Login!history, LoginInv, LoginTyped, Login!TypeOK, Login!Issuers
  <2>2. refresh' \in [Login!Issuers -> {"none", "live", "over"}]
        /\ \A s \in Login!Issuers : refresh'[s] = refresh[s] \/ (refresh[s] = "live" /\ refresh'[s] = "over")
    BY <2>1
  <2>3. Login!TypeOK'
    BY <2>1, <2>2 DEF LoginInv, LoginTyped, Login!TypeOK
  <2>4. Holding'
    BY <2>1, <2>2 DEF LoginInv, Holding, Login!Busy
  <2>5. TokensOver'
    BY <2>1, <2>2 DEF LoginInv, TokensOver
  <2>6. QED
    BY <2>1, <2>3, <2>4, <2>5 DEF LoginInv, LoginTyped, Handling, Single, CodesLeft, Once, Out, Revoked, Login!Busy
<1>3. QED
  BY <1>1, <1>2

(* Admission: a token is stored unless it was revoked before it was looked up. *)
LEMMA LoginValidate ==
  ASSUME Login!SessionsAssumption, LoginInv, NEW c \in Calls,
         Login!Blacklist(c) \/ Login!Block(c) \/ Login!Cache(c) \/ Login!Lookup(c) \/ Login!Store(c)
  PROVE  LoginInv'
<1> USE DEF Login!Go, Login!Goto, Login!account, Login!history
<1>1. /\ minted \subseteq Login!Issuers /\ temp \subseteq Calls /\ black \subseteq minted /\ cached \subseteq minted
      /\ read \in [Calls -> SUBSET Login!Issuers] /\ at \in [Calls -> Login!Steps]
  BY DEF LoginInv, LoginTyped, Login!TypeOK
<1>2. CASE Login!Cache(c)
  <2>1. /\ Login!Busy(c) /\ at[c] = "cache" /\ \E l \in {"lookup", "done"} : at' = [at EXCEPT ![c] = l]
        /\ UNCHANGED <<job, two, refresh, minted, temp, black, blocked, cached, read, used, twice, raced, late>>
    BY <1>2 DEF Login!Cache, Login!Busy
  <2>2. job[c].kind = "fetch"
    <3>1. job[c].kind \in Login!Kinds /\ "cache" \in StepsOf[job[c].kind]
      BY <2>1, LoginIs
    <3>2. QED
      BY <3>1, LoginKinds
  <2>3. "lookup" \in StepsOf[job[c].kind]
    BY <2>2 DEF StepsOf
  <2>4. QED
    BY <1>1, <2>1, <2>3, LoginQuiet
<1>3. CASE Login!Blacklist(c)
  <2> DEFINE t0 == job[c].token
  <2>1. /\ Login!Busy(c) /\ at[c] = "blacklist" /\ \E l \in {"resolve", "done"} : at' = [at EXCEPT ![c] = l]
        /\ black' = black \cup {t0} /\ Login!Overtaken({t0})
        /\ UNCHANGED <<job, two, refresh, minted, temp, blocked, cached, read, used, twice, raced>>
    BY <1>3 DEF Login!Blacklist, Login!Busy
  <2>2. job[c].kind = "logout"
    BY <2>1, LoginIs, LoginKinds
  <2>3. t0 \in minted
    BY <2>1, <2>2 DEF LoginInv, Holding
  <2>4. "resolve" \in StepsOf[job[c].kind]
    BY <2>2 DEF StepsOf
  <2>5. late \subseteq late' /\ (t0 \in late' \/ (t0 \notin cached /\ \A d \in Calls : at[d] = "store" => job[d].token # t0))
    BY <2>1 DEF Login!Overtaken
  <2> HIDE DEF t0
  <2>6. PICK l \in {"resolve", "done"} : at' = [at EXCEPT ![c] = l]
    BY <2>1
  <2>7. /\ at' \in [Calls -> Login!Steps] /\ at'[c] = l /\ \A d \in Calls \ {c} : at'[d] = at[d]
        /\ \A d \in Calls : (at[d] = "done" => at'[d] = "done") /\ (Login!Busy(d)' => Login!Busy(d))
        /\ Handling' /\ Single'
    BY <2>1, <2>4, <2>6, LoginGo
  <2>8. LoginTyped' /\ Once'
    <3>1. Login!TypeOK'
      BY <2>1, <2>3, <2>7 DEF LoginInv, LoginTyped, Login!TypeOK
    <3>2. QED
      BY <2>1, <3>1 DEF LoginInv, LoginTyped, Once
  <2>9. Holding'
    BY <2>1, <2>6, <2>7, HoldingQuiet
  <2>10. TokensOver'
    BY <2>1, <2>6, <2>7, TokensQuiet
  <2>11. CodesLeft'
    BY <2>1, <2>6, <2>7, CodesQuiet
  <2>12. Out'
    <3>1. ASSUME NEW t \in cached, Revoked(t)' PROVE t \in late'
      BY <2>1, <2>5, <3>1 DEF LoginInv, Out, Revoked
    <3>2. ASSUME NEW d \in Calls, at'[d] = "store", Revoked(job[d].token)' PROVE job[d].token \in late'
      <4>1. at[d] = "store"
        BY <2>6, <2>7, <3>2
      <4>2. QED
        BY <2>1, <2>5, <3>2, <4>1 DEF LoginInv, Out, Revoked
    <3>3. QED
      BY <2>1, <3>1, <3>2 DEF Out
  <2>13. QED
    BY <2>7, <2>8, <2>9, <2>10, <2>11, <2>12 DEF LoginInv
<1>4. CASE Login!Block(c)
  <2>1. /\ Login!Busy(c) /\ at[c] = "block" /\ at' = [at EXCEPT ![c] = "done"] /\ blocked' \in BOOLEAN
        /\ UNCHANGED <<job, two, refresh, minted, temp, black, cached, read, used, twice, raced>>
    BY <1>4 DEF Login!Block, Login!Busy
  <2>2. /\ at' \in [Calls -> Login!Steps] /\ at'[c] = "done" /\ \A d \in Calls \ {c} : at'[d] = at[d]
        /\ \A d \in Calls : (at[d] = "done" => at'[d] = "done") /\ (Login!Busy(d)' => Login!Busy(d))
        /\ Handling' /\ Single'
    BY <2>1, LoginGo
  <2>3. LoginTyped' /\ Once'
    <3>1. Login!TypeOK'
      BY <2>1, <2>2 DEF LoginInv, LoginTyped, Login!TypeOK
    <3>2. QED
      BY <2>1, <3>1 DEF LoginInv, LoginTyped, Once
  <2>4. Holding'
    BY <2>1, <2>2, HoldingQuiet
  <2>5. TokensOver'
    BY <2>1, <2>2, TokensQuiet
  <2>6. CodesLeft'
    BY <2>1, <2>2, CodesQuiet
  <2>7. Out'
    <3>1. \A d \in Calls : at'[d] = "store" => at[d] = "store"
      BY <2>2
    <3>2. CASE ~blocked'
      <4>1. UNCHANGED late
        BY <1>4, <3>2, Zenon DEF Login!Block
      <4>2. QED
        BY <2>1, <3>1, <3>2, <4>1 DEF LoginInv, Out, Revoked
    <3>3. CASE blocked'
      <4>1. Login!Overtaken(minted)
        BY <1>4, <3>3, Zenon DEF Login!Block
      <4>2. \A t \in cached : t \in late'
        BY <1>1, <4>1 DEF Login!Overtaken
      <4>3. ASSUME NEW d \in Calls, at[d] = "store" PROVE job[d].token \in late'
        <5>1. Login!Busy(d)
          BY <4>3 DEF Login!Busy
        <5>2. job[d].kind = "fetch"
          BY <4>3, <5>1, LoginIs, LoginKinds
        <5>3. job[d].token \in minted
          BY <5>1, <5>2 DEF LoginInv, Holding
        <5>4. QED
          BY <4>1, <4>3, <5>3 DEF Login!Overtaken
      <4>4. QED
        BY <2>1, <3>1, <4>2, <4>3 DEF Out
    <3>4. QED
      BY <2>1, <3>2, <3>3
  <2>8. QED
    BY <2>2, <2>3, <2>4, <2>5, <2>6, <2>7 DEF LoginInv
<1>5. CASE Login!Lookup(c)
  <2>1. /\ Login!Busy(c) /\ at[c] = "lookup"
        /\ UNCHANGED <<job, two, refresh, minted, temp, black, blocked, cached, read, used, twice, raced, late>>
    BY <1>5 DEF Login!Lookup, Login!Busy
  <2>2. job[c].kind = "fetch"
    <3>1. job[c].kind \in Login!Kinds /\ "lookup" \in StepsOf[job[c].kind]
      BY <2>1, LoginIs
    <3>2. QED
      BY <3>1, LoginKinds
  <2>3. CASE at' = [at EXCEPT ![c] = "done"]
    BY <1>1, <2>1, <2>3, LoginQuiet
  <2>4. CASE ~Revoked(job[c].token) /\ at' = [at EXCEPT ![c] = "store"]
    <3>1. "store" \in StepsOf[job[c].kind]
      BY <2>2 DEF StepsOf
    <3>2. /\ at' \in [Calls -> Login!Steps] /\ at'[c] = "store" /\ \A d \in Calls \ {c} : at'[d] = at[d]
          /\ \A d \in Calls : (at[d] = "done" => at'[d] = "done") /\ (Login!Busy(d)' => Login!Busy(d))
          /\ Handling' /\ Single'
      BY <2>1, <2>4, <3>1, LoginGo
    <3>3. LoginTyped' /\ Once'
      <4>1. Login!TypeOK'
        BY <2>1, <3>2 DEF LoginInv, LoginTyped, Login!TypeOK
      <4>2. QED
        BY <2>1, <4>1 DEF LoginInv, LoginTyped, Once
    <3>4. Holding'
      BY <2>1, <3>2, HoldingQuiet
    <3>5. TokensOver'
      BY <2>1, <3>2, TokensQuiet
    <3>6. CodesLeft'
      BY <2>1, <3>2, CodesQuiet
    <3>7. Out'
      BY <2>1, <2>4, <3>2 DEF LoginInv, Out, Revoked
    <3>8. QED
      BY <3>2, <3>3, <3>4, <3>5, <3>6, <3>7 DEF LoginInv
  <2>5. QED
    BY <1>5, <2>3, <2>4 DEF Login!Lookup, Revoked
<1>6. CASE Login!Store(c)
  <2>1. /\ Login!Busy(c) /\ at[c] = "store" /\ at' = [at EXCEPT ![c] = "done"] /\ cached' = cached \cup {job[c].token}
        /\ UNCHANGED <<job, two, refresh, minted, temp, black, blocked, read, used, twice, raced, late>>
    BY <1>6 DEF Login!Store, Login!Busy
  <2>2. job[c].kind = "fetch"
    BY <2>1, LoginIs, LoginKinds
  <2>3. job[c].token \in minted
    BY <2>1, <2>2 DEF LoginInv, Holding
  <2>4. /\ at' \in [Calls -> Login!Steps] /\ at'[c] = "done" /\ \A d \in Calls \ {c} : at'[d] = at[d]
        /\ \A d \in Calls : (at[d] = "done" => at'[d] = "done") /\ (Login!Busy(d)' => Login!Busy(d))
        /\ Handling' /\ Single'
    BY <2>1, LoginGo
  <2>5. LoginTyped' /\ Once'
    <3>1. Login!TypeOK'
      BY <2>1, <2>3, <2>4 DEF LoginInv, LoginTyped, Login!TypeOK
    <3>2. QED
      BY <2>1, <3>1 DEF LoginInv, LoginTyped, Once
  <2>6. Holding'
    BY <2>1, <2>4, HoldingQuiet
  <2>7. TokensOver'
    BY <2>1, <2>4, TokensQuiet
  <2>8. CodesLeft'
    BY <2>1, <2>4, CodesQuiet
  <2>9. Out'
    BY <2>1, <2>4 DEF LoginInv, Out, Revoked
  <2>10. QED
    BY <2>4, <2>5, <2>6, <2>7, <2>8, <2>9 DEF LoginInv
<1>7. QED
  BY <1>2, <1>3, <1>4, <1>5, <1>6

(* Every step of the sessions keeps the invariant. *)
LEMMA LoginStep == ASSUME Login!SessionsAssumption, LoginInv, Login!Next PROVE LoginInv'
<1>1. ASSUME NEW c \in Calls, Login!Handle(c) PROVE LoginInv'
  BY <1>1, LoginStart, LoginFactor, LoginToken, LoginValidate DEF Login!Handle
<1>2. QED
  BY <1>1, LoginExpire DEF Login!Next

-----------------------------------------------------------------------------
(* Accounts: an address has one user, and a code accepted is closed. *)
AccountSteps ==
  [register |-> {"exists", "create", "send"}, oauth |-> {"linked", "same email", "create"}, resend |-> {"account", "send"},
   forgot |-> {"account", "send"}, otp |-> {"send"}, verify |-> {"code", "right", "wrong", "owner", "update"},
   reset |-> {"code", "right", "wrong", "owner", "update"}, phone |-> {"code", "right", "wrong", "owner", "update", "create"}]
Code == [attempts: Nat, verified: BOOLEAN, live: BOOLEAN]

AccountTyped ==
  /\ associate \in [Calls -> Account!Rows \cup {None}] /\ codes \in [Account!Targets -> Seq(Code)]
  /\ job \in [Calls -> Account!Kinds \cup {None}] /\ at \in [Calls -> Account!Steps]
  /\ got \in [Calls -> Calls \cup Nat \cup {None}]
  /\ twice \in BOOLEAN /\ guessed \in BOOLEAN /\ rushed \in BOOLEAN

(* A request awaits a statement of its handler, and what it has read is there. *)
Asking == \A c \in Calls : Account!Busy(c) => job[c] \in Account!Kinds /\ at[c] \in AccountSteps[job[c]]
Pointing == \A c \in Calls :
  /\ associate[c] # None => at[c] \in {"send", "done"}
  /\ at[c] = "update" => got[c] \in Account!Ids
  /\ at[c] = "create" /\ job[c] = "oauth" => got[c] = None \/ got[c] \in Account!Matching("email")
  /\ at[c] \in {"right", "wrong"} => got[c] \in DOMAIN codes[Account!Target(job[c])]

(* Requests that did not come at once are of different addresses. *)
Rival(c, d, K) == job[c] \in K /\ job[d] \in K /\ Account!Target(job[c]) = Account!Target(job[d])
Alone == \A c, d \in Calls : c # d /\ Account!Busy(c) /\ Account!Busy(d) =>
  /\ ~rushed => ~Rival(c, d, Account!Creates)
  /\ ~guessed => ~Rival(c, d, Account!Spends)

(* Every wrong answer ends a request. *)
Ended == {c \in Calls : at[c] = "done"}
Tries == \A t \in Account!Targets : \A i \in DOMAIN codes[t] : codes[t][i].attempts <= Cardinality(Ended)

(* The accounts of an address are of one user, and one about to be made has none before it. *)
Owned == ~rushed =>
  /\ \A t \in Account!Targets : \A i, j \in Account!Matching(t) : associate[i].user = associate[j].user
  /\ \A c \in Calls : at[c] = "create" /\ (job[c] # "oauth" \/ got[c] = None) => Account!Matching(Account!Target(job[c])) = {}

(* A code about to be answered is open, and one accepted is not. *)
Answered ==
  /\ \A t \in Account!Targets, i \in Nat : <<t, i>> \in spent => i \in DOMAIN codes[t] /\ codes[t][i].verified
  /\ ~guessed =>
       /\ ~twice
       /\ \A t \in Account!Targets : \A i \in DOMAIN codes[t] : codes[t][i].attempts <= MaxAttempts
       /\ \A c \in Calls : at[c] \in {"right", "wrong"} =>
            /\ ~codes[Account!Target(job[c])][got[c]].verified
            /\ codes[Account!Target(job[c])][got[c]].attempts < MaxAttempts

AccountInv == AccountTyped /\ Asking /\ Pointing /\ Alone /\ Tries /\ Owned /\ Answered

(* Requests are finitely many, so those that have ended can be counted. *)
LEMMA EndedFinite ==
  ASSUME Account!AccountsAssumption
  PROVE  IsFiniteSet(Calls) /\ IsFiniteSet(Ended) /\ Cardinality(Ended) \in Nat /\ Cardinality(Ended) <= Cardinality(Calls)
<1>1. IsFiniteSet(Calls)
  BY DEF Account!AccountsAssumption, Account!IsFiniteSet, IsFiniteSet
<1>2. Ended \subseteq Calls
  BY DEF Ended
<1>3. QED
  BY <1>1, <1>2, FS_Subset, FS_CardinalityType

(* What the accounts promise follows. *)
LEMMA AccountHolds ==
  ASSUME Account!AccountsAssumption, AccountInv
  PROVE  Account!TypeOK /\ Account!OneOwner /\ Account!CodesBounded
<1>1. Account!TypeOK
  <2>1. MaxAttempts \in Nat /\ Cardinality(Calls) \in Nat
    BY EndedFinite, FS_CardinalityType DEF Account!AccountsAssumption
  <2>2. ASSUME NEW t \in Account!Targets, NEW i \in DOMAIN codes[t]
        PROVE  codes[t][i] \in [attempts: 0 .. MaxAttempts + Cardinality(Calls), verified: BOOLEAN, live: BOOLEAN]
    <3>1. codes[t][i] \in Code
      BY <2>2 DEF AccountInv, AccountTyped
    <3>2. codes[t][i].attempts \in 0 .. MaxAttempts + Cardinality(Calls)
      BY <2>1, <3>1, EndedFinite DEF AccountInv, Tries, Code
    <3>3. QED
      BY <3>1, <3>2 DEF Code
  <2>3. Account!Cardinality(Calls) = Cardinality(Calls)
    BY DEF Account!Cardinality, Cardinality
  <2>4. QED
    BY <2>2, <2>3 DEF Account!TypeOK, AccountInv, AccountTyped, Account!Rows
<1>2. Account!OneOwner
  <2>1. ASSUME ~rushed, NEW t \in Account!Targets
        PROVE  Account!Cardinality({associate[i].user : i \in Account!Matching(t)}) <= 1
    <3> DEFINE U == {associate[i].user : i \in Account!Matching(t)}
    <3>1. U = {} \/ \E u : U = {u}
      BY <2>1 DEF AccountInv, Owned
    <3> HIDE DEF U
    <3>2. Cardinality(U) <= 1
      <4>1. CASE U = {}
        BY <4>1, FS_EmptySet
      <4>2. ASSUME NEW u, U = {u} PROVE Cardinality(U) <= 1
        <5>1. Cardinality({u}) = 1
          BY FS_Singleton
        <5>2. QED
          BY <4>2, <5>1
      <4>3. QED
        BY <3>1, <4>1, <4>2
    <3> USE DEF U
    <3>3. QED
      BY <3>2 DEF Account!Cardinality, Cardinality
  <2>2. QED
    BY <2>1 DEF Account!OneOwner
<1>3. Account!CodesBounded
  BY DEF Account!CodesBounded, AccountInv, Answered
<1>4. QED
  BY <1>1, <1>2, <1>3

(* Nobody has an account at the start. *)
LEMMA AccountInit == ASSUME Account!AccountsAssumption, Account!Init PROVE AccountInv
<1> DEFINE r == [attempts |-> 0, verified |-> FALSE, live |-> TRUE]
<1>1. PICK sent \in {<<>>, <<r>>} : codes = [email |-> <<>>, phone |-> sent]
  BY DEF Account!Init
<1>2. r \in Code /\ r.attempts = 0
  BY DEF Code
<1>3. <<>> \in Seq(Code) /\ <<r>> \in Seq(Code)
  BY <1>2
<1>4. codes["email"] = <<>> /\ (codes["phone"] = <<>> \/ codes["phone"] = <<r>>)
  BY <1>1
<1>5. codes \in [Account!Targets -> Seq(Code)]
  <2>1. codes["email"] \in Seq(Code) /\ codes["phone"] \in Seq(Code)
    BY <1>3, <1>4
  <2>2. codes = [t \in {"email", "phone"} |-> codes[t]]
    BY <1>1
  <2>3. QED
    BY <2>1, <2>2 DEF Account!Targets
<1>6. \A t \in Account!Targets : \A i \in DOMAIN codes[t] : codes[t][i].attempts = 0
  BY <1>2, <1>4 DEF Account!Targets
<1> HIDE DEF r
<1>7. twice \in BOOLEAN /\ guessed \in BOOLEAN /\ rushed \in BOOLEAN /\ ~twice /\ spent = {}
  BY DEF Account!Init
<1>8. /\ associate = [i \in Calls |-> None] /\ job = [c \in Calls |-> None] /\ at = [c \in Calls |-> "new"]
      /\ got = [c \in Calls |-> None]
  BY DEF Account!Init
<1>9. AccountTyped
  BY <1>5, <1>7, <1>8 DEF AccountTyped, Account!Steps
<1>10. \A c \in Calls : at[c] = "new" /\ ~Account!Busy(c) /\ associate[c] = None
  BY <1>8 DEF Account!Busy
<1>11. Asking /\ Pointing /\ Alone
  BY <1>10 DEF Asking, Pointing, Alone
<1>12. Tries
  BY <1>6, EndedFinite DEF Tries
<1>13. Owned
  BY <1>10 DEF Owned, Account!Matching, Account!Ids
<1>14. Answered
  BY <1>6, <1>7, <1>10 DEF Answered, Account!AccountsAssumption
<1>15. QED
  BY <1>9, <1>11, <1>12, <1>13, <1>14 DEF AccountInv

(* What the step of a request is of what it asks. *)
LEMMA AccountKinds ==
  ASSUME NEW k \in Account!Kinds
  PROVE  /\ AccountSteps[k] \subseteq Account!Steps \ {"new", "done"} /\ Account!Target(k) \in Account!Targets
         /\ "exists" \in AccountSteps[k] => k = "register"
         /\ "linked" \in AccountSteps[k] \/ "same email" \in AccountSteps[k] => k = "oauth"
         /\ "create" \in AccountSteps[k] => k \in Account!Creates
         /\ "account" \in AccountSteps[k] => k \in {"resend", "forgot"} /\ "send" \in AccountSteps[k]
         /\ "code" \in AccountSteps[k] \/ "right" \in AccountSteps[k] \/ "wrong" \in AccountSteps[k] \/ "owner" \in AccountSteps[k] \/ "update" \in AccountSteps[k]
              => k \in Account!Spends /\ {"right", "wrong", "owner", "update"} \subseteq AccountSteps[k]
<1> USE DEF AccountSteps, Account!Steps, Account!Target, Account!Targets, Account!Creates, Account!Spends
<1>1. CASE k = "register"
  BY <1>1
<1>2. CASE k = "oauth"
  BY <1>2
<1>3. CASE k = "resend"
  BY <1>3
<1>4. CASE k = "forgot"
  BY <1>4
<1>5. CASE k = "otp"
  BY <1>5
<1>6. CASE k = "verify"
  BY <1>6
<1>7. CASE k = "reset"
  BY <1>7
<1>8. CASE k = "phone"
  BY <1>8
<1>9. QED
  BY <1>1, <1>2, <1>3, <1>4, <1>5, <1>6, <1>7, <1>8 DEF Account!Kinds

(* A request that has not ended awaits a statement of its handler. *)
LEMMA AccountIs ==
  ASSUME AccountInv, NEW c \in Calls, Account!Busy(c)
  PROVE  job[c] \in Account!Kinds /\ at[c] \in AccountSteps[job[c]]
BY DEF AccountInv, Asking

(* A request goes on to a statement of its handler. *)
LEMMA AccountGo ==
  ASSUME Account!AccountsAssumption, AccountInv, NEW c \in Calls, Account!Busy(c),
         NEW l \in AccountSteps[job[c]] \cup {"done"}, at' = [at EXCEPT ![c] = l], UNCHANGED job
  PROVE  /\ at' \in [Calls -> Account!Steps] /\ at'[c] = l /\ \A d \in Calls \ {c} : at'[d] = at[d]
         /\ \A d \in Calls : Account!Busy(d)' => Account!Busy(d)
         /\ Asking' /\ (UNCHANGED <<guessed, rushed>> => Alone')
         /\ Ended' = IF l = "done" THEN Ended \cup {c} ELSE Ended
         /\ c \notin Ended
         /\ Cardinality(Ended)' \in Nat /\ Cardinality(Ended) <= Cardinality(Ended)'
         /\ l = "done" => Cardinality(Ended)' = Cardinality(Ended) + 1
<1>1. at \in [Calls -> Account!Steps] /\ job[c] \in Account!Kinds /\ at[c] \in AccountSteps[job[c]]
  BY AccountIs DEF AccountInv, AccountTyped
<1>2. l \in Account!Steps /\ l # "new" /\ at[c] \notin {"new", "done"}
  BY <1>1, AccountKinds DEF Account!Steps, Account!Busy
<1>3. at' \in [Calls -> Account!Steps] /\ at'[c] = l /\ \A d \in Calls \ {c} : at'[d] = at[d]
  BY <1>1, <1>2
<1>4. \A d \in Calls : Account!Busy(d)' => Account!Busy(d)
  BY <1>1, <1>3 DEF Account!Busy
<1>5. Asking'
  BY <1>1, <1>3, <1>4 DEF AccountInv, Asking, Account!Busy
<1>6. UNCHANGED <<guessed, rushed>> => Alone'
  BY <1>4 DEF AccountInv, Alone, Rival
<1>7. c \notin Ended /\ Ended' = IF l = "done" THEN Ended \cup {c} ELSE Ended
  BY <1>2, <1>3 DEF Ended
<1>8. Cardinality(Ended') \in Nat /\ Cardinality(Ended) <= Cardinality(Ended') /\ (l = "done" => Cardinality(Ended') = Cardinality(Ended) + 1)
  <2>1. IsFiniteSet(Ended) /\ Cardinality(Ended) \in Nat
    BY EndedFinite
  <2>2. Cardinality(Ended \cup {c}) = Cardinality(Ended) + 1
    BY <1>7, <2>1, FS_AddElement
  <2>3. QED
    BY <1>7, <2>1, <2>2
<1>9. QED
  BY <1>3, <1>4, <1>5, <1>6, <1>7, <1>8

(* The parts of the invariant a statement does not touch. *)
LEMMA TriesQuiet ==
  ASSUME AccountInv, UNCHANGED codes, Cardinality(Ended) \in Nat, Cardinality(Ended)' \in Nat,
         Cardinality(Ended) <= Cardinality(Ended)'
  PROVE  Tries'
<1>1. ASSUME NEW t \in Account!Targets, NEW i \in DOMAIN codes[t]
      PROVE  codes[t][i].attempts <= Cardinality(Ended)'
  <2>1. codes[t][i] \in Code
    BY DEF AccountInv, AccountTyped
  <2>2. codes[t][i].attempts \in Nat /\ codes[t][i].attempts <= Cardinality(Ended)
    BY <2>1 DEF AccountInv, Tries, Code
  <2>3. QED
    BY <2>2
<1>2. QED
  BY <1>1 DEF Tries

(* The same, of the owners. *)
LEMMA OwnedQuiet ==
  ASSUME AccountInv, UNCHANGED <<associate, job, rushed>>,
         \A d \in Calls : at'[d] = "create" => at[d] = "create" /\ got'[d] = got[d]
  PROVE  Owned'
BY DEF AccountInv, Owned, Account!Matching, Account!Ids

(* The same, of the codes. *)
LEMMA AnsweredQuiet ==
  ASSUME AccountInv, UNCHANGED <<codes, job, spent, twice, guessed>>,
         \A d \in Calls : at'[d] \in {"right", "wrong"} => at[d] \in {"right", "wrong"} /\ got'[d] = got[d]
  PROVE  Answered'
BY DEF AccountInv, Answered

(* The same, of what requests have read. *)
LEMMA PointingQuiet ==
  ASSUME AccountInv, UNCHANGED job,
         \A i \in Calls : associate[i] # None => associate'[i] # None /\ associate'[i].target = associate[i].target,
         \A t \in Account!Targets : DOMAIN codes[t] \subseteq DOMAIN codes'[t],
         \A d \in Calls : at'[d] \in {"update", "create", "right", "wrong"} => at'[d] = at[d] /\ got'[d] = got[d],
         \A d \in Calls : associate'[d] # None => at'[d] \in {"send", "done"}
  PROVE  Pointing'
<1>1. Account!Ids \subseteq Account!Ids' /\ Account!Matching("email") \subseteq Account!Matching("email")'
  BY DEF Account!Ids, Account!Matching
<1>2. ASSUME NEW d \in Calls, at'[d] \in {"right", "wrong"} PROVE got'[d] \in DOMAIN codes'[Account!Target(job[d])]
  <2>1. at[d] \in {"right", "wrong"} /\ Account!Busy(d) /\ got'[d] = got[d]
    BY <1>2 DEF Account!Busy
  <2>2. Account!Target(job[d]) \in Account!Targets
    BY DEF Account!Target, Account!Targets
  <2>3. QED
    BY <2>1, <2>2 DEF AccountInv, Pointing
<1>3. QED
  BY <1>1, <1>2 DEF AccountInv, Pointing

(* A statement that reads rows, and writes none. *)
LEMMA AccountRead ==
  ASSUME Account!AccountsAssumption, AccountInv, NEW c \in Calls, Account!Busy(c), at[c] # "send",
         NEW l \in (AccountSteps[job[c]] \cup {"done"}) \ {"right", "wrong"}, at' = [at EXCEPT ![c] = l],
         NEW g \in Calls \cup Nat \cup {None}, got' = [got EXCEPT ![c] = g],
         l = "update" => g \in Account!Ids,
         l = "create" => /\ job[c] = "oauth" => g = None \/ g \in Account!Matching("email")
                         /\ job[c] # "oauth" \/ g = None => Account!Matching(Account!Target(job[c])) = {},
         UNCHANGED <<associate, codes, job, spent, twice, guessed, rushed>>
  PROVE  AccountInv'
<1>1. /\ at' \in [Calls -> Account!Steps] /\ at'[c] = l /\ \A d \in Calls \ {c} : at'[d] = at[d]
      /\ Asking' /\ Alone' /\ Cardinality(Ended)' \in Nat /\ Cardinality(Ended) <= Cardinality(Ended)'
  BY AccountGo
<1>2. got' \in [Calls -> Calls \cup Nat \cup {None}] /\ got'[c] = g /\ \A d \in Calls \ {c} : got'[d] = got[d]
  BY DEF AccountInv, AccountTyped
<1>3. AccountTyped'
  BY <1>1, <1>2 DEF AccountInv, AccountTyped
<1>4. Tries'
  BY <1>1, EndedFinite, TriesQuiet
<1>5. Account!Ids' = Account!Ids /\ \A t : Account!Matching(t)' = Account!Matching(t)
  BY DEF Account!Ids, Account!Matching
<1>6. Pointing'
  <2>1. ASSUME NEW d \in Calls
        PROVE  /\ associate[d] # None => at'[d] \in {"send", "done"}
               /\ at'[d] = "update" => got'[d] \in Account!Ids
               /\ at'[d] = "create" /\ job[d] = "oauth" => got'[d] = None \/ got'[d] \in Account!Matching("email")
               /\ at'[d] \in {"right", "wrong"} => got'[d] \in DOMAIN codes[Account!Target(job[d])]
    <3>1. CASE d = c
      BY <1>1, <1>2, <3>1 DEF AccountInv, Pointing, Account!Busy
    <3>2. CASE d # c
      BY <1>1, <1>2, <3>2 DEF AccountInv, Pointing
    <3>3. QED
      BY <3>1, <3>2
  <2>2. QED
    BY <1>5, <2>1 DEF Pointing
<1>7. Owned'
  <2>1. ASSUME ~rushed, NEW d \in Calls, at'[d] = "create", job[d] # "oauth" \/ got'[d] = None
        PROVE  Account!Matching(Account!Target(job[d])) = {}
    <3>1. CASE d = c
      BY <1>1, <1>2, <2>1, <3>1
    <3>2. CASE d # c
      BY <1>1, <1>2, <2>1, <3>2 DEF AccountInv, Owned
    <3>3. QED
      BY <3>1, <3>2
  <2>2. QED
    BY <1>5, <2>1 DEF AccountInv, Owned
<1>8. Answered'
  BY <1>1, <1>2, AnsweredQuiet
<1>9. QED
  BY <1>1, <1>3, <1>4, <1>6, <1>7, <1>8 DEF AccountInv

(* The handlers find no account before they make one. *)
LEMMA AccountReads ==
  ASSUME Account!AccountsAssumption, AccountInv, NEW c \in Calls,
         Account!Exists(c) \/ Account!Linked(c) \/ Account!SameEmail(c) \/ Account!Account(c) \/ Account!FindOwner(c)
  PROVE  AccountInv'
<1> USE DEF Account!Goto, Account!rows, Account!history
<1>1. UNCHANGED <<associate, codes, job, spent, twice, guessed, rushed>>
  BY DEF Account!Exists, Account!Linked, Account!SameEmail, Account!Account, Account!FindOwner, Account!Reads
<1>2. Account!Busy(c) /\ at[c] # "send"
  BY DEF Account!Exists, Account!Linked, Account!SameEmail, Account!Account, Account!FindOwner, Account!Busy
<1>3. job[c] \in Account!Kinds /\ at[c] \in AccountSteps[job[c]]
  BY <1>2, AccountIs
<1>4. \A t : Account!Matching(t) \subseteq Account!Ids /\ Account!Ids \subseteq Calls /\ \A p : Account!OfProvider(t, p) \subseteq Account!Matching(t)
  BY DEF Account!Matching, Account!Ids, Account!OfProvider
<1>5. CASE Account!Exists(c)
  <2>1. job[c] = "register"
    <3>1. at[c] = "exists"
      BY <1>5 DEF Account!Exists
    <3>2. QED
      BY <1>3, <3>1, AccountKinds
  <2>2. "create" \in AccountSteps[job[c]] /\ Account!Target(job[c]) = "email"
    BY <2>1 DEF AccountSteps, Account!Target
  <2>3. \/ /\ Account!Matching("email") = {} /\ got' = [got EXCEPT ![c] = None] /\ at' = [at EXCEPT ![c] = "create"]
        \/ \E i \in Account!Matching("email") : got' = [got EXCEPT ![c] = i] /\ at' = [at EXCEPT ![c] = "done"]
    BY <1>5 DEF Account!Exists, Account!Reads
  <2>4. QED
    BY <1>1, <1>2, <1>4, <2>1, <2>2, <2>3, AccountRead
<1>6. CASE Account!Linked(c)
  <2>1. job[c] = "oauth"
    <3>1. at[c] = "linked"
      BY <1>6 DEF Account!Linked
    <3>2. QED
      BY <1>3, <3>1, AccountKinds
  <2>2. "same email" \in AccountSteps[job[c]]
    BY <2>1 DEF AccountSteps
  <2>3. \/ got' = [got EXCEPT ![c] = None] /\ at' = [at EXCEPT ![c] = "same email"]
        \/ \E i \in Account!OfProvider("email", "google") : got' = [got EXCEPT ![c] = i] /\ at' = [at EXCEPT ![c] = "done"]
    BY <1>6 DEF Account!Linked, Account!Reads
  <2>4. \A i \in Account!OfProvider("email", "google") : i \in Calls
    BY <1>4
  <2>5. CASE got' = [got EXCEPT ![c] = None] /\ at' = [at EXCEPT ![c] = "same email"]
    <3>1. "same email" \in (AccountSteps[job[c]] \cup {"done"}) \ {"right", "wrong"} /\ None \in Calls \cup Nat \cup {None}
      BY <2>2
    <3>2. "same email" # "update" /\ "same email" # "create"
      OBVIOUS
    <3>3. QED
      BY <1>1, <1>2, <2>5, <3>1, <3>2, AccountRead
  <2>6. ASSUME NEW i \in Calls, got' = [got EXCEPT ![c] = i], at' = [at EXCEPT ![c] = "done"] PROVE AccountInv'
    <3>1. "done" \in (AccountSteps[job[c]] \cup {"done"}) \ {"right", "wrong"} /\ i \in Calls \cup Nat \cup {None}
      OBVIOUS
    <3>2. "done" # "update" /\ "done" # "create"
      OBVIOUS
    <3>3. QED
      BY <1>1, <1>2, <2>6, <3>1, <3>2, AccountRead
  <2>7. QED
    BY <2>3, <2>4, <2>5, <2>6
<1>7. CASE Account!SameEmail(c)
  <2>1. job[c] = "oauth"
    <3>1. at[c] = "same email"
      BY <1>7 DEF Account!SameEmail
    <3>2. QED
      BY <1>3, <3>1, AccountKinds
  <2>2. "create" \in AccountSteps[job[c]] /\ Account!Target(job[c]) = "email"
    BY <2>1 DEF AccountSteps, Account!Target
  <2>3. \/ /\ Account!Matching("email") = {} /\ got' = [got EXCEPT ![c] = None] /\ at' = [at EXCEPT ![c] = "create"]
        \/ \E i \in Account!Matching("email") : got' = [got EXCEPT ![c] = i] /\ at' = [at EXCEPT ![c] = "create"]
    BY <1>7 DEF Account!SameEmail, Account!Reads
  <2>4. \A i \in Account!Matching("email") : i # None
    BY <1>4 DEF Account!AccountsAssumption
  <2>5. QED
    BY <1>1, <1>2, <1>4, <2>1, <2>2, <2>3, <2>4, AccountRead
<1>8. CASE Account!Account(c)
  <2>1. "send" \in AccountSteps[job[c]]
    <3>1. at[c] = "account"
      BY <1>8 DEF Account!Account
    <3>2. QED
      BY <1>3, <3>1, AccountKinds
  <2>2. \/ got' = [got EXCEPT ![c] = None] /\ at' = [at EXCEPT ![c] = "done"]
        \/ \E i \in Account!Ids : got' = [got EXCEPT ![c] = i] /\ at' = [at EXCEPT ![c] = "send"]
    BY <1>4, <1>8 DEF Account!Account, Account!Reads
  <2>3. QED
    BY <1>1, <1>2, <1>4, <2>1, <2>2, AccountRead
<1>9. CASE Account!FindOwner(c)
  <2>1. "update" \in AccountSteps[job[c]] /\ job[c] \in Account!Spends
    <3>1. at[c] = "owner"
      BY <1>9 DEF Account!FindOwner
    <3>2. QED
      BY <1>3, <3>1, AccountKinds
  <2>2. \/ job[c] # "phone" /\ got' = [got EXCEPT ![c] = None] /\ at' = [at EXCEPT ![c] = "done"]
        \/ /\ job[c] = "phone" /\ Account!Matching(Account!Target(job[c])) = {}
           /\ got' = [got EXCEPT ![c] = None] /\ at' = [at EXCEPT ![c] = "create"]
        \/ \E i \in Account!Ids : got' = [got EXCEPT ![c] = i] /\ at' = [at EXCEPT ![c] = "update"]
    BY <1>4, <1>9 DEF Account!FindOwner, Account!Reads
  <2>3. job[c] = "phone" => "create" \in AccountSteps[job[c]]
    BY DEF AccountSteps
  <2>4. QED
    BY <1>1, <1>2, <1>4, <2>1, <2>2, <2>3, AccountRead
<1>10. QED
  BY <1>5, <1>6, <1>7, <1>8, <1>9

(* A request that comes notices whom it may collide with. *)
LEMMA AccountStart == ASSUME Account!AccountsAssumption, AccountInv, NEW c \in Calls, Account!Start(c) PROVE AccountInv'
<1>1. PICK k \in Account!Kinds :
        /\ job' = [job EXCEPT ![c] = k] /\ at' = [at EXCEPT ![c] = Account!Entry[k]]
        /\ guessed' = (guessed \/ (k \in Account!Spends /\ \E r \in {job[d] : d \in {e \in Calls : Account!Busy(e)}} :
                                     r \in Account!Spends /\ Account!Target(r) = Account!Target(k)))
        /\ rushed' = (rushed \/ (k \in Account!Creates /\ \E r \in {job[d] : d \in {e \in Calls : Account!Busy(e)}} :
                                     r \in Account!Creates /\ Account!Target(r) = Account!Target(k)))
  BY Zenon DEF Account!Start
<1>2. at[c] = "new" /\ UNCHANGED <<associate, codes, got, spent, twice>>
  BY DEF Account!Start, Account!rows
<1>3. /\ guessed' \in BOOLEAN /\ (~guessed' => ~guessed)
      /\ ~guessed' => \A d \in Calls : Account!Busy(d) =>
           ~(k \in Account!Spends /\ job[d] \in Account!Spends /\ Account!Target(job[d]) = Account!Target(k))
  BY <1>1, Zenon
<1>4. /\ rushed' \in BOOLEAN /\ (~rushed' => ~rushed)
      /\ ~rushed' => \A d \in Calls : Account!Busy(d) =>
           ~(k \in Account!Creates /\ job[d] \in Account!Creates /\ Account!Target(job[d]) = Account!Target(k))
  BY <1>1, Zenon
<1>5. Account!Entry[k] \in AccountSteps[k] \ {"create", "update", "right", "wrong"}
  <2> USE DEF Account!Entry, AccountSteps
  <2>1. CASE k = "register"
    BY <2>1
  <2>2. CASE k = "oauth"
    BY <2>2
  <2>3. CASE k = "resend"
    BY <2>3
  <2>4. CASE k = "forgot"
    BY <2>4
  <2>5. CASE k = "otp"
    BY <2>5
  <2>6. CASE k = "verify"
    BY <2>6
  <2>7. CASE k = "reset"
    BY <2>7
  <2>8. CASE k = "phone"
    BY <2>8
  <2>9. QED
    BY <2>1, <2>2, <2>3, <2>4, <2>5, <2>6, <2>7, <2>8 DEF Account!Kinds
<1>6. Account!Entry[k] \in Account!Steps \ {"new", "done"}
  BY <1>5, AccountKinds
<1>7. /\ at' \in [Calls -> Account!Steps] /\ at'[c] = Account!Entry[k] /\ job' \in [Calls -> Account!Kinds \cup {None}] /\ job'[c] = k
      /\ \A d \in Calls \ {c} : at'[d] = at[d] /\ job'[d] = job[d]
  BY <1>1, <1>6 DEF AccountInv, AccountTyped
<1>8. ~Account!Busy(c) /\ Account!Busy(c)' /\ \A d \in Calls \ {c} : Account!Busy(d)' = Account!Busy(d)
  BY <1>2, <1>6, <1>7 DEF Account!Busy
<1>9. AccountTyped'
  BY <1>2, <1>3, <1>4, <1>7 DEF AccountInv, AccountTyped
<1>10. Asking'
  BY <1>5, <1>7, <1>8 DEF AccountInv, Asking
<1>11. Pointing'
  BY <1>2, <1>5, <1>7 DEF AccountInv, Pointing, Account!Matching, Account!Ids
<1>12. Alone'
  <2>1. ASSUME NEW d \in Calls \ {c}, Account!Busy(d)'
        PROVE  /\ ~rushed' => ~Rival(c, d, Account!Creates)' /\ ~Rival(d, c, Account!Creates)'
               /\ ~guessed' => ~Rival(c, d, Account!Spends)' /\ ~Rival(d, c, Account!Spends)'
    BY <1>3, <1>4, <1>7, <1>8, <2>1 DEF Rival
  <2>2. ASSUME NEW d \in Calls \ {c}, NEW e \in Calls \ {c}, d # e, Account!Busy(d)', Account!Busy(e)'
        PROVE  /\ ~rushed' => ~Rival(d, e, Account!Creates)'
               /\ ~guessed' => ~Rival(d, e, Account!Spends)'
    BY <1>3, <1>4, <1>7, <1>8, <2>2 DEF AccountInv, Alone, Rival
  <2>3. QED
    BY <2>1, <2>2 DEF Alone
<1>13. Tries'
  <2>1. Ended' = Ended
    BY <1>2, <1>6, <1>7 DEF Ended
  <2>2. QED
    BY <1>2, <2>1 DEF AccountInv, Tries
<1>14. Owned'
  BY <1>2, <1>4, <1>5, <1>7 DEF AccountInv, Owned, Account!Matching, Account!Ids
<1>15. Answered'
  BY <1>2, <1>3, <1>5, <1>7 DEF AccountInv, Answered
<1>16. QED
  BY <1>9, <1>10, <1>11, <1>12, <1>13, <1>14, <1>15 DEF AccountInv

(* What an operation on one row leaves of the codes. *)
LEMMA CodeWritten ==
  ASSUME codes \in [Account!Targets -> Seq(Code)], NEW t \in Account!Targets, NEW i \in DOMAIN codes[t], NEW r \in Code,
         codes' = [codes EXCEPT ![t] = [codes[t] EXCEPT ![i] = r]]
  PROVE  /\ codes' \in [Account!Targets -> Seq(Code)] /\ \A s \in Account!Targets : DOMAIN codes'[s] = DOMAIN codes[s]
         /\ codes'[t][i] = r
         /\ \A s \in Account!Targets : \A k \in DOMAIN codes[s] : s # t \/ k # i => codes'[s][k] = codes[s][k]
<1>1. codes[t] \in Seq(Code)
  OBVIOUS
<1> DEFINE w == [codes[t] EXCEPT ![i] = r]
<1>2. w \in Seq(Code) /\ DOMAIN w = DOMAIN codes[t] /\ w[i] = r /\ \A k \in DOMAIN codes[t] : k # i => w[k] = codes[t][k]
  BY <1>1
<1> HIDE DEF w
<1>3. codes' = [codes EXCEPT ![t] = w]
  BY DEF w
<1>4. codes' \in [Account!Targets -> Seq(Code)] /\ codes'[t] = w /\ \A s \in Account!Targets \ {t} : codes'[s] = codes[s]
  BY <1>2, <1>3
<1>5. QED
  BY <1>2, <1>4

(* The account made is of the user its address has, if it has one. *)
LEMMA AccountCreate == ASSUME Account!AccountsAssumption, AccountInv, NEW c \in Calls, Account!Create(c) PROVE AccountInv'
<1> USE DEF Account!Go, Account!Goto, Account!history
<1>1. at[c] = "create" /\ UNCHANGED <<codes, job, got, spent, twice, guessed, rushed>>
  BY DEF Account!Create
<1>2. Account!Busy(c) /\ job[c] \in Account!Kinds /\ at[c] \in AccountSteps[job[c]]
  BY <1>1, AccountIs DEF Account!Busy
<1>3. job[c] \in Account!Creates
  BY <1>1, <1>2, AccountKinds
<1>4. /\ None \notin Calls /\ got[c] \in Calls \cup Nat \cup {None} /\ associate \in [Calls -> Account!Rows \cup {None}]
  BY DEF AccountInv, AccountTyped, Account!AccountsAssumption
<1>5. PICK l \in AccountSteps[job[c]] \cup {"done"} : at' = [at EXCEPT ![c] = l] /\ l \in {"send", "done"}
  <2>1. at' = [at EXCEPT ![c] = IF job[c] = "register" THEN "send" ELSE "done"]
    BY DEF Account!Create
  <2>2. job[c] = "register" => "send" \in AccountSteps[job[c]]
    BY DEF AccountSteps
  <2>3. QED
    BY <2>1, <2>2
<1> DEFINE T == Account!Target(job[c])
<1>6. T \in Account!Targets
  BY DEF Account!Target, Account!Targets
<1>7. PICK r : /\ associate' = [associate EXCEPT ![c] = r]
               /\ r \in Account!Rows /\ r.target = T
               /\ r.user = c \/ (job[c] = "oauth" /\ got[c] \in Account!Matching("email") /\ r.user = associate[got[c]].user)
               /\ job[c] # "oauth" \/ got[c] = None \/ got[c] \in Account!Matching("email")
               /\ (job[c] # "oauth" \/ got[c] = None) => r.user = c
               /\ job[c] = "oauth" /\ got[c] # None => r.user = associate[got[c]].user
  <2>1. CASE job[c] = "register"
    <3>1. associate' = [associate EXCEPT ![c] = Account!Row(c, c, "password", FALSE)]
      BY <2>1 DEF Account!Create
    <3>2. Account!Row(c, c, "password", FALSE) = [user |-> c, provider |-> "password", target |-> T, verified |-> FALSE, hash |-> c]
      BY DEF Account!Row
    <3> DEFINE r == [user |-> c, provider |-> "password", target |-> T, verified |-> FALSE, hash |-> c]
    <3>3. r \in Account!Rows /\ r.target = T /\ r.user = c
      BY <1>6 DEF Account!Rows, Account!Providers
    <3>4. QED
      BY <2>1, <3>1, <3>2, <3>3
  <2>2. CASE job[c] = "phone"
    <3>1. associate' = [associate EXCEPT ![c] = Account!Row(c, c, "phone", TRUE)]
      BY <2>2 DEF Account!Create
    <3>2. Account!Row(c, c, "phone", TRUE) = [user |-> c, provider |-> "phone", target |-> T, verified |-> TRUE, hash |-> None]
      BY DEF Account!Row
    <3> DEFINE r == [user |-> c, provider |-> "phone", target |-> T, verified |-> TRUE, hash |-> None]
    <3>3. r \in Account!Rows /\ r.target = T /\ r.user = c
      BY <1>6 DEF Account!Rows, Account!Providers
    <3>4. QED
      BY <2>2, <3>1, <3>2, <3>3
  <2>3. CASE job[c] = "oauth"
    <3> DEFINE u == Account!Owner(c)
    <3>1. associate' = [associate EXCEPT ![c] = Account!Row(c, u, "google", TRUE)]
      BY <2>3 DEF Account!Create
    <3>2. Account!Row(c, u, "google", TRUE) = [user |-> u, provider |-> "google", target |-> T, verified |-> TRUE, hash |-> None]
      BY DEF Account!Row
    <3>3. got[c] = None \/ got[c] \in Account!Matching("email")
      BY <1>1, <2>3 DEF AccountInv, Pointing
    <3>4. /\ got[c] = None => u = c
          /\ got[c] # None => u = associate[got[c]].user
      BY DEF Account!Owner
    <3>5. u \in Calls
      <4>1. CASE got[c] = None
        BY <3>4, <4>1
      <4>2. CASE got[c] # None
        <5>1. got[c] \in Calls /\ associate[got[c]] \in Account!Rows
          BY <1>4, <3>3, <4>2 DEF Account!Matching, Account!Ids
        <5>2. QED
          BY <3>4, <4>2, <5>1 DEF Account!Rows
      <4>3. QED
        BY <4>1, <4>2
    <3> HIDE DEF u
    <3> DEFINE r == [user |-> u, provider |-> "google", target |-> T, verified |-> TRUE, hash |-> None]
    <3>6. r \in Account!Rows /\ r.target = T /\ r.user = u
      BY <1>6, <3>5 DEF Account!Rows, Account!Providers
    <3>7. QED
      BY <2>3, <3>1, <3>2, <3>3, <3>4, <3>6
  <2>4. QED
    BY <1>3, <2>1, <2>2, <2>3 DEF Account!Creates
<1>8. job[c] = "oauth" => T = "email"
  BY DEF Account!Target
<1> HIDE DEF T
<1>9. /\ at' \in [Calls -> Account!Steps] /\ at'[c] = l /\ \A d \in Calls \ {c} : at'[d] = at[d]
      /\ Asking' /\ Alone' /\ Cardinality(Ended)' \in Nat /\ Cardinality(Ended) <= Cardinality(Ended)'
  BY <1>1, <1>2, <1>5, AccountGo
<1>10. associate' \in [Calls -> Account!Rows \cup {None}] /\ associate'[c] = r /\ \A i \in Calls \ {c} : associate'[i] = associate[i]
  BY <1>4, <1>7
<1>11. r # None /\ associate[c] = None
  BY <1>1, <1>7 DEF Account!AccountsAssumption, AccountInv, Pointing
<1>12. /\ Account!Ids' = Account!Ids \cup {c} /\ c \notin Account!Ids
       /\ \A t : Account!Matching(t)' = IF t = T THEN Account!Matching(t) \cup {c} ELSE Account!Matching(t)
  BY <1>7, <1>10, <1>11 DEF Account!Ids, Account!Matching
<1>13. \A i \in Account!Ids : associate'[i] = associate[i]
  BY <1>10, <1>12 DEF Account!Ids
<1>14. AccountTyped'
  BY <1>1, <1>9, <1>10 DEF AccountInv, AccountTyped
<1>15. Pointing'
  <2>1. \A i \in Calls : associate[i] # None => associate'[i] # None /\ associate'[i].target = associate[i].target
    BY <1>13 DEF Account!Ids
  <2>2. \A d \in Calls : associate'[d] # None => at'[d] \in {"send", "done"}
    BY <1>5, <1>9, <1>10 DEF AccountInv, Pointing
  <2>3. \A d \in Calls : at'[d] \in {"update", "create", "right", "wrong"} => at'[d] = at[d] /\ got'[d] = got[d]
    BY <1>1, <1>5, <1>9
  <2>4. QED
    BY <1>1, <2>1, <2>2, <2>3, PointingQuiet
<1>16. Tries'
  BY <1>1, <1>9, EndedFinite, TriesQuiet
<1>17. Owned'
  <2>1. SUFFICES ASSUME ~rushed PROVE Owned'
    BY <1>1 DEF Owned
  <2>2. \A i \in Account!Matching(T) : associate[i].user = r.user
    <3>1. CASE job[c] # "oauth" \/ got[c] = None
      BY <1>1, <2>1, <3>1 DEF AccountInv, Owned, T
    <3>2. CASE job[c] = "oauth" /\ got[c] # None
      BY <1>6, <1>7, <1>8, <2>1, <3>2 DEF AccountInv, Owned
    <3>3. QED
      BY <3>1, <3>2
  <2>3. \A t \in Account!Targets : \A i, j \in Account!Matching(t)' : associate'[i].user = associate'[j].user
    <3>1. \A t : Account!Matching(t) \subseteq Account!Ids
      BY DEF Account!Matching
    <3>2. ASSUME NEW t \in Account!Targets, NEW i \in Account!Matching(t)', NEW j \in Account!Matching(t)'
          PROVE  associate'[i].user = associate'[j].user
      <4>1. \A h \in Account!Matching(t) : associate'[h].user = associate[h].user
        BY <1>13, <3>1
      <4>2. \A h, k \in Account!Matching(t) : associate[h].user = associate[k].user
        BY <2>1 DEF AccountInv, Owned
      <4>3. CASE t # T
        BY <1>12, <3>2, <4>1, <4>2, <4>3
      <4>4. CASE t = T
        BY <1>10, <1>12, <2>2, <3>2, <4>1, <4>2, <4>4
      <4>5. QED
        BY <4>3, <4>4
    <3>3. QED
      BY <3>2
  <2>4. ASSUME NEW d \in Calls, at'[d] = "create", job[d] # "oauth" \/ got[d] = None
        PROVE  Account!Matching(Account!Target(job[d]))' = {}
    <3>1. d # c /\ at[d] = "create" /\ Account!Busy(d)
      BY <1>5, <1>9, <2>4 DEF Account!Busy
    <3>2. job[d] \in Account!Creates
      BY <3>1, AccountIs, AccountKinds
    <3>3. Account!Target(job[d]) # T
      BY <1>2, <1>3, <2>1, <3>1, <3>2 DEF AccountInv, Alone, Rival, T
    <3>4. QED
      BY <1>1, <1>12, <2>1, <2>4, <3>1, <3>3 DEF AccountInv, Owned
  <2>5. QED
    BY <1>1, <2>3, <2>4 DEF Owned
<1>18. Answered'
  BY <1>1, <1>5, <1>9, AnsweredQuiet
<1>19. QED
  BY <1>9, <1>14, <1>15, <1>16, <1>17, <1>18 DEF AccountInv

(* An account keeps its user and its address. *)
LEMMA AccountUpdate == ASSUME Account!AccountsAssumption, AccountInv, NEW c \in Calls, Account!Update(c) PROVE AccountInv'
<1> USE DEF Account!Go, Account!Goto, Account!history
<1> DEFINE g == got[c]
<1>1. /\ at[c] = "update" /\ at' = [at EXCEPT ![c] = "done"]
      /\ UNCHANGED <<codes, job, got, spent, twice, guessed, rushed>>
  BY DEF Account!Update
<1>2. Account!Busy(c)
  BY <1>1 DEF Account!Busy
<1>3. associate \in [Calls -> Account!Rows \cup {None}] /\ g \in Account!Ids
  BY <1>1 DEF AccountInv, AccountTyped, Pointing
<1>4. g \in Calls /\ associate[g] \in Account!Rows
  BY <1>3 DEF Account!Ids
<1>5. PICK r : /\ associate' = [associate EXCEPT ![g] = r] \/ (UNCHANGED associate /\ r = associate[g])
               /\ r \in Account!Rows /\ r.target = associate[g].target /\ r.user = associate[g].user
  <2> DEFINE reset == [associate[g] EXCEPT !.hash = c]  proven == [associate[g] EXCEPT !.verified = TRUE]
  <2>1. \/ associate' = [associate EXCEPT ![g] = reset] \/ associate' = [associate EXCEPT ![g] = proven] \/ UNCHANGED associate
    BY <1>3 DEF Account!Update
  <2>2. reset \in Account!Rows /\ reset.target = associate[g].target /\ reset.user = associate[g].user
    BY <1>4 DEF Account!Rows
  <2>3. proven \in Account!Rows /\ proven.target = associate[g].target /\ proven.user = associate[g].user
    BY <1>4 DEF Account!Rows
  <2> HIDE DEF reset, proven
  <2>4. QED
    BY <1>4, <2>1, <2>2, <2>3
<1> HIDE DEF g
<1>6. /\ associate' \in [Calls -> Account!Rows \cup {None}] /\ associate'[g] = r
      /\ \A i \in Calls \ {g} : associate'[i] = associate[i]
  BY <1>3, <1>4, <1>5
<1>7. r # None /\ associate[g] # None
  BY <1>4, <1>5 DEF Account!AccountsAssumption
<1>8. \A i \in Calls : /\ associate'[i] # None <=> associate[i] # None
                       /\ associate'[i].target = associate[i].target /\ associate'[i].user = associate[i].user
  BY <1>5, <1>6, <1>7
<1>9. Account!Ids' = Account!Ids /\ \A t : Account!Matching(t)' = Account!Matching(t)
  BY <1>8 DEF Account!Ids, Account!Matching
<1>10. /\ at' \in [Calls -> Account!Steps] /\ at'[c] = "done" /\ \A d \in Calls \ {c} : at'[d] = at[d]
       /\ Asking' /\ Alone' /\ Cardinality(Ended)' \in Nat /\ Cardinality(Ended) <= Cardinality(Ended)'
  BY <1>1, <1>2, AccountGo
<1>11. AccountTyped'
  BY <1>1, <1>6, <1>10 DEF AccountInv, AccountTyped
<1>12. Pointing'
  <2>1. \A d \in Calls : associate'[d] # None => at'[d] \in {"send", "done"}
    BY <1>8, <1>10 DEF AccountInv, Pointing
  <2>2. QED
    BY <1>1, <1>8, <1>10, <2>1, PointingQuiet
<1>13. Tries'
  BY <1>1, <1>10, EndedFinite, TriesQuiet
<1>14. Owned'
  <2>1. \A t : Account!Matching(t) \subseteq Calls
    BY DEF Account!Matching, Account!Ids
  <2>2. \A d \in Calls : at'[d] = "create" => at[d] = "create"
    BY <1>10
  <2>3. QED
    BY <1>1, <1>8, <1>9, <2>1, <2>2 DEF AccountInv, Owned
<1>15. Answered'
  BY <1>1, <1>10, AnsweredQuiet
<1>16. QED
  BY <1>10, <1>11, <1>12, <1>13, <1>14, <1>15 DEF AccountInv

(* A code is sent: a new row, the last of its target. *)
LEMMA AccountSend == ASSUME Account!AccountsAssumption, AccountInv, NEW c \in Calls, Account!Send(c) PROVE AccountInv'
<1> USE DEF Account!Go, Account!Goto, Account!history
<1> DEFINE T == Account!Target(job[c])  new == [attempts |-> 0, verified |-> FALSE, live |-> TRUE]
<1>1. /\ at[c] = "send" /\ at' = [at EXCEPT ![c] = "done"]
      /\ UNCHANGED <<associate, job, got, spent, twice, guessed, rushed>>
      /\ codes' = [codes EXCEPT ![T] = Append(codes[T], new)] \/ UNCHANGED codes
  BY DEF Account!Send, Account!Append, Append
<1>2. Account!Busy(c)
  BY <1>1 DEF Account!Busy
<1>3. T \in Account!Targets
  BY DEF Account!Target, Account!Targets
<1>4. new \in Code /\ new.attempts = 0
  BY DEF Code
<1>5. codes \in [Account!Targets -> Seq(Code)] /\ codes[T] \in Seq(Code)
  BY <1>3 DEF AccountInv, AccountTyped
<1> HIDE DEF new, T
<1>6. /\ codes' \in [Account!Targets -> Seq(Code)]
      /\ \A t \in Account!Targets : /\ DOMAIN codes[t] \subseteq DOMAIN codes'[t]
                                    /\ \A i \in DOMAIN codes[t] : codes'[t][i] = codes[t][i]
                                    /\ \A i \in DOMAIN codes'[t] : i \in DOMAIN codes[t] \/ codes'[t][i] = new
  <2>1. CASE UNCHANGED codes
    BY <1>5, <2>1
  <2>2. CASE codes' = [codes EXCEPT ![T] = Append(codes[T], new)]
    <3> DEFINE w == Append(codes[T], new)
    <3>1. /\ w \in Seq(Code) /\ DOMAIN codes[T] \subseteq DOMAIN w /\ \A i \in DOMAIN codes[T] : w[i] = codes[T][i]
          /\ \A i \in DOMAIN w : i \in DOMAIN codes[T] \/ w[i] = new
      BY <1>4, <1>5
    <3> HIDE DEF w
    <3>2. codes' = [codes EXCEPT ![T] = w]
      BY <2>2 DEF w
    <3>3. codes' \in [Account!Targets -> Seq(Code)] /\ codes'[T] = w /\ \A t \in Account!Targets \ {T} : codes'[t] = codes[t]
      BY <1>3, <1>5, <3>1, <3>2
    <3>4. QED
      BY <3>1, <3>3
  <2>3. QED
    BY <1>1, <2>1, <2>2
<1>7. /\ at' \in [Calls -> Account!Steps] /\ at'[c] = "done" /\ \A d \in Calls \ {c} : at'[d] = at[d]
      /\ Asking' /\ Alone' /\ Cardinality(Ended)' \in Nat /\ Cardinality(Ended) <= Cardinality(Ended)'
  BY <1>1, <1>2, AccountGo
<1>8. AccountTyped'
  BY <1>1, <1>6, <1>7 DEF AccountInv, AccountTyped
<1>9. Pointing'
  <2>1. \A d \in Calls : associate'[d] # None => at'[d] \in {"send", "done"}
    BY <1>1, <1>7 DEF AccountInv, Pointing
  <2>2. QED
    BY <1>1, <1>6, <1>7, <2>1, PointingQuiet
<1>10. Tries'
  <2>0. \A s \in Account!Targets : \A k \in DOMAIN codes'[s] : k \in DOMAIN codes[s] \/ codes'[s][k] = new
    BY <1>6
  <2>1. ASSUME NEW t \in Account!Targets, NEW i \in DOMAIN codes'[t] PROVE codes'[t][i].attempts <= Cardinality(Ended)'
    <3>1. CASE i \in DOMAIN codes[t]
      <4>1. codes[t][i] \in Code /\ codes[t][i].attempts <= Cardinality(Ended) /\ codes'[t][i] = codes[t][i]
        BY <1>5, <1>6, <3>1 DEF AccountInv, Tries
      <4>2. codes[t][i].attempts \in Nat
        BY <4>1 DEF Code
      <4>3. QED
        BY <1>7, <4>1, <4>2, EndedFinite
    <3>2. CASE codes'[t][i] = new
      BY <1>4, <1>7, <3>2
    <3>3. i \in DOMAIN codes[t] \/ codes'[t][i] = new
      BY <2>0, <2>1
    <3>4. QED
      BY <3>1, <3>2, <3>3
  <2>2. QED
    BY <2>1 DEF Tries
<1>11. Owned'
  BY <1>1, <1>7, OwnedQuiet
<1>12. Answered'
  <2>0. \A s \in Account!Targets : \A k \in DOMAIN codes'[s] : k \in DOMAIN codes[s] \/ codes'[s][k] = new
    BY <1>6
  <2>1. \A t \in Account!Targets, i \in Nat : <<t, i>> \in spent' => i \in DOMAIN codes'[t] /\ codes'[t][i].verified
    BY <1>1, <1>6 DEF AccountInv, Answered
  <2>2. ASSUME ~guessed, NEW t \in Account!Targets, NEW i \in DOMAIN codes'[t] PROVE codes'[t][i].attempts <= MaxAttempts
    <3>1. CASE i \in DOMAIN codes[t]
      BY <1>6, <2>2, <3>1 DEF AccountInv, Answered
    <3>2. CASE codes'[t][i] = new
      BY <1>4, <3>2 DEF Account!AccountsAssumption
    <3>3. i \in DOMAIN codes[t] \/ codes'[t][i] = new
      BY <2>0, <2>2
    <3>4. QED
      BY <3>1, <3>2, <3>3
  <2>3. ASSUME ~guessed, NEW d \in Calls, at'[d] \in {"right", "wrong"}
        PROVE  /\ ~codes'[Account!Target(job[d])][got[d]].verified
               /\ codes'[Account!Target(job[d])][got[d]].attempts < MaxAttempts
    <3>1. at[d] \in {"right", "wrong"}
      BY <1>7, <2>3
    <3>2. got[d] \in DOMAIN codes[Account!Target(job[d])] /\ Account!Target(job[d]) \in Account!Targets
      BY <3>1 DEF AccountInv, Pointing, Account!Target, Account!Targets
    <3>3. codes'[Account!Target(job[d])][got[d]] = codes[Account!Target(job[d])][got[d]]
      BY <1>6, <3>2
    <3>4. QED
      BY <2>3, <3>1, <3>3 DEF AccountInv, Answered
  <2>4. QED
    BY <1>1, <2>1, <2>2, <2>3 DEF AccountInv, Answered
<1>13. QED
  BY <1>7, <1>8, <1>9, <1>10, <1>11, <1>12 DEF AccountInv

(* A spender of a code that is open. *)
LEMMA AccountFind == ASSUME Account!AccountsAssumption, AccountInv, NEW c \in Calls, Account!FindCode(c) PROVE AccountInv'
<1> USE DEF Account!Go, Account!Goto, Account!history, Account!rows
<1> DEFINE T == Account!Target(job[c])  g == Len(codes[T])
<1>1. at[c] = "code" /\ UNCHANGED <<associate, codes, job, spent, twice, guessed, rushed>>
  BY DEF Account!FindCode
<1>2. Account!Busy(c)
  BY <1>1 DEF Account!Busy
<1>3. T \in Account!Targets
  BY DEF Account!Target, Account!Targets
<1>4. codes[T] \in Seq(Code)
  BY <1>3 DEF AccountInv, AccountTyped
<1>5. CASE UNCHANGED got /\ at' = [at EXCEPT ![c] = "done"]
  <2>1. got' = [got EXCEPT ![c] = got[c]] /\ got[c] \in Calls \cup Nat \cup {None}
    BY <1>5 DEF AccountInv, AccountTyped
  <2>2. "done" \in (AccountSteps[job[c]] \cup {"done"}) \ {"right", "wrong"} /\ at[c] # "send"
    BY <1>1
  <2>3. "done" # "update" /\ "done" # "create"
    OBVIOUS
  <2>4. QED
    BY <1>1, <1>2, <1>5, <2>1, <2>2, <2>3, AccountRead
<1>6. CASE /\ codes[T] # <<>> /\ Account!Open(codes[T][g]) /\ got' = [got EXCEPT ![c] = g]
           /\ at' = [at EXCEPT ![c] = "right"] \/ at' = [at EXCEPT ![c] = "wrong"]
  <2>1. g \in DOMAIN codes[T] /\ g \in Nat
    BY <1>4, <1>6
  <2>2. ~codes[T][g].verified /\ codes[T][g].attempts < MaxAttempts
    BY <1>6 DEF Account!Open
  <2> HIDE DEF g
  <2>3. {"right", "wrong"} \subseteq AccountSteps[job[c]]
    BY <1>1, <1>2, AccountIs, AccountKinds
  <2>4. PICK l \in {"right", "wrong"} : at' = [at EXCEPT ![c] = l]
    BY <1>6
  <2>5. /\ at' \in [Calls -> Account!Steps] /\ at'[c] = l /\ \A d \in Calls \ {c} : at'[d] = at[d]
        /\ Asking' /\ Alone' /\ Cardinality(Ended)' \in Nat /\ Cardinality(Ended) <= Cardinality(Ended)'
    BY <1>1, <1>2, <2>3, <2>4, AccountGo
  <2>6. got' \in [Calls -> Calls \cup Nat \cup {None}] /\ got'[c] = g /\ \A d \in Calls \ {c} : got'[d] = got[d]
    BY <1>6, <2>1 DEF AccountInv, AccountTyped
  <2>7. AccountTyped'
    BY <1>1, <2>5, <2>6 DEF AccountInv, AccountTyped
  <2>8. Pointing'
    <3>1. ASSUME NEW d \in Calls
          PROVE  /\ associate[d] # None => at'[d] \in {"send", "done"}
                 /\ at'[d] = "update" => got'[d] \in Account!Ids
                 /\ at'[d] = "create" /\ job[d] = "oauth" => got'[d] = None \/ got'[d] \in Account!Matching("email")
                 /\ at'[d] \in {"right", "wrong"} => got'[d] \in DOMAIN codes[Account!Target(job[d])]
      <4>1. CASE d = c
        BY <1>1, <2>1, <2>4, <2>5, <2>6, <4>1 DEF AccountInv, Pointing
      <4>2. CASE d # c
        BY <2>5, <2>6, <4>2 DEF AccountInv, Pointing
      <4>3. QED
        BY <4>1, <4>2
    <3>2. Account!Ids' = Account!Ids /\ Account!Matching("email")' = Account!Matching("email")
      BY <1>1 DEF Account!Ids, Account!Matching
    <3>3. QED
      BY <1>1, <3>1, <3>2 DEF Pointing
  <2>9. Tries'
    BY <1>1, <2>5, EndedFinite, TriesQuiet
  <2>10. Owned'
    BY <1>1, <2>4, <2>5, <2>6, OwnedQuiet
  <2>11. Answered'
    <3>1. ASSUME ~guessed, NEW d \in Calls, at'[d] \in {"right", "wrong"}
          PROVE  /\ ~codes[Account!Target(job[d])][got'[d]].verified
                 /\ codes[Account!Target(job[d])][got'[d]].attempts < MaxAttempts
      <4>1. CASE d = c
        BY <2>2, <2>6, <4>1
      <4>2. CASE d # c
        BY <2>5, <2>6, <3>1, <4>2 DEF AccountInv, Answered
      <4>3. QED
        BY <4>1, <4>2
    <3>2. QED
      BY <1>1, <3>1 DEF AccountInv, Answered
  <2>12. QED
    BY <2>5, <2>7, <2>8, <2>9, <2>10, <2>11 DEF AccountInv
<1>7. QED
  BY <1>5, <1>6 DEF Account!FindCode, Account!Len, Len

(* A wrong answer costs one attempt. *)
LEMMA AccountWrong == ASSUME Account!AccountsAssumption, AccountInv, NEW c \in Calls, Account!Wrong(c) PROVE AccountInv'
<1> USE DEF Account!Go, Account!Goto, Account!history
<1> DEFINE T == Account!Target(job[c])  g == got[c]  r == [codes[T][g] EXCEPT !.attempts = @ + 1]
<1>1. /\ at[c] = "wrong" /\ at' = [at EXCEPT ![c] = "done"]
      /\ UNCHANGED <<associate, job, got, spent, twice, guessed, rushed>>
      /\ codes' = [codes EXCEPT ![T] = [codes[T] EXCEPT ![g] = r]]
  BY DEF Account!Wrong
<1>2. Account!Busy(c)
  BY <1>1 DEF Account!Busy
<1>3. T \in Account!Targets
  BY DEF Account!Target, Account!Targets
<1>4. codes \in [Account!Targets -> Seq(Code)] /\ codes[T] \in Seq(Code) /\ g \in DOMAIN codes[T]
  BY <1>1, <1>3 DEF AccountInv, AccountTyped, Pointing
<1>5. codes[T][g] \in Code
  BY <1>4
<1>6. r \in Code /\ r.attempts = codes[T][g].attempts + 1 /\ r.verified = codes[T][g].verified /\ codes[T][g].attempts \in Nat
  BY <1>5 DEF Code
<1> HIDE DEF r
<1>7. /\ codes' \in [Account!Targets -> Seq(Code)] /\ \A s \in Account!Targets : DOMAIN codes'[s] = DOMAIN codes[s]
      /\ codes'[T][g] = r
      /\ \A s \in Account!Targets : \A k \in DOMAIN codes[s] : s # T \/ k # g => codes'[s][k] = codes[s][k]
  BY <1>1, <1>3, <1>4, <1>6, CodeWritten
<1> HIDE DEF T, g
<1>8. /\ at' \in [Calls -> Account!Steps] /\ at'[c] = "done" /\ \A d \in Calls \ {c} : at'[d] = at[d]
      /\ Asking' /\ Alone' /\ Cardinality(Ended)' = Cardinality(Ended) + 1
  BY <1>1, <1>2, AccountGo
<1>9. AccountTyped'
  BY <1>1, <1>7, <1>8 DEF AccountInv, AccountTyped
<1>10. Pointing'
  <2>1. \A d \in Calls : associate'[d] # None => at'[d] \in {"send", "done"}
    BY <1>1, <1>8 DEF AccountInv, Pointing
  <2>2. QED
    BY <1>1, <1>7, <1>8, <2>1, PointingQuiet
<1>11. Tries'
  <2>1. ASSUME NEW t \in Account!Targets, NEW i \in DOMAIN codes'[t] PROVE codes'[t][i].attempts <= Cardinality(Ended)'
    <3>1. i \in DOMAIN codes[t] /\ codes[t] \in Seq(Code)
      BY <1>4, <1>7, <2>1
    <3>2. codes[t][i] \in Code /\ codes[t][i].attempts <= Cardinality(Ended)
      BY <3>1 DEF AccountInv, Tries
    <3>3. codes[t][i].attempts \in Nat /\ Cardinality(Ended) \in Nat
      BY <3>2, EndedFinite DEF Code
    <3>4. CASE t = T /\ i = g
      BY <1>6, <1>7, <1>8, <3>2, <3>3, <3>4
    <3>5. CASE t # T \/ i # g
      BY <1>7, <1>8, <3>1, <3>2, <3>3, <3>5
    <3>6. QED
      BY <3>4, <3>5
  <2>2. QED
    BY <2>1 DEF Tries
<1>12. Owned'
  BY <1>1, <1>8, OwnedQuiet
<1>13. Answered'
  <2>1. ASSUME NEW t \in Account!Targets, NEW i \in Nat, <<t, i>> \in spent PROVE i \in DOMAIN codes'[t] /\ codes'[t][i].verified
    <3>1. i \in DOMAIN codes[t] /\ codes[t][i].verified
      BY <2>1 DEF AccountInv, Answered
    <3>2. CASE t = T /\ i = g
      BY <1>6, <1>7, <3>1, <3>2
    <3>3. CASE t # T \/ i # g
      BY <1>7, <3>1, <3>3
    <3>4. QED
      BY <3>2, <3>3
  <2>2. ASSUME ~guessed, NEW t \in Account!Targets, NEW i \in DOMAIN codes'[t] PROVE codes'[t][i].attempts <= MaxAttempts
    <3>1. i \in DOMAIN codes[t]
      BY <1>7, <2>2
    <3>2. CASE t = T /\ i = g
      <4>1. codes[T][g].attempts < MaxAttempts /\ MaxAttempts \in Nat
        BY <1>1, <2>2 DEF AccountInv, Answered, T, g, Account!AccountsAssumption
      <4>2. QED
        BY <1>6, <1>7, <3>2, <4>1
    <3>3. CASE t # T \/ i # g
      BY <1>7, <2>2, <3>1, <3>3 DEF AccountInv, Answered
    <3>4. QED
      BY <3>2, <3>3
  <2>3. ASSUME ~guessed, NEW d \in Calls, at'[d] \in {"right", "wrong"}
        PROVE  /\ ~codes'[Account!Target(job[d])][got[d]].verified
               /\ codes'[Account!Target(job[d])][got[d]].attempts < MaxAttempts
    <3>1. at[d] \in {"right", "wrong"} /\ d # c /\ Account!Busy(d)
      BY <1>8, <2>3 DEF Account!Busy
    <3>2. got[d] \in DOMAIN codes[Account!Target(job[d])] /\ Account!Target(job[d]) \in Account!Targets
      BY <3>1 DEF AccountInv, Pointing, Account!Target, Account!Targets
    <3>3. job[d] \in Account!Spends /\ job[c] \in Account!Spends
      BY <1>1, <1>2, <3>1, AccountIs, AccountKinds
    <3>4. Account!Target(job[d]) # T
      BY <1>2, <2>3, <3>1, <3>3 DEF AccountInv, Alone, Rival, T
    <3>5. codes'[Account!Target(job[d])][got[d]] = codes[Account!Target(job[d])][got[d]]
      BY <1>7, <3>2, <3>4
    <3>6. QED
      BY <2>3, <3>1, <3>5 DEF AccountInv, Answered
  <2>4. QED
    BY <1>1, <2>1, <2>2, <2>3 DEF AccountInv, Answered
<1>14. QED
  BY <1>8, <1>9, <1>10, <1>11, <1>12, <1>13 DEF AccountInv

(* The code accepted was not accepted before. *)
LEMMA AccountRight == ASSUME Account!AccountsAssumption, AccountInv, NEW c \in Calls, Account!Right(c) PROVE AccountInv'
<1> USE DEF Account!Go, Account!Goto, Account!history
<1> DEFINE T == Account!Target(job[c])  g == got[c]  r == [codes[T][g] EXCEPT !.verified = TRUE]
<1>1. /\ at[c] = "right" /\ at' = [at EXCEPT ![c] = "owner"]
      /\ UNCHANGED <<associate, job, got, guessed, rushed>>
      /\ codes' = [codes EXCEPT ![T] = [codes[T] EXCEPT ![g] = r]] /\ spent' = spent \cup {<<T, g>>}
  BY DEF Account!Right
<1>2. twice' \in BOOLEAN /\ (twice' => twice \/ <<T, g>> \in spent)
  <2>1. twice' = (twice \/ <<T, g>> \in spent)
    BY DEF Account!Right
  <2>2. QED
    BY <2>1, Zenon
<1>3. T \in Account!Targets
  BY DEF Account!Target, Account!Targets
<1>4. codes \in [Account!Targets -> Seq(Code)] /\ codes[T] \in Seq(Code) /\ g \in DOMAIN codes[T] /\ g \in Nat
  BY <1>1, <1>3 DEF AccountInv, AccountTyped, Pointing
<1>5. codes[T][g] \in Code
  BY <1>4
<1>6. r \in Code /\ r.attempts = codes[T][g].attempts /\ r.verified
  BY <1>5 DEF Code
<1> HIDE DEF r
<1>7. /\ codes' \in [Account!Targets -> Seq(Code)] /\ \A s \in Account!Targets : DOMAIN codes'[s] = DOMAIN codes[s]
      /\ codes'[T][g] = r
      /\ \A s \in Account!Targets : \A k \in DOMAIN codes[s] : s # T \/ k # g => codes'[s][k] = codes[s][k]
  BY <1>1, <1>3, <1>4, <1>6, CodeWritten
<1> HIDE DEF T, g
<1>8. Account!Busy(c) /\ job[c] \in Account!Spends /\ "owner" \in AccountSteps[job[c]]
  <2>1. Account!Busy(c)
    BY <1>1 DEF Account!Busy
  <2>2. QED
    BY <1>1, <2>1, AccountIs, AccountKinds
<1>9. /\ at' \in [Calls -> Account!Steps] /\ at'[c] = "owner" /\ \A d \in Calls \ {c} : at'[d] = at[d]
      /\ Asking' /\ Alone' /\ Cardinality(Ended)' \in Nat /\ Cardinality(Ended) <= Cardinality(Ended)'
  BY <1>1, <1>8, AccountGo
<1>10. AccountTyped'
  BY <1>1, <1>2, <1>7, <1>9 DEF AccountInv, AccountTyped
<1>11. Pointing'
  <2>1. \A d \in Calls : associate'[d] # None => at'[d] \in {"send", "done"}
    BY <1>1, <1>9 DEF AccountInv, Pointing
  <2>2. QED
    BY <1>1, <1>7, <1>9, <2>1, PointingQuiet
<1>12. Tries'
  <2>1. ASSUME NEW t \in Account!Targets, NEW i \in DOMAIN codes'[t] PROVE codes'[t][i].attempts <= Cardinality(Ended)'
    <3>1. i \in DOMAIN codes[t] /\ codes[t] \in Seq(Code)
      BY <1>4, <1>7, <2>1
    <3>2. codes[t][i] \in Code /\ codes[t][i].attempts <= Cardinality(Ended)
      BY <3>1 DEF AccountInv, Tries
    <3>3. codes[t][i].attempts \in Nat /\ Cardinality(Ended) \in Nat
      BY <3>2, EndedFinite DEF Code
    <3>4. codes'[t][i].attempts = codes[t][i].attempts
      BY <1>6, <1>7, <3>1
    <3>5. QED
      BY <1>9, <3>2, <3>3, <3>4
  <2>2. QED
    BY <2>1 DEF Tries
<1>13. Owned'
  BY <1>1, <1>9, OwnedQuiet
<1>14. Answered'
  <2>1. ASSUME NEW t \in Account!Targets, NEW i \in Nat, <<t, i>> \in spent' PROVE i \in DOMAIN codes'[t] /\ codes'[t][i].verified
    <3>1. CASE t = T /\ i = g
      BY <1>3, <1>4, <1>6, <1>7, <3>1
    <3>2. CASE t # T \/ i # g
      <4>1. <<t, i>> \in spent
        BY <1>1, <2>1, <3>2
      <4>2. QED
        BY <1>7, <3>2, <4>1 DEF AccountInv, Answered
    <3>3. QED
      BY <3>1, <3>2
  <2>2. ASSUME ~guessed, NEW t \in Account!Targets, NEW i \in DOMAIN codes'[t] PROVE codes'[t][i].attempts <= MaxAttempts
    BY <1>6, <1>7, <2>2 DEF AccountInv, Answered
  <2>3. ASSUME ~guessed, NEW d \in Calls, at'[d] \in {"right", "wrong"}
        PROVE  /\ ~codes'[Account!Target(job[d])][got[d]].verified
               /\ codes'[Account!Target(job[d])][got[d]].attempts < MaxAttempts
    <3>1. at[d] \in {"right", "wrong"} /\ d # c /\ Account!Busy(d)
      BY <1>9, <2>3 DEF Account!Busy
    <3>2. got[d] \in DOMAIN codes[Account!Target(job[d])] /\ Account!Target(job[d]) \in Account!Targets
      BY <3>1 DEF AccountInv, Pointing, Account!Target, Account!Targets
    <3>3. job[d] \in Account!Spends
      BY <3>1, AccountIs, AccountKinds
    <3>4. Account!Target(job[d]) # T
      BY <1>8, <2>3, <3>1, <3>3 DEF AccountInv, Alone, Rival, T
    <3>5. codes'[Account!Target(job[d])][got[d]] = codes[Account!Target(job[d])][got[d]]
      BY <1>7, <3>2, <3>4
    <3>6. QED
      BY <2>3, <3>1, <3>5 DEF AccountInv, Answered
  <2>4. ~guessed => ~twice'
    <3>1. ~guessed => ~codes[T][g].verified /\ ~twice
      BY <1>1 DEF AccountInv, Answered, T, g
    <3>2. <<T, g>> \in spent => codes[T][g].verified
      BY <1>3, <1>4 DEF AccountInv, Answered
    <3>3. QED
      BY <1>2, <3>1, <3>2
  <2>5. QED
    BY <1>1, <2>1, <2>2, <2>3, <2>4 DEF AccountInv, Answered
<1>15. QED
  BY <1>9, <1>10, <1>11, <1>12, <1>13, <1>14 DEF AccountInv

(* Codes expire. *)
LEMMA AccountExpire ==
  ASSUME Account!AccountsAssumption, AccountInv, NEW t \in Account!Targets, NEW i \in DOMAIN codes[t], Account!Expire(t, i)
  PROVE  AccountInv'
<1> DEFINE r == [codes[t][i] EXCEPT !.live = FALSE]
<1>1. /\ UNCHANGED <<associate, job, at, got, spent, twice, guessed, rushed>>
      /\ codes' = [codes EXCEPT ![t] = [codes[t] EXCEPT ![i] = r]]
  BY DEF Account!Expire, Account!history
<1>2. codes \in [Account!Targets -> Seq(Code)] /\ codes[t] \in Seq(Code)
  BY DEF AccountInv, AccountTyped
<1>3. codes[t][i] \in Code
  BY <1>2
<1>4. r \in Code /\ r.attempts = codes[t][i].attempts /\ r.verified = codes[t][i].verified
  BY <1>3 DEF Code
<1> HIDE DEF r
<1>5. /\ codes' \in [Account!Targets -> Seq(Code)] /\ \A s \in Account!Targets : DOMAIN codes'[s] = DOMAIN codes[s]
      /\ codes'[t][i] = r
      /\ \A s \in Account!Targets : \A k \in DOMAIN codes[s] : s # t \/ k # i => codes'[s][k] = codes[s][k]
  BY <1>1, <1>2, <1>4, CodeWritten
<1>6. \A s \in Account!Targets : \A k \in DOMAIN codes[s] :
        codes'[s][k].attempts = codes[s][k].attempts /\ codes'[s][k].verified = codes[s][k].verified
  BY <1>4, <1>5
<1>7. AccountTyped' /\ Asking' /\ Alone'
  BY <1>1, <1>5 DEF AccountInv, AccountTyped, Asking, Alone, Rival, Account!Busy
<1>8. Pointing'
  BY <1>1, <1>5, PointingQuiet DEF AccountInv, Pointing
<1>9. Tries'
  BY <1>1, <1>5, <1>6 DEF AccountInv, Tries, Ended
<1>10. Owned'
  BY <1>1, OwnedQuiet
<1>11. Answered'
  <2>1. \A d \in Calls : at[d] \in {"right", "wrong"} =>
          got[d] \in DOMAIN codes[Account!Target(job[d])] /\ Account!Target(job[d]) \in Account!Targets
    BY DEF AccountInv, Pointing, Account!Target, Account!Targets
  <2>2. QED
    BY <1>1, <1>5, <1>6, <2>1 DEF AccountInv, Answered
<1>12. QED
  BY <1>7, <1>8, <1>9, <1>10, <1>11 DEF AccountInv

(* Every step of the accounts keeps the invariant. *)
LEMMA AccountStep == ASSUME Account!AccountsAssumption, AccountInv, Account!Next PROVE AccountInv'
<1>1. ASSUME NEW c \in Calls, Account!Handle(c) PROVE AccountInv'
  BY <1>1, AccountStart, AccountReads, AccountCreate, AccountUpdate, AccountSend, AccountFind, AccountWrong, AccountRight
     DEF Account!Handle
<1>2. QED
  BY <1>1, AccountExpire DEF Account!Next
-----------------------------------------------------------------------------
(* Access: the invariant of the component that runs. *)
AccessInv ==
  /\ mode = "Account" => AccountInv
  /\ mode = "Login" => LoginInv
  /\ mode = "Cache" => CacheInv
  /\ mode = "Rate" => RateInv
  /\ mode = "Warm" => WarmInv

(* What the components assume of the constants. *)
LEMMA Assumed ==
  /\ Account!AccountsAssumption /\ Login!SessionsAssumption /\ Cache!CachingAssumption
  /\ Rate!RateLimitAssumption /\ Warm!WarmingAssumption
BY AccessAssumption

(* Each component starts well. *)
LEMMA AccessInit == ASSUME Init PROVE AccessInv
<1>1. CASE mode = "Account" /\ Account!Init
  BY <1>1, Assumed, AccountInit DEF AccessInv
<1>2. CASE mode = "Login" /\ Login!Init
  BY <1>2, Assumed, LoginInit DEF AccessInv
<1>3. CASE mode = "Cache" /\ Cache!Init
  BY <1>3, Assumed, CacheInit DEF AccessInv
<1>4. CASE mode = "Rate" /\ Rate!Init
  BY <1>4, Assumed, RateInit DEF AccessInv
<1>5. CASE mode = "Warm" /\ Warm!Init
  BY <1>5, Assumed, WarmInit DEF AccessInv
<1>6. QED
  BY <1>1, <1>2, <1>3, <1>4, <1>5 DEF Init

(* A step is one of the component that runs, and it runs on. *)
LEMMA AccessStep == ASSUME AccessInv, Next PROVE AccessInv'
<1>1. CASE mode = "Account" /\ Account!Next /\ UNCHANGED OffAccount
  <2>1. mode' = mode /\ AccountInv'
    BY <1>1, Assumed, AccountStep DEF AccessInv, OffAccount
  <2>2. QED
    BY <1>1, <2>1 DEF AccessInv
<1>2. CASE mode = "Login" /\ Login!Next /\ UNCHANGED OffLogin
  <2>1. mode' = mode /\ LoginInv'
    BY <1>2, Assumed, LoginStep DEF AccessInv, OffLogin
  <2>2. QED
    BY <1>2, <2>1 DEF AccessInv
<1>3. CASE mode = "Cache" /\ Cache!Next /\ UNCHANGED OffCache
  <2>1. mode' = mode /\ CacheInv'
    BY <1>3, Assumed, CacheStep DEF AccessInv, OffCache
  <2>2. QED
    BY <1>3, <2>1 DEF AccessInv
<1>4. CASE mode = "Rate" /\ Rate!Next /\ UNCHANGED OffRate
  <2>1. mode' = mode /\ RateInv'
    BY <1>4, Assumed, RateStep DEF AccessInv, OffRate
  <2>2. QED
    BY <1>4, <2>1 DEF AccessInv
<1>5. CASE mode = "Warm" /\ Warm!Next /\ UNCHANGED OffWarm
  <2>1. mode' = mode /\ WarmInv'
    BY <1>5, Assumed, WarmStep DEF AccessInv, OffWarm
  <2>2. QED
    BY <1>5, <2>1 DEF AccessInv
<1>6. QED
  BY <1>1, <1>2, <1>3, <1>4, <1>5 DEF Next

(* A step that changes nothing. *)
LEMMA AccessStill == ASSUME AccessInv, UNCHANGED vars PROVE AccessInv'
<1> USE DEF vars
<1>1. AccountInv => AccountInv'
  BY DEF AccountInv, AccountTyped, Asking, Pointing, Alone, Rival, Tries, Ended, Owned, Answered,
         Account!Busy, Account!Ids, Account!Matching
<1>2. LoginInv => LoginInv'
  BY DEF LoginInv, LoginTyped, Handling, Holding, Single, TokensOver, CodesLeft, Once, Out, Revoked, Login!TypeOK, Login!Busy
<1>3. CacheInv => CacheInv'
  BY DEF CacheInv, JobsKnown, WritersWrite, Apart, ReadsNow, MemoryNow, RedisNow, Clean, Reading, Writing, Cache!TypeOK, Cache!Busy, Cache!Proc
<1>4. RateInv => RateInv'
  BY DEF RateInv, RateJobs, RateAt, RateOf, Told, Held, Rate!TypeOK, Rate!Busy
<1>5. WarmInv => WarmInv'
  BY DEF WarmInv, WarmAt, Warm!TypeOK, Warm!Running
<1>6. QED
  BY <1>1, <1>2, <1>3, <1>4, <1>5 DEF AccessInv

(* The invariant holds. *)
THEOREM AccessSafe == Spec => []AccessInv
<1>1. Init => AccessInv
  BY AccessInit
<1>2. AccessInv /\ [Next]_vars => AccessInv'
  BY AccessStep, AccessStill
<1>3. QED
  BY <1>1, <1>2, PTL DEF Spec

(* The variables of each component have their types; in particular a code has
   cost no more attempts than requests have ended (verification.service.ts). *)
THEOREM AccessTyped == Spec => []TypeOK
<1>1. AccessInv => TypeOK
  BY Assumed, AccountHolds DEF AccessInv, TypeOK, LoginInv, LoginTyped, CacheInv, RateInv, WarmInv
<1>2. QED
  BY <1>1, AccessSafe, PTL

(* Refresh tokens, backup codes and verification codes are accepted once, codes
   are guessed a bounded number of times, and an address belongs to one user,
   unless the requests concerned overlapped (token.service.ts, two-factor.service.ts,
   verification.service.ts, registration.service.ts, oauth.service.ts). *)
THEOREM SecretsServeOnce == Spec => []SecretsSpentOnce
<1>1. AccessInv => SecretsSpentOnce
  BY Assumed, AccountHolds, LoginHolds DEF AccessInv, SecretsSpentOnce
<1>2. QED
  BY <1>1, AccessSafe, PTL

(* Between writes no tier of the cache is behind the database, unless a read or a
   crash met a write or another process had the entry; and a revoked access token
   is admitted from the cache only if it was there when it was revoked
   (cache.service.ts, jwt.strategy.ts). *)
THEOREM CachesTellTheTruth == Spec => []CachesTell
<1>1. AccessInv => CachesTell
  BY CacheHolds, LoginHolds DEF AccessInv, CachesTell
<1>2. QED
  BY <1>1, AccessSafe, PTL

(* Each process lets Limit requests of a window through, whatever the others write
   to Redis, unless it checked two at once or its counter was lost to it; one run of
   the warm-up works at a time, unless the lock expired under it, and none leaves it
   behind unless it died, its process was asked again or its commands to Redis
   failed (user-rate-limit.service.ts, cache-warming.service.ts). *)
THEOREM GatesKept == Spec => []GatesHold
<1>1. AccessInv => GatesHold
  BY RateHolds, WarmHolds DEF AccessInv, GatesHold
<1>2. QED
  BY <1>1, AccessSafe, PTL
=============================================================================
