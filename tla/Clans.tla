-------------------------------- MODULE Clans --------------------------------
(***************************************************************************)
(* Clans and their members: ClanService (clans/service).  A membership is  *)
(* a row of its own without a unique index; a user's lists of clans, the   *)
(* list of all clans and a user's clan info are cached.                    *)
(***************************************************************************)
EXTENDS Naturals, FiniteSets

CONSTANTS Users, Calls,
          MaxClans, MaxRows, \* bounds on the clans and the memberships made
          None

ClanIds == 1 .. MaxClans
Ranks == {"Leader", "Elder", "Member"}
Writes == {"create", "join", "leave", "rank"}
Reads == {"all", "mine", "info"}
ClansAssumption == MaxClans \in Nat \ {0} /\ MaxRows \in Nat \ {0} /\ None \notin Users

VARIABLES
    clans,   \* the clans created
    rows,    \* the memberships: id, user, clan, rank
    made,    \* memberships made so far
    all,     \* the cached list of all clans, or None
    cached,  \* per user, the cached list of his clans and his clan info, or None
    ask, at, \* per request, what it asks and the statement it awaits
    got,     \* per request, what it has read
    torn,    \* history: a reader read before a write and was to store after it
    cut,     \* history: a write was cut off
    left,    \* history: who left which clan and did not join it again
    ranked   \* history: a rank changed; no cached list is told

tables == <<clans, rows, made>>
caches == <<all, cached>>
history == <<torn, cut, left, ranked>>
vars == <<tables, caches, ask, at, got, history>>

Go(c, to) == at' = [at EXCEPT ![c] = to] /\ UNCHANGED ask
Of(u) == {r \in rows : r.user = u}
In(u, k) == {r \in Of(u) : r.clan = k}
Late(c) == \E d \in Calls : at[d] = "store" /\ (ask[d].by = ask[c].by \/ ask[d].kind = "all")

Start(c) ==
    /\ at[c] = "new"
    /\ \E k \in Writes \cup Reads, u \in Users, i \in ClanIds :
        /\ ask' = [ask EXCEPT ![c] = [kind |-> k, by |-> u, clan |-> i]]
        /\ k \in {"create", "all", "mine", "info"} => i = 1
        /\ at' = [at EXCEPT ![c] = CASE k \in Reads -> "cache" [] k = "rank" -> "find" [] OTHER -> k]
    /\ UNCHANGED <<tables, caches, got, history>>

Insert(c, u, k, rank) ==
    /\ made < MaxRows
    /\ made' = made + 1
    /\ rows' = rows \cup {[id |-> made + 1, user |-> u, clan |-> k, rank |-> rank]}
    /\ left' = left \ {<<u, k>>}
    /\ torn' = (torn \/ Late(c))

\* createClan: the clan, its leader, and the deletion of the cached lists.
Create(c) ==
    /\ at[c] = "create"
    /\ Cardinality(clans) < MaxClans
    /\ LET k == Cardinality(clans) + 1 IN clans' = clans \cup {k} /\ got' = [got EXCEPT ![c] = {k}]
    /\ torn' = (torn \/ Late(c))
    /\ Go(c, "lead") /\ UNCHANGED <<rows, made, caches, cut, left, ranked>>

Lead(c) ==
    /\ at[c] = "lead"
    /\ \E k \in got[c] : Insert(c, ask[c].by, k, "Leader")
    /\ Go(c, "flush all") /\ UNCHANGED <<clans, caches, got, cut, ranked>>

\* Nothing asks whether the user is a member already; the clan must exist.
JoinClan(c) ==
    /\ at[c] = "join"
    /\ IF ask[c].clan \in clans THEN Insert(c, ask[c].by, ask[c].clan, "Member") /\ Go(c, "flush")
       ELSE Go(c, "done") /\ UNCHANGED <<rows, made, left, torn>>
    /\ UNCHANGED <<clans, caches, got, cut, ranked>>

\* Mutant: one of the rows only.
LeavesOne(u, k) == {r \in In(u, k) : \A s \in In(u, k) : r.id <= s.id}
\* Every row of the membership goes.
Leaves(u, k) == In(u, k)

Leave(c) ==
    /\ at[c] = "leave"
    /\ rows' = rows \ Leaves(ask[c].by, ask[c].clan)
    /\ left' = left \cup {<<ask[c].by, ask[c].clan>>}
    /\ torn' = (torn \/ Late(c))
    /\ Go(c, "flush") /\ UNCHANGED <<clans, made, caches, got, cut, ranked>>

\* updateClanRole finds a row, the first one, and rewrites its rank.
FindRow(c) ==
    /\ at[c] = "find"
    /\ IF In(ask[c].by, ask[c].clan) = {} THEN Go(c, "done") /\ UNCHANGED got
       ELSE /\ \E r \in In(ask[c].by, ask[c].clan) : got' = [got EXCEPT ![c] = {r.id}]
            /\ Go(c, "rank")
    /\ UNCHANGED <<tables, caches, history>>

Rank(c) ==
    /\ at[c] = "rank"
    /\ LET mine == {r \in rows : r.id \in got[c]} IN
        /\ \E rank \in Ranks : rows' = (rows \ mine) \cup {[r EXCEPT !.rank = rank] : r \in mine}
        /\ ranked' = (ranked \/ mine # {})
    /\ Go(c, "done") /\ UNCHANGED <<clans, made, caches, got, torn, cut, left>>

FlushAll(c) ==
    /\ at[c] = "flush all"
    /\ all' = None /\ Go(c, "flush") /\ UNCHANGED <<tables, cached, got, history>>

\* Mutant: the clan info is forgotten.
InfoNot == "done"
Info == "flush info"

\* user:{id}:clans:* first, user:{id}:clan:info then.
Flush(c) ==
    /\ at[c] = "flush"
    /\ cached' = [cached EXCEPT ![ask[c].by]["mine"] = None]
    /\ Go(c, Info) /\ UNCHANGED <<tables, all, got, history>>

FlushInfo(c) ==
    /\ at[c] = "flush info"
    /\ cached' = [cached EXCEPT ![ask[c].by]["info"] = None]
    /\ Go(c, "done") /\ UNCHANGED <<tables, all, got, history>>

-----------------------------------------------------------------------------
Held(c) == IF ask[c].kind = "all" THEN all ELSE cached[ask[c].by][ask[c].kind]

Cached(c) ==
    /\ at[c] = "cache"
    /\ Go(c, IF Held(c) # None THEN "done" ELSE "load")
    /\ UNCHANGED <<tables, caches, got, history>>

\* The info is one of the user's rows, whichever the table gives.
Load(c) ==
    /\ at[c] = "load"
    /\ \E s \in CASE ask[c].kind = "all" -> {clans}
                  [] ask[c].kind = "mine" -> {Of(ask[c].by)}
                  [] OTHER -> IF Of(ask[c].by) = {} THEN {{}} ELSE {{r} : r \in Of(ask[c].by)} :
        got' = [got EXCEPT ![c] = s]
    /\ Go(c, "store") /\ UNCHANGED <<tables, caches, history>>

Store(c) ==
    /\ at[c] = "store"
    /\ IF ask[c].kind = "all" THEN all' = got[c] /\ UNCHANGED cached
       ELSE cached' = [cached EXCEPT ![ask[c].by][ask[c].kind] = got[c]] /\ UNCHANGED all
    /\ Go(c, "done") /\ UNCHANGED <<tables, got, history>>

\* An entry expires; a request dies between two statements.
Expire == \E u \in Users, l \in {"mine", "info"} :
    cached[u][l] # None /\ cached' = [cached EXCEPT ![u][l] = None] /\ UNCHANGED <<tables, all, ask, at, got, history>>

Crash(c) ==
    /\ at[c] \in {"lead", "flush all", "flush", "flush info"}
    /\ cut' = TRUE /\ Go(c, "done") /\ UNCHANGED <<tables, caches, got, torn, left, ranked>>

Init ==
    /\ clans = {} /\ rows = {} /\ made = 0 /\ all = None
    /\ cached = [u \in Users |-> [l \in {"mine", "info"} |-> None]]
    /\ ask = [c \in Calls |-> None] /\ at = [c \in Calls |-> "new"] /\ got = [c \in Calls |-> {}]
    /\ torn = FALSE /\ cut = FALSE /\ left = {} /\ ranked = FALSE

Next ==
    \/ \E c \in Calls : \/ Start(c) \/ Create(c) \/ Lead(c) \/ JoinClan(c) \/ Leave(c) \/ FindRow(c) \/ Rank(c)
                        \/ FlushAll(c) \/ Flush(c) \/ FlushInfo(c) \/ Cached(c) \/ Load(c) \/ Store(c) \/ Crash(c)
    \/ Expire
Spec == Init /\ [][Next]_vars

-----------------------------------------------------------------------------
TypeOK ==
    /\ clans \subseteq ClanIds /\ made \in 0 .. MaxRows
    /\ rows \subseteq [id: 1 .. made, user: Users, clan: clans, rank: Ranks]
    /\ at \in [Calls -> {"new", "done", "create", "lead", "join", "leave", "find", "rank", "flush all", "flush", "flush info",
                         "cache", "load", "store"}]

\* Whoever left a clan and did not join it again is not in it, however often he had
\* joined it and whoever changes his rank meanwhile.
LeftIsOut == \A l \in left : In(l[1], l[2]) = {}

\* Between writes the cached lists are those of the tables, unless a reader ran
\* across a write, a write was cut off, or a rank changed.
ClansCurrent ==
    ~torn /\ ~cut /\ ~ranked =>
        /\ (\A c \in Calls : at[c] \notin {"lead", "flush all"}) => all \in {None, clans}
        /\ \A u \in Users :
            (\A c \in Calls : at[c] \in {"lead", "flush all", "flush", "flush info"} => ask[c].by # u) =>
                /\ cached[u]["mine"] \in {None, Of(u)}
                /\ cached[u]["info"] = None \/ (cached[u]["info"] \subseteq Of(u) /\ (cached[u]["info"] = {} => Of(u) = {}))
=============================================================================
