------------------------------- MODULE Views -------------------------------
(***************************************************************************)
(* The answers kept whole: what a service reads in a few statements and    *)
(* keeps under one key (CacheService.getOrSet), what a route keeps of the  *)
(* response (common/interceptors/cache.interceptor.ts), and the levels     *)
(* that are computed from gifts.  Each statement sees one part of what is  *)
(* told; a write makes a new version of a part, and deletes some of the    *)
(* entries in a later step, or none.                                       *)
(***************************************************************************)
EXTENDS Naturals, FiniteSets

CONSTANTS Calls,
          MaxWrites, \* bound on the writes
          MaxWorth,  \* bound on what a gift is worth
          None       \* nothing read, no entry

Parts == 1 .. 2
Nested == <<"entry of 1", "entry of 2">>

\* reads: one statement, two in turn, or two abreast; told, untold: the parts with
\* a write that deletes the entry, with one that does not; nested: parts that come
\* from entries of their own; through: writes read again and set the entry;
\* routed: the route keeps the response, which no write deletes; joint: the two
\* statements read the same rows; warmed: an admin may have it read and kept anew,
\* and then, of some, nobody else does.
View(reads, told, untold) ==
    [reads |-> reads, told |-> told, untold |-> untold, nested |-> {}, through |-> FALSE, routed |-> FALSE,
     joint |-> FALSE, warmed |-> "no"]
Routed(v) == [v EXCEPT !.routed = TRUE]
Warmed(v, by) == [v EXCEPT !.warmed = by]

\* Gifts: the wall reads the user and the gifts he sent; remove tells the receiver
\* only, an item's new price nobody.
GiftWall == Routed(View("turns", {2}, {1, 2}))
GiftsCount == View("one", {1}, {})
GiftsOverview == [View("abreast", {2}, {1}) EXCEPT !.nested = {1, 2}]
TopSupporters == Routed(View("one", {}, {1}))
GiftItemsSample == View("one", {1}, {})
UserBalance == Routed(View("one", {1}, {}))

\* Profiles: the row and what hangs on it, and the blocks.
Profile == View("turns", {1}, {1, 2})
ProfileStats == View("abreast", {}, {1, 2})
UserDetail == Routed(View("one", {1}, {1}))
UserInfo == [View("one", {1}, {1}) EXCEPT !.through = TRUE]
ProfileViews == View("one", {1}, {1})
ConnectionStats == Routed(View("abreast", {1, 2}, {2}))
BlockLists == View("one", {1}, {1})

\* Posts and hashtags.
TrendingHashtags == View("one", {1}, {1})
Categories == View("one", {}, {1})
LikeStats == [View("turns", {1}, {}) EXCEPT !.joint = TRUE]
PostMedia == View("turns", {1, 2}, {2})

\* What is recommended and what trends expires, and that is all.
TrendingPosts == View("one", {}, {1})
TrendingUsers == View("turns", {}, {1, 2})
RecommendedUsers == View("turns", {}, {1, 2})
RecommendedPosts == View("turns", {}, {1, 2})

\* Whom one likes and writes to, for the ranking: kept an hour, deleted by nobody.
UserInteractions == View("abreast", {}, Parts)

\* What an admin has warmed (common/cache/cache-warming.service.ts): a user's row and
\* counts, under the keys their readers use; a post's, a feed and a search under
\* keys of their own.
WarmedUser == Warmed(View("one", {1}, {1}), "also")
WarmedUserStats == Warmed(View("abreast", {1, 2}, {2}), "also")
WarmedPost == Warmed(View("one", {}, {1}), "only")
WarmedPostStats == Warmed(View("abreast", {}, {1, 2}), "only")
WarmedFeed == Warmed(View("turns", {}, {1, 2}), "only")
WarmedSearch == Warmed(View("one", {}, {1}), "only")

\* Tables that only seeds write.
PaymentMethods == View("one", {}, {1})
RechargePackages == View("one", {}, {1})

Kinds == {GiftWall, GiftsCount, GiftsOverview, TopSupporters, GiftItemsSample, UserBalance, Profile, ProfileStats,
          UserDetail, UserInfo, ProfileViews, ConnectionStats, BlockLists, TrendingHashtags, Categories, LikeStats,
          PostMedia, TrendingPosts, TrendingUsers, RecommendedUsers, RecommendedPosts, PaymentMethods, RechargePackages,
          UserInteractions, WarmedUser, WarmedUserStats, WarmedPost, WarmedPostStats, WarmedFeed, WarmedSearch}

ViewsAssumption == MaxWrites \in Nat /\ MaxWorth \in Nat /\ None \notin Nat

VARIABLES
    view,   \* the view that is followed
    now,    \* per part, the version in the tables
    entry,  \* what the service keeps, the versions it was made from, or None
    inner,  \* per nested part, its own entry, or None
    front,  \* what the route keeps, or None
    pc,     \* per call, the step it awaits
    part,   \* per call, the part it writes
    got,    \* per call, the versions it has read
    writes, \* writes made
    clean,  \* history: per call, no write since it asked, and nothing doubtful read
    sure    \* history: the layers whose entry was kept by a clean call, and told of every write since

layers == <<entry, inner, front>>
vars == <<view, now, layers, pc, part, got, writes, clean, sure>>

Blank == [p \in Parts |-> None]
Needed == IF view.reads = "one" THEN {1} ELSE Parts
Have(g) == {p \in Needed : g[p] # None}
Goto(c, to) == pc' = [pc EXCEPT ![c] = to]

\* A write has been made and its entries are not yet deleted.
Owing == \E c \in Calls : pc[c] \in {"tell", "flush", "again", "set"}

-----------------------------------------------------------------------------
\* A request: the route looks for its response, then the service for its entry.
Ask(c) ==
    /\ pc[c] = "new" /\ view.warmed # "only"
    /\ clean' = [clean EXCEPT ![c] = ~Owing]
    /\ Goto(c, IF view.routed THEN "route" ELSE "look")
    /\ UNCHANGED <<view, now, layers, part, got, writes, sure>>

\* selectiveWarmup: reads whatever is kept, and keeps nothing of a target that
\* fails.
Warm(c) ==
    /\ pc[c] = "new" /\ view.warmed # "no"
    /\ clean' = [clean EXCEPT ![c] = ~Owing]
    /\ Goto(c, "read") /\ UNCHANGED <<view, now, layers, part, got, writes, sure>>

Fail(c) ==
    /\ pc[c] = "read" /\ view.warmed # "no"
    /\ Goto(c, "done") /\ UNCHANGED <<view, now, layers, part, got, writes, clean, sure>>

RouteHit(c) == pc[c] = "route" /\ front # None /\ Goto(c, "done")
    /\ UNCHANGED <<view, now, layers, part, got, writes, clean, sure>>
RouteMiss(c) == pc[c] = "route" /\ front = None /\ Goto(c, "look")
    /\ UNCHANGED <<view, now, layers, part, got, writes, clean, sure>>

Answered(c) == Goto(c, IF view.routed THEN "respond" ELSE "done")

Hit(c) ==
    /\ pc[c] = "look" /\ entry # None
    /\ got' = [got EXCEPT ![c] = entry] /\ clean' = [clean EXCEPT ![c] = @ /\ "entry" \in sure]
    /\ Answered(c) /\ UNCHANGED <<view, now, layers, part, writes, sure>>

Miss(c) == pc[c] = "look" /\ entry = None /\ Goto(c, "read")
    /\ UNCHANGED <<view, now, layers, part, got, writes, clean, sure>>

\* One statement; in turn, the second waits for the first.  A part with an entry of
\* its own is taken from there.
Turn(c, p) == p \in Needed \ Have(got[c]) /\ (view.reads = "turns" /\ p = 2 => got[c][1] # None)

Read(c, p) ==
    /\ pc[c] = "read" /\ Turn(c, p) /\ (p \in view.nested => inner[p] = None)
    /\ got' = [got EXCEPT ![c][p] = now[p]]
    /\ Goto(c, IF p \in view.nested THEN "nest" ELSE IF Have(got'[c]) = Needed THEN "keep" ELSE "read")
    /\ part' = [part EXCEPT ![c] = p]
    /\ UNCHANGED <<view, now, layers, writes, clean, sure>>

ReadInner(c, p) ==
    /\ pc[c] = "read" /\ Turn(c, p) /\ p \in view.nested /\ inner[p] # None
    /\ got' = [got EXCEPT ![c][p] = inner[p]] /\ clean' = [clean EXCEPT ![c] = @ /\ Nested[p] \in sure]
    /\ Goto(c, IF Have(got'[c]) = Needed THEN "keep" ELSE "read")
    /\ UNCHANGED <<view, now, layers, part, writes, sure>>

\* set: what was read is kept, whatever has been written meanwhile.
Trust(c, layer) == sure' = IF clean[c] THEN sure \cup {layer} ELSE sure \ {layer}

Nest(c) ==
    /\ pc[c] = "nest"
    /\ inner' = [inner EXCEPT ![part[c]] = got[c][part[c]]] /\ Trust(c, Nested[part[c]])
    /\ Goto(c, IF Have(got[c]) = Needed THEN "keep" ELSE "read")
    /\ UNCHANGED <<view, now, entry, front, part, got, writes, clean>>

\* The reader of a written-through entry sets it twice, once in the handler it
\* shares with the writers and once in getOrSet.
Keep(c) ==
    /\ pc[c] \in {"keep", "twice"}
    /\ entry' = got[c] /\ Trust(c, "entry")
    /\ IF view.through /\ pc[c] = "keep" THEN Goto(c, "twice") ELSE Answered(c)
    /\ UNCHANGED <<view, now, inner, front, part, got, writes, clean>>

Respond(c) ==
    /\ pc[c] = "respond"
    /\ front' = got[c] /\ Trust(c, "front")
    /\ Goto(c, "done") /\ UNCHANGED <<view, now, entry, inner, part, got, writes, clean>>

-----------------------------------------------------------------------------
\* A write of part p, which tells the entry or not.  What it does not tell is in
\* doubt from then on; the entries it will delete are in doubt until it has.
Write(c, p, tells) ==
    /\ pc[c] = "new" /\ p \in Needed /\ writes < MaxWrites
    /\ IF tells THEN p \in view.told ELSE p \in view.untold
    /\ now' = [q \in Parts |-> IF q = p \/ view.joint THEN now[q] + 1 ELSE now[q]]
    /\ writes' = writes + 1 /\ part' = [part EXCEPT ![c] = p]
    /\ clean' = [d \in Calls |-> FALSE]
    /\ sure' = sure \ ({"front"} \cup (IF tells THEN {} ELSE {"entry"}))
    /\ Goto(c, IF p \in view.nested THEN "tell" ELSE IF ~tells THEN "done" ELSE IF view.through THEN "again" ELSE "flush")
    /\ UNCHANGED <<view, layers, got>>

\* The nested entry goes first, by its name.
Tell(c) ==
    /\ pc[c] = "tell"
    /\ inner' = [inner EXCEPT ![part[c]] = None]
    /\ Goto(c, IF part[c] \in view.told THEN "flush" ELSE "done")
    /\ UNCHANGED <<view, now, entry, front, part, got, writes, clean, sure>>

\* Mutant: the pattern misses the entry.
ClearedNot(kept) == kept
Cleared(kept) == IF kept = None THEN kept ELSE None

Flush(c) ==
    /\ pc[c] = "flush"
    /\ entry' = Cleared(entry)
    /\ inner' = [inner EXCEPT ![part[c]] = None]
    /\ Goto(c, "done") /\ UNCHANGED <<view, now, front, part, got, writes, clean, sure>>

\* handlerCachingUserById: the writer reads the row again, and sets the entry.
Again(c) ==
    /\ pc[c] = "again"
    /\ got' = [got EXCEPT ![c] = [Blank EXCEPT ![1] = now[1]]] /\ clean' = [clean EXCEPT ![c] = TRUE]
    /\ Goto(c, "set") /\ UNCHANGED <<view, now, layers, part, writes, sure>>

Set(c) ==
    /\ pc[c] = "set"
    /\ entry' = got[c] /\ Trust(c, "entry")
    /\ Goto(c, "done") /\ UNCHANGED <<view, now, inner, front, part, got, writes, clean>>

\* The process dies before it has told: nobody else will.
Crash(c) ==
    /\ pc[c] \in {"tell", "flush", "again", "set"}
    /\ Goto(c, "done") /\ sure' = {} /\ clean' = [d \in Calls |-> FALSE]
    /\ UNCHANGED <<view, now, layers, part, got, writes>>

Expire ==
    /\ \/ entry # None /\ entry' = None /\ UNCHANGED <<inner, front>>
       \/ front # None /\ front' = None /\ UNCHANGED <<entry, inner>>
       \/ \E p \in Parts : inner[p] # None /\ inner' = [inner EXCEPT ![p] = None] /\ UNCHANGED <<entry, front>>
    /\ UNCHANGED <<view, now, pc, part, got, writes, clean, sure>>

\* A call is a request after a request.
Renew(c) ==
    /\ pc[c] = "done"
    /\ Goto(c, "new") /\ got' = [got EXCEPT ![c] = Blank] /\ part' = [part EXCEPT ![c] = 1]
    /\ clean' = [clean EXCEPT ![c] = FALSE]
    /\ UNCHANGED <<view, now, layers, writes, sure>>

Init ==
    /\ view \in Kinds /\ now = [p \in Parts |-> 0] /\ writes = 0
    /\ entry = None /\ inner = Blank /\ front = None
    /\ pc = [c \in Calls |-> "new"] /\ part = [c \in Calls |-> 1] /\ got = [c \in Calls |-> Blank]
    /\ clean = [c \in Calls |-> FALSE] /\ sure = {}

Next ==
    \/ \E c \in Calls :
        \/ Ask(c) \/ Warm(c) \/ Fail(c) \/ RouteHit(c) \/ RouteMiss(c) \/ Hit(c) \/ Miss(c) \/ Nest(c) \/ Keep(c) \/ Respond(c)
        \/ Tell(c) \/ Flush(c) \/ Again(c) \/ Set(c) \/ Crash(c) \/ Renew(c)
        \/ \E p \in Parts : Read(c, p) \/ ReadInner(c, p) \/ \E tells \in BOOLEAN : Write(c, p, tells)
    \/ Expire
Spec == Init /\ [][Next]_vars

-----------------------------------------------------------------------------
\* Mutant: the gift that completes a level stays in it.
ReachesMore(total, from, span) == total > from + span
Reaches(total, from, span) == total >= from + span

\* getGiftWall: from level n to the next it takes 10 * 2^(n-1), and a gift that
\* completes a level opens the next.
WallLevel(total) ==
    LET climb[n \in Nat, from \in Nat, span \in Nat] ==
            IF Reaches(total, from, span) THEN climb[n + 1, from + span, 2 * span]
            ELSE [level |-> n, into |-> total - from, left |-> span - (total - from)]
    IN climb[1, 0, 10]

\* getUserBalance: ten gifts received a level.
UserLevel(gifts) == [level |-> (gifts \div 10) + 1, into |-> gifts % 10, left |-> 10 - (gifts % 10)]

-----------------------------------------------------------------------------
Versions == 0 .. MaxWrites
Entries == [Parts -> Versions \cup {None}]
TypeOK ==
    /\ view \in Kinds /\ now \in [Parts -> Versions] /\ writes \in 0 .. MaxWrites
    /\ entry \in Entries \cup {None} /\ front \in Entries \cup {None} /\ inner \in Entries
    /\ part \in [Calls -> Parts] /\ got \in [Calls -> Entries] /\ clean \in [Calls -> BOOLEAN]
    /\ pc \in [Calls -> {"new", "route", "look", "read", "nest", "keep", "twice", "respond", "tell", "flush", "again", "set", "done"}]
    /\ sure \subseteq {"entry", "front", Nested[1], Nested[2]}

\* What a clean request kept tells the tables as they are, once the writes that
\* tell have told: no flush misses an entry, and none is made from one that lies.
EntriesTrue == ~Owing =>
    /\ "entry" \in sure /\ entry # None => \A p \in Needed : entry[p] = now[p]
    /\ "front" \in sure /\ front # None => \A p \in Needed : front[p] = now[p]
    /\ \A p \in Parts : Nested[p] \in sure /\ inner[p] # None => inner[p] = now[p]

\* The level kept of a total that was read is the one its sum falls in: each level
\* starts where the one before ends, something is always left to the next, and what
\* the levels took and what is in hand add up to the total
\* (user-gift-wall.service.ts, user-level.service.ts).
Bottom(n) == 10 * (2 ^ (n - 1) - 1)
LevelsRight == \A c \in Calls :
    /\ pc[c] = "keep" /\ view = GiftWall => \A worth \in 1 .. MaxWorth :
        LET total == worth * got[c][2]
            wall == WallLevel(total) IN
        /\ Bottom(wall.level) <= total /\ total < Bottom(wall.level + 1)
        /\ Bottom(wall.level) + wall.into = total /\ wall.left = Bottom(wall.level + 1) - total
    /\ pc[c] = "keep" /\ view = UserBalance => \A most \in 1 .. MaxWorth :
        LET gifts == most * got[c][1]
            user == UserLevel(gifts) IN
        user.left > 0 /\ 10 * (user.level - 1) + user.into = gifts
=============================================================================
