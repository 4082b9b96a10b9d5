------------------------------ MODULE Listings ------------------------------
(***************************************************************************)
(* The paged lists of the API.  A page is the rows from (page-1)*limit on, *)
(* read by one statement; how many there are is counted by another, beside *)
(* it.  A client that walks through the pages asks once per page, while    *)
(* the rows come, go and change their places.                              *)
(***************************************************************************)
EXTENDS Naturals, Sequences, Functions, FiniteSets

CONSTANTS Walkers,
          Size,    \* limit, the rows of a page
          MaxRows, MaxChanges, \* bounds on the rows and the changes made
          None     \* nothing read, no entry

\* What sets the lists apart.  order: newest or oldest first, by the last change, or
\* by something an edit or a random id decides; hides: rows leave the list, and may
\* come back, without being deleted; hangs: what the list belongs to is looked for
\* first; kept: pages are cached, and the writes tell the cache or not; late: the
\* count follows the page; stands: every page is the first; blank: past the end
\* the total is 0.
Plain == [order |-> "newest", hides |-> FALSE, hangs |-> FALSE, kept |-> "no", late |-> FALSE, stands |-> FALSE, blank |-> FALSE]
Hiding == [Plain EXCEPT !.hides = TRUE]
Sorted == [Plain EXCEPT !.order = "sorted"]

\* Messages, chats and groups.
Conversations == [Hiding EXCEPT !.order = "touched"]
Messages == [Hiding EXCEPT !.hangs = TRUE]
MediaGallery == [Hiding EXCEPT !.hangs = TRUE]
Groups == Hiding
UserGroups == Plain
GroupMembers == [Sorted EXCEPT !.hides = TRUE, !.hangs = TRUE]
GroupMessages == [Hiding EXCEPT !.hangs = TRUE]

\* Posts and what hangs on them.
OwnPosts == [Plain EXCEPT !.kept = "told"]
Comments == [Plain EXCEPT !.hangs = TRUE, !.kept = "told"]
CommentReplies == [Plain EXCEPT !.order = "oldest", !.kept = "told"]
Likes == [Plain EXCEPT !.hangs = TRUE, !.kept = "told"]
\* attachHashtags deletes the pages of a hashtag that has the post's id.
LatestOfHashtag == [Hiding EXCEPT !.kept = "untold"]
PopularOfHashtag == [LatestOfHashtag EXCEPT !.order = "sorted"]

\* People: the routes keep the responses, which nothing deletes.
Following == [Plain EXCEPT !.kept = "untold"]
Followers == [Plain EXCEPT !.kept = "untold"]
Friends == [Plain EXCEPT !.kept = "untold"]
FollowersFound == [Hiding EXCEPT !.kept = "untold"]
FriendsFound == [Sorted EXCEPT !.hides = TRUE, !.kept = "untold"]
UsersFound == [Hiding EXCEPT !.order = "oldest", !.kept = "untold"]
Associates == Hiding
Referrals == Plain
Found == [Hiding EXCEPT !.kept = "untold"]
Everything == [Found EXCEPT !.stands = TRUE]

\* Rooms and events.
Rooms == [Hiding EXCEPT !.late = TRUE]
Viewers == [Plain EXCEPT !.hangs = TRUE, !.late = TRUE]
Events == [Sorted EXCEPT !.hides = TRUE]
UserEvents == Plain
EventParticipants == [Plain EXCEPT !.order = "oldest", !.hangs = TRUE]

\* What a user owns: by id, which is random, or by time.
Stories == Hiding
ActiveStories == Hiding
Tasks == Sorted
StoreItems == Sorted
Inventory == [Sorted EXCEPT !.hides = TRUE]
HelpArticles == Plain
Feedbacks == Plain
Clans == [Sorted EXCEPT !.kept = "told"]
UserClans == [Sorted EXCEPT !.kept = "told"]

\* Money and gifts.
Wallets == Sorted
Transactions == [Plain EXCEPT !.kept = "untold"]
GiftItems == [Sorted EXCEPT !.hides = TRUE]
Gifts == Plain
\* An item bought or renamed does not reach the milestones kept.
Milestones == [Sorted EXCEPT !.kept = "untold", !.blank = TRUE]
RecentGifts == [Plain EXCEPT !.kept = "told"]

Lists ==
    {Conversations, Messages, MediaGallery, Groups, UserGroups, GroupMembers, GroupMessages, OwnPosts, Comments,
     CommentReplies, Likes, LatestOfHashtag, PopularOfHashtag, Following, Followers, Friends, FollowersFound,
     FriendsFound, UsersFound, Associates, Referrals, Found, Everything, Rooms, Viewers, Events, UserEvents,
     EventParticipants, Stories, ActiveStories, Tasks, StoreItems, Inventory, HelpArticles, Feedbacks, Clans,
     UserClans, Wallets, Transactions, GiftItems, Gifts, Milestones, RecentGifts}

Changes == {"insert", "return", "remove", "move"}
ListingsAssumption == Size \in Nat \ {0} /\ MaxRows \in Nat \ {0} /\ MaxChanges \in Nat /\ None \notin Nat

VARIABLES
    list,    \* the list that is walked
    there,   \* whether what it hangs on is there
    rows,    \* the rows made, in the order of the list
    shown,   \* those the list has now
    changes, \* the changes made
    kept,    \* per page, the cached answer, or None
    fresh,   \* the pages whose entry tells the rows as they are
    owed,    \* a write has still to tell the cache
    at, page, got, \* per walker, the statement it awaits, its page and what it has read of it
    told,    \* per walker, the rows of the pages it has, and the total last told
    steady,  \* history: per walker, the rows the list has had all along
    since,   \* history: per walker, the changes since it set out
    clean,   \* history: per walker, none since it asked for its page
    short,   \* history: per walker, a row came after the count, before the page
    aged     \* history: per walker, a page kept was older than a change

table == <<list, there, rows, shown, changes>>
cache == <<kept, fresh, owed>>
walk == <<at, page, got, told>>
history == <<steady, since, clean, short, aged>>
vars == <<table, cache, walk, history>>

Go(w, to) == at' = [at EXCEPT ![w] = to]
Walking(w) == at[w] \notin {"idle", "done", "refused"}
View == LET Has(r) == r \in shown IN SelectSeq(rows, Has)
Lesser(m, n) == IF m < n THEN m ELSE n
Pages == 1 .. (MaxRows + Size - 1) \div Size
Nothing == [items |-> None, total |-> None]

-----------------------------------------------------------------------------
\* Mutant: pages are counted from 0.
SkipFromZero(k) == k * Size
Skip(k) == (k - 1) * Size

\* The rows of page k; a search over everything takes the first third of a page.
Rest(k) == SubSeq(View, Skip(k) + 1, Lesser(Skip(k) + Size, Len(View)))
Slice(k) == IF list.stands THEN SubSeq(View, 1, Lesser((Size + 2) \div 3, Len(View))) ELSE Rest(k)

\* buildPaginationMeta: at least one page.
TotalPages(total) == IF total = 0 THEN 1 ELSE (total + Size - 1) \div Size

Begin(w) ==
    /\ at[w] = "idle" \/ (at[w] \in {"done", "refused"} /\ list.kept # "no")
    /\ page' = [page EXCEPT ![w] = 1] /\ told' = [told EXCEPT ![w] = [items |-> <<>>, total |-> None]]
    /\ steady' = [steady EXCEPT ![w] = shown] /\ since' = [since EXCEPT ![w] = {}]
    /\ short' = [short EXCEPT ![w] = FALSE] /\ aged' = [aged EXCEPT ![w] = FALSE]
    /\ Go(w, "ask") /\ UNCHANGED <<table, cache, got, clean>>

\* An entry is answered as it is; otherwise the page is read anew.
Cached(w) == list.kept # "no" /\ kept[page[w]] # None

Hit(w) ==
    /\ at[w] = "ask" /\ Cached(w)
    /\ got' = [got EXCEPT ![w] = kept[page[w]]]
    /\ aged' = [aged EXCEPT ![w] = @ \/ page[w] \notin fresh]
    /\ clean' = [clean EXCEPT ![w] = page[w] \in fresh]
    /\ Go(w, "turn") /\ UNCHANGED <<table, cache, page, told, steady, since, short>>

Ask(w) ==
    /\ at[w] = "ask" /\ ~Cached(w)
    /\ got' = [got EXCEPT ![w] = Nothing] /\ clean' = [clean EXCEPT ![w] = TRUE]
    /\ Go(w, IF list.hangs THEN "check" ELSE "read")
    /\ UNCHANGED <<table, cache, page, told, steady, since, short, aged>>

Check(w) ==
    /\ at[w] = "check"
    /\ Go(w, IF there THEN "read" ELSE "refused")
    /\ UNCHANGED <<table, cache, page, got, told, history>>

\* The two statements of a Promise.all, in either order.
Ready(w) == Go(w, IF got'[w].items = None \/ got'[w].total = None THEN "read"
                  ELSE IF list.kept = "no" THEN "turn" ELSE "keep")

ReadItems(w) ==
    /\ at[w] = "read" /\ got[w].items = None
    /\ got' = [got EXCEPT ![w].items = Slice(page[w])]
    /\ Ready(w) /\ UNCHANGED <<table, cache, page, told, history>>

Count(w) ==
    /\ at[w] = "read" /\ got[w].total = None /\ (list.late => got[w].items # None)
    /\ got' = [got EXCEPT ![w].total = Cardinality(shown)]
    /\ Ready(w) /\ UNCHANGED <<table, cache, page, told, history>>

\* What is answered, and kept: without rows the milestones count none.
Answer(g) == IF list.blank /\ g.items = <<>> THEN [g EXCEPT !.total = 0] ELSE g

Keep(w) ==
    /\ at[w] = "keep"
    /\ kept' = [kept EXCEPT ![page[w]] = Answer(got[w])]
    /\ fresh' = IF clean[w] THEN fresh \cup {page[w]} ELSE fresh \ {page[w]}
    /\ Go(w, "turn") /\ UNCHANGED <<table, owed, page, got, told, history>>

\* The client adds the page to what it has, and goes on while there are more.
Turn(w) ==
    /\ at[w] = "turn"
    /\ told' = [told EXCEPT ![w] = [items |-> @.items \o got[w].items, total |-> Answer(got[w]).total]]
    /\ IF page[w] < TotalPages(told'[w].total)
       THEN Go(w, "ask") /\ page' = [page EXCEPT ![w] = @ + 1]
       ELSE Go(w, "done") /\ UNCHANGED page
    /\ got' = [got EXCEPT ![w] = Nothing] /\ UNCHANGED <<table, cache, history>>

-----------------------------------------------------------------------------
\* The writes, of whichever service they are; those that tell the cache do so in
\* a step of their own.
Change(kind) ==
    /\ changes < MaxChanges /\ changes' = changes + 1
    /\ since' = [w \in Walkers |-> IF Walking(w) THEN since[w] \cup {kind} ELSE since[w]]
    /\ steady' = [w \in Walkers |-> IF Walking(w) THEN steady[w] \cap shown' ELSE steady[w]]
    /\ clean' = [w \in Walkers |-> FALSE]
    /\ short' = [w \in Walkers |-> short[w] \/
        (kind \in {"insert", "return"} /\ at[w] = "read" /\ got[w].total # None /\ got[w].items = None)]
    /\ fresh' = {} /\ owed' = (list.kept = "told")
    /\ UNCHANGED <<list, kept, walk, aged>>

Put(s, i, r) == SubSeq(s, 1, i - 1) \o <<r>> \o SubSeq(s, i, Len(s))
Without(s, i) == SubSeq(s, 1, i - 1) \o SubSeq(s, i + 1, Len(s))

\* Where a new row comes to lie.
Places == {i \in 1 .. Len(rows) + 1 :
    (list.order \in {"newest", "touched"} => i = 1) /\ (list.order = "oldest" => i = Len(rows) + 1)}

Insert ==
    /\ there /\ Len(rows) < MaxRows
    /\ \E i \in Places : rows' = Put(rows, i, Len(rows) + 1)
    /\ shown' = shown \cup {Len(rows) + 1}
    /\ Change("insert") /\ UNCHANGED there

Depart(r) ==
    /\ r \in shown
    /\ shown' = shown \ {r}
    /\ Change("remove") /\ UNCHANGED <<there, rows>>

Return(r) ==
    /\ there /\ list.hides /\ r \in Range(rows) \ shown
    /\ shown' = shown \cup {r}
    /\ Change("return") /\ UNCHANGED <<there, rows>>

\* A touched row comes to the front; an edit puts a sorted one anywhere.
Move(r) ==
    /\ r \in shown /\ list.order \in {"touched", "sorted"}
    /\ \E j \in 1 .. Len(rows), i \in IF list.order = "touched" THEN {1} ELSE 1 .. Len(rows) :
        rows[j] = r /\ rows' = Put(Without(rows, j), i, r)
    /\ rows' # rows
    /\ shown' = shown
    /\ Change("move") /\ UNCHANGED there

\* The post, group, event or room goes, and its rows with it.
Vanish ==
    /\ list.hangs /\ there
    /\ there' = FALSE /\ shown' = {}
    /\ Change("remove") /\ UNCHANGED rows

Flush ==
    /\ owed
    /\ kept' = [k \in Pages |-> None] /\ owed' = FALSE
    /\ UNCHANGED <<table, fresh, walk, history>>

Expire(k) ==
    /\ kept[k] # None
    /\ kept' = [kept EXCEPT ![k] = None]
    /\ UNCHANGED <<table, fresh, owed, walk, history>>

Init ==
    /\ list \in Lists /\ there = TRUE /\ changes = 0
    /\ \E n \in 0 .. MaxRows : /\ shown = 1 .. n
                               /\ rows = [i \in 1 .. n |-> IF list.order = "oldest" THEN i ELSE n + 1 - i]
    /\ kept = [k \in Pages |-> None] /\ fresh = {} /\ owed = FALSE
    /\ at = [w \in Walkers |-> "idle"] /\ page = [w \in Walkers |-> 1] /\ got = [w \in Walkers |-> Nothing]
    /\ told = [w \in Walkers |-> [items |-> <<>>, total |-> None]]
    /\ steady = [w \in Walkers |-> {}] /\ since = [w \in Walkers |-> {}] /\ clean = [w \in Walkers |-> FALSE]
    /\ short = [w \in Walkers |-> FALSE] /\ aged = [w \in Walkers |-> FALSE]

Next ==
    \/ \E w \in Walkers : \/ Begin(w) \/ Hit(w) \/ Ask(w) \/ Check(w) \/ ReadItems(w) \/ Count(w) \/ Keep(w) \/ Turn(w)
    \/ \E r \in 1 .. MaxRows : Depart(r) \/ Return(r) \/ Move(r)
    \/ \E k \in Pages : Expire(k)
    \/ Insert \/ Vanish \/ Flush
Spec == Init /\ [][Next]_vars

-----------------------------------------------------------------------------
Answers == [items: Seq(1 .. MaxRows) \cup {None}, total: 0 .. MaxRows \cup {None}]
TypeOK ==
    /\ list \in Lists /\ there \in BOOLEAN /\ changes \in 0 .. MaxChanges /\ IsInjective(rows) /\ shown \subseteq Range(rows) /\ (~there => shown = {})
    /\ kept \in [Pages -> Answers \cup {None}] /\ fresh \subseteq Pages /\ owed \in BOOLEAN
    /\ at \in [Walkers -> {"idle", "done", "refused", "ask", "check", "read", "keep", "turn"}]
    /\ page \in [Walkers -> Pages] /\ got \in [Walkers -> Answers] /\ told \in [Walkers -> Answers]

\* Whoever walks through a list has no row twice, as long as none comes before the
\* ones he has or changes its place; the newest last, none comes before them.
NothingTwice == \A w \in Walkers :
    ~list.stands /\ ~aged[w] /\ since[w] \cap {"return", "move"} = {} /\ ("insert" \in since[w] => list.order = "oldest")
        => IsInjective(told[w].items)

\* Whoever has walked through a list has all the rows it has had all along, as long
\* as none left it or changed its place; a row that comes between the count and the
\* page pushes one beyond the last page, unless the count comes last or the row does.
NothingMissed == \A w \in Walkers :
    at[w] = "done" /\ ~list.stands /\ ~aged[w] /\ since[w] \cap {"remove", "move"} = {} /\ ~short[w]
        => steady[w] \subseteq Range(told[w].items)

\* The total last told is the number of rows, if none changed since the page was
\* asked for; a milestone page past the end counts none.
TotalTold == \A w \in Walkers :
    at[w] = "done" /\ clean[w] => told[w].total = Cardinality(shown) \/ (list.blank /\ told[w].total = 0)
=============================================================================
