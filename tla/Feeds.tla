-------------------------------- MODULE Feeds --------------------------------
(***************************************************************************)
(* The feeds of posts: PostService.getFeed, FriendsFeedService,            *)
(* LatestFeedService and CommunityFeedService (posts/service).  A page is  *)
(* read by several statements (relations, posts, their number, likes) and  *)
(* kept in the cache; what the readers read is changed under them.         *)
(* FeedService, which no route calls yet, keeps nothing; RankingService    *)
(* puts its pages in an order of its own.                                  *)
(***************************************************************************)
EXTENDS Integers, Sequences, Functions, FiniteSets

CONSTANTS Users, Calls,
          Walls,    \* the posts a run starts from, newest first
          Ties,     \* the friends it starts from
          Requests, \* the requests clients make
          MaxLimit, \* the cap of a page, 50
          MaxPerAuthor, \* of a ranked page, 3
          MaxMoves, \* bound on the changes under the readers,
          Touched,  \* and the places of the wall they touch
          None

\* FeedService: whether a feed is of the reader's friends, and may be ranked.
GetFriendsFeed == [circle |-> TRUE, ranks |-> TRUE]
GetLatestFeed == [circle |-> FALSE, ranks |-> FALSE]
GetCommunityFeed == [circle |-> FALSE, ranks |-> TRUE]
Direct == [mine |-> GetFriendsFeed, newest |-> GetLatestFeed, hot |-> GetCommunityFeed]
Pages == {"following", "friends", "latest", "community", "category"} \cup DOMAIN Direct
Lookups == {"post", "friends post", "latest post", "community post"}
Personal == {"following", "friends", "community"} \cup DOMAIN Direct
Post == [id: Nat, by: Users, privacy: {"public", "friends", "private"}, tagged: BOOLEAN]

FeedsAssumption ==
    /\ {MaxLimit, MaxPerAuthor} \subseteq Nat \ {0} /\ Walls \subseteq Seq(Post) /\ Ties \subseteq SUBSET (Users \X Users)
    /\ Requests \subseteq [kind: Pages \cup Lookups, by: Users, page: Nat, limit: Nat]

VARIABLES
    wall,     \* the posts, newest first
    friends,  \* pairs of friends
    follows,  \* pairs <<follower, followed>>
    likes,    \* pairs <<post, user>>
    pages,    \* the cached pages
    moves,    \* changes so far
    ask, at,  \* per request, what it asks and the statement it awaits
    circle,   \* per request, the authors it has read
    answer,   \* per request, the page or post it has read
    current   \* history: nothing changed since the request read the database first

db == <<wall, friends, follows, likes>>
vars == <<db, pages, moves, ask, at, circle, answer, current>>

Go(c, to) == at' = [at EXCEPT ![c] = to] /\ UNCHANGED ask
Still == UNCHANGED <<db, moves>>
Default == 1
Least(a, b) == IF a < b THEN a ELSE b
Asked(r) == IF r.limit > 0 THEN r.limit ELSE Default
\* FeedService counts its pages from 0.
FirstPage(r) == IF r.kind \in DOMAIN Direct THEN 0 ELSE 1
PageOf(r) == IF r.page > FirstPage(r) THEN r.page ELSE FirstPage(r)
\* Only the feed of those one follows has no cap; FeedService forgets a limit
\* beyond it.
Take(r) == CASE r.kind = "following" -> Asked(r)
             [] r.kind \in DOMAIN Direct -> IF Asked(r) <= MaxLimit THEN Asked(r) ELSE Default
             [] OTHER -> Least(Asked(r), MaxLimit)
\* The posts of a category skip by the limit before it is capped.
Skip(r) == (PageOf(r) - FirstPage(r)) * (IF r.kind = "category" THEN Asked(r) ELSE Take(r))
Key(r) == <<r.kind, IF r.kind \in Personal THEN r.by ELSE None, PageOf(r), IF r.kind = "category" THEN Asked(r) ELSE Take(r)>>
Blank == [items |-> <<>>, liked |-> {}, total |-> 0]

Start(c) ==
    /\ at[c] = "new"
    /\ \E r \in Requests :
        /\ ask' = [ask EXCEPT ![c] = r]
        /\ at' = [at EXCEPT ![c] = CASE r.kind \in DOMAIN Direct -> IF Direct[r.kind].circle THEN "circle" ELSE "posts"
                                      [] r.kind \in Lookups -> "look"
                                      [] OTHER -> "cache"]
        /\ current' = [current EXCEPT ![c] = r.kind \in DOMAIN Direct]
    /\ UNCHANGED <<db, pages, moves, circle, answer>>

\* A hit answers with the page as it was when it was read.
Cached(c) ==
    /\ at[c] = "cache"
    /\ LET r == ask[c]
           hits == {e \in pages : e.key = Key(r)} IN
        IF hits # {}
        THEN /\ \E e \in hits : answer' = [answer EXCEPT ![c] = e.answer] /\ current' = [current EXCEPT ![c] = e.current]
             /\ Go(c, "done")
        ELSE /\ Go(c, IF r.kind \in {"following", "friends"} THEN "circle" ELSE "posts")
             /\ current' = [current EXCEPT ![c] = TRUE] /\ UNCHANGED answer
    /\ UNCHANGED <<pages, circle>> /\ Still

\* Mutant: the friends of those whose row names the user first are lost.
FriendsOfFirst(u) == {f \in Users : <<u, f>> \in friends}
FriendsOf(u) == {f \in Users : <<u, f>> \in friends \/ <<f, u>> \in friends}

\* One's own posts are in the feed of those one follows, and in FeedService's, not
\* in the friends' feed, which is empty without friends.
Circle(c) ==
    /\ at[c] = "circle"
    /\ LET r == ask[c]
           set == CASE r.kind = "friends" -> FriendsOf(r.by)
                    [] r.kind = "mine" -> {r.by} \cup FriendsOf(r.by)
                    [] OTHER -> {r.by} \cup {u \in Users : <<r.by, u>> \in follows} IN
        /\ circle' = [circle EXCEPT ![c] = set]
        /\ Go(c, IF set = {} THEN "store" ELSE "posts")
    /\ UNCHANGED <<pages, answer, current>> /\ Still

\* Mutant: the friends' feed asks for the authors alone.
MatchesAll(c, p) ==
    CASE ask[c].kind \in {"following", "friends", "mine"} -> p.by \in circle[c]
      [] ask[c].kind = "category" -> p.privacy = "public" /\ p.tagged
      [] OTHER -> p.privacy = "public"
Matches(c, p) ==
    CASE ask[c].kind \in {"following", "friends", "mine"} -> p.by \in circle[c] /\ p.privacy # "private"
      [] ask[c].kind = "category" -> p.privacy = "public" /\ p.tagged
      [] OTHER -> p.privacy = "public"
Found(c) == SelectSeq(wall, LAMBDA p : Matches(c, p))

Liked(c, posts) == {p.id : p \in {q \in Range(posts) : <<q.id, ask[c].by>> \in likes}}

\* The posts and their number are read in parallel, in either order; FeedService
\* reads the likes with the posts, and may then be asked to rank them.
AfterBoth(c) == IF ask[c].kind \notin DOMAIN Direct THEN {"likes"}
                ELSE IF Direct[ask[c].kind].ranks /\ answer'[c].items # <<>> THEN {"rank", "done"} ELSE {"done"}

Posts(c) ==
    /\ at[c] \in {"posts", "posts last"}
    /\ LET page == SubSeq(Found(c), Skip(ask[c]) + 1, Least(Skip(ask[c]) + Take(ask[c]), Len(Found(c)))) IN
       answer' = [answer EXCEPT ![c].items = page, ![c].liked = IF ask[c].kind \in DOMAIN Direct THEN Liked(c, page) ELSE @]
    /\ \E to \in IF at[c] = "posts" THEN {"count"} ELSE AfterBoth(c) : Go(c, to)
    /\ UNCHANGED <<pages, circle, current>> /\ Still

Count(c) ==
    /\ at[c] \in {"posts", "count"}
    /\ answer' = [answer EXCEPT ![c].total = Len(Found(c))]
    /\ \E to \in IF at[c] = "posts" THEN {"posts last"} ELSE AfterBoth(c) : Go(c, to)
    /\ UNCHANGED <<pages, circle, current>> /\ Still

Likes(c) ==
    /\ at[c] = "likes"
    /\ answer' = [answer EXCEPT ![c].liked = Liked(c, answer[c].items)]
    /\ Go(c, "store") /\ UNCHANGED <<pages, circle, current>> /\ Still

\* The scores weigh age, likes, followers, contacts and content: any order may come
\* out.
Scored(posts) == Bijection(DOMAIN posts, Range(posts))

\* applyDiversity: the best of every author.
Diverse(posts) ==
    LET Counts(kept, p) ==
            IF Cardinality({q \in Range(kept) : q.by = p.by}) < MaxPerAuthor THEN Append(kept, p) ELSE kept
        Best[i \in 0 .. Len(posts)] == IF i = 0 THEN <<>> ELSE Counts(Best[i - 1], posts[i])
    IN Best[Len(posts)]

Rank(c) ==
    /\ at[c] = "rank"
    /\ \E posts \in Scored(answer[c].items) :
        answer' = [answer EXCEPT ![c].items = Diverse(posts), ![c].liked = @ \cap {p.id : p \in Range(Diverse(posts))}]
    /\ Go(c, "done") /\ UNCHANGED <<pages, circle, current>> /\ Still

Store(c) ==
    /\ at[c] = "store"
    /\ pages' = {e \in pages : e.key # Key(ask[c])} \cup {[key |-> Key(ask[c]), answer |-> answer[c], current |-> current[c]]}
    /\ Go(c, "done") /\ UNCHANGED <<circle, answer, current>> /\ Still

-----------------------------------------------------------------------------
\* One post by its id, the request's page.
Look(c) ==
    /\ at[c] = "look"
    /\ LET found == SelectSeq(wall, LAMBDA p : p.id = ask[c].page) IN
        /\ answer' = [answer EXCEPT ![c].items = found]
        /\ Go(c, IF found = <<>> THEN "done" ELSE IF ask[c].kind = "friends post" THEN "friend" ELSE "judge")
    /\ current' = [current EXCEPT ![c] = TRUE]
    /\ UNCHANGED <<pages, circle>> /\ Still

Friend(c) ==
    /\ at[c] = "friend"
    /\ circle' = [circle EXCEPT ![c] = FriendsOf(ask[c].by) \cap {answer[c].items[1].by}]
    /\ Go(c, "judge") /\ UNCHANGED <<pages, answer, current>> /\ Still

\* The community shows a post whatever its privacy, and its detail hides only the
\* private posts of others.
Shows(c, p) ==
    CASE ask[c].kind = "friends post" -> p.privacy = "public" \/ (p.privacy = "friends" /\ circle[c] # {})
      [] ask[c].kind = "latest post" -> p.privacy = "public"
      [] ask[c].kind = "post" -> p.privacy # "private" \/ p.by = ask[c].by
      [] OTHER -> TRUE

Judge(c) ==
    /\ at[c] = "judge"
    /\ IF Shows(c, answer[c].items[1]) THEN UNCHANGED answer /\ Go(c, "like")
       ELSE answer' = [answer EXCEPT ![c] = Blank] /\ Go(c, "done")
    /\ UNCHANGED <<pages, circle, current>> /\ Still

\* The public routes do not know who asks.
Like(c) ==
    /\ at[c] = "like"
    /\ answer' = [answer EXCEPT ![c].liked = {p \in {ask[c].page} : ask[c].kind \in {"post", "friends post"} /\ <<p, ask[c].by>> \in likes}]
    /\ Go(c, "done") /\ UNCHANGED <<pages, circle, current>> /\ Still

-----------------------------------------------------------------------------
\* Somebody posts, changes or deletes a post, likes one, or changes a relation; no
\* page is told.
Moved ==
    /\ moves < MaxMoves
    /\ moves' = moves + 1
    /\ current' = [c \in Calls |-> FALSE]
    /\ pages' = {[e EXCEPT !.current = FALSE] : e \in pages}
    /\ UNCHANGED <<ask, at, circle, answer>>

Publish(u) ==
    /\ Moved
    /\ \E v \in {"public", "friends"} :
        wall' = <<[id |-> 10 + moves, by |-> u, privacy |-> v, tagged |-> FALSE]>> \o wall
    /\ UNCHANGED <<friends, follows, likes>>

Hide(i) == Moved /\ wall' = [wall EXCEPT ![i].privacy = "private"] /\ UNCHANGED <<friends, follows, likes>>
Drop(i) ==
    /\ Moved /\ wall' = SubSeq(wall, 1, i - 1) \o SubSeq(wall, i + 1, Len(wall))
    /\ likes' = {l \in likes : l[1] # wall[i].id} /\ UNCHANGED <<friends, follows>>
Click(i, u) ==
    /\ Moved /\ LET l == {<<wall[i].id, u>>} IN likes' = (likes \cup l) \ (likes \cap l)
    /\ UNCHANGED <<wall, friends, follows>>
Tie(a, b) == Moved /\ friends' = (friends \cup {<<a, b>>}) \ (friends \cap {<<a, b>>}) /\ UNCHANGED <<wall, follows, likes>>
Follow(a, b) == Moved /\ follows' = (follows \cup {<<a, b>>}) \ (follows \cap {<<a, b>>}) /\ UNCHANGED <<wall, friends, likes>>

Expire == \E e \in pages : pages' = pages \ {e} /\ UNCHANGED <<db, moves, ask, at, circle, answer, current>>

Init ==
    /\ wall \in Walls /\ friends \in Ties /\ follows = {} /\ pages = {} /\ moves = 0
    /\ likes = {<<p.id, p.by>> : p \in Range(wall)}
    /\ ask = [c \in Calls |-> None] /\ at = [c \in Calls |-> "new"] /\ circle = [c \in Calls |-> {}]
    /\ answer = [c \in Calls |-> Blank] /\ current = [c \in Calls |-> FALSE]

Handle(c) == Start(c) \/ Cached(c) \/ Circle(c) \/ Posts(c) \/ Count(c) \/ Likes(c) \/ Rank(c) \/ Store(c) \/ Look(c) \/ Friend(c) \/ Judge(c) \/ Like(c)
Move ==
    \/ \E u \in Users : Publish(u)
    \/ \E i \in Touched \cap DOMAIN wall : Hide(i) \/ Drop(i) \/ \E u \in Users : Click(i, u)
    \/ \E a, b \in Users : a # b /\ (Follow(a, b) \/ (<<b, a>> \notin friends /\ Tie(a, b)))
Next == (\E c \in Calls : Handle(c)) \/ Move \/ Expire
Spec == Init /\ [][Next]_vars

-----------------------------------------------------------------------------
Steps == {"new", "done", "cache", "circle", "posts", "posts last", "count", "likes", "rank", "store", "look", "friend", "judge", "like"}

\* A page holds what its limit allows, and says liked of posts it shows.
TypeOK ==
    /\ wall \in Seq(Post) /\ friends \subseteq Users \X Users /\ follows \subseteq Users \X Users /\ moves \in 0 .. MaxMoves
    /\ ask \in [Calls -> Requests \cup {None}] /\ at \in [Calls -> Steps] /\ circle \in [Calls -> SUBSET Users]
    /\ \A c \in Calls : /\ answer[c].liked \subseteq {p.id : p \in Range(answer[c].items)}
                        /\ answer[c].items # <<>> => Len(answer[c].items) <= Take(ask[c])

\* What a user may read, as the feeds say it: public posts, and those for friends
\* when the author is his friend; in the feed of those he follows, theirs as well,
\* and his own there and in FeedService's.
Reader(r, p) ==
    CASE r.kind \in {"friends", "friends post"} -> p.privacy # "private" /\ {<<r.by, p.by>>, <<p.by, r.by>>} \cap friends # {}
      [] r.kind = "mine" -> p.privacy # "private" /\ (p.by = r.by \/ {<<r.by, p.by>>, <<p.by, r.by>>} \cap friends # {})
      [] r.kind = "following" -> p.privacy # "private" /\ (p.by = r.by \/ <<r.by, p.by>> \in follows)
      [] r.kind = "category" -> p.privacy = "public" /\ p.tagged
      [] OTHER -> p.privacy = "public"

\* Page k of a feed: the posts with (k-1) * n to k * n - 1 newer ones the reader may
\* read.
Due(r) ==
    LET mine == {i \in DOMAIN wall : Reader(r, wall[i])}
        newer(i) == Cardinality({j \in mine : j < i}) IN
    {wall[i] : i \in {j \in mine : newer(j) \div Take(r) = PageOf(r) - FirstPage(r)}}

\* As long as nothing changed, a page from the tables or from the cache shows the
\* posts that are due, their number and the reader's own likes; the pages without
\* the reader in their key may show another's, and a category asked beyond the cap
\* skips posts.  A ranked page leaves out a post only for MaxPerAuthor others of its
\* author.
FeedRight ==
    \A c \in Calls : LET r == ask[c]
                         items == Range(answer[c].items) IN at[c] = "done" /\ current[c] /\ r.kind \in Pages =>
        /\ Take(r) = Asked(r) \/ r.kind \in DOMAIN Direct => items \subseteq Due(r)
        /\ Take(r) = Asked(r) \/ r.kind \in DOMAIN Direct => \A p \in Due(r) \ items :
            r.kind \in DOMAIN Direct /\ Direct[r.kind].ranks /\ Cardinality({q \in items : q.by = p.by}) = MaxPerAuthor
        /\ answer[c].total = Cardinality({i \in DOMAIN wall : Reader(r, wall[i])})
        /\ r.kind \in Personal => answer[c].liked = {p.id : p \in {q \in Range(answer[c].items) : <<q.id, r.by>> \in likes}}

\* A post a page or the friends' and the latest feed's detail shows is, as long as
\* nothing changed, one its reader may read.
FeedPrivate ==
    \A c \in Calls : at[c] = "done" /\ current[c] /\ ask[c].kind \notin {"post", "community post"} =>
        \A p \in Range(answer[c].items) : p.privacy = "public" \/ Reader(ask[c], p)
=============================================================================
