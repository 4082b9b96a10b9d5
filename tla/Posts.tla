-------------------------------- MODULE Posts --------------------------------
(***************************************************************************)
(* One post with its likes, comments, media and hashtags, and the cached   *)
(* lists of them: PostService, LikeService, CommentService,                *)
(* PostMediaService and HashtagService (posts/service).                    *)
(*                                                                         *)
(* A request is one member of Calls and each awaited statement is a step;  *)
(* a transaction is one step.  Rows are named by the request that created  *)
(* them.  A cached list is the rows it was computed from.                  *)
(***************************************************************************)
EXTENDS Integers, FiniteSets, Sequences

CONSTANTS Users, Calls, Tags,
          Requests, \* the requests clients make
          Owner,    \* the author of the post
          None      \* no row, no entry

CommentKinds == {"comment", "uncomment"}
Kinds == {"post", "edit", "erase", "like", "unlike", "attach", "detach", "addmedia", "dropmedia", "read"} \cup CommentKinds
Reactions == {"like", "love"}
Entries == {"likes", "stats", "comments", "media"}

PostsAssumption ==
    /\ Requests \subseteq [kind: Kinds, by: Users, on: Reactions \cup Entries \cup {"top", "reply", "none"}, tags: SUBSET Tags]
    /\ Owner \in Users /\ None \notin Calls
    /\ \A r \in Requests : r.kind = "read" => r.on \in Entries
    /\ \A r \in Requests : r.kind = "like" => r.on \in Reactions
    /\ \A r \in Requests : r.kind \in {"attach", "detach"} => r.tags # {}

VARIABLES
    post,    \* "none", "live" or "gone"
    like,    \* per user, the res_post_like row: its id and reaction, or None
    comment, \* per id, the res_comment row: its author and parent, or None
    media,   \* ids of the res_post_media rows
    tagged,  \* hashtags of the post
    count,   \* per hashtag, post_count
    cached,  \* per entry, the rows it was computed from, or None
    call, pc,
    todo,    \* per request, the entries it still has to delete, in order
    seen,    \* per request, the rows it has read
    torn,    \* history: entries filled or left in place across a write
    listed,  \* history: hashtags a post was created or edited with
    lost     \* history: hashtags whose counting was cut off

rows == <<post, like, comment, media, tagged, count>>
history == <<torn, listed, lost>>
vars == <<rows, cached, call, pc, todo, seen, history>>

Goto(c, to) == pc' = [pc EXCEPT ![c] = to]
Keeps == UNCHANGED <<rows, cached, history>>
Answer(c) == Goto(c, "done") /\ UNCHANGED <<call, todo, seen>>
Proceed(c, to) == Goto(c, to) /\ UNCHANGED <<call, todo, seen>>
Active(c) == pc[c] \notin {"new", "done"}

\* What a list is computed from.
View(e) == CASE e \in {"likes", "stats"} -> like [] e = "comments" -> comment [] e = "media" -> media

\* A write makes stale the lists whose reader has computed, and not yet stored.
Tears(es) == torn' = torn \cup {e \in es : \E d \in Calls : pc[d] = "fill" /\ call[d].on = e}

Flushing(c) == {todo[c][i] : i \in DOMAIN todo[c]}

\* After its write a request deletes entries one after the other.
Flush(c, es) == todo' = [todo EXCEPT ![c] = es] /\ Goto(c, "flush") /\ UNCHANGED <<call, seen>>

First == [post |-> "insert", edit |-> "own", erase |-> "delete", like |-> "post", unlike |-> "unlike", attach |-> "owner",
          detach |-> "owner", comment |-> "post", uncomment |-> "find", addmedia |-> "post", dropmedia |-> "find", read |-> "get"]
AfterPost == [like |-> "mine", comment |-> "parent", addmedia |-> "add"]

Start(c) ==
    /\ pc[c] = "new"
    /\ \E r \in Requests : call' = [call EXCEPT ![c] = r] /\ Goto(c, First[r.kind])
    /\ UNCHANGED <<todo, seen>> /\ Keeps

\* likePost, createComment and addPostMedia look for the post.
FindPost(c) ==
    /\ pc[c] = "post"
    /\ IF post = "live" THEN Proceed(c, AfterPost[call[c].kind]) ELSE Answer(c)
    /\ Keeps

-----------------------------------------------------------------------------
\* createPost: one transaction inserts the post, its media and its hashtags;
\* post_count is not touched.
Insert(c) ==
    /\ pc[c] = "insert"
    /\ IF post = "none" /\ call[c].by = Owner
       THEN post' = "live" /\ media' = {c} /\ tagged' = call[c].tags /\ listed' = listed \cup call[c].tags
       ELSE UNCHANGED <<post, media, tagged, listed>>
    /\ Answer(c) /\ UNCHANGED <<like, comment, count, cached, torn, lost>>

FindOwn(c) ==
    /\ pc[c] = "own"
    /\ IF post = "live" /\ call[c].by = Owner THEN Proceed(c, "update") ELSE Answer(c)
    /\ Keeps

\* updatePost replaces media and hashtags, and deletes no list of this post: the
\* key it deletes is not one that is read.
Update(c) ==
    /\ pc[c] = "update"
    /\ IF post = "live"
       THEN /\ media' = {c} /\ tagged' = call[c].tags /\ listed' = listed \cup tagged \cup call[c].tags
            /\ torn' = torn \cup {"media"}
       ELSE UNCHANGED <<media, tagged, listed, torn>>
    /\ Answer(c) /\ UNCHANGED <<post, like, comment, count, cached, lost>>

\* The deletion cascades; the hashtags keep their post_count.
Erase(c) ==
    /\ pc[c] = "delete"
    /\ IF post = "live" /\ call[c].by = Owner
       THEN /\ post' = "gone" /\ like' = [u \in Users |-> None] /\ comment' = [d \in Calls |-> None]
            /\ media' = {} /\ tagged' = {} /\ listed' = listed \cup tagged
            /\ Tears(Entries) /\ Flush(c, <<"media", "likes", "stats", "comments">>)
       ELSE Answer(c) /\ UNCHANGED <<post, like, comment, media, tagged, listed, torn>>
    /\ UNCHANGED <<count, cached, lost>>

-----------------------------------------------------------------------------
\* likePost decides from the row it has read.
FindLike(c) ==
    /\ pc[c] = "mine"
    /\ LET row == like[call[c].by] IN
        /\ seen' = [seen EXCEPT ![c] = row]
        /\ Goto(c, IF row = None THEN "create" ELSE IF row.on = call[c].on THEN "remove" ELSE "change")
    /\ UNCHANGED <<call, todo>> /\ Keeps

\* The row is written by the id that was read; if it has gone, or another has
\* been created, the statement fails and the request with it.
Writes(c) == IF pc[c] = "create" THEN post = "live" /\ like[call[c].by] = None
             ELSE like[call[c].by] # None /\ like[call[c].by].id = seen[c].id

Liked(c) == IF pc[c] = "remove" THEN None
            ELSE [id |-> IF pc[c] = "create" THEN c ELSE seen[c].id, on |-> call[c].on]

Like(c) ==
    /\ pc[c] \in {"create", "remove", "change"}
    /\ IF Writes(c)
       THEN /\ like' = [like EXCEPT ![call[c].by] = Liked(c)]
            /\ Tears({"likes", "stats"}) /\ Flush(c, <<"likes", "stats">>)
       ELSE Answer(c) /\ UNCHANGED <<like, torn>>
    /\ UNCHANGED <<post, comment, media, tagged, count, cached, listed, lost>>

\* Mutant: unlikePost leaves the statistics in the cache.
UnlikedOnly == <<"likes">>
Unliked == <<"likes", "stats">>

Unlike(c) ==
    /\ pc[c] = "unlike"
    /\ IF like[call[c].by] # None
       THEN like' = [like EXCEPT ![call[c].by] = None] /\ Tears({"likes", "stats"}) /\ Flush(c, Unliked)
       ELSE Answer(c) /\ UNCHANGED <<like, torn>>
    /\ UNCHANGED <<post, comment, media, tagged, count, cached, listed, lost>>

-----------------------------------------------------------------------------
\* attachHashtags reads which of the hashtags the post has, inserts the others
\* and then counts them.
CheckOwner(c) ==
    /\ pc[c] = "owner"
    /\ IF post = "live" /\ call[c].by = Owner
       THEN Proceed(c, IF call[c].kind = "attach" THEN "attached" ELSE "detach") ELSE Answer(c)
    /\ Keeps

FindAttached(c) ==
    /\ pc[c] = "attached"
    /\ LET fresh == call[c].tags \ tagged IN
        IF fresh = {} THEN Answer(c)
        ELSE seen' = [seen EXCEPT ![c] = fresh] /\ Goto(c, "attach") /\ UNCHANGED <<call, todo>>
    /\ Keeps

\* Mutant: duplicates are skipped.
InsertableAny(c) == post = "live"
\* One duplicate refuses the whole insertion.
Insertable(c) == post = "live" /\ seen[c] \cap tagged = {}

Attach(c) ==
    /\ pc[c] = "attach"
    /\ IF Insertable(c) THEN tagged' = tagged \cup seen[c] /\ Proceed(c, "count") ELSE Answer(c) /\ UNCHANGED tagged
    /\ UNCHANGED <<post, like, comment, media, count, cached, history>>

CountAttached(c) ==
    /\ pc[c] = "count"
    /\ count' = [t \in Tags |-> IF t \in seen[c] THEN count[t] + 1 ELSE count[t]]
    /\ Answer(c) /\ UNCHANGED <<post, like, comment, media, tagged, cached, history>>

Detach(c) ==
    /\ pc[c] = "detach"
    /\ IF call[c].tags \subseteq tagged THEN tagged' = tagged \ call[c].tags /\ Proceed(c, "uncount") ELSE Answer(c) /\ UNCHANGED tagged
    /\ UNCHANGED <<post, like, comment, media, count, cached, history>>

CountDetached(c) ==
    /\ pc[c] = "uncount"
    /\ count' = [t \in Tags |-> IF t \in call[c].tags THEN count[t] - 1 ELSE count[t]]
    /\ Answer(c) /\ UNCHANGED <<post, like, comment, media, tagged, cached, history>>

-----------------------------------------------------------------------------
\* Mutant: a reply to a reply hangs below it.
RootItself(p) == p
\* A reply to a reply becomes a reply to its root.
Root(p) == IF comment[p].parent = None THEN p ELSE comment[p].parent

FindParent(c) ==
    /\ pc[c] = "parent"
    /\ IF call[c].on = "top" THEN seen' = [seen EXCEPT ![c] = None] /\ Goto(c, "write") /\ UNCHANGED <<call, todo>>
       ELSE \/ \E p \in Calls : /\ comment[p] # None /\ seen' = [seen EXCEPT ![c] = Root(p)]
                                /\ Goto(c, "write") /\ UNCHANGED <<call, todo>>
            \/ Answer(c)
    /\ Keeps

\* The foreign keys refuse a post or a parent that has gone meanwhile.
Write(c) ==
    /\ pc[c] = "write"
    /\ IF post = "live" /\ (seen[c] = None \/ comment[seen[c]] # None)
       THEN /\ comment' = [comment EXCEPT ![c] = [by |-> call[c].by, parent |-> seen[c]]]
            /\ Tears({"comments"}) /\ Flush(c, <<"comments">>)
       ELSE Answer(c) /\ UNCHANGED <<comment, torn>>
    /\ UNCHANGED <<post, like, media, tagged, count, cached, listed, lost>>

\* deleteComment and deletePostMedia read the row and delete it by its id.
FindRow(c) ==
    /\ pc[c] = "find"
    /\ \/ \E d \in Calls : /\ IF call[c].kind = "uncomment" THEN comment[d] # None ELSE d \in media
                           /\ seen' = [seen EXCEPT ![c] = d] /\ Goto(c, "drop") /\ UNCHANGED <<call, todo>>
       \/ Answer(c)
    /\ Keeps

DropComment(c) ==
    /\ pc[c] = "drop" /\ call[c].kind = "uncomment"
    /\ IF comment[seen[c]] # None /\ comment[seen[c]].by = call[c].by
       THEN /\ comment' = [d \in Calls |-> IF d = seen[c] \/ (comment[d] # None /\ comment[d].parent = seen[c]) THEN None ELSE comment[d]]
            /\ Tears({"comments"}) /\ Flush(c, <<"comments">>)
       ELSE Answer(c) /\ UNCHANGED <<comment, torn>>
    /\ UNCHANGED <<post, like, media, tagged, count, cached, listed, lost>>

AddMedia(c) ==
    /\ pc[c] = "add"
    /\ IF post = "live" THEN media' = media \cup {c} /\ Tears({"media"}) /\ Flush(c, <<"media">>)
       ELSE Answer(c) /\ UNCHANGED <<media, torn>>
    /\ UNCHANGED <<post, like, comment, tagged, count, cached, listed, lost>>

DropMedia(c) ==
    /\ pc[c] = "drop" /\ call[c].kind = "dropmedia"
    /\ IF seen[c] \in media THEN media' = media \ {seen[c]} /\ Tears({"media"}) /\ Flush(c, <<"media">>)
       ELSE Answer(c) /\ UNCHANGED <<media, torn>>
    /\ UNCHANGED <<post, like, comment, tagged, count, cached, listed, lost>>

-----------------------------------------------------------------------------
\* getOrSet: the entry, or the rows, which are stored in a step of its own.
Get(c) ==
    /\ pc[c] = "get"
    /\ IF cached[call[c].on] # None THEN Answer(c) ELSE Proceed(c, "load")
    /\ Keeps

Load(c) ==
    /\ pc[c] = "load"
    /\ IF post = "live" THEN seen' = [seen EXCEPT ![c] = View(call[c].on)] /\ Goto(c, "fill") /\ UNCHANGED <<call, todo>>
       ELSE Answer(c)
    /\ Keeps

Fill(c) ==
    /\ pc[c] = "fill"
    /\ cached' = [cached EXCEPT ![call[c].on] = seen[c]]
    /\ Answer(c) /\ UNCHANGED <<rows, history>>

\* An entry that goes takes its staleness with it, unless a late reader is about
\* to store it again.
Cleansed(e) == IF \E d \in Calls : pc[d] = "fill" /\ call[d].on = e THEN torn ELSE torn \ {e}

FlushOne(c) ==
    /\ pc[c] = "flush"
    /\ LET e == Head(todo[c]) IN
        /\ cached' = [cached EXCEPT ![e] = None] /\ torn' = Cleansed(e)
        /\ todo' = [todo EXCEPT ![c] = Tail(@)] /\ Goto(c, IF Len(todo[c]) = 1 THEN "done" ELSE "flush")
    /\ UNCHANGED <<rows, call, seen, listed, lost>>

Expire(e) ==
    /\ cached[e] # None
    /\ cached' = [cached EXCEPT ![e] = None] /\ torn' = Cleansed(e)
    /\ UNCHANGED <<rows, call, pc, todo, seen, listed, lost>>

\* The process dies, or a deletion fails, which is only logged.
Crash(c) ==
    /\ pc[c] \in {"flush", "count", "uncount"}
    /\ torn' = torn \cup Flushing(c)
    /\ lost' = lost \cup (IF pc[c] = "flush" THEN {} ELSE call[c].tags)
    /\ Goto(c, "done") /\ todo' = [todo EXCEPT ![c] = <<>>] /\ UNCHANGED <<rows, cached, call, seen, listed>>

-----------------------------------------------------------------------------
Handle(c) ==
    \/ Start(c) \/ FindPost(c) \/ Insert(c) \/ FindOwn(c) \/ Update(c) \/ Erase(c) \/ FindLike(c) \/ Like(c) \/ Unlike(c)
    \/ CheckOwner(c) \/ FindAttached(c) \/ Attach(c) \/ CountAttached(c) \/ Detach(c) \/ CountDetached(c)
    \/ FindParent(c) \/ Write(c) \/ FindRow(c) \/ DropComment(c) \/ AddMedia(c) \/ DropMedia(c)
    \/ Get(c) \/ Load(c) \/ Fill(c) \/ FlushOne(c) \/ Crash(c)

\* Before the post, or with a post that has nothing yet.
Init ==
    /\ post \in {"none", "live"} /\ media = {} /\ tagged = {} /\ count = [t \in Tags |-> 0]
    /\ like = [u \in Users |-> None] /\ comment = [c \in Calls |-> None] /\ cached = [e \in Entries |-> None]
    /\ call = [c \in Calls |-> None] /\ pc = [c \in Calls |-> "new"] /\ todo = [c \in Calls |-> <<>>]
    /\ seen = [c \in Calls |-> None] /\ torn = {} /\ listed = {} /\ lost = {}

Next == (\E c \in Calls : Handle(c)) \/ (\E e \in Entries : Expire(e))
Spec == Init /\ [][Next]_vars

-----------------------------------------------------------------------------
Labels == {"new", "done", "post", "insert", "own", "update", "delete", "mine", "create", "remove", "change", "unlike",
           "owner", "attached", "attach", "count", "detach", "uncount", "parent", "write", "find", "drop", "add",
           "get", "load", "fill", "flush"}

\* Rows hang on a live post; a comment's parent is there and is no reply.
TypeOK ==
    /\ post \in {"none", "live", "gone"} /\ media \subseteq Calls /\ tagged \subseteq Tags /\ count \in [Tags -> Int]
    /\ \A u \in Users : like[u] # None => like[u] \in [id: Calls, on: Reactions] /\ post = "live"
    /\ \A c \in Calls : comment[c] # None =>
        /\ post = "live" /\ comment[c].by \in Users
        /\ comment[c].parent # None => comment[comment[c].parent] # None /\ comment[comment[c].parent].parent = None
    /\ media # {} \/ tagged # {} => post = "live"
    /\ call \in [Calls -> Requests \cup {None}] /\ pc \in [Calls -> Labels] /\ todo \in [Calls -> Seq(Entries)]
    /\ torn \subseteq Entries /\ listed \subseteq Tags /\ lost \subseteq Tags

\* A cached list shows the rows as they are, unless a request is still to delete
\* it, its reader crossed a write, or a deletion failed.
PostListsCurrent ==
    \A e \in Entries : cached[e] # None /\ e \notin torn /\ (\A c \in Calls : e \notin Flushing(c)) => cached[e] = View(e)

\* post_count counts the posts of a hashtag, as long as hashtags are attached and
\* detached one by one: parallel attachments of one hashtag count once.
TagsCounted ==
    \A t \in Tags \ (listed \cup lost) :
        (\A c \in Calls : pc[c] \notin {"count", "uncount"}) => count[t] = (IF t \in tagged THEN 1 ELSE 0)
=============================================================================
