------------------------------- MODULE Social -------------------------------
(***************************************************************************)
(* Follows, friendships and blocks: UserConnectionsService                 *)
(* (users/service/user-connections.service.ts) and BlockUserService        *)
(* (users/block-user/service/block-user.service.ts).                       *)
(*                                                                         *)
(* None of these operations runs in a database transaction.  A request is  *)
(* a slot of Calls; each awaited statement is one step, and the members of *)
(* a Promise.all are steps taken in any order.  A slot serves one request  *)
(* after another.                                                          *)
(*                                                                         *)
(* A row is a triple <<table, first user, second user>>; the triples a     *)
(* request still has to read or delete are in todo, those it found are in  *)
(* found.                                                                  *)
(***************************************************************************)
EXTENDS FiniteSets

CONSTANTS Users,    \* the accounts
          Calls,    \* slots for requests in flight
          Requests, \* the requests clients make
          Crashes,  \* whether a request may be abandoned half way
          None      \* no cache entry, no request


Edges == {e \in Users \X Users : e[1] # e[2]}
Writes == {"follow", "unfollow", "remove", "unfriend", "block", "unblock"}
Call == [kind: Writes \cup {"list"}, user: Users, target: Users]

ASSUME SocialAssumption == Crashes \in BOOLEAN /\ Requests \subseteq Call /\ None \notin Call

Rows == {"follow", "friend", "block"} \X Users \X Users

VARIABLES
    follow,  \* res_follow: <<follower_id, following_id>>
    friend,  \* res_friend: <<user_a_id, user_b_id>>
    block,   \* res_block: <<blocker_id, blocked_id>>
    cached,  \* per user, the entry user:<id>:connections, or None
    call,    \* per slot, the request it serves, or None
    pc,      \* per slot, the statement it awaits
    todo,    \* per slot, the parallel statements not yet executed
    found,   \* per slot, the rows it has read
    alone,   \* history: slots no other request on their pair has overlapped
    overlap, \* history: pairs some requests overlapped on, both orientations
    dirty    \* history: users whose entry may be older than the tables

tables == <<follow, friend, block>>
handler == <<call, pc, todo, found>>
history == <<alone, overlap, dirty>>
vars == <<tables, cached, handler, history>>

Edge(c) == IF call[c].kind = "remove" THEN <<call[c].target, call[c].user>>
                                      ELSE <<call[c].user, call[c].target>>
Flip(e) == <<e[2], e[1]>>
Both(e) == {e, Flip(e)}
AreFriends(e) == \E f \in Both(e) : f \in friend

\* c is a request in flight that may write rows of the pair e.
On(c, e) == pc[c] # "idle" /\ call[c].kind \in Writes /\ Edge(c) \in Both(e)

\* c is a list request of u in flight.
ListOf(c, u) == pc[c] # "idle" /\ call[c].kind = "list" /\ call[c].user = u

\* The rows attachFollowStatus caches for u: whom u follows, and u's friends.
Following(u) == {<<"follow", u, v>> : v \in {w \in Users : <<u, w>> \in follow}}
Friends(u) == {<<"friend", u, v>> : v \in {w \in Users : AreFriends(<<u, w>>)}}
Snapshot(u) == Following(u) \cup Friends(u)

First == [follow |-> "upsert", unfollow |-> "find", remove |-> "find", unfriend |-> "unfriend",
          block |-> "upsert", unblock |-> "find", list |-> "query"]

-----------------------------------------------------------------------------
\* The request moves to its next statement.
Goto(c, to) == pc' = [pc EXCEPT ![c] = to] /\ UNCHANGED <<call, todo, found>>

\* The request is answered, or dies.
Leave(c) ==
    /\ pc' = [pc EXCEPT ![c] = "idle"]
    /\ todo' = [todo EXCEPT ![c] = {}]
    /\ found' = [found EXCEPT ![c] = {}]
    /\ call' = [call EXCEPT ![c] = None]
    /\ alone' = alone \ {c}

\* An unfriend or a block nobody overlapped leaves no friend row, so nothing an
\* earlier overlap on the pair could have left behind.
Healed(c) == IF c \in alone /\ call[c].kind \in {"unfriend", "block"} THEN Both(Edge(c)) ELSE {}

\* Statements that read or write the tables of UserConnectionsService only.
Quiet == UNCHANGED <<block, cached, history>>

\* Mutant: no test.
AcceptedAny(r) == r.user \in Users
\* Nobody follows or blocks himself.
Accepted(r) == r.kind \in {"follow", "block"} => r.user # r.target

\* A request arrives.  A list request that hits the cache changes nothing, so
\* only those that miss are followed.
Start(c) ==
    /\ pc[c] = "idle"
    /\ \E r \in Requests :
        /\ Accepted(r)
        /\ r.kind = "list" => r.user = r.target /\ cached[r.user] = None
        /\ call' = [call EXCEPT ![c] = r]
        /\ pc' = [pc EXCEPT ![c] = First[r.kind]]
        /\ todo' = [todo EXCEPT ![c] =
                     IF r.kind = "list" THEN {<<"follow", r.user, r.user>>, <<"friend", r.user, r.user>>}
                                        ELSE {}]
        /\ LET pair == Both(<<r.user, r.target>>)
               rivals == {d \in Calls \ {c} : On(d, <<r.user, r.target>>)}
           IN IF r.kind = "list"
              THEN /\ dirty' = IF \E d \in Calls \ {c} : pc[d] # "idle" /\ call[d].kind \in Writes
                                                          /\ r.user \in {call[d].user, call[d].target}
                               THEN dirty \cup {r.user} ELSE dirty
                   /\ UNCHANGED <<alone, overlap>>
              ELSE /\ alone' = IF rivals = {} THEN alone \cup {c} ELSE alone \ (rivals \cup {c})
                   /\ overlap' = IF rivals = {} THEN overlap ELSE overlap \cup pair
                   /\ dirty' = dirty \cup {u \in {r.user, r.target} :
                                             r.kind = "block" \/ \E d \in Calls \ {c} : ListOf(d, u)}
    /\ UNCHANGED <<tables, cached, found>>

-----------------------------------------------------------------------------
\* followUser: upsert the row, then look for the reverse row and a friendship
\* in parallel, and create the friendship if there is only the former.
UpsertFollow(c) ==
    /\ pc[c] = "upsert" /\ call[c].kind = "follow"
    /\ follow' = follow \cup {Edge(c)}
    /\ pc' = [pc EXCEPT ![c] = "check"]
    /\ todo' = [todo EXCEPT ![c] = {<<"follow", call[c].target, call[c].user>>,
                                    <<"friend", call[c].user, call[c].target>>}]
    /\ UNCHANGED <<friend, call, found>> /\ Quiet

Present(q) == \/ q[1] = "follow" /\ <<q[2], q[3]>> \in follow
              \/ q[1] = "friend" /\ AreFriends(<<q[2], q[3]>>)

\* What followUser does once both answers are in.
\* Mutant: reverse ignored.
AfterCheckAnyway(seen) == IF \E q \in seen : q[1] = "friend" THEN "invalidate" ELSE "create"
\* Mutant: friendship ignored.
AfterCheckAgain(seen) == IF \E q \in seen : q[1] = "follow" THEN "create" ELSE "invalidate"
\* Mutant: test inverted.
AfterCheckFirst(seen) == IF seen = {} THEN "create" ELSE "invalidate"
AfterCheck(seen) == IF \E q \in seen : q[1] = "friend" THEN "invalidate"
                    ELSE IF seen # {} THEN "create" ELSE "invalidate"

Check(c) ==
    /\ pc[c] = "check"
    /\ \E q \in todo[c] :
        /\ found' = [found EXCEPT ![c] = IF Present(q) THEN @ \cup {q} ELSE @]
        /\ todo' = [todo EXCEPT ![c] = @ \ {q}]
        /\ pc' = [pc EXCEPT ![c] = IF todo[c] = {q} THEN AfterCheck(found'[c]) ELSE "check"]
    /\ UNCHANGED <<follow, friend, call>> /\ Quiet

CreateFriend(c) ==
    /\ pc[c] = "create"
    /\ Edge(c) \notin friend
    /\ friend' = friend \cup {Edge(c)}
    /\ Goto(c, "invalidate")
    /\ UNCHANGED follow /\ Quiet

\* The row exists (P2002): nobody catches it, so the request is answered 500
\* and no cache entry is deleted.
CreateFriendLost(c) ==
    /\ pc[c] = "create"
    /\ Edge(c) \in friend
    /\ Leave(c)
    /\ dirty' = dirty \cup {call[c].user, call[c].target}
    /\ UNCHANGED <<tables, cached, overlap>>

-----------------------------------------------------------------------------
\* unfollowUser and removeFollower differ in the direction of Edge(c).  A row
\* that is not there ends the request without touching the cache.
FindFollow(c) ==
    /\ pc[c] = "find" /\ call[c].kind \in {"unfollow", "remove"}
    /\ \/ Edge(c) \in follow /\ Goto(c, "delete") /\ UNCHANGED alone
       \/ Edge(c) \notin follow /\ Leave(c)
    /\ UNCHANGED <<tables, cached, overlap, dirty>>

DeleteFollow(c) ==
    /\ pc[c] = "delete"
    /\ follow' = follow \ {Edge(c)}
    /\ Goto(c, "reverse")
    /\ UNCHANGED friend /\ Quiet

\* Only if the other still follows back were they friends.
ReadReverse(c) ==
    /\ pc[c] = "reverse"
    /\ Goto(c, IF Flip(Edge(c)) \in follow THEN "unfriend" ELSE "invalidate")
    /\ UNCHANGED <<follow, friend>> /\ Quiet

\* Also all that unfriend does before it clears the cache.
DeleteFriend(c) ==
    /\ pc[c] = "unfriend"
    /\ friend' = friend \ Both(Edge(c))
    /\ Goto(c, "invalidate")
    /\ UNCHANGED follow /\ Quiet

\* Mutant: the other user's entry stays.
InvalidatedOwn(c) == {call[c].user}
\* The parallel deletes of both users' entries, and the answer.  They leave one
\* client in one burst, so no other statement of this server comes between.
Invalidated(c) == {call[c].user, call[c].target}

Invalidate(c) ==
    /\ pc[c] = "invalidate"
    /\ cached' = [u \in Users |-> IF u \in Invalidated(c) THEN None ELSE cached[u]]
    /\ dirty' = dirty \ {u \in {call[c].user, call[c].target} : \A d \in Calls : ~ListOf(d, u)}
    /\ overlap' = overlap \ Healed(c)
    /\ Leave(c)
    /\ UNCHANGED tables

-----------------------------------------------------------------------------
\* blockUser: upsert the block, delete the two follow rows in parallel, then
\* the two friend rows.  It deletes entries of block pages only.
UpsertBlock(c) ==
    /\ pc[c] = "upsert" /\ call[c].kind = "block"
    /\ block' = block \cup {Edge(c)}
    /\ pc' = [pc EXCEPT ![c] = "sever"]
    /\ todo' = [todo EXCEPT ![c] = {<<"follow", e[1], e[2]>> : e \in Both(Edge(c))}]
    /\ UNCHANGED <<follow, friend, cached, call, found, history>>

\* Mutant: one orientation deleted.
SeveringOneWay(c) == {<<"friend", Edge(c)[1], Edge(c)[2]>>}
Severing(c) == {<<"friend", e[1], e[2]>> : e \in Both(Edge(c))}

Sever(c) ==
    /\ pc[c] = "sever"
    /\ \E q \in todo[c] :
        /\ follow' = follow \ {<<q[2], q[3]>>}
        /\ todo' = [todo EXCEPT ![c] = IF @ = {q} THEN Severing(c) ELSE @ \ {q}]
        /\ pc' = [pc EXCEPT ![c] = IF todo[c] = {q} THEN "part" ELSE "sever"]
    /\ UNCHANGED <<friend, call, found>> /\ Quiet

Part(c) ==
    /\ pc[c] = "part"
    /\ \E q \in todo[c] :
        /\ friend' = friend \ {<<q[2], q[3]>>}
        /\ \/ /\ todo[c] = {q} /\ Leave(c) /\ overlap' = overlap \ Healed(c)
           \/ /\ todo[c] # {q}
              /\ todo' = [todo EXCEPT ![c] = @ \ {q}]
              /\ UNCHANGED <<pc, call, found, alone, overlap>>
    /\ UNCHANGED <<follow, block, cached, dirty>>

\* unblockUser finds the row and deletes it by its id: a row that was deleted
\* meanwhile is gone even if the user was blocked again, and the delete throws.
FindBlock(c) ==
    /\ pc[c] = "find" /\ call[c].kind = "unblock"
    /\ \/ /\ Edge(c) \in block
          /\ found' = [found EXCEPT ![c] = {<<"block", Edge(c)[1], Edge(c)[2]>>}]
          /\ pc' = [pc EXCEPT ![c] = "drop"]
          /\ UNCHANGED <<call, todo, alone>>
       \/ Edge(c) \notin block /\ Leave(c)
    /\ UNCHANGED <<tables, cached, overlap, dirty>>

DropBlock(c) ==
    /\ pc[c] = "drop"
    /\ block' = block \ {<<q[2], q[3]>> : q \in found[c]}
    /\ found' = [d \in Calls |-> IF pc[d] = "drop" THEN found[d] \ found[c] ELSE found[d]]
    /\ pc' = [pc EXCEPT ![c] = "idle"]
    /\ todo' = [todo EXCEPT ![c] = {}]
    /\ call' = [call EXCEPT ![c] = None]
    /\ alone' = alone \ {c}
    /\ UNCHANGED <<follow, friend, cached, overlap, dirty>>

-----------------------------------------------------------------------------
\* attachFollowStatus on a miss: read follows and friends in parallel, fill.
Query(c) ==
    /\ pc[c] = "query"
    /\ \E q \in todo[c] :
        /\ found' = [found EXCEPT ![c] = @ \cup (IF q[1] = "follow" THEN Following(q[2]) ELSE Friends(q[2]))]
        /\ todo' = [todo EXCEPT ![c] = @ \ {q}]
        /\ pc' = [pc EXCEPT ![c] = IF todo[c] = {q} THEN "fill" ELSE "query"]
    /\ UNCHANGED <<tables, cached, call, history>>

Fill(c) ==
    /\ pc[c] = "fill"
    /\ cached' = [cached EXCEPT ![call[c].user] = found[c]]
    /\ Leave(c)
    /\ UNCHANGED <<tables, overlap, dirty>>

\* The entry's time to live runs out, or the cache evicts it.
Expire(u) ==
    /\ cached[u] # None
    /\ cached' = [cached EXCEPT ![u] = None]
    /\ dirty' = IF \A d \in Calls : ~ListOf(d, u) THEN dirty \ {u} ELSE dirty
    /\ UNCHANGED <<tables, handler, alone, overlap>>

\* The process serving c dies.
Crash(c) ==
    /\ Crashes /\ pc[c] # "idle"
    /\ Leave(c)
    /\ overlap' = IF call[c].kind = "list" THEN overlap ELSE overlap \cup Both(Edge(c))
    /\ dirty' = IF call[c].kind = "list" THEN dirty ELSE dirty \cup {call[c].user, call[c].target}
    /\ UNCHANGED <<tables, cached>>

-----------------------------------------------------------------------------
Handle(c) ==
    \/ Start(c)
    \/ UpsertFollow(c) \/ Check(c) \/ CreateFriend(c) \/ CreateFriendLost(c)
    \/ FindFollow(c) \/ DeleteFollow(c) \/ ReadReverse(c) \/ DeleteFriend(c) \/ Invalidate(c)
    \/ UpsertBlock(c) \/ Sever(c) \/ Part(c) \/ FindBlock(c) \/ DropBlock(c)
    \/ Query(c) \/ Fill(c) \/ Crash(c)

Init ==
    /\ follow = {} /\ friend = {} /\ block = {}
    /\ cached = [u \in Users |-> None]
    /\ call = [c \in Calls |-> None]
    /\ pc = [c \in Calls |-> "idle"]
    /\ todo = [c \in Calls |-> {}] /\ found = [c \in Calls |-> {}]
    /\ alone = {} /\ overlap = {} /\ dirty = {}

Next == (\E c \in Calls : Handle(c)) \/ (\E u \in Users : Expire(u))

Spec == Init /\ [][Next]_vars

-----------------------------------------------------------------------------
Labels == {"idle", "upsert", "check", "create", "find", "delete", "reverse", "unfriend", "invalidate",
           "sever", "part", "drop", "query", "fill"}

\* Follows, friendships and blocks are between two accounts, and a slot that
\* serves no request holds nothing.
TypeOK ==
    /\ follow \subseteq Edges /\ friend \subseteq Edges /\ block \subseteq Edges
    /\ cached \in [Users -> {None} \cup SUBSET Rows]
    /\ call \in [Calls -> Call \cup {None}] /\ pc \in [Calls -> Labels]
    /\ todo \in [Calls -> SUBSET Rows] /\ found \in [Calls -> SUBSET Rows]
    /\ alone \subseteq {c \in Calls : pc[c] # "idle"} /\ overlap \subseteq Users \X Users /\ dirty \subseteq Users
    /\ \A c \in Calls : /\ pc[c] = "idle" <=> call[c] = None
                        /\ pc[c] = "idle" => todo[c] = {} /\ found[c] = {}

Busy(e) == \E c \in Calls : On(c, e)

\* Friends follow each other, as connections.controller.ts describes them, as
\* long as the requests on the pair never overlapped: the friend row is
\* written two statements after the follow row, and deleted two statements after it.
FriendsFollowEachOther ==
    \A e \in Edges \ overlap : ~Busy(e) /\ AreFriends(e) => Both(e) \subseteq follow

\* A friendship is one row: the unique index covers <<a, b>> only, so it is the
\* findFirst over both orientations that keeps <<b, a>> out, and friends_count true.
OneFriendRow == \A e \in Edges \ overlap : ~(Both(e) \subseteq friend)

\* Whatever happened to the pair before, a follow that runs alone is in effect
\* when it is answered, and makes friends of two who follow each other.
FollowsTakeEffect ==
    \A c \in alone : pc[c] = "invalidate" /\ call[c].kind = "follow" =>
        Edge(c) \in follow /\ (Flip(Edge(c)) \in follow => AreFriends(Edge(c)))

\* Whatever happened to the pair before, a block that runs to its end alone
\* leaves neither follows nor a friendship between the two.
BlockSeparates ==
    [][\A c \in alone : pc[c] = "part" /\ pc'[c] = "idle" /\ Edge(c) \notin overlap' =>
        /\ Edge(c) \in block'
        /\ \A e \in Both(Edge(c)) : e \notin follow' /\ e \notin friend']_vars

\* Every write of a follow or a friendship deletes the entries it outdates: an
\* entry no list request filled during a write, and no block or failure left
\* behind, shows what the tables hold.
CachedIsCurrent ==
    \A u \in Users \ dirty :
        (\A c \in Calls : pc[c] # "idle" /\ call[c].kind \in Writes => u \notin {call[c].user, call[c].target})
            => cached[u] \in {None, Snapshot(u)}
=============================================================================
