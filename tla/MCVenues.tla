------------------------------ MODULE MCVenues ------------------------------
(***************************************************************************)
(* Small instances of the components of Venues.                            *)
(***************************************************************************)
EXTENDS Integers, Venues, TLC

CONSTANTS h, u, v, c1, c2, c3

MCUser == {u}
MCUsers == {u, v}
MCHostAndUser == {h, u}
MCParty == {h, u, v}
MCThird == {c3}
MCTwo == {c1, c2}
MCThree == {c1, c2, c3}

\* No set of calls, sockets or walkers tells c1 from c2, and both of these sockets are u's.
MCSymmetry == Permutations(MCTwo)

R(k, by, who) == [kind |-> k, by |-> by, who |-> who, at |-> 1]
MCRoomRequests ==
    {R("join", u, u), R("join", v, v)} \cup {R(k, u, u) : k \in {"leave", "sit", "stand"}}
    \cup {R(k, h, h) : k \in {"create", "close", "secure", "lock"}}
    \cup {R(k, h, u) : k \in {"kick", "block", "unblock"}} \cup {R("assign", h, v)}

\* The DTO takes any number for max_participants.
MCLimits == {-1, 0, 1, 2}
MCOwnerOf == c1 :> u @@ c2 :> u @@ c3 :> v
MCAlbumOf == u :> 1 @@ v :> 2

P(id, by, privacy, tagged) == [id |-> id, by |-> by, privacy |-> privacy, tagged |-> tagged]
MCWalls == {<<P(4, v, "public", TRUE), P(3, v, "friends", FALSE), P(2, u, "public", TRUE), P(1, u, "private", TRUE)>>}
MCTies == {{}, {<<u, v>>}}
F(k, by, p, max) == [kind |-> k, by |-> by, page |-> p, limit |-> max]
MCFeedRequests ==
    {F("following", u, 2, 1), F("friends", u, 1, 0), F("friends", v, 1, 3), F("latest", v, 2, 1), F("community", u, 1, 2),
     F("category", u, 2, 3), F("mine", u, 0, 2), F("newest", v, 1, 1), F("hot", v, 0, 3), F("post", v, 1, 1),
     F("friends post", u, 3, 1), F("latest post", u, 1, 1)}

G(op, by, gives, own) == [op |-> op, by |-> by, gives |-> gives, seat |-> own]
MCSettingRequests ==
    {G("update group", u, "name" :> 1, <<>>), G("update card", v, "name" :> 2, <<>>),
     G("update settings", v, "avatar" :> 2, "is_muted" :> 1), G("update settings", u, <<>>, "is_muted" :> 2),
     G("update seat", v, <<>>, "display_name" :> 1), G("update room", v, "mode" :> 2, <<>>),
     G("update room", u, "disableMessage" :> 1, <<>>), G("update room", u, "disableImage" :> 1 @@ "title" :> 1, <<>>)}
    \cup {G(op, u, <<>>, <<>>) : op \in {"get summary", "get challenge", "add progress", "get hashtag", "follow", "unfollow"}}
MCCallsOn == [group |-> MCTwo, room |-> MCThree, hashtag |-> MCThree]
=============================================================================
