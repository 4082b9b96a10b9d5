------------------------------ MODULE Settings ------------------------------
(***************************************************************************)
(* What users set: a group's card and what is counted of its members       *)
(* (GroupService), a participant's own seat in a conversation (the same    *)
(* and ConversationService), a room's settings and its challenge           *)
(* (RoomSettingsService, RoomChallengeService), and a hashtag's views and  *)
(* followers (HashtagService).  A request checks who asks in one statement *)
(* and writes in a later one; roles change and members leave in between.   *)
(* The group has its conversation (Groups models how it comes by it).      *)
(***************************************************************************)
EXTENDS Naturals, FiniteSets

CONSTANTS Users, Calls,
          Host,     \* of the room
          Requests, \* those that are made
          CallsOn,  \* per subject, the calls made
          MaxMoves, \* bound on the changes of the members
          None      \* no row, nothing read

Roles == {"owner", "admin", "member"}
CardFields == {"name", "avatar"}
RoomFields == {"mode", "layout_id", "title"}
Flags == {"disableMessage", "disableImage"} \* of the room, in one column
GroupSeatFields == {"is_muted", "gift_sounds_enabled"}
SeatFields == GroupSeatFields \cup {"display_name"}
Fields == CardFields \cup RoomFields \cup Flags
Values == 0 .. 2

\* A group, a room and a hashtag share no rows: a behaviour is about one of them.
OpsOf == [group |-> {"update group", "update card", "update settings", "update seat", "get summary"},
          room |-> {"update room", "get challenge", "add progress"},
          hashtag |-> {"get hashtag", "follow", "unfollow"}]
Subjects == DOMAIN OpsOf
Ops == UNION {OpsOf[s] : s \in Subjects}
Given == UNION {[d -> Values] : d \in SUBSET Fields}
GivenSeat == UNION {[d -> Values] : d \in SUBSET SeatFields}
Request == [op : Ops, by : Users, gives : Given, seat : GivenSeat]

SettingsAssumption ==
    /\ CallsOn \in [Subjects -> SUBSET Calls]
    /\ IsFiniteSet(Users) /\ Host \in Users /\ Requests \subseteq Request /\ MaxMoves \in Nat /\ None \notin Roles \cup Nat \cup {"forbidden", "not found"}
    /\ \A r \in Requests :
        /\ r.op \in {"update group", "update card", "update settings"} => DOMAIN r.gives \subseteq CardFields
        /\ r.op = "update settings" => DOMAIN r.seat \subseteq GroupSeatFields
        /\ r.op = "update room" => DOMAIN r.gives \subseteq RoomFields \cup Flags

VARIABLES
    subject,   \* what the requests are about
    role,      \* per user, the role of his row in the group, or None
    active,    \* the members who have not left
    sits,      \* the participants of the conversation who have not left
    alive,     \* the group is there
    set,       \* per field, its value
    seat,      \* per user, what he has set of his seat
    challenge, \* the room's points, or None
    views,     \* of the hashtag
    follows,   \* its followers
    ask, at,   \* per call, its request and the statement it awaits
    got,       \* per call, the flags, the counts or the views it has read
    answer,    \* per call, its answer
    moves,     \* changes of the members made
    said,      \* history: per field, the value given last
    granted,   \* history: the points added
    mixed,     \* history: two updates of the flags overlapped
    crossed,   \* history: per call, the members or the views changed since it started
    wrote      \* history: per call, the parts it has written

group == <<subject, role, active, sits, alive, moves>>
tables == <<set, seat, challenge, views, follows>>
history == <<said, granted, mixed, crossed, wrote>>
vars == <<group, tables, ask, at, got, answer, history>>

Active(c) == at[c] \notin {"new", "done"}
Go(c, to) == at' = [at EXCEPT ![c] = to] /\ UNCHANGED <<ask, answer>>
Answer(c, with) == at' = [at EXCEPT ![c] = "done"] /\ answer' = [answer EXCEPT ![c] = with] /\ UNCHANGED ask
Merges(r) == r.op = "update room" /\ DOMAIN r.gives \cap Flags # {}

-----------------------------------------------------------------------------
\* A settings request that gives nothing of the group's card asks for no role.
First(r) == CASE r.op \in {"update group", "update card"} -> "check"
              [] r.op = "update settings" -> IF DOMAIN r.gives # {} THEN "check" ELSE "find seat"
              [] r.op = "update seat" -> "find seat"
              [] r.op = "get summary" -> "count"
              [] OTHER -> r.op

Start(c) ==
    /\ at[c] = "new" /\ c \in CallsOn[subject]
    /\ \E r \in {q \in Requests : q.op \in OpsOf[subject]} :
        /\ ask' = [ask EXCEPT ![c] = r] /\ at' = [at EXCEPT ![c] = First(r)]
        /\ mixed' = (mixed \/ (Merges(r) /\ \E d \in Calls : Active(d) /\ Merges(ask[d])))
    /\ UNCHANGED <<group, tables, got, answer, said, granted, crossed, wrote>>

\* updateGroup wants an admin, the rest take an owner too; whether he has left is
\* not asked.
MayWrite(c) == role[ask[c].by] \in IF ask[c].op = "update group" THEN {"admin"} ELSE {"admin", "owner"}

Check(c) ==
    /\ at[c] = "check"
    /\ IF MayWrite(c) THEN Go(c, "write card") ELSE Answer(c, "forbidden")
    /\ UNCHANGED <<group, tables, got, history>>

Over(old, new) == [f \in DOMAIN old |-> IF f \in DOMAIN new THEN new[f] ELSE old[f]]

WriteCard(c) ==
    /\ at[c] = "write card"
    /\ IF alive THEN /\ set' = Over(set, ask[c].gives) /\ said' = Over(said, ask[c].gives)
                     /\ wrote' = [wrote EXCEPT ![c] = @ \cup {"card"}]
                     /\ IF ask[c].op # "update settings" THEN Answer(c, "done")
                        ELSE Go(c, IF DOMAIN ask[c].seat # {} THEN "find seat" ELSE "read back")
       ELSE Answer(c, IF ask[c].op = "update group" THEN "not found" ELSE "failed") /\ UNCHANGED <<set, said, wrote>>
    /\ UNCHANGED <<group, seat, challenge, views, follows, got, granted, mixed, crossed>>

\* The participant is found, and written by his row's id whether he has left
\* meanwhile or not; a deleted group takes his row with it.
FindSeat(c) ==
    /\ at[c] = "find seat"
    /\ IF alive /\ ask[c].by \in sits THEN Go(c, "write seat") ELSE Answer(c, "not found")
    /\ UNCHANGED <<group, tables, got, history>>

WriteSeat(c) ==
    /\ at[c] = "write seat"
    /\ LET by == ask[c].by IN
        IF alive THEN /\ seat' = [seat EXCEPT ![by] = Over(@, ask[c].seat)]
                      /\ wrote' = [wrote EXCEPT ![c] = @ \cup {"seat"}]
                      /\ IF ask[c].op = "update settings" THEN Go(c, "read back") ELSE Answer(c, "done")
        ELSE Answer(c, "failed") /\ UNCHANGED <<seat, wrote>>
    /\ UNCHANGED <<group, set, challenge, views, follows, got, said, granted, mixed, crossed>>

\* A settings request answers what getGroupSettings reads afterwards.
ReadBack(c) ==
    /\ at[c] = "read back"
    /\ Answer(c, IF alive THEN "done" ELSE "not found")
    /\ UNCHANGED <<group, tables, got, history>>

-----------------------------------------------------------------------------
\* The room is read for its host, and for the flags that are not given.
FindRoom(c) ==
    /\ at[c] = "update room"
    /\ IF ask[c].by = Host THEN got' = [got EXCEPT ![c] = [f \in Flags |-> set[f]]] /\ Go(c, "write room")
       ELSE Answer(c, "forbidden") /\ UNCHANGED got
    /\ UNCHANGED <<group, tables, history>>

Merged(c) == Over(got[c], ask[c].gives)

WriteRoom(c) ==
    /\ at[c] = "write room"
    /\ LET given == Over(set, ask[c].gives) IN
       set' = IF Merges(ask[c]) THEN Over(given, Merged(c)) ELSE given
    /\ said' = Over(said, ask[c].gives) /\ wrote' = [wrote EXCEPT ![c] = @ \cup {"room"}]
    /\ Answer(c, "done")
    /\ UNCHANGED <<group, seat, challenge, views, follows, got, granted, mixed, crossed>>

\* The first to look at the challenge makes its row; the second to make it meets the
\* unique index.
FindChallenge(c) ==
    /\ at[c] = "get challenge"
    /\ IF challenge # None THEN Answer(c, "done") ELSE Go(c, "create")
    /\ UNCHANGED <<group, tables, got, history>>

Makes == challenge = None

Create(c) ==
    /\ at[c] = "create"
    /\ IF Makes THEN challenge' = 0 /\ Answer(c, "done") ELSE Answer(c, "failed") /\ UNCHANGED challenge
    /\ UNCHANGED <<group, set, seat, views, follows, got, history>>

FindProgress(c) ==
    /\ at[c] = "add progress"
    /\ IF challenge = None THEN Answer(c, "not found") ELSE Go(c, "increment")
    /\ UNCHANGED <<group, tables, got, history>>

Increment(c) ==
    /\ at[c] = "increment"
    /\ challenge' = challenge + 1 /\ granted' = granted + 1
    /\ Answer(c, "done")
    /\ UNCHANGED <<group, set, seat, views, follows, got, said, mixed, crossed, wrote>>

-----------------------------------------------------------------------------
\* getMemberSummary: all members who have not left, and those of each role, by four statements abreast.
Of(kind) == {u \in active : kind = "total" \/ role[u] = kind}
Counts == Roles \cup {"total"}

Count(c, kind) ==
    /\ at[c] = "count" /\ kind \notin DOMAIN got[c]
    /\ LET more == [k \in DOMAIN got[c] \cup {kind} |-> IF k = kind THEN Cardinality(Of(k)) ELSE got[c][k]] IN
        /\ got' = [got EXCEPT ![c] = more]
        /\ IF DOMAIN more = Counts THEN Answer(c, "done") ELSE Go(c, "count")
    /\ UNCHANGED <<group, tables, history>>

\* getHashtag answers the views it has read, and its own; and whether he follows.
FindHashtag(c) ==
    /\ at[c] = "get hashtag"
    /\ got' = [got EXCEPT ![c] = [views |-> views + 1]]
    /\ crossed' = [crossed EXCEPT ![c] = FALSE] /\ Go(c, "view")
    /\ UNCHANGED <<group, tables, said, granted, mixed, wrote>>

View(c) ==
    /\ at[c] = "view"
    /\ views' = views + 1
    /\ crossed' = [d \in Calls |-> crossed[d] \/ (d # c /\ at[d] = "view")]
    /\ Go(c, "look")
    /\ UNCHANGED <<group, set, seat, challenge, follows, got, said, granted, mixed, wrote>>

LookFollow(c) ==
    /\ at[c] = "look"
    /\ got' = [got EXCEPT ![c] = [views |-> @.views, is_following |-> ask[c].by \in follows]]
    /\ Answer(c, "done")
    /\ UNCHANGED <<group, tables, history>>

Follow(c) ==
    /\ at[c] = "follow"
    /\ follows' = follows \cup {ask[c].by}
    /\ Answer(c, IF ask[c].by \in follows THEN "already" ELSE "done")
    /\ UNCHANGED <<group, set, seat, challenge, views, got, history>>

Unfollow(c) ==
    /\ at[c] = "unfollow"
    /\ follows' = follows \ {ask[c].by}
    /\ Answer(c, IF ask[c].by \in follows THEN "done" ELSE "not found")
    /\ UNCHANGED <<group, set, seat, challenge, views, got, history>>

-----------------------------------------------------------------------------
\* Meanwhile members change, each request in one step (Groups takes it apart).  A
\* manager gives another a role; a member leaves or comes back, and his seat in the
\* conversation follows; an administrator deletes the group.
ChangeRole == \E by, u \in Users, r \in Roles :
    /\ by # u /\ role[by] \in {"admin", "owner"} /\ role[u] # None
    /\ role' = [role EXCEPT ![u] = r] /\ UNCHANGED <<active, sits, alive>>

Depart == \E u \in active : active' = active \ {u} /\ UNCHANGED <<role, sits, alive>>

Rejoin == \E u \in Users \ active :
    role[u] # None /\ active' = active \cup {u} /\ UNCHANGED <<role, sits, alive>>

Erase ==
    /\ \E by \in Users : role[by] = "admin"
    /\ alive' = FALSE /\ active' = {} /\ sits' = {} /\ role' = [u \in Users |-> None]

Reseat == \E u \in Users :
    /\ role[u] # None /\ sits' = IF u \in active THEN sits \cup {u} ELSE sits \ {u}
    /\ UNCHANGED <<role, active, alive>>

Move ==
    /\ subject = "group" /\ moves < MaxMoves /\ moves' = moves + 1
    /\ ChangeRole \/ Depart \/ Rejoin \/ Erase \/ Reseat
    /\ crossed' = [c \in Calls |-> crossed[c] \/ at[c] = "count"]
    /\ UNCHANGED <<subject, tables, ask, at, got, answer, said, granted, mixed, wrote>>

Init ==
    /\ subject \in Subjects
    /\ role \in {f \in [Users -> IF subject = "group" THEN Roles \cup {None} ELSE {"owner"}] : \E u \in Users : f[u] # None}
    /\ active = {u \in Users : role[u] # None} /\ sits = active /\ alive = TRUE /\ moves = 0
    /\ set = [f \in Fields |-> 0] /\ seat = [u \in Users |-> [f \in SeatFields |-> 0]]
    /\ challenge = None /\ views = 0 /\ follows = {}
    /\ ask = [c \in Calls |-> None] /\ at = [c \in Calls |-> "new"]
    /\ got = [c \in Calls |-> <<>>] /\ answer = [c \in Calls |-> None]
    /\ said = set /\ granted = 0 /\ mixed = FALSE
    /\ crossed = [c \in Calls |-> FALSE] /\ wrote = [c \in Calls |-> {}]

Next ==
    \/ \E c \in Calls :
        \/ Start(c) \/ Check(c) \/ WriteCard(c) \/ FindSeat(c) \/ WriteSeat(c) \/ ReadBack(c) \/ FindRoom(c) \/ WriteRoom(c)
        \/ FindChallenge(c) \/ Create(c) \/ FindProgress(c) \/ Increment(c) \/ FindHashtag(c) \/ View(c)
        \/ LookFollow(c) \/ Follow(c) \/ Unfollow(c) \/ \E kind \in Counts : Count(c, kind)
    \/ Move
Spec == Init /\ [][Next]_vars

-----------------------------------------------------------------------------
TypeOK ==
    /\ subject \in Subjects
    /\ role \in [Users -> Roles \cup {None}] /\ active \cup sits \subseteq Users /\ alive \in BOOLEAN /\ moves \in 0 .. MaxMoves
    /\ set \in [Fields -> Values] /\ seat \in [Users -> [SeatFields -> Values]]
    /\ challenge \in Nat \cup {None} /\ views \in Nat /\ follows \subseteq Users
    /\ \A c \in Calls : ask[c] \in Requests \cup {None} /\ wrote[c] \subseteq {"card", "seat", "room"}
    /\ answer \in [Calls -> {None, "done", "failed", "forbidden", "not found", "already"}]

\* Every field holds the value given last, whatever other fields are written
\* meanwhile; the room's flags, which are one column, unless two updates of them
\* overlapped (room-settings.service.ts, group.service.ts).
SettingsHold ==
    \A f \in Fields : (f \in Flags /\ mixed) \/ set[f] = said[f]

\* The points of a challenge are those added, however many looked at it first
\* (room-challenge.service.ts).
PointsKept == IF challenge = None THEN granted = 0 ELSE challenge = granted

\* The summary adds up unless the members changed while it was counted
\* (group.service.ts).
CountsAdd == \A c \in Calls : at[c] = "done" /\ ~crossed[c] /\ ask[c].op = "get summary" =>
    got[c]["total"] = got[c]["owner"] + got[c]["admin"] + got[c]["member"]

\* No two who saw a hashtag are told the same number of views, unless one was
\* counted while the other was (hashtag.service.ts).
ViewsDiffer == \A c, d \in Calls :
    c # d /\ (\A e \in {c, d} : at[e] = "done" /\ ask[e].op = "get hashtag" /\ ~crossed[e]) => got[c].views # got[d].views

\* Who is refused has written nothing to a group that is there still, but for the
\* group's card of a settings request that gives a seat its user does not have.
RefusedWroteNothing == \A c \in Calls :
    alive /\ answer[c] \in {"forbidden", "not found"} /\ wrote[c] # {} =>
        ask[c].op = "update settings" /\ DOMAIN ask[c].seat # {} /\ wrote[c] = {"card"}
=============================================================================
