------------------------------- MODULE Groups --------------------------------
(***************************************************************************)
(* One group and its conversation: GroupService (group.service.ts) and     *)
(* ConversationService.deleteConversation (conversation.service.ts).       *)
(*                                                                         *)
(* Who belongs to the group is kept twice: in res_group_member, and in the *)
(* participants of the group's conversation.  No operation but createGroup *)
(* writes both in one statement.  A request is a slot of Calls; each       *)
(* awaited statement is one step.                                          *)
(***************************************************************************)
EXTENDS Naturals, FiniteSets

CONSTANTS Users, Calls,
          Requests,   \* the requests clients make
          MaxMembers, \* max_members of the group
          Legacy,     \* whether the group may be older than conversations
          Crashes,    \* whether a request may be abandoned half way
          None        \* no row, no request

Roles == {"owner", "admin", "member"}
Managers == {"owner", "admin"}
Kinds == {"create", "delete", "join", "leave", "add", "remove", "role", "send", "close"}
Request == [kind: Kinds, by: Users, to: SUBSET Users, role: Roles]

GroupsAssumption ==
    /\ Requests \subseteq Request /\ MaxMembers \in Nat
    /\ Legacy \in BOOLEAN /\ Crashes \in BOOLEAN
    /\ None \notin [role: Roles, in: BOOLEAN] /\ None \notin Request
    /\ \A r \in Requests : r.kind \in {"add", "remove", "role"} => r.to # {} /\ IsFiniteSet(r.to)
    /\ \A r \in Requests : r.kind \in {"remove", "role"} => \E u \in Users : r.to = {u}

VARIABLES
    group,    \* "none" before its creation, "live", "gone" after its deletion
    member,   \* per user, the res_group_member row: role, and whether left_at is null
    conv,     \* the group's conversation: "none", "open" or "deleted"
    part,     \* per user, the participant row: "none", "in" or "left"
    posted,   \* users with messages in the conversation
    call, pc, \* per slot, the request it serves and the statement it awaits
    todo,     \* per slot, the users of a list not yet handled
    saw,      \* per slot, the members it has read
    raced,    \* history: users whom two requests were about at once
    demoting  \* history: two changes of roles were in flight at once

rows == <<group, member, conv, part, posted>>
handler == <<call, pc, todo, saw>>
vars == <<rows, handler, raced, demoting>>

Active(c) == pc[c] # "idle"
InGroup(u) == member[u] # None /\ member[u].in
Members == {u \in Users : InGroup(u)}

\* The users whose rows a request writes.
About(r) == CASE r.kind \in {"join", "leave"} -> {r.by}
              [] r.kind \in {"add", "remove"} -> r.to
              [] OTHER -> {}

First == [create |-> "create", delete |-> "perm", join |-> "group", leave |-> "out", add |-> "perm",
          remove |-> "perm", role |-> "perm", send |-> "member", close |-> "close"]

-----------------------------------------------------------------------------
Goto(c, to) == pc' = [pc EXCEPT ![c] = to] /\ UNCHANGED <<call, todo, saw>>

\* The request is answered, or throws.
Leave(c) ==
    /\ pc' = [pc EXCEPT ![c] = "idle"] /\ call' = [call EXCEPT ![c] = None]
    /\ todo' = [todo EXCEPT ![c] = {}] /\ saw' = [saw EXCEPT ![c] = {}]

\* A statement that only reads.
Reads == UNCHANGED <<rows, raced, demoting>>

Start(c) ==
    /\ pc[c] = "idle"
    /\ \E r \in Requests :
        LET rivals == {d \in Calls : Active(d)} IN
        /\ call' = [call EXCEPT ![c] = r] /\ pc' = [pc EXCEPT ![c] = First[r.kind]]
        /\ raced' = raced \cup UNION {About(r) \cap About(call[d]) : d \in rivals}
        /\ demoting' = (demoting \/ (r.kind = "role" /\ \E d \in rivals : call[d].kind = "role"))
    /\ UNCHANGED <<rows, todo, saw>>

\* createGroup: the group, its first member, an administrator, the conversation
\* and its participant are one nested insertion.
CreateGroup(c) ==
    /\ pc[c] = "create"
    /\ IF group = "none"
       THEN /\ group' = "live" /\ conv' = "open"
            /\ member' = [member EXCEPT ![call[c].by] = [role |-> "admin", in |-> TRUE]]
            /\ part' = [part EXCEPT ![call[c].by] = "in"]
       ELSE UNCHANGED <<group, conv, member, part>>
    /\ Leave(c)
    /\ UNCHANGED <<posted, raced, demoting>>

\* Mutant: an administrator may demote himself.
SelfBarredNot(r) == r.kind = "remove" /\ r.to = {r.by}
\* Nobody removes himself, or changes his own role.
SelfBarred(r) == r.kind \in {"remove", "role"} /\ r.to = {r.by}

\* checkAdminPermission reads the role, whether or not the member has left; the
\* deletion of the group asks for an administrator, an owner will not do.
Permitted(r) ==
    /\ member[r.by] # None
    /\ member[r.by].role \in (IF r.kind = "delete" THEN {"admin"} ELSE Managers)
    /\ ~SelfBarred(r)

AfterPerm == [delete |-> "erase", add |-> "group", remove |-> "out", role |-> "write"]

CheckPermission(c) ==
    /\ pc[c] = "perm"
    /\ IF Permitted(call[c]) THEN Goto(c, AfterPerm[call[c].kind]) ELSE Leave(c)
    /\ Reads

\* Mutant: the conversation does not go with its group.
EraseKeeping(c) ==
    /\ pc[c] = "erase"
    /\ group' = IF group = "live" THEN "gone" ELSE group
    /\ member' = [u \in Users |-> None]
    /\ Leave(c) /\ UNCHANGED <<part, conv, posted, raced, demoting>>
\* The deletion cascades to members, conversation, participants and messages.
Erase(c) ==
    /\ pc[c] = "erase"
    /\ group' = IF group = "live" THEN "gone" ELSE group
    /\ member' = [u \in Users |-> None] /\ part' = [u \in Users |-> "none"]
    /\ conv' = "none" /\ posted' = {}
    /\ Leave(c) /\ UNCHANGED <<raced, demoting>>

WriteRole(c) ==
    /\ pc[c] = "write"
    /\ member' = [u \in Users |-> IF u \in call[c].to /\ member[u] # None
                                  THEN [member[u] EXCEPT !.role = call[c].role] ELSE member[u]]
    /\ Leave(c) /\ UNCHANGED <<group, conv, part, posted, raced, demoting>>

-----------------------------------------------------------------------------
\* joinGroup and addGroupMembers look for the group.
FindGroup(c) ==
    /\ pc[c] = "group"
    /\ IF group = "live" THEN Goto(c, IF call[c].kind = "join" THEN "active" ELSE "count") ELSE Leave(c)
    /\ Reads

FindActive(c) ==
    /\ pc[c] = "active"
    /\ IF InGroup(call[c].by) THEN Leave(c) ELSE Goto(c, "former")
    /\ Reads

FindFormer(c) ==
    /\ pc[c] = "former"
    /\ Goto(c, IF member[call[c].by] = None THEN "enroll" ELSE "rejoin")
    /\ Reads

\* The row of a former member is taken up again; his role is kept.
Rejoin(c) ==
    /\ pc[c] \in {"rejoin", "revive"}
    /\ IF member[call[c].by] = None THEN Leave(c) /\ UNCHANGED member
       ELSE /\ member' = [member EXCEPT ![call[c].by].in = TRUE]
            /\ Goto(c, IF pc[c] = "rejoin" THEN "conv.part" ELSE "conv.place")
    /\ UNCHANGED <<group, conv, part, posted, raced, demoting>>

NewMember == [role |-> "member", in |-> TRUE]

Enroll(c) ==
    /\ pc[c] = "enroll"
    /\ LET u == call[c].by IN
       \/ group = "live" /\ member[u] = None /\ member' = [member EXCEPT ![u] = NewMember] /\ Goto(c, "conv.place")
       \/ group = "live" /\ member[u] # None /\ UNCHANGED member /\ Goto(c, "clash")
       \/ group # "live" /\ UNCHANGED member /\ Leave(c)
    /\ UNCHANGED <<group, conv, part, posted, raced, demoting>>

\* P2002: another request of the user has created the row meanwhile.
Clash(c) ==
    /\ pc[c] = "clash"
    /\ IF member[call[c].by] # None /\ ~InGroup(call[c].by) THEN Goto(c, "revive") ELSE Leave(c)
    /\ Reads

-----------------------------------------------------------------------------
\* The second half of joinGroup, leaveGroup and removeGroupMember: find the
\* conversation, then the participant row, then write it.
AfterConv == [at \in {"conv.part", "conv.place", "conv.seat"} |->
                  CASE at = "conv.part" -> "part" [] at = "conv.place" -> "place" [] at = "conv.seat" -> "seat"]

FindConv(c) ==
    /\ pc[c] \in DOMAIN AfterConv
    /\ IF conv = "none" THEN Leave(c) ELSE Goto(c, AfterConv[pc[c]])
    /\ Reads

FindParticipant(c) ==
    /\ pc[c] = "part"
    /\ Goto(c, IF part[call[c].by] = "none" THEN "place" ELSE "reopen")
    /\ Reads

\* Mutant: the participant who had left is not brought back.
ReopenNot(c) ==
    /\ pc[c] = "reopen"
    /\ Leave(c) /\ UNCHANGED rows /\ UNCHANGED <<raced, demoting>>
Reopen(c) ==
    /\ pc[c] = "reopen"
    /\ part' = [part EXCEPT ![call[c].by] = IF @ = "none" THEN @ ELSE "in"]
    /\ Leave(c) /\ UNCHANGED <<group, member, conv, posted, raced, demoting>>

\* The unique index refuses a second row, the foreign key one of a conversation
\* that has gone.
Seated(us) == [u \in Users |-> IF u \in us /\ conv # "none" /\ part[u] = "none" THEN "in" ELSE part[u]]

Place(c) ==
    /\ pc[c] = "place"
    /\ part' = Seated({call[c].by})
    /\ Leave(c) /\ UNCHANGED <<group, member, conv, posted, raced, demoting>>

\* leaveGroup and removeGroupMember mark the membership whatever it was.
Subject(r) == IF r.kind = "leave" THEN r.by ELSE CHOOSE u \in r.to : TRUE

Out(c) ==
    /\ pc[c] = "out"
    /\ LET u == Subject(call[c]) IN
        IF member[u] = None THEN Leave(c) /\ UNCHANGED member
        ELSE member' = [member EXCEPT ![u].in = FALSE] /\ Goto(c, "conv.seat")
    /\ UNCHANGED <<group, conv, part, posted, raced, demoting>>

FindSeat(c) ==
    /\ pc[c] = "seat"
    /\ IF part[Subject(call[c])] = "in" THEN Goto(c, "unseat") ELSE Leave(c)
    /\ Reads

Unseat(c) ==
    /\ pc[c] = "unseat"
    /\ part' = [part EXCEPT ![Subject(call[c])] = IF @ = "none" THEN @ ELSE "left"]
    /\ Leave(c) /\ UNCHANGED <<group, member, conv, posted, raced, demoting>>

-----------------------------------------------------------------------------
\* addGroupMembers counts once for the whole list.
Fits(n, r) == n + Cardinality(r.to) <= MaxMembers

Count(c) ==
    /\ pc[c] = "count"
    /\ IF Fits(Cardinality(Members), call[c])
       THEN /\ pc' = [pc EXCEPT ![c] = "enlist"] /\ todo' = [todo EXCEPT ![c] = call[c].to]
            /\ UNCHANGED <<call, saw>>
       ELSE Leave(c)
    /\ Reads

\* One insertion per user of the list; a user who has a row is passed over,
\* also if he left (then he gets no membership, but a seat below).
Enlist(c) ==
    /\ pc[c] = "enlist"
    /\ IF group # "live" THEN Leave(c) /\ UNCHANGED <<member, raced>>
       ELSE \E u \in todo[c] :
           /\ member' = [member EXCEPT ![u] = IF @ = None THEN NewMember ELSE @]
           /\ raced' = IF member[u] # None /\ ~InGroup(u) THEN raced \cup {u} ELSE raced
           /\ todo' = [todo EXCEPT ![c] = @ \ {u}]
           /\ pc' = [pc EXCEPT ![c] = IF todo[c] = {u} THEN "goc" ELSE "enlist"]
           /\ UNCHANGED <<call, saw>>
    /\ UNCHANGED <<group, conv, part, posted, demoting>>

SeatAll(c) ==
    /\ pc[c] = "seatall"
    /\ IF conv = "none" THEN Leave(c) /\ UNCHANGED part
       ELSE \E u \in todo[c] :
           /\ part' = Seated({u})
           /\ IF todo[c] = {u} THEN Leave(c)
              ELSE todo' = [todo EXCEPT ![c] = @ \ {u}] /\ UNCHANGED <<pc, call, saw>>
    /\ UNCHANGED <<group, member, conv, posted, raced, demoting>>

-----------------------------------------------------------------------------
\* getOrCreateGroupConversation: find it; else create it and let the members
\* read afterwards in; if another request has created it (P2002), do the same.
Resume(c) ==
    /\ pc' = [pc EXCEPT ![c] = IF call[c].kind = "add" THEN "seatall" ELSE "post"]
    /\ todo' = [todo EXCEPT ![c] = call[c].to] /\ saw' = [saw EXCEPT ![c] = {}] /\ UNCHANGED call

Find(c) ==
    /\ pc[c] = "goc"
    /\ IF conv # "none" THEN Resume(c)
       ELSE IF group = "live" THEN Goto(c, "goc.create") ELSE Leave(c)
    /\ Reads

Create(c) ==
    /\ pc[c] = "goc.create"
    /\ IF group = "live"
       THEN conv' = (IF conv = "none" THEN "open" ELSE conv) /\ Goto(c, "goc.read")
       ELSE Leave(c) /\ UNCHANGED conv
    /\ UNCHANGED <<group, member, part, posted, raced, demoting>>

ReadMembers(c) ==
    /\ pc[c] = "goc.read"
    /\ saw' = [saw EXCEPT ![c] = Members] /\ pc' = [pc EXCEPT ![c] = "goc.fill"]
    /\ UNCHANGED <<call, todo>> /\ Reads

Fill(c) ==
    /\ pc[c] = "goc.fill"
    /\ part' = Seated(saw[c])
    /\ raced' = raced \cup {u \in saw[c] : ~InGroup(u)}
    /\ IF conv = "none" THEN Leave(c) ELSE Resume(c)
    /\ UNCHANGED <<group, member, conv, posted, demoting>>

-----------------------------------------------------------------------------
\* sendGroupMessage asks for a membership row, of a former member too.
FindSender(c) ==
    /\ pc[c] = "member"
    /\ IF member[call[c].by] = None THEN Leave(c) ELSE Goto(c, "goc")
    /\ Reads

Post(c) ==
    /\ pc[c] = "post"
    /\ posted' = IF conv = "none" THEN posted ELSE posted \cup {call[c].by}
    /\ Leave(c) /\ UNCHANGED <<group, member, conv, part, raced, demoting>>

\* deleteConversation by a participant who has not left deletes the group's
\* conversation for all; the group goes on writing into it.
FindToClose(c) ==
    /\ pc[c] = "close"
    /\ IF part[call[c].by] = "in" THEN Goto(c, "closing") ELSE Leave(c)
    /\ Reads

Close(c) ==
    /\ pc[c] = "closing"
    /\ conv' = IF conv = "none" THEN conv ELSE "deleted"
    /\ Leave(c) /\ UNCHANGED <<group, member, part, posted, raced, demoting>>

\* A request is abandoned between two statements: the process dies, or the
\* database refuses one.  Nothing repairs what it was about.
Crash(c) ==
    /\ Crashes /\ Active(c)
    /\ raced' = IF pc[c] \in {"goc.read", "goc.fill"} THEN Users ELSE raced \cup About(call[c])
    /\ Leave(c) /\ UNCHANGED <<rows, demoting>>

-----------------------------------------------------------------------------
Handle(c) ==
    \/ Start(c) \/ CreateGroup(c) \/ CheckPermission(c) \/ Erase(c) \/ WriteRole(c)
    \/ FindGroup(c) \/ FindActive(c) \/ FindFormer(c) \/ Rejoin(c) \/ Enroll(c) \/ Clash(c)
    \/ FindConv(c) \/ FindParticipant(c) \/ Reopen(c) \/ Place(c) \/ Out(c) \/ FindSeat(c) \/ Unseat(c)
    \/ Count(c) \/ Enlist(c) \/ SeatAll(c) \/ Find(c) \/ Create(c) \/ ReadMembers(c) \/ Fill(c)
    \/ FindSender(c) \/ Post(c) \/ FindToClose(c) \/ Close(c) \/ Crash(c)

\* No group yet, or one whose creator is its only member, older than the
\* conversations of groups.
Init ==
    /\ \/ group = "none" /\ member = [u \in Users |-> None]
       \/ /\ Legacy /\ group = "live"
          /\ \E a \in Users : member = [u \in Users |-> IF u = a THEN [role |-> "admin", in |-> TRUE] ELSE None]
    /\ conv = "none" /\ part = [u \in Users |-> "none"] /\ posted = {}
    /\ call = [c \in Calls |-> None] /\ pc = [c \in Calls |-> "idle"]
    /\ todo = [c \in Calls |-> {}] /\ saw = [c \in Calls |-> {}]
    /\ raced = {} /\ demoting = FALSE

Next == \E c \in Calls : Handle(c)
Spec == Init /\ [][Next]_vars

-----------------------------------------------------------------------------
Labels == {"idle", "create", "perm", "erase", "write", "group", "active", "former", "rejoin", "revive", "enroll",
           "clash", "conv.part", "conv.place", "conv.seat", "part", "reopen", "place", "out", "seat", "unseat",
           "count", "enlist", "seatall", "goc", "goc.create", "goc.read", "goc.fill", "member", "post",
           "close", "closing"}

\* Whoever has a seat or a message has a row of membership, of a group that is
\* there; a request at work knows what it serves.
TypeOK ==
    /\ group \in {"none", "live", "gone"} /\ conv \in {"none", "open", "deleted"}
    /\ member \in [Users -> [role: Roles, in: BOOLEAN] \cup {None}]
    /\ part \in [Users -> {"none", "in", "left"}] /\ posted \subseteq Users
    /\ \A u \in Users : (part[u] # "none" \/ u \in posted) => member[u] # None /\ conv # "none"
    /\ (conv # "none" \/ \E u \in Users : member[u] # None) => group = "live"
    /\ call \in [Calls -> Requests \cup {None}] /\ pc \in [Calls -> Labels]
    /\ \A c \in Calls : Active(c) <=> call[c] # None
    /\ todo \in [Calls -> SUBSET Users] /\ saw \in [Calls -> SUBSET Users]
    /\ raced \subseteq Users /\ demoting \in BOOLEAN

\* The two records of membership agree, once nothing is under way, for every
\* user whose requests came one after the other: members sit in the group's
\* conversation, and nobody else does, however the conversation came about
\* (unless he left while it was being filled, or was added after he had left).
Quiet(u) == /\ \A c \in Calls : Active(c) => u \notin About(call[c]) /\ pc[c] \notin {"goc.read", "goc.fill"}
            /\ u \notin raced
MembersParticipate == conv # "none" => \A u \in Users : Quiet(u) => (InGroup(u) <=> part[u] = "in")

\* A group always has somebody in charge of it, unless two managers changed
\* roles at once: nobody can demote himself, so one of two must remain.
SomeoneInCharge == group = "live" /\ ~demoting => \E u \in Users : member[u] # None /\ member[u].role \in Managers
=============================================================================
