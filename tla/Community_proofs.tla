-------------------------- MODULE Community_proofs --------------------------
(***************************************************************************)
(* Proofs about Community, component by component: the invariant of        *)
(* groups, of direct conversations and of posts, each kept by every step,  *)
(* and the properties that follow.  At the end they stand side by side.    *)
(***************************************************************************)
EXTENDS Community, Integers, FiniteSetTheorems, SequenceTheorems, TLAPS
-----------------------------------------------------------------------------
(* Groups.  Which requests are at which statement. *)
GroupAsking ==
  \A c \in GroupCalls : Group!Active(c) =>
    /\ pc[c] = "create" => call[c].kind = "create"
    /\ pc[c] = "erase" => call[c].kind = "delete"
    /\ pc[c] = "write" => call[c].kind = "role"
    /\ pc[c] = "perm" => call[c].kind \in {"delete", "add", "remove", "role"}
    /\ pc[c] = "group" => call[c].kind \in {"join", "add"}
    /\ pc[c] \in {"active", "former", "rejoin", "revive", "enroll", "clash", "conv.part", "conv.place", "part", "reopen", "place"}
         => call[c].kind = "join"
    /\ pc[c] \in {"out", "conv.seat", "seat", "unseat"} => call[c].kind \in {"leave", "remove"}
    /\ pc[c] \in {"count", "enlist", "seatall"} => call[c].kind = "add"
    /\ pc[c] \in {"goc", "goc.create", "goc.read", "goc.fill"} => call[c].kind \in {"add", "send"}
    /\ pc[c] \in {"member", "post"} => call[c].kind = "send"
    /\ pc[c] \in {"close", "closing"} => call[c].kind = "close"

(* A request that has seen the group, or a row of it, knows that it has been
   created, and that rows it has seen go only with the group. *)
Enrolled(u) == member[u] # None \/ group = "gone"
Knows(c) ==
  /\ pc[c] \notin {"idle", "create", "perm", "group", "out", "member", "close"} => group # "none"
  /\ pc[c] \in {"conv.part", "conv.place", "part", "place", "reopen", "post"} => Enrolled(call[c].by)
  /\ pc[c] \in {"goc", "goc.create", "goc.read", "goc.fill"} /\ call[c].kind = "send" => Enrolled(call[c].by)
  /\ pc[c] \in {"goc", "goc.create", "goc.read", "goc.fill"} /\ call[c].kind = "add" => \A u \in call[c].to : Enrolled(u)
  /\ pc[c] = "enlist" => \A u \in call[c].to \ todo[c] : Enrolled(u)
  /\ pc[c] = "seatall" => \A u \in call[c].to : Enrolled(u)
  /\ pc[c] \in {"enlist", "seatall"} => todo[c] \subseteq call[c].to
  /\ pc[c] = "goc.fill" => \A u \in saw[c] : Enrolled(u)
  /\ pc[c] \in {"reopen", "seatall"} => conv # "none" \/ group = "gone"
GroupKnows == \A c \in GroupCalls : Knows(c)

(* Somebody is in charge, and stays so: who may change the role of another has
   been asked, and nobody else changes roles. *)
InCharge(u) == member[u] # None /\ member[u].role \in Group!Managers
GroupLed ==
  ~demoting =>
    /\ \A c, d \in GroupCalls : c # d /\ Group!Active(c) /\ Group!Active(d)
         => ~(call[c].kind = "role" /\ call[d].kind = "role")
    /\ group = "live" => \E u \in Users : InCharge(u)
    /\ \A c \in GroupCalls : pc[c] = "write" /\ group = "live" => InCharge(call[c].by) /\ call[c].by \notin call[c].to

(* Requests about one user that run at once have been noticed. *)
Concerns(c, u) == Group!Active(c) /\ u \in Group!About(call[c])
GroupAlone == \A c, d \in GroupCalls, u \in Users : c # d /\ Concerns(c, u) /\ Concerns(d, u) => u \in raced

(* A user nobody is busy with: the two records agree, or he is about to be let in
   by the request that fills the conversation. *)
Awaited(u) == \E f \in GroupCalls : pc[f] = "goc.read" \/ (pc[f] = "goc.fill" /\ u \in saw[f])
Resting(u) ==
  conv # "none" =>
    \/ ~Group!InGroup(u) /\ part[u] # "in"
    \/ Group!InGroup(u) /\ part[u] = "in"
    \/ Group!InGroup(u) /\ part[u] = "none" /\ Awaited(u)

(* What the only request about a user knows of him at each of its statements. *)
Phase(c, u) ==
  /\ pc[c] \in {"perm", "group", "active", "count", "out"} \/ (pc[c] = "enlist" /\ u \in todo[c]) => Resting(u)
  /\ pc[c] \in {"former", "rejoin", "enroll"} => ~Group!InGroup(u) /\ part[u] # "in"
  /\ pc[c] = "enroll" => member[u] = None
  /\ pc[c] \notin {"clash", "revive"}
  /\ pc[c] \in {"conv.part", "part", "conv.place", "place", "reopen"} => Group!InGroup(u)
  /\ pc[c] \in {"conv.place", "place"} => part[u] # "left"
  /\ pc[c] = "reopen" => part[u] # "none"
  /\ pc[c] \in {"conv.seat", "seat", "unseat"} => ~Group!InGroup(u)
  /\ pc[c] \in {"goc", "goc.create", "goc.read", "goc.fill"} \/ (pc[c] = "enlist" /\ u \notin todo[c]) \/ (pc[c] = "seatall" /\ u \in todo[c])
       => Group!InGroup(u) /\ part[u] # "left"
  /\ pc[c] = "seatall" /\ u \notin todo[c] => Group!InGroup(u) /\ part[u] = "in"
Standing(u) ==
  /\ \A c \in GroupCalls : Concerns(c, u) => Phase(c, u)
  /\ (\A c \in GroupCalls : ~Concerns(c, u)) => Resting(u)
GroupStands == group = "live" => \A u \in Users \ raced : Standing(u)

GroupInv == Group!TypeOK /\ GroupAsking /\ GroupKnows /\ GroupLed /\ GroupAlone /\ GroupStands

(* The fields of a request. *)
LEMMA GroupKinds ==
  ASSUME Group!GroupsAssumption, NEW r \in GroupRequests
  PROVE r.kind \in Group!Kinds /\ r.by \in Users /\ r.to \subseteq Users /\ r.role \in Group!Roles /\ r # None
BY DEF Group!GroupsAssumption, Group!Request
(* One request or none. *)
GroupSlots ==
  /\ call \in [GroupCalls -> GroupRequests \cup {None}] /\ pc \in [GroupCalls -> Group!Labels]
  /\ \A c \in GroupCalls : Group!Active(c) <=> call[c] # None
  /\ todo \in [GroupCalls -> SUBSET Users] /\ saw \in [GroupCalls -> SUBSET Users]
  /\ raced \subseteq Users /\ demoting \in BOOLEAN
GroupRow == [role: Group!Roles, in: BOOLEAN]
GroupTables ==
  /\ group \in {"none", "live", "gone"} /\ conv \in {"none", "open", "deleted"}
  /\ member \in [Users -> GroupRow \cup {None}]
  /\ part \in [Users -> {"none", "in", "left"}] /\ posted \subseteq Users
  /\ \A u \in Users : (part[u] # "none" \/ u \in posted) => member[u] # None /\ conv # "none"
  /\ (conv # "none" \/ \E u \in Users : member[u] # None) => group = "live"

(* The type invariant, by requests and tables. *)
LEMMA GroupTypes == Group!TypeOK <=> GroupSlots /\ GroupTables
BY DEF Group!TypeOK, GroupSlots, GroupTables, GroupRow

(* A running request is one that clients make. *)
LEMMA GroupAsked ==
  ASSUME Group!GroupsAssumption, GroupSlots, NEW c \in GroupCalls, pc[c] # "idle"
  PROVE  /\ call[c] \in GroupRequests /\ call[c].by \in Users /\ call[c].to \subseteq Users /\ call[c].role \in Group!Roles
         /\ Group!About(call[c]) \subseteq Users
<1>1. call[c] \in GroupRequests
  BY DEF GroupSlots, Group!Active
<1>2. QED
  BY <1>1, GroupKinds DEF Group!About, Group!Kinds

(* A departure is about one user. *)
LEMMA GroupSubject ==
  ASSUME Group!GroupsAssumption, NEW r \in GroupRequests, r.kind \in {"leave", "remove"}
  PROVE  Group!Subject(r) \in Users /\ Group!About(r) = {Group!Subject(r)}
<1>1. CASE r.kind = "leave"
  BY <1>1, GroupKinds DEF Group!Subject, Group!About
<1>2. CASE r.kind = "remove"
  <2>1. PICK u \in Users : r.to = {u}
    BY <1>2 DEF Group!GroupsAssumption
  <2>2. (CHOOSE v \in {u} : TRUE) = u
    OBVIOUS
  <2>3. QED
    BY <1>2, <2>1, <2>2 DEF Group!Subject, Group!About
<1>3. QED
  BY <1>1, <1>2

(* Rows of membership. *)
LEMMA GroupRowFacts ==
  ASSUME Group!GroupsAssumption
  PROVE  /\ None \notin GroupRow /\ Group!NewMember \in GroupRow
         /\ \A row \in GroupRow : /\ \A i \in BOOLEAN : [row EXCEPT !.in = i] \in GroupRow
                                  /\ \A ro \in Group!Roles : [row EXCEPT !.role = ro] \in GroupRow
BY DEF Group!GroupsAssumption, GroupRow, Group!NewMember, Group!Roles

(* Writing memberships of a live group. *)
LEMMA GroupEnrols ==
  ASSUME Group!GroupsAssumption, GroupTables, UNCHANGED <<group, conv, part, posted>>,
         member' = [u \in Users |-> member'[u]],
         \A u \in Users : member'[u] = member[u] \/ (member'[u] \in GroupRow /\ group = "live")
  PROVE  GroupTables'
<1>1. member' \in [Users -> GroupRow \cup {None}]
  <2>1. \A u \in Users : member'[u] \in GroupRow \cup {None}
    BY DEF GroupTables
  <2>2. QED
    BY <2>1
<1>2. \A u \in Users : member[u] # None => member'[u] # None
  BY GroupRowFacts DEF GroupTables
<1>3. (\E u \in Users : member'[u] # None) => group = "live"
  BY DEF GroupTables
<1>4. QED
  BY <1>1, <1>2, <1>3 DEF GroupTables

(* A request that starts keeps the types. *)
LEMMA GroupStart == ASSUME Group!GroupsAssumption, Group!TypeOK, NEW c \in GroupCalls, Group!Start(c) PROVE Group!TypeOK'
<1>1. PICK r \in GroupRequests :
        /\ call' = [call EXCEPT ![c] = r] /\ pc' = [pc EXCEPT ![c] = Group!First[r.kind]]
        /\ raced' = raced \cup UNION {Group!About(r) \cap Group!About(call[d]) : d \in {e \in GroupCalls : Group!Active(e)}}
        /\ demoting' = (demoting \/ (r.kind = "role" /\ \E d \in {e \in GroupCalls : Group!Active(e)} : call[d].kind = "role"))
  BY DEF Group!Start
<1>2. UNCHANGED <<group, member, conv, part, posted, todo, saw>> /\ pc[c] = "idle"
  BY DEF Group!Start, Group!rows
<1>3. Group!About(r) \subseteq Users /\ r # None
  BY GroupKinds DEF Group!About, Group!Kinds
<1>4. Group!First[r.kind] \in Group!Labels \ {"idle"}
  BY GroupKinds DEF Group!Kinds, Group!First, Group!Labels
<1>5. raced' \subseteq Users
  BY <1>1, <1>3 DEF Group!TypeOK
<1>6. demoting' \in BOOLEAN
  BY <1>1, Zenon
<1>7. GroupSlots'
  BY <1>1, <1>2, <1>3, <1>4, <1>5, <1>6 DEF Group!TypeOK, GroupSlots, Group!Active
<1>8. GroupTables'
  BY <1>2, GroupTypes DEF GroupTables
<1>9. QED
  BY <1>7, <1>8 DEF Group!TypeOK, GroupSlots, GroupTables, GroupRow

(* Every statement keeps the types. *)
LEMMA GroupTyped ==
  ASSUME Group!GroupsAssumption, Group!TypeOK, GroupAsking, GroupKnows, NEW c \in GroupCalls, Group!Handle(c)
  PROVE Group!TypeOK'
<1>0. GroupSlots /\ GroupTables
  BY GroupTypes
<1>1. ASSUME Group!CreateGroup(c) PROVE Group!TypeOK'
  <2>1. GroupSlots'
    BY <1>0, <1>1, GroupKinds DEF Group!CreateGroup, Group!Leave, GroupSlots, GroupAsking, Group!Active, Group!Labels
  <2>2. GroupTables'
    <3>1. PICK u \in Users : u = call[c].by
      BY <1>0, <1>1, GroupAsked DEF Group!CreateGroup
    <3>2. [role |-> "admin", in |-> TRUE] \in GroupRow
      BY DEF GroupRow, Group!Roles
    <3>3. CASE group = "none"
      <4>1. /\ group' = "live" /\ conv' = "open" /\ posted' = posted
            /\ member' = [member EXCEPT ![u] = [role |-> "admin", in |-> TRUE]] /\ part' = [part EXCEPT ![u] = "in"]
        BY <1>1, <3>1, <3>3 DEF Group!CreateGroup
      <4>2. \A v \in Users : part[v] = "none" /\ v \notin posted
        BY <1>0, <3>3 DEF GroupTables
      <4>3. QED
        BY <1>0, <3>2, <4>1, <4>2, GroupRowFacts DEF GroupTables
    <3>4. CASE group # "none"
      BY <1>0, <1>1, <3>4 DEF Group!CreateGroup, GroupTables
    <3>5. QED
      BY <3>3, <3>4
  <2>3. QED
    BY <2>1, <2>2 DEF Group!TypeOK, GroupSlots, GroupTables, GroupRow
<1>2. ASSUME Group!CheckPermission(c) PROVE Group!TypeOK'
  BY <1>2, GroupKinds
     DEF Group!CheckPermission, Group!Goto, Group!Leave, Group!Reads, Group!rows, Group!Permitted, Group!SelfBarred, Group!AfterPerm, GroupAsking, GroupKnows, Knows, Enrolled, Group!InGroup, Group!TypeOK, Group!Active, Group!Labels
<1>3. ASSUME Group!Erase(c) PROVE Group!TypeOK'
  BY <1>3, GroupKinds
     DEF Group!Erase, Group!Leave, GroupAsking, GroupKnows, Knows, Enrolled, Group!InGroup, Group!TypeOK, Group!Active, Group!Labels
<1>4. ASSUME Group!WriteRole(c) PROVE Group!TypeOK'
  <2>1. GroupSlots'
    BY <1>0, <1>4, GroupKinds DEF Group!WriteRole, Group!Leave, GroupSlots, GroupAsking, Group!Active, Group!Labels
  <2>2. GroupTables'
    <3>1. call[c].role \in Group!Roles
      BY <1>0, <1>4, GroupAsked DEF Group!WriteRole
    <3>2. \A u \in Users : member'[u] = member[u] \/ (member'[u] = [member[u] EXCEPT !.role = call[c].role] /\ member[u] # None)
      <4>1. member' = [u \in Users |-> IF u \in call[c].to /\ member[u] # None
                                       THEN [member[u] EXCEPT !.role = call[c].role] ELSE member[u]]
        BY <1>4, Zenon DEF Group!WriteRole
      <4>2. QED
        BY <4>1, Zenon
    <3>3. ASSUME NEW u \in Users, member'[u] # member[u] PROVE member'[u] \in GroupRow /\ group = "live"
      <4>1. member[u] \in GroupRow /\ group = "live" /\ member'[u] = [member[u] EXCEPT !.role = call[c].role]
        BY <1>0, <3>2, <3>3 DEF GroupTables
      <4>2. QED
        BY <3>1, <4>1, GroupRowFacts
    <3>4. QED
      BY <1>0, <1>4, <3>3, GroupEnrols, Zenon DEF Group!WriteRole
  <2>3. QED
    BY <2>1, <2>2 DEF Group!TypeOK, GroupSlots, GroupTables, GroupRow
<1>5. ASSUME Group!FindGroup(c) PROVE Group!TypeOK'
  BY <1>5, GroupKinds, SMTT(30)
     DEF Group!FindGroup, Group!Goto, Group!Leave, Group!Reads, Group!rows, GroupAsking, GroupKnows, Knows, Enrolled, Group!InGroup, Group!TypeOK, Group!Active, Group!Labels
<1>6. ASSUME Group!FindActive(c) PROVE Group!TypeOK'
  BY <1>6, GroupKinds, SMTT(30)
     DEF Group!FindActive, Group!Goto, Group!Leave, Group!Reads, Group!rows, GroupAsking, GroupKnows, Knows, Enrolled, Group!InGroup, Group!TypeOK, Group!Active, Group!Labels
<1>7. ASSUME Group!FindFormer(c) PROVE Group!TypeOK'
  BY <1>7, GroupKinds
     DEF Group!FindFormer, Group!Goto, Group!Reads, Group!rows, GroupAsking, GroupKnows, Knows, Enrolled, Group!InGroup, Group!TypeOK, Group!Active, Group!Labels
<1>8. ASSUME Group!Rejoin(c) PROVE Group!TypeOK'
  <2>1. GroupSlots'
    BY <1>0, <1>8, GroupKinds DEF Group!Rejoin, Group!Goto, Group!Leave, GroupSlots, GroupAsking, Group!Active, Group!Labels
  <2>2. GroupTables'
    <3>1. PICK u \in Users : u = call[c].by
      BY <1>0, <1>8, GroupAsked DEF Group!Rejoin
    <3>2. member' = member \/ (member' = [member EXCEPT ![u] = [member[u] EXCEPT !.in = TRUE]] /\ member[u] # None)
      BY <1>8, <3>1 DEF Group!Rejoin
    <3>3. \A v \in Users : member'[v] = member[v] \/ (member'[v] \in GroupRow /\ group = "live")
      BY <1>0, <3>2, GroupRowFacts DEF GroupTables
    <3>4. member' = [v \in Users |-> member'[v]]
      BY <1>0, <3>2 DEF GroupTables
    <3>5. QED
      BY <1>0, <1>8, <3>3, <3>4, GroupEnrols DEF Group!Rejoin
  <2>3. QED
    BY <2>1, <2>2 DEF Group!TypeOK, GroupSlots, GroupTables, GroupRow
<1>9. ASSUME Group!Enroll(c) PROVE Group!TypeOK'
  <2>1. GroupSlots'
    BY <1>0, <1>9, GroupKinds DEF Group!Enroll, Group!Goto, Group!Leave, Group!NewMember, Group!Roles, GroupSlots, GroupAsking, Group!Active, Group!Labels
  <2>2. GroupTables'
    <3>1. PICK u \in Users : u = call[c].by
      BY <1>0, <1>9, GroupAsked DEF Group!Enroll
    <3>2. member' = member \/ (member' = [member EXCEPT ![u] = Group!NewMember] /\ group = "live")
      BY <1>9, <3>1 DEF Group!Enroll
    <3>3. \A v \in Users : member'[v] = member[v] \/ (member'[v] \in GroupRow /\ group = "live")
      BY <1>0, <3>2, GroupRowFacts DEF GroupTables
    <3>4. member' = [v \in Users |-> member'[v]]
      BY <1>0, <3>2 DEF GroupTables
    <3>5. QED
      BY <1>0, <1>9, <3>3, <3>4, GroupEnrols DEF Group!Enroll
  <2>3. QED
    BY <2>1, <2>2 DEF Group!TypeOK, GroupSlots, GroupTables, GroupRow
<1>10. ASSUME Group!Clash(c) PROVE Group!TypeOK'
  BY <1>10, GroupKinds
     DEF Group!Clash, Group!Goto, Group!Leave, Group!Reads, Group!rows, GroupAsking, GroupKnows, Knows, Enrolled, Group!InGroup, Group!TypeOK, Group!Active, Group!Labels
<1>11. ASSUME Group!FindConv(c) PROVE Group!TypeOK'
  BY <1>11, GroupKinds, SMTT(30)
     DEF Group!FindConv, Group!Goto, Group!Leave, Group!Reads, Group!rows, Group!AfterConv, GroupAsking, GroupKnows, Knows, Enrolled, Group!InGroup, Group!TypeOK, Group!Active, Group!Labels
<1>12. ASSUME Group!FindParticipant(c) PROVE Group!TypeOK'
  BY <1>12, GroupKinds
     DEF Group!FindParticipant, Group!Goto, Group!Reads, Group!rows, GroupAsking, GroupKnows, Knows, Enrolled, Group!InGroup, Group!TypeOK, Group!Active, Group!Labels
<1>13. ASSUME Group!Reopen(c) PROVE Group!TypeOK'
  BY <1>13, GroupKinds
     DEF Group!Reopen, Group!Leave, GroupAsking, GroupKnows, Knows, Enrolled, Group!InGroup, Group!TypeOK, Group!Active, Group!Labels
<1>14. ASSUME Group!Place(c) PROVE Group!TypeOK'
  BY <1>14, GroupKinds
     DEF Group!Place, Group!Leave, Group!Seated, GroupAsking, GroupKnows, Knows, Enrolled, Group!InGroup, Group!TypeOK, Group!Active, Group!Labels
<1>15. ASSUME Group!Out(c) PROVE Group!TypeOK'
  <2>1. GroupSlots'
    BY <1>0, <1>15, GroupKinds DEF Group!Out, Group!Goto, Group!Leave, Group!Subject, GroupSlots, GroupAsking, Group!Active, Group!Labels
  <2>2. GroupTables'
    <3> DEFINE u == Group!Subject(call[c])
    <3>1. u \in Users
      BY <1>0, <1>15, GroupAsked, GroupSubject DEF Group!Out, GroupAsking, Group!Active
    <3> HIDE DEF u
    <3>2. member' = member \/ (member' = [member EXCEPT ![u] = [member[u] EXCEPT !.in = FALSE]] /\ member[u] # None)
      BY <1>15 DEF Group!Out, u
    <3>3. \A v \in Users : member'[v] = member[v] \/ (member'[v] \in GroupRow /\ group = "live")
      BY <1>0, <3>1, <3>2, GroupRowFacts DEF GroupTables
    <3>4. member' = [v \in Users |-> member'[v]]
      BY <1>0, <3>2 DEF GroupTables
    <3>5. QED
      BY <1>0, <1>15, <3>3, <3>4, GroupEnrols DEF Group!Out
  <2>3. QED
    BY <2>1, <2>2 DEF Group!TypeOK, GroupSlots, GroupTables, GroupRow
<1>16. ASSUME Group!FindSeat(c) PROVE Group!TypeOK'
  BY <1>16, GroupKinds
     DEF Group!FindSeat, Group!Goto, Group!Leave, Group!Reads, Group!rows, GroupAsking, GroupKnows, Knows, Enrolled, Group!InGroup, Group!TypeOK, Group!Active, Group!Labels
<1>17. ASSUME Group!Unseat(c) PROVE Group!TypeOK'
  <2>1. GroupSlots'
    BY <1>0, <1>17, GroupKinds DEF Group!Unseat, Group!Leave, GroupSlots, GroupAsking, Group!Active, Group!Labels
  <2>2. GroupTables'
    <3> DEFINE u == Group!Subject(call[c])
    <3>1. u \in Users
      BY <1>0, <1>17, GroupAsked, GroupSubject DEF Group!Unseat, GroupAsking, Group!Active
    <3> HIDE DEF u
    <3>2. part' = [part EXCEPT ![u] = IF part[u] = "none" THEN "none" ELSE "left"] /\ UNCHANGED <<group, member, conv, posted>>
      BY <1>17 DEF Group!Unseat, u
    <3>3. QED
      BY <1>0, <3>1, <3>2 DEF GroupTables
  <2>3. QED
    BY <2>1, <2>2 DEF Group!TypeOK, GroupSlots, GroupTables, GroupRow
<1>18. ASSUME Group!Count(c) PROVE Group!TypeOK'
  BY <1>18, GroupKinds
     DEF Group!Count, Group!Leave, Group!Reads, Group!rows, GroupAsking, GroupKnows, Knows, Enrolled, Group!InGroup, Group!TypeOK, Group!Active, Group!Labels
<1>19. ASSUME Group!Enlist(c) PROVE Group!TypeOK'
  <2>1. GroupSlots'
    BY <1>0, <1>19, GroupKinds DEF Group!Enlist, Group!Leave, Group!NewMember, Group!Roles, GroupSlots, GroupAsking, Group!Active, Group!Labels
  <2>2. GroupTables'
    <3>1. CASE group # "live"
      BY <1>0, <1>19, <3>1 DEF Group!Enlist, GroupTables
    <3>2. CASE group = "live"
      <4>1. PICK u \in Users : member' = [member EXCEPT ![u] = IF member[u] = None THEN Group!NewMember ELSE member[u]]
        BY <1>0, <1>19, <3>2 DEF Group!Enlist, GroupSlots
      <4>2. \A v \in Users : member'[v] = member[v] \/ (member'[v] \in GroupRow /\ group = "live")
        BY <1>0, <3>2, <4>1, GroupRowFacts DEF GroupTables
      <4>3. member' = [v \in Users |-> member'[v]]
        BY <1>0, <4>1 DEF GroupTables
      <4>4. QED
        BY <1>0, <1>19, <4>2, <4>3, GroupEnrols DEF Group!Enlist
    <3>3. QED
      BY <3>1, <3>2
  <2>3. QED
    BY <2>1, <2>2 DEF Group!TypeOK, GroupSlots, GroupTables, GroupRow
<1>20. ASSUME Group!SeatAll(c) PROVE Group!TypeOK'
  BY <1>20, GroupKinds
     DEF Group!SeatAll, Group!Leave, Group!Seated, GroupAsking, GroupKnows, Knows, Enrolled, Group!InGroup, Group!TypeOK, Group!Active, Group!Labels
<1>21. ASSUME Group!Find(c) PROVE Group!TypeOK'
  BY <1>21, GroupKinds
     DEF Group!Find, Group!Goto, Group!Leave, Group!Reads, Group!rows, Group!Resume, GroupAsking, GroupKnows, Knows, Enrolled, Group!InGroup, Group!TypeOK, Group!Active, Group!Labels
<1>22. ASSUME Group!Create(c) PROVE Group!TypeOK'
  BY <1>22, GroupKinds, SMTT(30)
     DEF Group!Create, Group!Goto, Group!Leave, GroupAsking, GroupKnows, Knows, Enrolled, Group!InGroup, Group!TypeOK, Group!Active, Group!Labels
<1>23. ASSUME Group!ReadMembers(c) PROVE Group!TypeOK'
  BY <1>23, GroupKinds
     DEF Group!ReadMembers, Group!Reads, Group!rows, Group!Members, GroupAsking, GroupKnows, Knows, Enrolled, Group!InGroup, Group!TypeOK, Group!Active, Group!Labels
<1>24. ASSUME Group!Fill(c) PROVE Group!TypeOK'
  BY <1>24, GroupKinds, SMTT(30)
     DEF Group!Fill, Group!Leave, Group!Resume, Group!Seated, GroupAsking, GroupKnows, Knows, Enrolled, Group!InGroup, Group!TypeOK, Group!Active, Group!Labels
<1>25. ASSUME Group!FindSender(c) PROVE Group!TypeOK'
  BY <1>25, GroupKinds, SMTT(30)
     DEF Group!FindSender, Group!Goto, Group!Leave, Group!Reads, Group!rows, GroupAsking, GroupKnows, Knows, Enrolled, Group!InGroup, Group!TypeOK, Group!Active, Group!Labels
<1>26. ASSUME Group!Post(c) PROVE Group!TypeOK'
  BY <1>26, GroupKinds
     DEF Group!Post, Group!Leave, GroupAsking, GroupKnows, Knows, Enrolled, Group!InGroup, Group!TypeOK, Group!Active, Group!Labels
<1>27. ASSUME Group!FindToClose(c) PROVE Group!TypeOK'
  BY <1>27, GroupKinds
     DEF Group!FindToClose, Group!Goto, Group!Leave, Group!Reads, Group!rows, GroupAsking, GroupKnows, Knows, Enrolled, Group!InGroup, Group!TypeOK, Group!Active, Group!Labels
<1>28. ASSUME Group!Close(c) PROVE Group!TypeOK'
  BY <1>28, GroupKinds
     DEF Group!Close, Group!Leave, GroupAsking, GroupKnows, Knows, Enrolled, Group!InGroup, Group!TypeOK, Group!Active, Group!Labels
<1>29. ASSUME Group!Crash(c) PROVE Group!TypeOK'
  <2>1. GroupSlots'
    <3>1. raced' \subseteq Users
      BY <1>0, <1>29, GroupKinds DEF Group!Crash, GroupSlots, Group!About, Group!Kinds
    <3>2. QED
      BY <1>0, <1>29, <3>1 DEF Group!Crash, Group!Leave, GroupSlots, Group!Active, Group!Labels
  <2>2. GroupTables'
    BY <1>0, <1>29 DEF Group!Crash, Group!rows, GroupTables
  <2>3. QED
    BY <2>1, <2>2 DEF Group!TypeOK, GroupSlots, GroupTables, GroupRow
<1>30. QED
  BY <1>1, <1>2, <1>3, <1>4, <1>5, <1>6, <1>7, <1>8, <1>9, <1>10, <1>11, <1>12, <1>13, <1>14, <1>15, <1>16, <1>17, <1>18, <1>19, <1>20, <1>21, <1>22, <1>23, <1>24, <1>25, <1>26, <1>27, <1>28, <1>29, GroupStart DEF Group!Handle

(* What the statements that write memberships do to them. *)
LEMMA GroupRoleWritten ==
  ASSUME Group!GroupsAssumption, GroupSlots, GroupTables, NEW c \in GroupCalls, Group!WriteRole(c), NEW u \in Users
  PROVE  /\ member[u] = None => member'[u] = None
         /\ member[u] # None => member'[u] # None /\ member'[u].in = member[u].in
         /\ u \notin call[c].to => member'[u] = member[u]
<1>1. call[c].role \in Group!Roles
  BY GroupAsked DEF Group!WriteRole
<1>2. member'[u] = (IF u \in call[c].to /\ member[u] # None THEN [member[u] EXCEPT !.role = call[c].role] ELSE member[u])
  <2>1. member' = [v \in Users |-> IF v \in call[c].to /\ member[v] # None
                                   THEN [member[v] EXCEPT !.role = call[c].role] ELSE member[v]]
    BY Zenon DEF Group!WriteRole
  <2>2. QED
    BY <2>1, Zenon
<1>3. member[u] # None => member[u] \in GroupRow
  BY DEF GroupTables
<1>4. member[u] # None => [member[u] EXCEPT !.role = call[c].role] # None /\ [member[u] EXCEPT !.role = call[c].role].in = member[u].in
  BY <1>1, <1>3, GroupRowFacts DEF GroupRow
<1>5. QED
  BY <1>2, <1>4

(* Setting whether a member is in changes his row alone. *)
LEMMA GroupRowSet ==
  ASSUME Group!GroupsAssumption, GroupTables, NEW u \in Users, NEW in \in BOOLEAN, member[u] # None,
         member' = [member EXCEPT ![u].in = in]
  PROVE  /\ member'[u] # None /\ member'[u].in = in /\ member'[u].role = member[u].role
         /\ \A v \in Users : v # u => member'[v] = member[v]
<1>1. member[u] \in GroupRow
  BY DEF GroupTables
<1>2. member'[u] = [member[u] EXCEPT !.in = in]
  BY DEF GroupTables
<1>3. [member[u] EXCEPT !.in = in] # None
  BY <1>1, GroupRowFacts
<1>4. QED
  BY <1>1, <1>2, <1>3 DEF GroupTables, GroupRow

(* Joining again sets the row of the requester, if he has one. *)
LEMMA GroupRejoined ==
  ASSUME Group!GroupsAssumption, GroupSlots, GroupTables, NEW c \in GroupCalls, Group!Rejoin(c)
  PROVE  /\ call[c].by \in Users
         /\ \/ member[call[c].by] = None /\ UNCHANGED member
            \/ /\ member[call[c].by] # None /\ member'[call[c].by] # None /\ member'[call[c].by].in = TRUE
               /\ member'[call[c].by].role = member[call[c].by].role
               /\ \A v \in Users : v # call[c].by => member'[v] = member[v]
<1>1. call[c].by \in Users
  BY GroupAsked DEF Group!Rejoin
<1>2. CASE member[call[c].by] = None
  BY <1>1, <1>2 DEF Group!Rejoin
<1>3. CASE member[call[c].by] # None
  <2>1. member' = [member EXCEPT ![call[c].by].in = TRUE]
    BY <1>3, Zenon DEF Group!Rejoin
  <2>2. QED
    BY <1>1, <1>3, <2>1, GroupRowSet
<1>4. QED
  BY <1>2, <1>3

(* Leaving clears the row of the one who leaves, if he has one. *)
LEMMA GroupOuted ==
  ASSUME Group!GroupsAssumption, GroupSlots, GroupTables, GroupAsking, NEW c \in GroupCalls, Group!Out(c)
  PROVE  /\ Group!Subject(call[c]) \in Users /\ Group!About(call[c]) = {Group!Subject(call[c])}
         /\ \/ member[Group!Subject(call[c])] = None /\ UNCHANGED member
            \/ /\ member[Group!Subject(call[c])] # None
               /\ member'[Group!Subject(call[c])] # None /\ member'[Group!Subject(call[c])].in = FALSE
               /\ member'[Group!Subject(call[c])].role = member[Group!Subject(call[c])].role
               /\ \A v \in Users : v # Group!Subject(call[c]) => member'[v] = member[v]
<1>1. Group!Subject(call[c]) \in Users /\ Group!About(call[c]) = {Group!Subject(call[c])}
  <2>1. call[c] \in GroupRequests /\ call[c].kind \in {"leave", "remove"}
    BY GroupAsked DEF Group!Out, GroupAsking, Group!Active
  <2>2. QED
    BY <2>1, GroupSubject
<1>2. CASE member[Group!Subject(call[c])] = None
  BY <1>1, <1>2 DEF Group!Out
<1>3. CASE member[Group!Subject(call[c])] # None
  <2>1. member' = [member EXCEPT ![Group!Subject(call[c])].in = FALSE]
    BY <1>3, Zenon DEF Group!Out
  <2>2. QED
    BY <1>1, <1>3, <2>1, GroupRowSet
<1>4. QED
  BY <1>1, <1>2, <1>3

(* Requests stay at statements of their kind. *)
LEMMA GroupAsks ==
  ASSUME Group!GroupsAssumption, Group!TypeOK, GroupAsking, NEW c \in GroupCalls, Group!Handle(c)
  PROVE  GroupAsking'
<1>0. GroupSlots /\ GroupTables
  BY GroupTypes
<1> USE DEF GroupAsking, GroupSlots, Group!Active
<1>1. ASSUME Group!Start(c) PROVE GroupAsking'
  BY <1>0, <1>1, GroupKinds DEF Group!Start, Group!First, Group!Kinds, Group!rows
<1>2. ASSUME Group!CreateGroup(c) PROVE GroupAsking'
  BY <1>0, <1>2
     DEF Group!CreateGroup, Group!Leave
<1>3. ASSUME Group!CheckPermission(c) PROVE GroupAsking'
  BY <1>0, <1>3
     DEF Group!CheckPermission, Group!Goto, Group!Leave, Group!Reads, Group!rows, Group!Permitted, Group!SelfBarred, Group!AfterPerm
<1>4. ASSUME Group!Erase(c) PROVE GroupAsking'
  BY <1>0, <1>4
     DEF Group!Erase, Group!Leave
<1>5. ASSUME Group!WriteRole(c) PROVE GroupAsking'
  BY <1>0, <1>5
     DEF Group!WriteRole, Group!Leave
<1>6. ASSUME Group!FindGroup(c) PROVE GroupAsking'
  BY <1>0, <1>6
     DEF Group!FindGroup, Group!Goto, Group!Leave, Group!Reads, Group!rows
<1>7. ASSUME Group!FindActive(c) PROVE GroupAsking'
  BY <1>0, <1>7
     DEF Group!FindActive, Group!Goto, Group!Leave, Group!Reads, Group!rows
<1>8. ASSUME Group!FindFormer(c) PROVE GroupAsking'
  BY <1>0, <1>8
     DEF Group!FindFormer, Group!Goto, Group!Reads, Group!rows
<1>9. ASSUME Group!Rejoin(c) PROVE GroupAsking'
  BY <1>0, <1>9
     DEF Group!Rejoin, Group!Goto, Group!Leave
<1>10. ASSUME Group!Enroll(c) PROVE GroupAsking'
  BY <1>0, <1>10
     DEF Group!Enroll, Group!Goto, Group!Leave, Group!NewMember, Group!Roles
<1>11. ASSUME Group!Clash(c) PROVE GroupAsking'
  BY <1>0, <1>11
     DEF Group!Clash, Group!Goto, Group!Leave, Group!Reads, Group!rows
<1>12. ASSUME Group!FindConv(c) PROVE GroupAsking'
  BY <1>0, <1>12
     DEF Group!FindConv, Group!Goto, Group!Leave, Group!Reads, Group!rows, Group!AfterConv
<1>13. ASSUME Group!FindParticipant(c) PROVE GroupAsking'
  BY <1>0, <1>13
     DEF Group!FindParticipant, Group!Goto, Group!Reads, Group!rows
<1>14. ASSUME Group!Reopen(c) PROVE GroupAsking'
  BY <1>0, <1>14
     DEF Group!Reopen, Group!Leave
<1>15. ASSUME Group!Place(c) PROVE GroupAsking'
  BY <1>0, <1>15
     DEF Group!Place, Group!Leave, Group!Seated
<1>16. ASSUME Group!Out(c) PROVE GroupAsking'
  BY <1>0, <1>16
     DEF Group!Out, Group!Goto, Group!Leave, Group!Subject
<1>17. ASSUME Group!FindSeat(c) PROVE GroupAsking'
  BY <1>0, <1>17
     DEF Group!FindSeat, Group!Goto, Group!Leave, Group!Reads, Group!rows
<1>18. ASSUME Group!Unseat(c) PROVE GroupAsking'
  BY <1>0, <1>18
     DEF Group!Unseat, Group!Leave
<1>19. ASSUME Group!Count(c) PROVE GroupAsking'
  BY <1>0, <1>19
     DEF Group!Count, Group!Leave, Group!Reads, Group!rows
<1>20. ASSUME Group!Enlist(c) PROVE GroupAsking'
  BY <1>0, <1>20
     DEF Group!Enlist, Group!Leave, Group!NewMember, Group!Roles
<1>21. ASSUME Group!SeatAll(c) PROVE GroupAsking'
  BY <1>0, <1>21
     DEF Group!SeatAll, Group!Leave, Group!Seated
<1>22. ASSUME Group!Find(c) PROVE GroupAsking'
  BY <1>0, <1>22
     DEF Group!Find, Group!Goto, Group!Leave, Group!Reads, Group!rows, Group!Resume
<1>23. ASSUME Group!Create(c) PROVE GroupAsking'
  BY <1>0, <1>23
     DEF Group!Create, Group!Goto, Group!Leave
<1>24. ASSUME Group!ReadMembers(c) PROVE GroupAsking'
  BY <1>0, <1>24
     DEF Group!ReadMembers, Group!Reads, Group!rows, Group!Members
<1>25. ASSUME Group!Fill(c) PROVE GroupAsking'
  BY <1>0, <1>25
     DEF Group!Fill, Group!Leave, Group!Resume, Group!Seated
<1>26. ASSUME Group!FindSender(c) PROVE GroupAsking'
  BY <1>0, <1>26
     DEF Group!FindSender, Group!Goto, Group!Leave, Group!Reads, Group!rows
<1>27. ASSUME Group!Post(c) PROVE GroupAsking'
  BY <1>0, <1>27
     DEF Group!Post, Group!Leave
<1>28. ASSUME Group!FindToClose(c) PROVE GroupAsking'
  BY <1>0, <1>28
     DEF Group!FindToClose, Group!Goto, Group!Leave, Group!Reads, Group!rows
<1>29. ASSUME Group!Close(c) PROVE GroupAsking'
  BY <1>0, <1>29
     DEF Group!Close, Group!Leave
<1>30. ASSUME Group!Crash(c) PROVE GroupAsking'
  BY <1>0, <1>30
     DEF Group!Crash, Group!Leave, Group!rows
<1>31. QED
  BY <1>1, <1>2, <1>3, <1>4, <1>5, <1>6, <1>7, <1>8, <1>9, <1>10, <1>11, <1>12, <1>13, <1>14, <1>15, <1>16, <1>17, <1>18, <1>19, <1>20, <1>21, <1>22, <1>23, <1>24, <1>25, <1>26, <1>27, <1>28, <1>29, <1>30 DEF Group!Handle

(* A step of one request leaves the others alone. *)
GroupOthers(c) ==
  \A d \in GroupCalls \ {c} : pc'[d] = pc[d] /\ call'[d] = call[d] /\ todo'[d] = todo[d] /\ saw'[d] = saw[d]

(* A step of one request leaves the others alone. *)
LEMMA GroupOther ==
  ASSUME Group!GroupsAssumption, Group!TypeOK, NEW c \in GroupCalls, Group!Handle(c)
  PROVE  GroupOthers(c)
<1>0. GroupSlots /\ GroupTables
  BY GroupTypes
<1> USE DEF GroupSlots, GroupOthers
<1>1. ASSUME Group!Start(c) PROVE GroupOthers(c)
  BY <1>0, <1>1, GroupKinds DEF Group!Start, Group!First, Group!Kinds, Group!rows
<1>2. ASSUME Group!CreateGroup(c) PROVE GroupOthers(c)
  BY <1>0, <1>2
     DEF Group!CreateGroup, Group!Leave
<1>3. ASSUME Group!CheckPermission(c) PROVE GroupOthers(c)
  BY <1>0, <1>3
     DEF Group!CheckPermission, Group!Goto, Group!Leave, Group!Reads, Group!rows, Group!Permitted, Group!SelfBarred, Group!AfterPerm
<1>4. ASSUME Group!Erase(c) PROVE GroupOthers(c)
  BY <1>0, <1>4
     DEF Group!Erase, Group!Leave
<1>5. ASSUME Group!WriteRole(c) PROVE GroupOthers(c)
  BY <1>0, <1>5
     DEF Group!WriteRole, Group!Leave
<1>6. ASSUME Group!FindGroup(c) PROVE GroupOthers(c)
  BY <1>0, <1>6
     DEF Group!FindGroup, Group!Goto, Group!Leave, Group!Reads, Group!rows
<1>7. ASSUME Group!FindActive(c) PROVE GroupOthers(c)
  BY <1>0, <1>7
     DEF Group!FindActive, Group!Goto, Group!Leave, Group!Reads, Group!rows
<1>8. ASSUME Group!FindFormer(c) PROVE GroupOthers(c)
  BY <1>0, <1>8
     DEF Group!FindFormer, Group!Goto, Group!Reads, Group!rows
<1>9. ASSUME Group!Rejoin(c) PROVE GroupOthers(c)
  BY <1>0, <1>9
     DEF Group!Rejoin, Group!Goto, Group!Leave
<1>10. ASSUME Group!Enroll(c) PROVE GroupOthers(c)
  BY <1>0, <1>10
     DEF Group!Enroll, Group!Goto, Group!Leave, Group!NewMember, Group!Roles
<1>11. ASSUME Group!Clash(c) PROVE GroupOthers(c)
  BY <1>0, <1>11
     DEF Group!Clash, Group!Goto, Group!Leave, Group!Reads, Group!rows
<1>12. ASSUME Group!FindConv(c) PROVE GroupOthers(c)
  BY <1>0, <1>12
     DEF Group!FindConv, Group!Goto, Group!Leave, Group!Reads, Group!rows, Group!AfterConv
<1>13. ASSUME Group!FindParticipant(c) PROVE GroupOthers(c)
  BY <1>0, <1>13
     DEF Group!FindParticipant, Group!Goto, Group!Reads, Group!rows
<1>14. ASSUME Group!Reopen(c) PROVE GroupOthers(c)
  BY <1>0, <1>14
     DEF Group!Reopen, Group!Leave
<1>15. ASSUME Group!Place(c) PROVE GroupOthers(c)
  BY <1>0, <1>15
     DEF Group!Place, Group!Leave, Group!Seated
<1>16. ASSUME Group!Out(c) PROVE GroupOthers(c)
  BY <1>0, <1>16
     DEF Group!Out, Group!Goto, Group!Leave, Group!Subject
<1>17. ASSUME Group!FindSeat(c) PROVE GroupOthers(c)
  BY <1>0, <1>17
     DEF Group!FindSeat, Group!Goto, Group!Leave, Group!Reads, Group!rows
<1>18. ASSUME Group!Unseat(c) PROVE GroupOthers(c)
  BY <1>0, <1>18
     DEF Group!Unseat, Group!Leave
<1>19. ASSUME Group!Count(c) PROVE GroupOthers(c)
  BY <1>0, <1>19
     DEF Group!Count, Group!Leave, Group!Reads, Group!rows
<1>20. ASSUME Group!Enlist(c) PROVE GroupOthers(c)
  BY <1>0, <1>20
     DEF Group!Enlist, Group!Leave, Group!NewMember, Group!Roles
<1>21. ASSUME Group!SeatAll(c) PROVE GroupOthers(c)
  BY <1>0, <1>21
     DEF Group!SeatAll, Group!Leave, Group!Seated
<1>22. ASSUME Group!Find(c) PROVE GroupOthers(c)
  BY <1>0, <1>22
     DEF Group!Find, Group!Goto, Group!Leave, Group!Reads, Group!rows, Group!Resume
<1>23. ASSUME Group!Create(c) PROVE GroupOthers(c)
  BY <1>0, <1>23
     DEF Group!Create, Group!Goto, Group!Leave
<1>24. ASSUME Group!ReadMembers(c) PROVE GroupOthers(c)
  BY <1>0, <1>24
     DEF Group!ReadMembers, Group!Reads, Group!rows, Group!Members
<1>25. ASSUME Group!Fill(c) PROVE GroupOthers(c)
  BY <1>0, <1>25
     DEF Group!Fill, Group!Leave, Group!Resume, Group!Seated
<1>26. ASSUME Group!FindSender(c) PROVE GroupOthers(c)
  BY <1>0, <1>26
     DEF Group!FindSender, Group!Goto, Group!Leave, Group!Reads, Group!rows
<1>27. ASSUME Group!Post(c) PROVE GroupOthers(c)
  BY <1>0, <1>27
     DEF Group!Post, Group!Leave
<1>28. ASSUME Group!FindToClose(c) PROVE GroupOthers(c)
  BY <1>0, <1>28
     DEF Group!FindToClose, Group!Goto, Group!Leave, Group!Reads, Group!rows
<1>29. ASSUME Group!Close(c) PROVE GroupOthers(c)
  BY <1>0, <1>29
     DEF Group!Close, Group!Leave
<1>30. ASSUME Group!Crash(c) PROVE GroupOthers(c)
  BY <1>0, <1>30
     DEF Group!Crash, Group!Leave, Group!rows
<1>31. QED
  BY <1>1, <1>2, <1>3, <1>4, <1>5, <1>6, <1>7, <1>8, <1>9, <1>10, <1>11, <1>12, <1>13, <1>14, <1>15, <1>16, <1>17, <1>18, <1>19, <1>20, <1>21, <1>22, <1>23, <1>24, <1>25, <1>26, <1>27, <1>28, <1>29, <1>30 DEF Group!Handle

(* The group and its rows come and go once. *)
GroupGrows ==
  /\ group # "none" => group' # "none"
  /\ group = "gone" => group' = "gone"
  /\ \A u \in Users : member[u] # None => member'[u] # None \/ group' = "gone"
  /\ conv # "none" => conv' # "none" \/ group' = "gone"

(* Rows of members are never deleted while the group lives. *)
LEMMA GroupGrow ==
  ASSUME Group!GroupsAssumption, Group!TypeOK, GroupAsking, NEW c \in GroupCalls, Group!Handle(c)
  PROVE  GroupGrows
<1>0. GroupSlots /\ GroupTables
  BY GroupTypes
<1> USE DEF GroupGrows, GroupTables
<1>1. ASSUME Group!Start(c) PROVE GroupGrows
  BY <1>0, <1>1, GroupKinds, GroupRowFacts DEF Group!Start, Group!First, Group!Kinds, Group!rows
<1>2. ASSUME Group!CreateGroup(c) PROVE GroupGrows
  BY <1>0, <1>2, GroupRowFacts
     DEF Group!CreateGroup, Group!Leave
<1>3. ASSUME Group!CheckPermission(c) PROVE GroupGrows
  BY <1>0, <1>3, GroupRowFacts
     DEF Group!CheckPermission, Group!Goto, Group!Leave, Group!Reads, Group!rows, Group!Permitted, Group!SelfBarred, Group!AfterPerm
<1>4. ASSUME Group!Erase(c) PROVE GroupGrows
  BY <1>0, <1>4, GroupRowFacts
     DEF Group!Erase, Group!Leave
<1>5. ASSUME Group!WriteRole(c) PROVE GroupGrows
  BY <1>0, <1>5, GroupRoleWritten
     DEF Group!WriteRole, Group!Leave
<1>6. ASSUME Group!FindGroup(c) PROVE GroupGrows
  BY <1>0, <1>6, GroupRowFacts
     DEF Group!FindGroup, Group!Goto, Group!Leave, Group!Reads, Group!rows
<1>7. ASSUME Group!FindActive(c) PROVE GroupGrows
  BY <1>0, <1>7, GroupRowFacts
     DEF Group!FindActive, Group!Goto, Group!Leave, Group!Reads, Group!rows
<1>8. ASSUME Group!FindFormer(c) PROVE GroupGrows
  BY <1>0, <1>8, GroupRowFacts
     DEF Group!FindFormer, Group!Goto, Group!Reads, Group!rows
<1>9. ASSUME Group!Rejoin(c) PROVE GroupGrows
  BY <1>0, <1>9, GroupRejoined
     DEF Group!Rejoin, Group!Goto, Group!Leave
<1>10. ASSUME Group!Enroll(c) PROVE GroupGrows
  BY <1>0, <1>10, GroupRowFacts
     DEF Group!Enroll, Group!Goto, Group!Leave, Group!NewMember, Group!Roles
<1>11. ASSUME Group!Clash(c) PROVE GroupGrows
  BY <1>0, <1>11, GroupRowFacts
     DEF Group!Clash, Group!Goto, Group!Leave, Group!Reads, Group!rows
<1>12. ASSUME Group!FindConv(c) PROVE GroupGrows
  BY <1>0, <1>12, GroupRowFacts
     DEF Group!FindConv, Group!Goto, Group!Leave, Group!Reads, Group!rows, Group!AfterConv
<1>13. ASSUME Group!FindParticipant(c) PROVE GroupGrows
  BY <1>0, <1>13, GroupRowFacts
     DEF Group!FindParticipant, Group!Goto, Group!Reads, Group!rows
<1>14. ASSUME Group!Reopen(c) PROVE GroupGrows
  BY <1>0, <1>14, GroupRowFacts
     DEF Group!Reopen, Group!Leave
<1>15. ASSUME Group!Place(c) PROVE GroupGrows
  BY <1>0, <1>15, GroupRowFacts
     DEF Group!Place, Group!Leave, Group!Seated
<1>16. ASSUME Group!Out(c) PROVE GroupGrows
  BY <1>0, <1>16, GroupOuted
     DEF Group!Out, Group!Goto, Group!Leave, Group!Subject
<1>17. ASSUME Group!FindSeat(c) PROVE GroupGrows
  BY <1>0, <1>17, GroupRowFacts
     DEF Group!FindSeat, Group!Goto, Group!Leave, Group!Reads, Group!rows
<1>18. ASSUME Group!Unseat(c) PROVE GroupGrows
  BY <1>0, <1>18, GroupRowFacts
     DEF Group!Unseat, Group!Leave
<1>19. ASSUME Group!Count(c) PROVE GroupGrows
  BY <1>0, <1>19, GroupRowFacts
     DEF Group!Count, Group!Leave, Group!Reads, Group!rows
<1>20. ASSUME Group!Enlist(c) PROVE GroupGrows
  BY <1>0, <1>20, GroupRowFacts
     DEF Group!Enlist, Group!Leave, Group!NewMember, Group!Roles
<1>21. ASSUME Group!SeatAll(c) PROVE GroupGrows
  BY <1>0, <1>21, GroupRowFacts
     DEF Group!SeatAll, Group!Leave, Group!Seated
<1>22. ASSUME Group!Find(c) PROVE GroupGrows
  BY <1>0, <1>22, GroupRowFacts
     DEF Group!Find, Group!Goto, Group!Leave, Group!Reads, Group!rows, Group!Resume
<1>23. ASSUME Group!Create(c) PROVE GroupGrows
  BY <1>0, <1>23, GroupRowFacts
     DEF Group!Create, Group!Goto, Group!Leave
<1>24. ASSUME Group!ReadMembers(c) PROVE GroupGrows
  BY <1>0, <1>24, GroupRowFacts
     DEF Group!ReadMembers, Group!Reads, Group!rows, Group!Members
<1>25. ASSUME Group!Fill(c) PROVE GroupGrows
  BY <1>0, <1>25, GroupRowFacts
     DEF Group!Fill, Group!Leave, Group!Resume, Group!Seated
<1>26. ASSUME Group!FindSender(c) PROVE GroupGrows
  BY <1>0, <1>26, GroupRowFacts
     DEF Group!FindSender, Group!Goto, Group!Leave, Group!Reads, Group!rows
<1>27. ASSUME Group!Post(c) PROVE GroupGrows
  BY <1>0, <1>27, GroupRowFacts
     DEF Group!Post, Group!Leave
<1>28. ASSUME Group!FindToClose(c) PROVE GroupGrows
  BY <1>0, <1>28, GroupRowFacts
     DEF Group!FindToClose, Group!Goto, Group!Leave, Group!Reads, Group!rows
<1>29. ASSUME Group!Close(c) PROVE GroupGrows
  BY <1>0, <1>29, GroupRowFacts
     DEF Group!Close, Group!Leave
<1>30. ASSUME Group!Crash(c) PROVE GroupGrows
  BY <1>0, <1>30, GroupRowFacts
     DEF Group!Crash, Group!Leave, Group!rows
<1>31. QED
  BY <1>1, <1>2, <1>3, <1>4, <1>5, <1>6, <1>7, <1>8, <1>9, <1>10, <1>11, <1>12, <1>13, <1>14, <1>15, <1>16, <1>17, <1>18, <1>19, <1>20, <1>21, <1>22, <1>23, <1>24, <1>25, <1>26, <1>27, <1>28, <1>29, <1>30 DEF Group!Handle

(* What the other requests know stays true. *)
LEMMA GroupKnown ==
  ASSUME GroupKnows, NEW c \in GroupCalls, GroupOthers(c), GroupGrows, GroupSlots, \A d \in GroupCalls : call[d] # None => call[d].by \in Users /\ call[d].to \subseteq Users,
         Knows(c)'
  PROVE  GroupKnows'
<1>1. \A u \in Users : Enrolled(u) => Enrolled(u)'
  BY DEF Enrolled, GroupGrows
<1>2. ASSUME NEW d \in GroupCalls \ {c} PROVE Knows(d)'
  <2>1. pc'[d] = pc[d] /\ call'[d] = call[d] /\ todo'[d] = todo[d] /\ saw'[d] = saw[d] /\ Knows(d)
    BY DEF GroupOthers, GroupKnows
  <2>2. saw[d] \subseteq Users /\ (pc[d] # "idle" => call[d] # None)
    BY SMTT(30) DEF GroupSlots, Group!Active
  <2> USE DEF Knows, GroupGrows
  <2>3. QED
    BY <1>1, <2>1, <2>2
<1>3. QED
  BY <1>2 DEF GroupKnows

(* What a request has read stays true of the rows. *)
LEMMA GroupKnowing ==
  ASSUME Group!GroupsAssumption, Group!TypeOK, GroupAsking, GroupKnows, NEW c \in GroupCalls, Group!Handle(c)
  PROVE  Knows(c)'
<1>0. GroupSlots /\ GroupTables
  BY GroupTypes
<1> USE DEF GroupAsking, GroupKnows, Knows, GroupSlots, GroupTables, Group!Active, Enrolled
<1>1. ASSUME Group!Start(c) PROVE Knows(c)'
  BY <1>0, <1>1, GroupKinds, GroupRowFacts, GroupAsked DEF Group!Start, Group!First, Group!Kinds, Group!rows, Group!InGroup
<1>2. ASSUME Group!CreateGroup(c) PROVE Knows(c)'
  BY <1>0, <1>2, GroupRowFacts, GroupAsked
     DEF Group!CreateGroup, Group!Leave, Group!InGroup
<1>3. ASSUME Group!CheckPermission(c) PROVE Knows(c)'
  BY <1>0, <1>3, GroupRowFacts, GroupAsked
     DEF Group!CheckPermission, Group!Goto, Group!Leave, Group!Reads, Group!rows, Group!Permitted, Group!SelfBarred, Group!AfterPerm, Group!InGroup
<1>4. ASSUME Group!Erase(c) PROVE Knows(c)'
  BY <1>0, <1>4, GroupRowFacts, GroupAsked
     DEF Group!Erase, Group!Leave, Group!InGroup
<1>5. ASSUME Group!WriteRole(c) PROVE Knows(c)'
  BY <1>0, <1>5, GroupRowFacts, GroupAsked
     DEF Group!WriteRole, Group!Leave, Group!InGroup
<1>6. ASSUME Group!FindGroup(c) PROVE Knows(c)'
  BY <1>0, <1>6, GroupRowFacts, GroupAsked
     DEF Group!FindGroup, Group!Goto, Group!Leave, Group!Reads, Group!rows, Group!InGroup
<1>7. ASSUME Group!FindActive(c) PROVE Knows(c)'
  BY <1>0, <1>7, GroupRowFacts, GroupAsked
     DEF Group!FindActive, Group!Goto, Group!Leave, Group!Reads, Group!rows, Group!InGroup
<1>8. ASSUME Group!FindFormer(c) PROVE Knows(c)'
  BY <1>0, <1>8, GroupRowFacts, GroupAsked
     DEF Group!FindFormer, Group!Goto, Group!Reads, Group!rows, Group!InGroup
<1>9. ASSUME Group!Rejoin(c) PROVE Knows(c)'
  <2>1. /\ UNCHANGED <<group, conv>>
        /\ \/ pc'[c] = "idle"
           \/ /\ pc'[c] \in {"conv.part", "conv.place"} /\ call' = call
              /\ member[call[c].by] # None
    BY <1>0, <1>9 DEF Group!Rejoin, Group!Goto, Group!Leave
  <2>2. group # "none"
    BY <1>9 DEF Group!Rejoin
  <2>3. member[call[c].by] # None => member'[call[c].by] # None
    BY <1>0, <1>9, GroupRejoined
  <2>4. QED
    BY <2>1, <2>2, <2>3
<1>10. ASSUME Group!Enroll(c) PROVE Knows(c)'
  BY <1>0, <1>10, GroupRowFacts, GroupAsked, SMTT(30)
     DEF Group!Enroll, Group!Goto, Group!Leave, Group!NewMember, Group!Roles, Group!InGroup
<1>11. ASSUME Group!Clash(c) PROVE Knows(c)'
  BY <1>0, <1>11, GroupRowFacts, GroupAsked
     DEF Group!Clash, Group!Goto, Group!Leave, Group!Reads, Group!rows, Group!InGroup
<1>12. ASSUME Group!FindConv(c) PROVE Knows(c)'
  BY <1>0, <1>12, GroupRowFacts, GroupAsked
     DEF Group!FindConv, Group!Goto, Group!Leave, Group!Reads, Group!rows, Group!AfterConv, Group!InGroup
<1>13. ASSUME Group!FindParticipant(c) PROVE Knows(c)'
  BY <1>0, <1>13, GroupRowFacts, GroupAsked
     DEF Group!FindParticipant, Group!Goto, Group!Reads, Group!rows, Group!InGroup
<1>14. ASSUME Group!Reopen(c) PROVE Knows(c)'
  BY <1>0, <1>14, GroupRowFacts, GroupAsked
     DEF Group!Reopen, Group!Leave, Group!InGroup
<1>15. ASSUME Group!Place(c) PROVE Knows(c)'
  BY <1>0, <1>15, GroupRowFacts, GroupAsked
     DEF Group!Place, Group!Leave, Group!Seated, Group!InGroup
<1>16. ASSUME Group!Out(c) PROVE Knows(c)'
  <2>1. UNCHANGED <<group, conv>> /\ (pc'[c] = "idle" \/ (pc'[c] = "conv.seat" /\ member[Group!Subject(call[c])] # None))
    BY <1>0, <1>16 DEF Group!Out, Group!Goto, Group!Leave
  <2>2. pc'[c] = "conv.seat" => group # "none"
    BY <1>0, <1>16, <2>1, GroupOuted
  <2>3. QED
    BY <2>1, <2>2
<1>17. ASSUME Group!FindSeat(c) PROVE Knows(c)'
  BY <1>0, <1>17, GroupRowFacts, GroupAsked
     DEF Group!FindSeat, Group!Goto, Group!Leave, Group!Reads, Group!rows, Group!InGroup
<1>18. ASSUME Group!Unseat(c) PROVE Knows(c)'
  BY <1>0, <1>18, GroupRowFacts, GroupAsked
     DEF Group!Unseat, Group!Leave, Group!InGroup
<1>19. ASSUME Group!Count(c) PROVE Knows(c)'
  BY <1>0, <1>19, GroupRowFacts, GroupAsked
     DEF Group!Count, Group!Leave, Group!Reads, Group!rows, Group!InGroup
<1>20. ASSUME Group!Enlist(c) PROVE Knows(c)'
  <2>1. CASE group # "live"
    BY <1>0, <1>20, <2>1 DEF Group!Enlist, Group!Leave
  <2>2. CASE group = "live"
    <3>1. PICK u \in todo[c] :
            /\ member' = [member EXCEPT ![u] = IF member[u] = None THEN Group!NewMember ELSE member[u]]
            /\ todo' = [todo EXCEPT ![c] = todo[c] \ {u}]
            /\ pc' = [pc EXCEPT ![c] = IF todo[c] = {u} THEN "goc" ELSE "enlist"]
            /\ UNCHANGED <<call, saw, group, conv>>
      BY <1>20, <2>2 DEF Group!Enlist
    <3>2. u \in Users /\ pc[c] = "enlist"
      BY <1>0, <1>20 DEF Group!Enlist
    <3>3. member'[u] # None /\ \A v \in Users : member[v] # None => member'[v] # None
      BY <1>0, <3>1, <3>2, GroupRowFacts
    <3>4. call[c].to \subseteq Users /\ call[c].kind = "add"
      BY <1>0, <3>2, GroupAsked
    <3>5. \A v \in call[c].to \ todo'[c] : member'[v] # None
      BY <1>0, <2>2, <3>1, <3>2, <3>3, <3>4
    <3>6. pc'[c] = "goc" => todo'[c] = {}
      BY <1>0, <3>1
    <3>7. QED
      BY <1>0, <2>2, <3>1, <3>2, <3>4, <3>5, <3>6
  <2>3. QED
    BY <2>1, <2>2
<1>21. ASSUME Group!SeatAll(c) PROVE Knows(c)'
  BY <1>0, <1>21, GroupRowFacts, GroupAsked
     DEF Group!SeatAll, Group!Leave, Group!Seated, Group!InGroup
<1>22. ASSUME Group!Find(c) PROVE Knows(c)'
  BY <1>0, <1>22, GroupRowFacts, GroupAsked
     DEF Group!Find, Group!Goto, Group!Leave, Group!Reads, Group!rows, Group!Resume, Group!InGroup
<1>23. ASSUME Group!Create(c) PROVE Knows(c)'
  BY <1>0, <1>23, GroupRowFacts, GroupAsked
     DEF Group!Create, Group!Goto, Group!Leave, Group!InGroup
<1>24. ASSUME Group!ReadMembers(c) PROVE Knows(c)'
  BY <1>0, <1>24, GroupRowFacts, GroupAsked
     DEF Group!ReadMembers, Group!Reads, Group!rows, Group!Members, Group!InGroup
<1>25. ASSUME Group!Fill(c) PROVE Knows(c)'
  BY <1>0, <1>25, GroupRowFacts, GroupAsked
     DEF Group!Fill, Group!Leave, Group!Resume, Group!Seated, Group!InGroup
<1>26. ASSUME Group!FindSender(c) PROVE Knows(c)'
  BY <1>0, <1>26, GroupRowFacts, GroupAsked
     DEF Group!FindSender, Group!Goto, Group!Leave, Group!Reads, Group!rows, Group!InGroup
<1>27. ASSUME Group!Post(c) PROVE Knows(c)'
  BY <1>0, <1>27, GroupRowFacts, GroupAsked
     DEF Group!Post, Group!Leave, Group!InGroup
<1>28. ASSUME Group!FindToClose(c) PROVE Knows(c)'
  BY <1>0, <1>28, GroupRowFacts, GroupAsked
     DEF Group!FindToClose, Group!Goto, Group!Leave, Group!Reads, Group!rows, Group!InGroup
<1>29. ASSUME Group!Close(c) PROVE Knows(c)'
  BY <1>0, <1>29, GroupRowFacts, GroupAsked
     DEF Group!Close, Group!Leave, Group!InGroup
<1>30. ASSUME Group!Crash(c) PROVE Knows(c)'
  BY <1>0, <1>30, GroupRowFacts, GroupAsked
     DEF Group!Crash, Group!Leave, Group!rows, Group!InGroup
<1>31. QED
  BY <1>1, <1>2, <1>3, <1>4, <1>5, <1>6, <1>7, <1>8, <1>9, <1>10, <1>11, <1>12, <1>13, <1>14, <1>15, <1>16, <1>17, <1>18, <1>19, <1>20, <1>21, <1>22, <1>23, <1>24, <1>25, <1>26, <1>27, <1>28, <1>29, <1>30 DEF Group!Handle

(* A request serves what it was asked, and what was noticed stays noticed. *)
GroupServes ==
  /\ \A d \in GroupCalls : pc'[d] # "idle" => pc[d] # "idle" /\ call'[d] = call[d]
  /\ raced \subseteq raced' /\ demoting' = demoting

(* A request serves what it was asked, until it is answered. *)
LEMMA GroupServe ==
  ASSUME Group!GroupsAssumption, Group!TypeOK, NEW c \in GroupCalls, Group!Handle(c)
  PROVE  GroupServes \/ Group!Start(c)
<1>0. GroupSlots /\ GroupTables
  BY GroupTypes
<1> USE DEF GroupServes, GroupSlots
<1>1. ASSUME Group!Start(c) PROVE GroupServes \/ Group!Start(c)
  BY <1>0, <1>1, GroupKinds DEF Group!Start, Group!First, Group!Kinds, Group!rows
<1>2. ASSUME Group!CreateGroup(c) PROVE GroupServes \/ Group!Start(c)
  BY <1>0, <1>2
     DEF Group!CreateGroup, Group!Leave
<1>3. ASSUME Group!CheckPermission(c) PROVE GroupServes \/ Group!Start(c)
  BY <1>0, <1>3
     DEF Group!CheckPermission, Group!Goto, Group!Leave, Group!Reads, Group!rows, Group!Permitted, Group!SelfBarred, Group!AfterPerm
<1>4. ASSUME Group!Erase(c) PROVE GroupServes \/ Group!Start(c)
  BY <1>0, <1>4
     DEF Group!Erase, Group!Leave
<1>5. ASSUME Group!WriteRole(c) PROVE GroupServes \/ Group!Start(c)
  BY <1>0, <1>5
     DEF Group!WriteRole, Group!Leave
<1>6. ASSUME Group!FindGroup(c) PROVE GroupServes \/ Group!Start(c)
  BY <1>0, <1>6
     DEF Group!FindGroup, Group!Goto, Group!Leave, Group!Reads, Group!rows
<1>7. ASSUME Group!FindActive(c) PROVE GroupServes \/ Group!Start(c)
  BY <1>0, <1>7
     DEF Group!FindActive, Group!Goto, Group!Leave, Group!Reads, Group!rows
<1>8. ASSUME Group!FindFormer(c) PROVE GroupServes \/ Group!Start(c)
  BY <1>0, <1>8
     DEF Group!FindFormer, Group!Goto, Group!Reads, Group!rows
<1>9. ASSUME Group!Rejoin(c) PROVE GroupServes \/ Group!Start(c)
  BY <1>0, <1>9
     DEF Group!Rejoin, Group!Goto, Group!Leave
<1>10. ASSUME Group!Enroll(c) PROVE GroupServes \/ Group!Start(c)
  BY <1>0, <1>10
     DEF Group!Enroll, Group!Goto, Group!Leave, Group!NewMember, Group!Roles
<1>11. ASSUME Group!Clash(c) PROVE GroupServes \/ Group!Start(c)
  BY <1>0, <1>11
     DEF Group!Clash, Group!Goto, Group!Leave, Group!Reads, Group!rows
<1>12. ASSUME Group!FindConv(c) PROVE GroupServes \/ Group!Start(c)
  BY <1>0, <1>12
     DEF Group!FindConv, Group!Goto, Group!Leave, Group!Reads, Group!rows, Group!AfterConv
<1>13. ASSUME Group!FindParticipant(c) PROVE GroupServes \/ Group!Start(c)
  BY <1>0, <1>13
     DEF Group!FindParticipant, Group!Goto, Group!Reads, Group!rows
<1>14. ASSUME Group!Reopen(c) PROVE GroupServes \/ Group!Start(c)
  BY <1>0, <1>14
     DEF Group!Reopen, Group!Leave
<1>15. ASSUME Group!Place(c) PROVE GroupServes \/ Group!Start(c)
  BY <1>0, <1>15
     DEF Group!Place, Group!Leave, Group!Seated
<1>16. ASSUME Group!Out(c) PROVE GroupServes \/ Group!Start(c)
  BY <1>0, <1>16
     DEF Group!Out, Group!Goto, Group!Leave, Group!Subject
<1>17. ASSUME Group!FindSeat(c) PROVE GroupServes \/ Group!Start(c)
  BY <1>0, <1>17
     DEF Group!FindSeat, Group!Goto, Group!Leave, Group!Reads, Group!rows
<1>18. ASSUME Group!Unseat(c) PROVE GroupServes \/ Group!Start(c)
  BY <1>0, <1>18
     DEF Group!Unseat, Group!Leave
<1>19. ASSUME Group!Count(c) PROVE GroupServes \/ Group!Start(c)
  BY <1>0, <1>19
     DEF Group!Count, Group!Leave, Group!Reads, Group!rows
<1>20. ASSUME Group!Enlist(c) PROVE GroupServes \/ Group!Start(c)
  BY <1>0, <1>20
     DEF Group!Enlist, Group!Leave, Group!NewMember, Group!Roles
<1>21. ASSUME Group!SeatAll(c) PROVE GroupServes \/ Group!Start(c)
  BY <1>0, <1>21
     DEF Group!SeatAll, Group!Leave, Group!Seated
<1>22. ASSUME Group!Find(c) PROVE GroupServes \/ Group!Start(c)
  BY <1>0, <1>22
     DEF Group!Find, Group!Goto, Group!Leave, Group!Reads, Group!rows, Group!Resume
<1>23. ASSUME Group!Create(c) PROVE GroupServes \/ Group!Start(c)
  BY <1>0, <1>23
     DEF Group!Create, Group!Goto, Group!Leave
<1>24. ASSUME Group!ReadMembers(c) PROVE GroupServes \/ Group!Start(c)
  BY <1>0, <1>24
     DEF Group!ReadMembers, Group!Reads, Group!rows, Group!Members
<1>25. ASSUME Group!Fill(c) PROVE GroupServes \/ Group!Start(c)
  BY <1>0, <1>25
     DEF Group!Fill, Group!Leave, Group!Resume, Group!Seated
<1>26. ASSUME Group!FindSender(c) PROVE GroupServes \/ Group!Start(c)
  BY <1>0, <1>26
     DEF Group!FindSender, Group!Goto, Group!Leave, Group!Reads, Group!rows
<1>27. ASSUME Group!Post(c) PROVE GroupServes \/ Group!Start(c)
  BY <1>0, <1>27
     DEF Group!Post, Group!Leave
<1>28. ASSUME Group!FindToClose(c) PROVE GroupServes \/ Group!Start(c)
  BY <1>0, <1>28
     DEF Group!FindToClose, Group!Goto, Group!Leave, Group!Reads, Group!rows
<1>29. ASSUME Group!Close(c) PROVE GroupServes \/ Group!Start(c)
  BY <1>0, <1>29
     DEF Group!Close, Group!Leave
<1>30. ASSUME Group!Crash(c) PROVE GroupServes \/ Group!Start(c)
  BY <1>0, <1>30
     DEF Group!Crash, Group!Leave, Group!rows
<1>31. QED
  BY <1>1, <1>2, <1>3, <1>4, <1>5, <1>6, <1>7, <1>8, <1>9, <1>10, <1>11, <1>12, <1>13, <1>14, <1>15, <1>16, <1>17, <1>18, <1>19, <1>20, <1>21, <1>22, <1>23, <1>24, <1>25, <1>26, <1>27, <1>28, <1>29, <1>30 DEF Group!Handle

(* Only the change of a role changes a role. *)
GroupRoles ==
  /\ group' = "live" => group = "live" \/ \E u \in Users : member'[u] # None /\ member'[u].role \in Group!Managers
  /\ \A u \in Users : group' = "live" /\ member[u] # None => member'[u] # None /\ member'[u].role = member[u].role

(* Only WriteRole changes a role. *)
LEMMA GroupRole ==
  ASSUME Group!GroupsAssumption, Group!TypeOK, GroupAsking, NEW c \in GroupCalls, Group!Handle(c)
  PROVE  GroupRoles \/ Group!WriteRole(c)
<1>0. GroupSlots /\ GroupTables
  BY GroupTypes
<1> USE DEF GroupRoles, GroupSlots, GroupTables
<1>1. ASSUME Group!Start(c) PROVE GroupRoles \/ Group!WriteRole(c)
  BY <1>0, <1>1, GroupKinds, GroupRowFacts DEF Group!Start, Group!First, Group!Kinds, Group!rows
<1>2. ASSUME Group!CreateGroup(c) PROVE GroupRoles \/ Group!WriteRole(c)
  <2>1. call[c].by \in Users
    BY <1>0, <1>2, GroupAsked DEF Group!CreateGroup
  <2>2. CASE group = "none"
    <3>1. member' = [member EXCEPT ![call[c].by] = [role |-> "admin", in |-> TRUE]]
      BY <1>2, <2>2 DEF Group!CreateGroup
    <3>2. [role |-> "admin", in |-> TRUE] # None
      <4>1. [role |-> "admin", in |-> TRUE] \in GroupRow
        BY DEF GroupRow, Group!Roles
      <4>2. QED
        BY <4>1, GroupRowFacts
    <3>3. member'[call[c].by] # None /\ member'[call[c].by].role = "admin"
      BY <1>0, <2>1, <3>1, <3>2
    <3>4. QED
      BY <1>0, <2>1, <2>2, <3>3 DEF Group!Managers
  <2>3. CASE group # "none"
    BY <1>2, <2>3 DEF Group!CreateGroup
  <2>4. QED
    BY <2>2, <2>3
<1>3. ASSUME Group!CheckPermission(c) PROVE GroupRoles \/ Group!WriteRole(c)
  BY <1>0, <1>3, GroupRowFacts
     DEF Group!CheckPermission, Group!Goto, Group!Leave, Group!Reads, Group!rows, Group!Permitted, Group!SelfBarred, Group!AfterPerm
<1>4. ASSUME Group!Erase(c) PROVE GroupRoles \/ Group!WriteRole(c)
  BY <1>0, <1>4, GroupRowFacts
     DEF Group!Erase, Group!Leave
<1>5. ASSUME Group!WriteRole(c) PROVE GroupRoles \/ Group!WriteRole(c)
  BY <1>5
<1>6. ASSUME Group!FindGroup(c) PROVE GroupRoles \/ Group!WriteRole(c)
  BY <1>0, <1>6, GroupRowFacts
     DEF Group!FindGroup, Group!Goto, Group!Leave, Group!Reads, Group!rows
<1>7. ASSUME Group!FindActive(c) PROVE GroupRoles \/ Group!WriteRole(c)
  BY <1>0, <1>7, GroupRowFacts
     DEF Group!FindActive, Group!Goto, Group!Leave, Group!Reads, Group!rows
<1>8. ASSUME Group!FindFormer(c) PROVE GroupRoles \/ Group!WriteRole(c)
  BY <1>0, <1>8, GroupRowFacts
     DEF Group!FindFormer, Group!Goto, Group!Reads, Group!rows
<1>9. ASSUME Group!Rejoin(c) PROVE GroupRoles \/ Group!WriteRole(c)
  <2>1. UNCHANGED group
    BY <1>9 DEF Group!Rejoin
  <2>2. QED
    BY <1>0, <1>9, <2>1, GroupRejoined
<1>10. ASSUME Group!Enroll(c) PROVE GroupRoles \/ Group!WriteRole(c)
  BY <1>0, <1>10, GroupRowFacts
     DEF Group!Enroll, Group!Goto, Group!Leave, Group!NewMember, Group!Roles
<1>11. ASSUME Group!Clash(c) PROVE GroupRoles \/ Group!WriteRole(c)
  BY <1>0, <1>11, GroupRowFacts
     DEF Group!Clash, Group!Goto, Group!Leave, Group!Reads, Group!rows
<1>12. ASSUME Group!FindConv(c) PROVE GroupRoles \/ Group!WriteRole(c)
  BY <1>0, <1>12, GroupRowFacts
     DEF Group!FindConv, Group!Goto, Group!Leave, Group!Reads, Group!rows, Group!AfterConv
<1>13. ASSUME Group!FindParticipant(c) PROVE GroupRoles \/ Group!WriteRole(c)
  BY <1>0, <1>13, GroupRowFacts
     DEF Group!FindParticipant, Group!Goto, Group!Reads, Group!rows
<1>14. ASSUME Group!Reopen(c) PROVE GroupRoles \/ Group!WriteRole(c)
  BY <1>0, <1>14, GroupRowFacts
     DEF Group!Reopen, Group!Leave
<1>15. ASSUME Group!Place(c) PROVE GroupRoles \/ Group!WriteRole(c)
  BY <1>0, <1>15, GroupRowFacts
     DEF Group!Place, Group!Leave, Group!Seated
<1>16. ASSUME Group!Out(c) PROVE GroupRoles \/ Group!WriteRole(c)
  <2>1. UNCHANGED group
    BY <1>16 DEF Group!Out
  <2>2. QED
    BY <1>0, <1>16, <2>1, GroupOuted
<1>17. ASSUME Group!FindSeat(c) PROVE GroupRoles \/ Group!WriteRole(c)
  BY <1>0, <1>17, GroupRowFacts
     DEF Group!FindSeat, Group!Goto, Group!Leave, Group!Reads, Group!rows
<1>18. ASSUME Group!Unseat(c) PROVE GroupRoles \/ Group!WriteRole(c)
  BY <1>0, <1>18, GroupRowFacts
     DEF Group!Unseat, Group!Leave
<1>19. ASSUME Group!Count(c) PROVE GroupRoles \/ Group!WriteRole(c)
  BY <1>0, <1>19, GroupRowFacts
     DEF Group!Count, Group!Leave, Group!Reads, Group!rows
<1>20. ASSUME Group!Enlist(c) PROVE GroupRoles \/ Group!WriteRole(c)
  BY <1>0, <1>20, GroupRowFacts
     DEF Group!Enlist, Group!Leave, Group!NewMember, Group!Roles
<1>21. ASSUME Group!SeatAll(c) PROVE GroupRoles \/ Group!WriteRole(c)
  BY <1>0, <1>21, GroupRowFacts
     DEF Group!SeatAll, Group!Leave, Group!Seated
<1>22. ASSUME Group!Find(c) PROVE GroupRoles \/ Group!WriteRole(c)
  BY <1>0, <1>22, GroupRowFacts
     DEF Group!Find, Group!Goto, Group!Leave, Group!Reads, Group!rows, Group!Resume
<1>23. ASSUME Group!Create(c) PROVE GroupRoles \/ Group!WriteRole(c)
  BY <1>0, <1>23, GroupRowFacts
     DEF Group!Create, Group!Goto, Group!Leave
<1>24. ASSUME Group!ReadMembers(c) PROVE GroupRoles \/ Group!WriteRole(c)
  BY <1>0, <1>24, GroupRowFacts
     DEF Group!ReadMembers, Group!Reads, Group!rows, Group!Members
<1>25. ASSUME Group!Fill(c) PROVE GroupRoles \/ Group!WriteRole(c)
  BY <1>0, <1>25, GroupRowFacts
     DEF Group!Fill, Group!Leave, Group!Resume, Group!Seated
<1>26. ASSUME Group!FindSender(c) PROVE GroupRoles \/ Group!WriteRole(c)
  BY <1>0, <1>26, GroupRowFacts
     DEF Group!FindSender, Group!Goto, Group!Leave, Group!Reads, Group!rows
<1>27. ASSUME Group!Post(c) PROVE GroupRoles \/ Group!WriteRole(c)
  BY <1>0, <1>27, GroupRowFacts
     DEF Group!Post, Group!Leave
<1>28. ASSUME Group!FindToClose(c) PROVE GroupRoles \/ Group!WriteRole(c)
  BY <1>0, <1>28, GroupRowFacts
     DEF Group!FindToClose, Group!Goto, Group!Leave, Group!Reads, Group!rows
<1>29. ASSUME Group!Close(c) PROVE GroupRoles \/ Group!WriteRole(c)
  BY <1>0, <1>29, GroupRowFacts
     DEF Group!Close, Group!Leave
<1>30. ASSUME Group!Crash(c) PROVE GroupRoles \/ Group!WriteRole(c)
  BY <1>0, <1>30, GroupRowFacts
     DEF Group!Crash, Group!Leave, Group!rows
<1>31. QED
  BY <1>1, <1>2, <1>3, <1>4, <1>5, <1>6, <1>7, <1>8, <1>9, <1>10, <1>11, <1>12, <1>13, <1>14, <1>15, <1>16, <1>17, <1>18, <1>19, <1>20, <1>21, <1>22, <1>23, <1>24, <1>25, <1>26, <1>27, <1>28, <1>29, <1>30 DEF Group!Handle

(* Requests about one user meet unnoticed never. *)
LEMMA GroupMeets ==
  ASSUME Group!GroupsAssumption, GroupSlots, GroupAlone, NEW c \in GroupCalls, Group!Start(c)
  PROVE  GroupAlone'
<1>1. PICK r \in GroupRequests :
        /\ call' = [call EXCEPT ![c] = r] /\ pc' = [pc EXCEPT ![c] = Group!First[r.kind]]
        /\ raced' = raced \cup UNION {Group!About(r) \cap Group!About(call[d]) : d \in {e \in GroupCalls : Group!Active(e)}}
  BY DEF Group!Start
<1>2. pc[c] = "idle"
  BY DEF Group!Start
<1>3. /\ call'[c] = r /\ \A d \in GroupCalls \ {c} : call'[d] = call[d] /\ pc'[d] = pc[d]
  BY <1>1 DEF GroupSlots
<1>4. ASSUME NEW d \in GroupCalls \ {c}, NEW u \in Users, Concerns(d, u)', u \in Group!About(r) PROVE u \in raced'
  <2>1. Group!Active(d) /\ u \in Group!About(call[d])
    BY <1>3, <1>4 DEF Concerns, Group!Active
  <2>2. QED
    BY <1>1, <1>4, <2>1
<1>5. ASSUME NEW d \in GroupCalls, NEW e \in GroupCalls, NEW u \in Users, d # e, Concerns(d, u)', Concerns(e, u)' PROVE u \in raced'
  <2>1. CASE d = c
    BY <1>3, <1>4, <1>5, <2>1 DEF Concerns
  <2>2. CASE e = c
    BY <1>3, <1>4, <1>5, <2>2 DEF Concerns
  <2>3. CASE d # c /\ e # c
    BY <1>1, <1>3, <1>5, <2>3 DEF Concerns, GroupAlone, Group!Active
  <2>4. QED
    BY <2>1, <2>2, <2>3
<1>6. QED
  BY <1>5 DEF GroupAlone

(* Requests that were never alone with a user stay so. *)
LEMMA GroupAlways ==
  ASSUME Group!GroupsAssumption, Group!TypeOK, GroupAlone, NEW c \in GroupCalls, Group!Handle(c)
  PROVE  GroupAlone'
<1>1. CASE Group!Start(c)
  BY <1>1, GroupMeets, GroupTypes
<1>2. CASE GroupServes
  <2>1. \A d \in GroupCalls, u \in Users : Concerns(d, u)' => Concerns(d, u)
    BY <1>2 DEF Concerns, GroupServes, Group!Active
  <2>2. QED
    BY <1>2, <2>1 DEF GroupAlone, GroupServes
<1>3. QED
  BY <1>1, <1>2, GroupServe

(* A role is written after the permission was checked. *)
LEMMA GroupWriting ==
  ASSUME Group!GroupsAssumption, Group!TypeOK, GroupAsking, NEW c \in GroupCalls, Group!Handle(c)
  PROVE  Group!CheckPermission(c) \/ pc'[c] # "write" \/ pc[c] = "write"
<1>0. GroupSlots /\ GroupTables
  BY GroupTypes
<1> USE DEF GroupSlots
<1>1. ASSUME Group!Start(c) PROVE Group!CheckPermission(c) \/ pc'[c] # "write" \/ pc[c] = "write"
  BY <1>0, <1>1, GroupKinds DEF Group!Start, Group!First, Group!Kinds, Group!rows
<1>2. ASSUME Group!CreateGroup(c) PROVE Group!CheckPermission(c) \/ pc'[c] # "write" \/ pc[c] = "write"
  BY <1>0, <1>2
     DEF Group!CreateGroup, Group!Leave
<1>3. ASSUME Group!CheckPermission(c) PROVE Group!CheckPermission(c) \/ pc'[c] # "write" \/ pc[c] = "write"
  BY <1>0, <1>3
     DEF Group!CheckPermission, Group!Goto, Group!Leave, Group!Reads, Group!rows, Group!Permitted, Group!SelfBarred, Group!AfterPerm
<1>4. ASSUME Group!Erase(c) PROVE Group!CheckPermission(c) \/ pc'[c] # "write" \/ pc[c] = "write"
  BY <1>0, <1>4
     DEF Group!Erase, Group!Leave
<1>5. ASSUME Group!WriteRole(c) PROVE Group!CheckPermission(c) \/ pc'[c] # "write" \/ pc[c] = "write"
  BY <1>0, <1>5
     DEF Group!WriteRole, Group!Leave
<1>6. ASSUME Group!FindGroup(c) PROVE Group!CheckPermission(c) \/ pc'[c] # "write" \/ pc[c] = "write"
  BY <1>0, <1>6
     DEF Group!FindGroup, Group!Goto, Group!Leave, Group!Reads, Group!rows
<1>7. ASSUME Group!FindActive(c) PROVE Group!CheckPermission(c) \/ pc'[c] # "write" \/ pc[c] = "write"
  BY <1>0, <1>7
     DEF Group!FindActive, Group!Goto, Group!Leave, Group!Reads, Group!rows
<1>8. ASSUME Group!FindFormer(c) PROVE Group!CheckPermission(c) \/ pc'[c] # "write" \/ pc[c] = "write"
  BY <1>0, <1>8
     DEF Group!FindFormer, Group!Goto, Group!Reads, Group!rows
<1>9. ASSUME Group!Rejoin(c) PROVE Group!CheckPermission(c) \/ pc'[c] # "write" \/ pc[c] = "write"
  BY <1>0, <1>9
     DEF Group!Rejoin, Group!Goto, Group!Leave
<1>10. ASSUME Group!Enroll(c) PROVE Group!CheckPermission(c) \/ pc'[c] # "write" \/ pc[c] = "write"
  BY <1>0, <1>10
     DEF Group!Enroll, Group!Goto, Group!Leave, Group!NewMember, Group!Roles
<1>11. ASSUME Group!Clash(c) PROVE Group!CheckPermission(c) \/ pc'[c] # "write" \/ pc[c] = "write"
  BY <1>0, <1>11
     DEF Group!Clash, Group!Goto, Group!Leave, Group!Reads, Group!rows
<1>12. ASSUME Group!FindConv(c) PROVE Group!CheckPermission(c) \/ pc'[c] # "write" \/ pc[c] = "write"
  BY <1>0, <1>12
     DEF Group!FindConv, Group!Goto, Group!Leave, Group!Reads, Group!rows, Group!AfterConv
<1>13. ASSUME Group!FindParticipant(c) PROVE Group!CheckPermission(c) \/ pc'[c] # "write" \/ pc[c] = "write"
  BY <1>0, <1>13
     DEF Group!FindParticipant, Group!Goto, Group!Reads, Group!rows
<1>14. ASSUME Group!Reopen(c) PROVE Group!CheckPermission(c) \/ pc'[c] # "write" \/ pc[c] = "write"
  BY <1>0, <1>14
     DEF Group!Reopen, Group!Leave
<1>15. ASSUME Group!Place(c) PROVE Group!CheckPermission(c) \/ pc'[c] # "write" \/ pc[c] = "write"
  BY <1>0, <1>15
     DEF Group!Place, Group!Leave, Group!Seated
<1>16. ASSUME Group!Out(c) PROVE Group!CheckPermission(c) \/ pc'[c] # "write" \/ pc[c] = "write"
  BY <1>0, <1>16
     DEF Group!Out, Group!Goto, Group!Leave, Group!Subject
<1>17. ASSUME Group!FindSeat(c) PROVE Group!CheckPermission(c) \/ pc'[c] # "write" \/ pc[c] = "write"
  BY <1>0, <1>17
     DEF Group!FindSeat, Group!Goto, Group!Leave, Group!Reads, Group!rows
<1>18. ASSUME Group!Unseat(c) PROVE Group!CheckPermission(c) \/ pc'[c] # "write" \/ pc[c] = "write"
  BY <1>0, <1>18
     DEF Group!Unseat, Group!Leave
<1>19. ASSUME Group!Count(c) PROVE Group!CheckPermission(c) \/ pc'[c] # "write" \/ pc[c] = "write"
  BY <1>0, <1>19
     DEF Group!Count, Group!Leave, Group!Reads, Group!rows
<1>20. ASSUME Group!Enlist(c) PROVE Group!CheckPermission(c) \/ pc'[c] # "write" \/ pc[c] = "write"
  BY <1>0, <1>20
     DEF Group!Enlist, Group!Leave, Group!NewMember, Group!Roles
<1>21. ASSUME Group!SeatAll(c) PROVE Group!CheckPermission(c) \/ pc'[c] # "write" \/ pc[c] = "write"
  BY <1>0, <1>21
     DEF Group!SeatAll, Group!Leave, Group!Seated
<1>22. ASSUME Group!Find(c) PROVE Group!CheckPermission(c) \/ pc'[c] # "write" \/ pc[c] = "write"
  BY <1>0, <1>22
     DEF Group!Find, Group!Goto, Group!Leave, Group!Reads, Group!rows, Group!Resume
<1>23. ASSUME Group!Create(c) PROVE Group!CheckPermission(c) \/ pc'[c] # "write" \/ pc[c] = "write"
  BY <1>0, <1>23
     DEF Group!Create, Group!Goto, Group!Leave
<1>24. ASSUME Group!ReadMembers(c) PROVE Group!CheckPermission(c) \/ pc'[c] # "write" \/ pc[c] = "write"
  BY <1>0, <1>24
     DEF Group!ReadMembers, Group!Reads, Group!rows, Group!Members
<1>25. ASSUME Group!Fill(c) PROVE Group!CheckPermission(c) \/ pc'[c] # "write" \/ pc[c] = "write"
  BY <1>0, <1>25
     DEF Group!Fill, Group!Leave, Group!Resume, Group!Seated
<1>26. ASSUME Group!FindSender(c) PROVE Group!CheckPermission(c) \/ pc'[c] # "write" \/ pc[c] = "write"
  BY <1>0, <1>26
     DEF Group!FindSender, Group!Goto, Group!Leave, Group!Reads, Group!rows
<1>27. ASSUME Group!Post(c) PROVE Group!CheckPermission(c) \/ pc'[c] # "write" \/ pc[c] = "write"
  BY <1>0, <1>27
     DEF Group!Post, Group!Leave
<1>28. ASSUME Group!FindToClose(c) PROVE Group!CheckPermission(c) \/ pc'[c] # "write" \/ pc[c] = "write"
  BY <1>0, <1>28
     DEF Group!FindToClose, Group!Goto, Group!Leave, Group!Reads, Group!rows
<1>29. ASSUME Group!Close(c) PROVE Group!CheckPermission(c) \/ pc'[c] # "write" \/ pc[c] = "write"
  BY <1>0, <1>29
     DEF Group!Close, Group!Leave
<1>30. ASSUME Group!Crash(c) PROVE Group!CheckPermission(c) \/ pc'[c] # "write" \/ pc[c] = "write"
  BY <1>0, <1>30
     DEF Group!Crash, Group!Leave, Group!rows
<1>31. QED
  BY <1>1, <1>2, <1>3, <1>4, <1>5, <1>6, <1>7, <1>8, <1>9, <1>10, <1>11, <1>12, <1>13, <1>14, <1>15, <1>16, <1>17, <1>18, <1>19, <1>20, <1>21, <1>22, <1>23, <1>24, <1>25, <1>26, <1>27, <1>28, <1>29, <1>30 DEF Group!Handle

(* Somebody stays in charge. *)
LEMMA GroupLeads ==
  ASSUME Group!GroupsAssumption, Group!TypeOK, GroupAsking, GroupKnows, GroupLed, NEW c \in GroupCalls, Group!Handle(c)
  PROVE  GroupLed'
<1>0. GroupSlots /\ GroupTables
  BY GroupTypes
<1>1. CASE Group!Start(c)
  <2>1. PICK r \in GroupRequests :
        /\ call' = [call EXCEPT ![c] = r] /\ pc' = [pc EXCEPT ![c] = Group!First[r.kind]]
        /\ demoting' = (demoting \/ (r.kind = "role" /\ \E d \in {e \in GroupCalls : Group!Active(e)} : call[d].kind = "role"))
    BY <1>1 DEF Group!Start
  <2>2. UNCHANGED <<group, member>> /\ Group!First[r.kind] # "write"
    BY <1>1, GroupKinds DEF Group!Start, Group!rows, Group!First, Group!Kinds
  <2>3. call'[c] = r /\ pc'[c] # "write" /\ \A d \in GroupCalls \ {c} : call'[d] = call[d] /\ pc'[d] = pc[d]
    BY <1>0, <2>1, <2>2 DEF GroupSlots
  <2>4. ASSUME ~demoting', NEW d \in GroupCalls \ {c}, Group!Active(d)' PROVE ~(r.kind = "role" /\ call[d].kind = "role")
    <3>1. Group!Active(d)
      BY <2>3, <2>4 DEF Group!Active
    <3>2. QED
      BY <2>1, <2>4, <3>1
  <2>5. ~demoting' => ~demoting
    BY <2>1
  <2>6. ASSUME ~demoting', NEW d \in GroupCalls, NEW e \in GroupCalls, d # e, Group!Active(d)', Group!Active(e)'
        PROVE  ~(call'[d].kind = "role" /\ call'[e].kind = "role")
    BY <2>3, <2>4, <2>5, <2>6 DEF GroupLed, Group!Active
  <2>7. QED
    BY <2>2, <2>3, <2>5, <2>6 DEF GroupLed, InCharge
<1>2. CASE GroupServes /\ ~Group!WriteRole(c)
  <2>1. ASSUME ~demoting', NEW d \in GroupCalls, NEW e \in GroupCalls, d # e, Group!Active(d)', Group!Active(e)'
        PROVE  ~(call'[d].kind = "role" /\ call'[e].kind = "role")
    BY <1>2, <2>1 DEF GroupLed, Group!Active, GroupServes
  <2>2. GroupRoles
    BY <1>2, GroupRole
  <2>3. \A u \in Users : group' = "live" /\ InCharge(u) => InCharge(u)'
    BY <2>2 DEF GroupRoles, InCharge
  <2>4. ~demoting' /\ group' = "live" => \E u \in Users : InCharge(u)'
    BY <1>2, <2>2, <2>3 DEF GroupRoles, GroupLed, GroupServes, InCharge
  <2>5. ASSUME ~demoting', group' = "live", NEW d \in GroupCalls, pc'[d] = "write" PROVE InCharge(call[d].by)' /\ call'[d].by \notin call'[d].to
    <3>1. call[d] = call'[d] /\ pc[d] # "idle" /\ call[d].by \in Users
      BY <1>0, <1>2, <2>5, GroupAsked DEF GroupServes
    <3>2. CASE pc[d] = "write"
      <4>1. group # "none"
        BY <3>2 DEF GroupKnows, Knows
      <4>2. group = "live"
        BY <1>0, <2>5, <4>1, GroupGrow DEF GroupGrows, GroupTables
      <4>3. QED
        BY <1>2, <2>3, <2>5, <3>1, <3>2, <4>2 DEF GroupLed, GroupServes
    <3>3. CASE pc[d] # "write"
      <4>1. d = c
        BY <2>5, <3>3, GroupOther DEF GroupOthers
      <4>2. Group!CheckPermission(c)
        BY <1>2, <2>5, <4>1, <3>3, GroupWriting
      <4>3. Group!Permitted(call[c]) /\ UNCHANGED <<group, member>> /\ call[c].kind = "role"
        BY <1>0, <2>5, <4>1, <4>2 DEF Group!CheckPermission, Group!Leave, Group!Goto, Group!Reads, Group!rows, GroupSlots, Group!AfterPerm, GroupAsking, Group!Active
      <4>4. PICK v \in Users : call[c].to = {v}
        BY <1>0, <4>1, <4>3, <3>1, GroupAsked DEF Group!GroupsAssumption
      <4>5. QED
        BY <3>1, <4>1, <4>3, <4>4 DEF Group!Permitted, Group!SelfBarred, InCharge, Group!Managers
    <3>4. QED
      BY <3>2, <3>3
  <2>6. QED
    BY <2>1, <2>4, <2>5 DEF GroupLed
<1>3. CASE Group!WriteRole(c)
  <2>1. pc[c] = "write" /\ pc'[c] = "idle" /\ UNCHANGED <<group, demoting>> /\ call[c].kind = "role" /\ call[c].by \in Users
    BY <1>0, <1>3, GroupAsked DEF Group!WriteRole, Group!Leave, GroupSlots, GroupAsking, Group!Active
  <2>2. GroupOthers(c)
    BY GroupOther
  <2>3. ASSUME ~demoting', NEW d \in GroupCalls, NEW e \in GroupCalls, d # e, Group!Active(d)', Group!Active(e)'
        PROVE  ~(call'[d].kind = "role" /\ call'[e].kind = "role")
    BY <2>1, <2>2, <2>3 DEF GroupLed, Group!Active, GroupOthers
  <2>4. ~demoting' /\ group' = "live" => InCharge(call[c].by) /\ member'[call[c].by] = member[call[c].by]
    BY <1>0, <1>3, <2>1, GroupRoleWritten DEF GroupLed
  <2>5. ~demoting' => \A d \in GroupCalls : pc'[d] # "write"
    BY <2>1, <2>2 DEF GroupLed, GroupOthers, GroupAsking, Group!Active
  <2>6. QED
    BY <2>1, <2>3, <2>4, <2>5 DEF GroupLed, InCharge
<1>4. QED
  BY <1>1, <1>2, <1>3, GroupServe

(* A request changes the records of nobody but those it is about, and does not
   make or unmake the conversation, but for four statements. *)
GroupAway(c) ==
  /\ \A u \in Users : u \notin Group!About(call[c]) =>
       /\ Group!InGroup(u)' <=> Group!InGroup(u)
       /\ member[u] = None => member'[u] = None
       /\ part'[u] = part[u]
  /\ group' = group /\ (conv' = "none" <=> conv = "none")
GroupMakes(c) == Group!Start(c) \/ Group!CreateGroup(c) \/ Group!Erase(c) \/ Group!Create(c) \/ Group!Fill(c)

(* A step leaves the users it is not about as they stand, unless it makes the conversation. *)
LEMMA GroupElsewhere ==
  ASSUME Group!GroupsAssumption, Group!TypeOK, GroupAsking, GroupKnows, NEW c \in GroupCalls, Group!Handle(c)
  PROVE  GroupAway(c) \/ GroupMakes(c)
<1>0. GroupSlots /\ GroupTables
  BY GroupTypes
<1> USE DEF GroupAway, GroupSlots, GroupTables, GroupAsking, Group!About, Group!InGroup, Group!Active
<1>1. ASSUME Group!Start(c) PROVE GroupAway(c) \/ GroupMakes(c)
  BY <1>1 DEF GroupMakes
<1>2. ASSUME Group!CreateGroup(c) PROVE GroupAway(c) \/ GroupMakes(c)
  BY <1>2 DEF GroupMakes
<1>3. ASSUME Group!CheckPermission(c) PROVE GroupAway(c) \/ GroupMakes(c)
  BY <1>0, <1>3, GroupAsked
     DEF Group!CheckPermission, Group!Goto, Group!Leave, Group!Reads, Group!rows, Group!Permitted, Group!SelfBarred, Group!AfterPerm
<1>4. ASSUME Group!Erase(c) PROVE GroupAway(c) \/ GroupMakes(c)
  BY <1>4 DEF GroupMakes
<1>5. ASSUME Group!WriteRole(c) PROVE GroupAway(c) \/ GroupMakes(c)
  BY <1>0, <1>5, GroupRoleWritten
     DEF Group!WriteRole
<1>6. ASSUME Group!FindGroup(c) PROVE GroupAway(c) \/ GroupMakes(c)
  BY <1>0, <1>6, GroupAsked
     DEF Group!FindGroup, Group!Goto, Group!Leave, Group!Reads, Group!rows
<1>7. ASSUME Group!FindActive(c) PROVE GroupAway(c) \/ GroupMakes(c)
  BY <1>0, <1>7, GroupAsked
     DEF Group!FindActive, Group!Goto, Group!Leave, Group!Reads, Group!rows
<1>8. ASSUME Group!FindFormer(c) PROVE GroupAway(c) \/ GroupMakes(c)
  BY <1>0, <1>8, GroupAsked
     DEF Group!FindFormer, Group!Goto, Group!Reads, Group!rows
<1>9. ASSUME Group!Rejoin(c) PROVE GroupAway(c) \/ GroupMakes(c)
  <2>1. Group!About(call[c]) = {call[c].by} /\ UNCHANGED <<group, part, conv>>
    BY <1>0, <1>9 DEF Group!Rejoin
  <2>2. QED
    BY <1>0, <1>9, <2>1, GroupRejoined
<1>10. ASSUME Group!Enroll(c) PROVE GroupAway(c) \/ GroupMakes(c)
  BY <1>0, <1>10, GroupAsked
     DEF Group!Enroll, Group!Goto, Group!Leave, Group!NewMember, Group!Roles
<1>11. ASSUME Group!Clash(c) PROVE GroupAway(c) \/ GroupMakes(c)
  BY <1>0, <1>11, GroupAsked
     DEF Group!Clash, Group!Goto, Group!Leave, Group!Reads, Group!rows
<1>12. ASSUME Group!FindConv(c) PROVE GroupAway(c) \/ GroupMakes(c)
  BY <1>0, <1>12, GroupAsked
     DEF Group!FindConv, Group!Goto, Group!Leave, Group!Reads, Group!rows, Group!AfterConv
<1>13. ASSUME Group!FindParticipant(c) PROVE GroupAway(c) \/ GroupMakes(c)
  BY <1>0, <1>13, GroupAsked
     DEF Group!FindParticipant, Group!Goto, Group!Reads, Group!rows
<1>14. ASSUME Group!Reopen(c) PROVE GroupAway(c) \/ GroupMakes(c)
  BY <1>0, <1>14, GroupAsked
     DEF Group!Reopen, Group!Leave
<1>15. ASSUME Group!Place(c) PROVE GroupAway(c) \/ GroupMakes(c)
  BY <1>0, <1>15, GroupAsked
     DEF Group!Place, Group!Leave, Group!Seated
<1>16. ASSUME Group!Out(c) PROVE GroupAway(c) \/ GroupMakes(c)
  <2>1. UNCHANGED <<group, part, conv>>
    BY <1>0, <1>16 DEF Group!Out
  <2>2. PICK w \in Users : Group!About(call[c]) = {w} /\ \A u \in Users : u # w => member'[u] = member[u]
    <3>1. PICK w \in Users : w = Group!Subject(call[c])
      BY <1>0, <1>16, GroupOuted
    <3>2. Group!About(call[c]) = {w}
      BY <1>0, <1>16, <3>1, GroupOuted
    <3>3. \A u \in Users : u # w => member'[u] = member[u]
      BY <1>0, <1>16, <3>1, GroupOuted
    <3>4. QED
      BY <3>2, <3>3, Zenon
  <2> HIDE DEF Group!About
  <2>3. QED
    BY <2>1, <2>2
<1>17. ASSUME Group!FindSeat(c) PROVE GroupAway(c) \/ GroupMakes(c)
  BY <1>0, <1>17, GroupAsked
     DEF Group!FindSeat, Group!Goto, Group!Leave, Group!Reads, Group!rows
<1>18. ASSUME Group!Unseat(c) PROVE GroupAway(c) \/ GroupMakes(c)
  <2>1. Group!About(call[c]) = {Group!Subject(call[c])} /\ Group!Subject(call[c]) \in Users
    <3>1. pc[c] = "unseat"
      BY <1>18 DEF Group!Unseat
    <3>2. QED
      BY <1>0, <3>1, GroupAsked, GroupSubject
  <2>2. QED
    BY <1>0, <1>18, <2>1 DEF Group!Unseat
<1>19. ASSUME Group!Count(c) PROVE GroupAway(c) \/ GroupMakes(c)
  BY <1>0, <1>19, GroupAsked
     DEF Group!Count, Group!Leave, Group!Reads, Group!rows
<1>20. ASSUME Group!Enlist(c) PROVE GroupAway(c) \/ GroupMakes(c)
  <2>1. Group!About(call[c]) = call[c].to /\ todo[c] \subseteq call[c].to /\ call[c].to \subseteq Users /\ UNCHANGED <<group, part, conv>>
    BY <1>0, <1>20, GroupAsked DEF Group!Enlist, GroupKnows, Knows
  <2>2. member' = member \/ \E v \in todo[c] : member' = [member EXCEPT ![v] = IF member[v] = None THEN Group!NewMember ELSE member[v]]
    BY <1>20 DEF Group!Enlist
  <2>3. QED
    BY <1>0, <2>1, <2>2
<1>21. ASSUME Group!SeatAll(c) PROVE GroupAway(c) \/ GroupMakes(c)
  <2>1. Group!About(call[c]) = call[c].to /\ todo[c] \subseteq call[c].to /\ call[c].to \subseteq Users /\ UNCHANGED <<group, member, conv>>
    BY <1>0, <1>21, GroupAsked DEF Group!SeatAll, GroupKnows, Knows
  <2>2. part' = part \/ \E v \in todo[c] : part' = Group!Seated({v})
    BY <1>21 DEF Group!SeatAll
  <2>3. QED
    BY <1>0, <2>1, <2>2 DEF Group!Seated
<1>22. ASSUME Group!Find(c) PROVE GroupAway(c) \/ GroupMakes(c)
  BY <1>0, <1>22, GroupAsked
     DEF Group!Find, Group!Goto, Group!Leave, Group!Reads, Group!rows, Group!Resume
<1>23. ASSUME Group!Create(c) PROVE GroupAway(c) \/ GroupMakes(c)
  BY <1>23 DEF GroupMakes
<1>24. ASSUME Group!ReadMembers(c) PROVE GroupAway(c) \/ GroupMakes(c)
  BY <1>0, <1>24, GroupAsked
     DEF Group!ReadMembers, Group!Reads, Group!rows, Group!Members
<1>25. ASSUME Group!Fill(c) PROVE GroupAway(c) \/ GroupMakes(c)
  BY <1>25 DEF GroupMakes
<1>26. ASSUME Group!FindSender(c) PROVE GroupAway(c) \/ GroupMakes(c)
  BY <1>0, <1>26, GroupAsked
     DEF Group!FindSender, Group!Goto, Group!Leave, Group!Reads, Group!rows
<1>27. ASSUME Group!Post(c) PROVE GroupAway(c) \/ GroupMakes(c)
  BY <1>0, <1>27, GroupAsked
     DEF Group!Post, Group!Leave
<1>28. ASSUME Group!FindToClose(c) PROVE GroupAway(c) \/ GroupMakes(c)
  BY <1>0, <1>28, GroupAsked
     DEF Group!FindToClose, Group!Goto, Group!Leave, Group!Reads, Group!rows
<1>29. ASSUME Group!Close(c) PROVE GroupAway(c) \/ GroupMakes(c)
  BY <1>0, <1>29, GroupAsked
     DEF Group!Close, Group!Leave
<1>30. ASSUME Group!Crash(c) PROVE GroupAway(c) \/ GroupMakes(c)
  BY <1>0, <1>30, GroupAsked
     DEF Group!Crash, Group!Leave, Group!rows
<1>31. QED
  BY <1>1, <1>2, <1>3, <1>4, <1>5, <1>6, <1>7, <1>8, <1>9, <1>10, <1>11, <1>12, <1>13, <1>14, <1>15, <1>16, <1>17, <1>18, <1>19, <1>20, <1>21, <1>22, <1>23, <1>24, <1>25, <1>26, <1>27, <1>28, <1>29, <1>30 DEF Group!Handle

(* A filler is not lost by the steps of others. *)
LEMMA GroupAwaits ==
  ASSUME NEW c \in GroupCalls, GroupOthers(c), pc[c] \notin {"goc.read", "goc.fill"}, NEW u \in Users, Awaited(u)
  PROVE  Awaited(u)'
BY SMTT(30) DEF GroupOthers, Awaited

(* What the only request about a user does next. *)
LEMMA GroupOwn ==
  ASSUME Group!GroupsAssumption, Group!TypeOK, GroupAsking, GroupKnows, NEW c \in GroupCalls, Group!Handle(c),
         NEW u \in Users, u \notin raced', Concerns(c, u), group = "live", group' = "live", Phase(c, u)
  PROVE  (Concerns(c, u)' => Phase(c, u)') /\ (~Concerns(c, u)' => Resting(u)')
<1>0. GroupSlots /\ GroupTables
  BY GroupTypes
<1>a. pc[c] \notin {"goc.read", "goc.fill"} => (Awaited(u) => Awaited(u)')
  BY GroupOther, GroupAwaits
<1> USE DEF GroupSlots, GroupTables, GroupAsking, Concerns, Phase, Resting, Group!About, Group!InGroup, Group!Active
<1>1. ASSUME Group!Start(c) PROVE (Concerns(c, u)' => Phase(c, u)') /\ (~Concerns(c, u)' => Resting(u)')
  BY <1>1 DEF Group!Start
<1>2. ASSUME Group!CreateGroup(c) PROVE (Concerns(c, u)' => Phase(c, u)') /\ (~Concerns(c, u)' => Resting(u)')
  BY <1>0, <1>a, <1>2, GroupAsked
     DEF Group!CreateGroup, Group!Leave
<1>3. ASSUME Group!CheckPermission(c) PROVE (Concerns(c, u)' => Phase(c, u)') /\ (~Concerns(c, u)' => Resting(u)')
  BY <1>0, <1>a, <1>3, GroupAsked
     DEF Group!CheckPermission, Group!Goto, Group!Leave, Group!Reads, Group!rows, Group!Permitted, Group!SelfBarred, Group!AfterPerm
<1>4. ASSUME Group!Erase(c) PROVE (Concerns(c, u)' => Phase(c, u)') /\ (~Concerns(c, u)' => Resting(u)')
  BY <1>0, <1>a, <1>4, GroupAsked
     DEF Group!Erase, Group!Leave
<1>5. ASSUME Group!WriteRole(c) PROVE (Concerns(c, u)' => Phase(c, u)') /\ (~Concerns(c, u)' => Resting(u)')
  BY <1>0, <1>a, <1>5, GroupAsked
     DEF Group!WriteRole, Group!Leave
<1>6. ASSUME Group!FindGroup(c) PROVE (Concerns(c, u)' => Phase(c, u)') /\ (~Concerns(c, u)' => Resting(u)')
  BY <1>0, <1>a, <1>6, GroupAsked
     DEF Group!FindGroup, Group!Goto, Group!Leave, Group!Reads, Group!rows
<1>7. ASSUME Group!FindActive(c) PROVE (Concerns(c, u)' => Phase(c, u)') /\ (~Concerns(c, u)' => Resting(u)')
  BY <1>0, <1>a, <1>7, GroupAsked
     DEF Group!FindActive, Group!Goto, Group!Leave, Group!Reads, Group!rows
<1>8. ASSUME Group!FindFormer(c) PROVE (Concerns(c, u)' => Phase(c, u)') /\ (~Concerns(c, u)' => Resting(u)')
  BY <1>0, <1>a, <1>8, GroupAsked
     DEF Group!FindFormer, Group!Goto, Group!Reads, Group!rows
<1>9. ASSUME Group!Rejoin(c) PROVE (Concerns(c, u)' => Phase(c, u)') /\ (~Concerns(c, u)' => Resting(u)')
  <2>1. u = call[c].by /\ UNCHANGED <<part, conv>> /\ pc[c] = "rejoin"
    BY <1>0, <1>9 DEF Group!Rejoin
  <2>2. \/ member[u] = None /\ member' = member /\ pc'[c] = "idle"
        \/ member[u] # None /\ pc'[c] = "conv.part" /\ UNCHANGED call
    BY <1>0, <1>9, <2>1 DEF Group!Rejoin, Group!Goto, Group!Leave
  <2>3. member[u] # None => member'[u] # None /\ member'[u].in = TRUE
    BY <1>0, <1>9, <2>1, GroupRejoined
  <2>4. QED
    BY <1>0, <1>a, <2>1, <2>2, <2>3
<1>10. ASSUME Group!Enroll(c) PROVE (Concerns(c, u)' => Phase(c, u)') /\ (~Concerns(c, u)' => Resting(u)')
  <2>1. u = call[c].by /\ UNCHANGED <<part, conv>> /\ pc[c] = "enroll" /\ member[u] = None
    BY <1>0, <1>10 DEF Group!Enroll
  <2>2. member' = [member EXCEPT ![u] = Group!NewMember] /\ pc'[c] = "conv.place" /\ UNCHANGED call
    BY <1>0, <1>10, <2>1 DEF Group!Enroll, Group!Goto, Group!Leave
  <2>3. member'[u] # None /\ member'[u].in = TRUE
    BY <1>0, <2>2, GroupRowFacts DEF Group!NewMember
  <2>4. part[u] = "none"
    BY <1>0, <2>1
  <2>5. QED
    BY <1>0, <2>1, <2>2, <2>3, <2>4
<1>11. ASSUME Group!Clash(c) PROVE (Concerns(c, u)' => Phase(c, u)') /\ (~Concerns(c, u)' => Resting(u)')
  BY <1>0, <1>a, <1>11, GroupAsked
     DEF Group!Clash, Group!Goto, Group!Leave, Group!Reads, Group!rows
<1>12. ASSUME Group!FindConv(c) PROVE (Concerns(c, u)' => Phase(c, u)') /\ (~Concerns(c, u)' => Resting(u)')
  BY <1>0, <1>a, <1>12, GroupAsked
     DEF Group!FindConv, Group!Goto, Group!Leave, Group!Reads, Group!rows, Group!AfterConv
<1>13. ASSUME Group!FindParticipant(c) PROVE (Concerns(c, u)' => Phase(c, u)') /\ (~Concerns(c, u)' => Resting(u)')
  BY <1>0, <1>a, <1>13, GroupAsked
     DEF Group!FindParticipant, Group!Goto, Group!Reads, Group!rows
<1>14. ASSUME Group!Reopen(c) PROVE (Concerns(c, u)' => Phase(c, u)') /\ (~Concerns(c, u)' => Resting(u)')
  BY <1>0, <1>a, <1>14, GroupAsked
     DEF Group!Reopen, Group!Leave
<1>15. ASSUME Group!Place(c) PROVE (Concerns(c, u)' => Phase(c, u)') /\ (~Concerns(c, u)' => Resting(u)')
  BY <1>0, <1>a, <1>15, GroupAsked
     DEF Group!Place, Group!Leave, Group!Seated
<1>16. ASSUME Group!Out(c) PROVE (Concerns(c, u)' => Phase(c, u)') /\ (~Concerns(c, u)' => Resting(u)')
  <2>1. Group!About(call[c]) = {Group!Subject(call[c])}
    <3>1. pc[c] \in {"out", "seat", "unseat"}
      BY <1>16 DEF Group!Out, Group!FindSeat, Group!Unseat
    <3>2. call[c].kind \in {"leave", "remove"} /\ call[c] \in GroupRequests
      BY <1>0, <3>1, GroupAsked
    <3>3. QED
      BY <3>2, GroupSubject
  <2>2. u = Group!Subject(call[c])
    BY <2>1 DEF Concerns
  <2>3. \/ member[u] = None /\ member' = member /\ pc'[c] = "idle"
        \/ member[u] # None /\ pc'[c] = "conv.seat" /\ UNCHANGED call
    BY <1>0, <1>16, <2>2 DEF Group!Out, Group!Goto, Group!Leave
  <2>4. member[u] # None => member'[u] # None /\ member'[u].in = FALSE
    BY <1>0, <1>16, <2>2, GroupOuted
  <2>5. pc[c] = "out" /\ UNCHANGED <<part, conv>>
    BY <1>16 DEF Group!Out
  <2>6. QED
    BY <1>0, <1>a, <2>2, <2>3, <2>4, <2>5
<1>17. ASSUME Group!FindSeat(c) PROVE (Concerns(c, u)' => Phase(c, u)') /\ (~Concerns(c, u)' => Resting(u)')
  <2>1. Group!About(call[c]) = {Group!Subject(call[c])}
    <3>1. pc[c] \in {"out", "seat", "unseat"}
      BY <1>17 DEF Group!Out, Group!FindSeat, Group!Unseat
    <3>2. call[c].kind \in {"leave", "remove"} /\ call[c] \in GroupRequests
      BY <1>0, <3>1, GroupAsked
    <3>3. QED
      BY <3>2, GroupSubject
  <2>2. u = Group!Subject(call[c])
    BY <2>1 DEF Concerns
  <2>3. QED
    BY <1>0, <1>a, <1>17, <2>2 DEF Group!FindSeat, Group!Goto, Group!Leave, Group!Reads, Group!rows
<1>18. ASSUME Group!Unseat(c) PROVE (Concerns(c, u)' => Phase(c, u)') /\ (~Concerns(c, u)' => Resting(u)')
  <2>1. Group!About(call[c]) = {Group!Subject(call[c])}
    <3>1. pc[c] \in {"out", "seat", "unseat"}
      BY <1>18 DEF Group!Out, Group!FindSeat, Group!Unseat
    <3>2. call[c].kind \in {"leave", "remove"} /\ call[c] \in GroupRequests
      BY <1>0, <3>1, GroupAsked
    <3>3. QED
      BY <3>2, GroupSubject
  <2>2. u = Group!Subject(call[c])
    BY <2>1 DEF Concerns
  <2>3. part'[u] # "in" /\ pc[c] = "unseat" /\ pc'[c] = "idle" /\ UNCHANGED <<member, conv>>
    BY <1>0, <1>18, <2>2 DEF Group!Unseat, Group!Leave
  <2>4. QED
    BY <1>0, <2>3
<1>19. ASSUME Group!Count(c) PROVE (Concerns(c, u)' => Phase(c, u)') /\ (~Concerns(c, u)' => Resting(u)')
  BY <1>0, <1>a, <1>19, GroupAsked
     DEF Group!Count, Group!Leave, Group!Reads, Group!rows
<1>20. ASSUME Group!Enlist(c) PROVE (Concerns(c, u)' => Phase(c, u)') /\ (~Concerns(c, u)' => Resting(u)')
  <2>1. PICK v \in todo[c] :
          /\ member' = [member EXCEPT ![v] = IF member[v] = None THEN Group!NewMember ELSE member[v]]
          /\ raced' = IF member[v] # None /\ ~Group!InGroup(v) THEN raced \cup {v} ELSE raced
          /\ todo' = [todo EXCEPT ![c] = todo[c] \ {v}]
          /\ pc' = [pc EXCEPT ![c] = IF todo[c] = {v} THEN "goc" ELSE "enlist"]
          /\ UNCHANGED <<call, saw>>
    BY <1>20 DEF Group!Enlist
  <2>2. pc[c] = "enlist" /\ UNCHANGED <<part, conv>> /\ call[c].kind = "add" /\ v \in Users
    BY <1>0, <1>20 DEF Group!Enlist
  <2>3. CASE u = v
    <3>1. Resting(u) /\ (member[u] # None => member[u].in)
      BY <2>1, <2>2, <2>3
    <3>2. member'[u] # None /\ member'[u].in
      BY <1>0, <2>1, <2>2, <2>3, <3>1, GroupRowFacts DEF Group!NewMember
    <3>3. part[u] # "left"
      BY <1>0, <3>1
    <3>4. u \notin todo'[c] /\ pc'[c] \in {"goc", "enlist"} /\ call' = call
      BY <1>0, <2>1, <2>2, <2>3
    <3>5. QED
      BY <2>2, <3>2, <3>3, <3>4
  <2>4. CASE u # v
    <3>1. member'[u] = member[u] /\ (u \in todo'[c] <=> u \in todo[c]) /\ call' = call
      BY <1>0, <2>1, <2>2, <2>4
    <3>2. u \in todo[c] => pc'[c] = "enlist"
      BY <1>0, <2>1, <2>2, <2>4
    <3>3. pc'[c] \in {"goc", "enlist"}
      BY <1>0, <2>1, <2>2
    <3>4. QED
      BY <1>0, <1>a, <2>2, <3>1, <3>2, <3>3
  <2>5. QED
    BY <2>3, <2>4
<1>21. ASSUME Group!SeatAll(c) PROVE (Concerns(c, u)' => Phase(c, u)') /\ (~Concerns(c, u)' => Resting(u)')
  BY <1>0, <1>a, <1>21, GroupAsked
     DEF Group!SeatAll, Group!Leave, Group!Seated
<1>22. ASSUME Group!Find(c) PROVE (Concerns(c, u)' => Phase(c, u)') /\ (~Concerns(c, u)' => Resting(u)')
  BY <1>0, <1>a, <1>22, GroupAsked
     DEF Group!Find, Group!Goto, Group!Leave, Group!Reads, Group!rows, Group!Resume
<1>23. ASSUME Group!Create(c) PROVE (Concerns(c, u)' => Phase(c, u)') /\ (~Concerns(c, u)' => Resting(u)')
  BY <1>0, <1>a, <1>23, GroupAsked
     DEF Group!Create, Group!Goto, Group!Leave
<1>24. ASSUME Group!ReadMembers(c) PROVE (Concerns(c, u)' => Phase(c, u)') /\ (~Concerns(c, u)' => Resting(u)')
  BY <1>0, <1>a, <1>24, GroupAsked
     DEF Group!ReadMembers, Group!Reads, Group!rows, Group!Members
<1>25. ASSUME Group!Fill(c) PROVE (Concerns(c, u)' => Phase(c, u)') /\ (~Concerns(c, u)' => Resting(u)')
  BY <1>0, <1>a, <1>25, GroupAsked
     DEF Group!Fill, Group!Leave, Group!Resume, Group!Seated
<1>26. ASSUME Group!FindSender(c) PROVE (Concerns(c, u)' => Phase(c, u)') /\ (~Concerns(c, u)' => Resting(u)')
  BY <1>0, <1>a, <1>26, GroupAsked
     DEF Group!FindSender, Group!Goto, Group!Leave, Group!Reads, Group!rows
<1>27. ASSUME Group!Post(c) PROVE (Concerns(c, u)' => Phase(c, u)') /\ (~Concerns(c, u)' => Resting(u)')
  BY <1>0, <1>a, <1>27, GroupAsked
     DEF Group!Post, Group!Leave
<1>28. ASSUME Group!FindToClose(c) PROVE (Concerns(c, u)' => Phase(c, u)') /\ (~Concerns(c, u)' => Resting(u)')
  BY <1>0, <1>a, <1>28, GroupAsked
     DEF Group!FindToClose, Group!Goto, Group!Leave, Group!Reads, Group!rows
<1>29. ASSUME Group!Close(c) PROVE (Concerns(c, u)' => Phase(c, u)') /\ (~Concerns(c, u)' => Resting(u)')
  BY <1>0, <1>a, <1>29, GroupAsked
     DEF Group!Close, Group!Leave
<1>30. ASSUME Group!Crash(c) PROVE (Concerns(c, u)' => Phase(c, u)') /\ (~Concerns(c, u)' => Resting(u)')
  BY <1>0, <1>a, <1>30, GroupAsked
     DEF Group!Crash, Group!Leave, Group!rows
<1>31. QED
  BY <1>1, <1>2, <1>3, <1>4, <1>5, <1>6, <1>7, <1>8, <1>9, <1>10, <1>11, <1>12, <1>13, <1>14, <1>15, <1>16, <1>17, <1>18, <1>19, <1>20, <1>21, <1>22, <1>23, <1>24, <1>25, <1>26, <1>27, <1>28, <1>29, <1>30 DEF Group!Handle

(* A user whom only c is about. *)
LEMMA StandOwn ==
  ASSUME GroupAlone, NEW c \in GroupCalls, NEW u \in Users, u \notin raced, Concerns(c, u), GroupOthers(c),
         Concerns(c, u)' => Phase(c, u)', ~Concerns(c, u)' => Resting(u)'
  PROVE  Standing(u)'
<1>1. \A d \in GroupCalls \ {c} : ~Concerns(d, u)
  BY DEF GroupAlone
<1>2. \A d \in GroupCalls \ {c} : ~Concerns(d, u)'
  BY <1>1 DEF GroupOthers, Concerns, Group!Active
<1>3. QED
  BY <1>2 DEF Standing

(* A user whom c is not about. *)
LEMMA StandApart ==
  ASSUME NEW c \in GroupCalls, NEW u \in Users, ~Concerns(c, u), ~Concerns(c, u)', GroupOthers(c), Standing(u),
         Group!InGroup(u)' <=> Group!InGroup(u), member[u] = None => member'[u] = None, part'[u] = part[u],
         Resting(u) => Resting(u)'
  PROVE  Standing(u)'
<1>1. ASSUME NEW d \in GroupCalls, Concerns(d, u)' PROVE Phase(d, u)'
  <2>1. d # c /\ pc'[d] = pc[d] /\ call'[d] = call[d] /\ todo'[d] = todo[d]
    BY <1>1 DEF GroupOthers
  <2>2. Phase(d, u)
    BY <1>1, <2>1 DEF Standing, Concerns, Group!Active
  <2>3. QED
    BY <2>1, <2>2 DEF Phase
<1>2. ASSUME \A d \in GroupCalls : ~Concerns(d, u)' PROVE Resting(u)'
  <2>1. \A d \in GroupCalls : ~Concerns(d, u)
    BY <1>2 DEF GroupOthers, Concerns, Group!Active
  <2>2. QED
    BY <2>1 DEF Standing
<1>3. QED
  BY <1>1, <1>2 DEF Standing

(* Who reads the members and lets them in. *)
LEMMA GroupFilling ==
  ASSUME Group!GroupsAssumption, Group!TypeOK, GroupAsking, NEW c \in GroupCalls, pc[c] \in {"goc.read", "goc.fill"}, NEW u \in Users, u \notin raced', Group!Handle(c)
  PROVE  Group!ReadMembers(c) \/ Group!Fill(c)
<1>0. GroupSlots /\ GroupTables
  BY GroupTypes
<1> USE DEF GroupSlots
<1>1. ASSUME Group!Start(c) PROVE Group!ReadMembers(c) \/ Group!Fill(c)
  BY <1>0, <1>1, GroupKinds DEF Group!Start, Group!First, Group!Kinds, Group!rows
<1>2. ASSUME Group!CreateGroup(c) PROVE Group!ReadMembers(c) \/ Group!Fill(c)
  BY <1>0, <1>2
     DEF Group!CreateGroup, Group!Leave
<1>3. ASSUME Group!CheckPermission(c) PROVE Group!ReadMembers(c) \/ Group!Fill(c)
  BY <1>0, <1>3
     DEF Group!CheckPermission, Group!Goto, Group!Leave, Group!Reads, Group!rows, Group!Permitted, Group!SelfBarred, Group!AfterPerm
<1>4. ASSUME Group!Erase(c) PROVE Group!ReadMembers(c) \/ Group!Fill(c)
  BY <1>0, <1>4
     DEF Group!Erase, Group!Leave
<1>5. ASSUME Group!WriteRole(c) PROVE Group!ReadMembers(c) \/ Group!Fill(c)
  BY <1>0, <1>5
     DEF Group!WriteRole, Group!Leave
<1>6. ASSUME Group!FindGroup(c) PROVE Group!ReadMembers(c) \/ Group!Fill(c)
  BY <1>0, <1>6
     DEF Group!FindGroup, Group!Goto, Group!Leave, Group!Reads, Group!rows
<1>7. ASSUME Group!FindActive(c) PROVE Group!ReadMembers(c) \/ Group!Fill(c)
  BY <1>0, <1>7
     DEF Group!FindActive, Group!Goto, Group!Leave, Group!Reads, Group!rows
<1>8. ASSUME Group!FindFormer(c) PROVE Group!ReadMembers(c) \/ Group!Fill(c)
  BY <1>0, <1>8
     DEF Group!FindFormer, Group!Goto, Group!Reads, Group!rows
<1>9. ASSUME Group!Rejoin(c) PROVE Group!ReadMembers(c) \/ Group!Fill(c)
  BY <1>0, <1>9
     DEF Group!Rejoin, Group!Goto, Group!Leave
<1>10. ASSUME Group!Enroll(c) PROVE Group!ReadMembers(c) \/ Group!Fill(c)
  BY <1>0, <1>10
     DEF Group!Enroll, Group!Goto, Group!Leave, Group!NewMember, Group!Roles
<1>11. ASSUME Group!Clash(c) PROVE Group!ReadMembers(c) \/ Group!Fill(c)
  BY <1>0, <1>11
     DEF Group!Clash, Group!Goto, Group!Leave, Group!Reads, Group!rows
<1>12. ASSUME Group!FindConv(c) PROVE Group!ReadMembers(c) \/ Group!Fill(c)
  BY <1>0, <1>12
     DEF Group!FindConv, Group!Goto, Group!Leave, Group!Reads, Group!rows, Group!AfterConv
<1>13. ASSUME Group!FindParticipant(c) PROVE Group!ReadMembers(c) \/ Group!Fill(c)
  BY <1>0, <1>13
     DEF Group!FindParticipant, Group!Goto, Group!Reads, Group!rows
<1>14. ASSUME Group!Reopen(c) PROVE Group!ReadMembers(c) \/ Group!Fill(c)
  BY <1>0, <1>14
     DEF Group!Reopen, Group!Leave
<1>15. ASSUME Group!Place(c) PROVE Group!ReadMembers(c) \/ Group!Fill(c)
  BY <1>0, <1>15
     DEF Group!Place, Group!Leave, Group!Seated
<1>16. ASSUME Group!Out(c) PROVE Group!ReadMembers(c) \/ Group!Fill(c)
  BY <1>0, <1>16
     DEF Group!Out, Group!Goto, Group!Leave, Group!Subject
<1>17. ASSUME Group!FindSeat(c) PROVE Group!ReadMembers(c) \/ Group!Fill(c)
  BY <1>0, <1>17
     DEF Group!FindSeat, Group!Goto, Group!Leave, Group!Reads, Group!rows
<1>18. ASSUME Group!Unseat(c) PROVE Group!ReadMembers(c) \/ Group!Fill(c)
  BY <1>0, <1>18
     DEF Group!Unseat, Group!Leave
<1>19. ASSUME Group!Count(c) PROVE Group!ReadMembers(c) \/ Group!Fill(c)
  BY <1>0, <1>19
     DEF Group!Count, Group!Leave, Group!Reads, Group!rows
<1>20. ASSUME Group!Enlist(c) PROVE Group!ReadMembers(c) \/ Group!Fill(c)
  BY <1>0, <1>20
     DEF Group!Enlist, Group!Leave, Group!NewMember, Group!Roles
<1>21. ASSUME Group!SeatAll(c) PROVE Group!ReadMembers(c) \/ Group!Fill(c)
  BY <1>0, <1>21
     DEF Group!SeatAll, Group!Leave, Group!Seated
<1>22. ASSUME Group!Find(c) PROVE Group!ReadMembers(c) \/ Group!Fill(c)
  BY <1>0, <1>22
     DEF Group!Find, Group!Goto, Group!Leave, Group!Reads, Group!rows, Group!Resume
<1>23. ASSUME Group!Create(c) PROVE Group!ReadMembers(c) \/ Group!Fill(c)
  BY <1>0, <1>23
     DEF Group!Create, Group!Goto, Group!Leave
<1>24. ASSUME Group!ReadMembers(c) PROVE Group!ReadMembers(c) \/ Group!Fill(c)
  BY <1>24
     DEF Group!ReadMembers, Group!Reads, Group!rows, Group!Members
<1>25. ASSUME Group!Fill(c) PROVE Group!ReadMembers(c) \/ Group!Fill(c)
  BY <1>0, <1>25
     DEF Group!Fill, Group!Leave, Group!Resume, Group!Seated
<1>26. ASSUME Group!FindSender(c) PROVE Group!ReadMembers(c) \/ Group!Fill(c)
  BY <1>0, <1>26
     DEF Group!FindSender, Group!Goto, Group!Leave, Group!Reads, Group!rows
<1>27. ASSUME Group!Post(c) PROVE Group!ReadMembers(c) \/ Group!Fill(c)
  BY <1>0, <1>27
     DEF Group!Post, Group!Leave
<1>28. ASSUME Group!FindToClose(c) PROVE Group!ReadMembers(c) \/ Group!Fill(c)
  BY <1>0, <1>28
     DEF Group!FindToClose, Group!Goto, Group!Leave, Group!Reads, Group!rows
<1>29. ASSUME Group!Close(c) PROVE Group!ReadMembers(c) \/ Group!Fill(c)
  BY <1>0, <1>29
     DEF Group!Close, Group!Leave
<1>30. ASSUME Group!Crash(c) PROVE Group!ReadMembers(c) \/ Group!Fill(c)
  BY <1>0, <1>30
     DEF Group!Crash, Group!Leave, Group!rows
<1>31. QED
  BY <1>1, <1>2, <1>3, <1>4, <1>5, <1>6, <1>7, <1>8, <1>9, <1>10, <1>11, <1>12, <1>13, <1>14, <1>15, <1>16, <1>17, <1>18, <1>19, <1>20, <1>21, <1>22, <1>23, <1>24, <1>25, <1>26, <1>27, <1>28, <1>29, <1>30 DEF Group!Handle

(* A request that has not begun changes nothing. *)
LEMMA GroupIdle ==
  ASSUME Group!GroupsAssumption, Group!TypeOK, NEW c \in GroupCalls, pc[c] = "idle", Group!Handle(c)
  PROVE  UNCHANGED <<member, part, conv>>
<1>0. GroupSlots /\ GroupTables
  BY GroupTypes
<1> USE DEF GroupSlots
<1>1. ASSUME Group!Start(c) PROVE UNCHANGED <<member, part, conv>>
  BY <1>0, <1>1, GroupKinds DEF Group!Start, Group!First, Group!Kinds, Group!rows, Group!Active
<1>2. ASSUME Group!CreateGroup(c) PROVE UNCHANGED <<member, part, conv>>
  BY <1>0, <1>2
     DEF Group!CreateGroup, Group!Leave, Group!Active
<1>3. ASSUME Group!CheckPermission(c) PROVE UNCHANGED <<member, part, conv>>
  BY <1>0, <1>3
     DEF Group!CheckPermission, Group!Goto, Group!Leave, Group!Reads, Group!rows, Group!Permitted, Group!SelfBarred, Group!AfterPerm, Group!Active
<1>4. ASSUME Group!Erase(c) PROVE UNCHANGED <<member, part, conv>>
  BY <1>0, <1>4
     DEF Group!Erase, Group!Leave, Group!Active
<1>5. ASSUME Group!WriteRole(c) PROVE UNCHANGED <<member, part, conv>>
  BY <1>0, <1>5
     DEF Group!WriteRole, Group!Leave, Group!Active
<1>6. ASSUME Group!FindGroup(c) PROVE UNCHANGED <<member, part, conv>>
  BY <1>0, <1>6
     DEF Group!FindGroup, Group!Goto, Group!Leave, Group!Reads, Group!rows, Group!Active
<1>7. ASSUME Group!FindActive(c) PROVE UNCHANGED <<member, part, conv>>
  BY <1>0, <1>7
     DEF Group!FindActive, Group!Goto, Group!Leave, Group!Reads, Group!rows, Group!Active
<1>8. ASSUME Group!FindFormer(c) PROVE UNCHANGED <<member, part, conv>>
  BY <1>0, <1>8
     DEF Group!FindFormer, Group!Goto, Group!Reads, Group!rows, Group!Active
<1>9. ASSUME Group!Rejoin(c) PROVE UNCHANGED <<member, part, conv>>
  BY <1>0, <1>9
     DEF Group!Rejoin, Group!Goto, Group!Leave, Group!Active
<1>10. ASSUME Group!Enroll(c) PROVE UNCHANGED <<member, part, conv>>
  BY <1>0, <1>10
     DEF Group!Enroll, Group!Goto, Group!Leave, Group!NewMember, Group!Roles, Group!Active
<1>11. ASSUME Group!Clash(c) PROVE UNCHANGED <<member, part, conv>>
  BY <1>0, <1>11
     DEF Group!Clash, Group!Goto, Group!Leave, Group!Reads, Group!rows, Group!Active
<1>12. ASSUME Group!FindConv(c) PROVE UNCHANGED <<member, part, conv>>
  BY <1>0, <1>12
     DEF Group!FindConv, Group!Goto, Group!Leave, Group!Reads, Group!rows, Group!AfterConv, Group!Active
<1>13. ASSUME Group!FindParticipant(c) PROVE UNCHANGED <<member, part, conv>>
  BY <1>0, <1>13
     DEF Group!FindParticipant, Group!Goto, Group!Reads, Group!rows, Group!Active
<1>14. ASSUME Group!Reopen(c) PROVE UNCHANGED <<member, part, conv>>
  BY <1>0, <1>14
     DEF Group!Reopen, Group!Leave, Group!Active
<1>15. ASSUME Group!Place(c) PROVE UNCHANGED <<member, part, conv>>
  BY <1>0, <1>15
     DEF Group!Place, Group!Leave, Group!Seated, Group!Active
<1>16. ASSUME Group!Out(c) PROVE UNCHANGED <<member, part, conv>>
  BY <1>0, <1>16
     DEF Group!Out, Group!Goto, Group!Leave, Group!Subject, Group!Active
<1>17. ASSUME Group!FindSeat(c) PROVE UNCHANGED <<member, part, conv>>
  BY <1>0, <1>17
     DEF Group!FindSeat, Group!Goto, Group!Leave, Group!Reads, Group!rows, Group!Active
<1>18. ASSUME Group!Unseat(c) PROVE UNCHANGED <<member, part, conv>>
  BY <1>0, <1>18
     DEF Group!Unseat, Group!Leave, Group!Active
<1>19. ASSUME Group!Count(c) PROVE UNCHANGED <<member, part, conv>>
  BY <1>0, <1>19
     DEF Group!Count, Group!Leave, Group!Reads, Group!rows, Group!Active
<1>20. ASSUME Group!Enlist(c) PROVE UNCHANGED <<member, part, conv>>
  BY <1>0, <1>20
     DEF Group!Enlist, Group!Leave, Group!NewMember, Group!Roles, Group!Active
<1>21. ASSUME Group!SeatAll(c) PROVE UNCHANGED <<member, part, conv>>
  BY <1>0, <1>21
     DEF Group!SeatAll, Group!Leave, Group!Seated, Group!Active
<1>22. ASSUME Group!Find(c) PROVE UNCHANGED <<member, part, conv>>
  BY <1>0, <1>22
     DEF Group!Find, Group!Goto, Group!Leave, Group!Reads, Group!rows, Group!Resume, Group!Active
<1>23. ASSUME Group!Create(c) PROVE UNCHANGED <<member, part, conv>>
  BY <1>0, <1>23
     DEF Group!Create, Group!Goto, Group!Leave, Group!Active
<1>24. ASSUME Group!ReadMembers(c) PROVE UNCHANGED <<member, part, conv>>
  BY <1>0, <1>24
     DEF Group!ReadMembers, Group!Reads, Group!rows, Group!Members, Group!Active
<1>25. ASSUME Group!Fill(c) PROVE UNCHANGED <<member, part, conv>>
  BY <1>0, <1>25
     DEF Group!Fill, Group!Leave, Group!Resume, Group!Seated, Group!Active
<1>26. ASSUME Group!FindSender(c) PROVE UNCHANGED <<member, part, conv>>
  BY <1>0, <1>26
     DEF Group!FindSender, Group!Goto, Group!Leave, Group!Reads, Group!rows, Group!Active
<1>27. ASSUME Group!Post(c) PROVE UNCHANGED <<member, part, conv>>
  BY <1>0, <1>27
     DEF Group!Post, Group!Leave, Group!Active
<1>28. ASSUME Group!FindToClose(c) PROVE UNCHANGED <<member, part, conv>>
  BY <1>0, <1>28
     DEF Group!FindToClose, Group!Goto, Group!Leave, Group!Reads, Group!rows, Group!Active
<1>29. ASSUME Group!Close(c) PROVE UNCHANGED <<member, part, conv>>
  BY <1>0, <1>29
     DEF Group!Close, Group!Leave, Group!Active
<1>30. ASSUME Group!Crash(c) PROVE UNCHANGED <<member, part, conv>>
  BY <1>0, <1>30
     DEF Group!Crash, Group!Leave, Group!rows, Group!Active
<1>31. QED
  BY <1>1, <1>2, <1>3, <1>4, <1>5, <1>6, <1>7, <1>8, <1>9, <1>10, <1>11, <1>12, <1>13, <1>14, <1>15, <1>16, <1>17, <1>18, <1>19, <1>20, <1>21, <1>22, <1>23, <1>24, <1>25, <1>26, <1>27, <1>28, <1>29, <1>30 DEF Group!Handle

(* The statements that only concern those their request is about. *)
LEMMA GroupKeepsStanding ==
  ASSUME Group!GroupsAssumption, GroupInv, NEW c \in GroupCalls, Group!Handle(c), GroupServes, GroupAway(c), ~Group!Fill(c),
         group' = "live", NEW u \in Users, u \notin raced'
  PROVE  Standing(u)'
<1>0. GroupSlots /\ GroupTables
  BY GroupTypes DEF GroupInv
<1>1. group = "live" /\ u \notin raced /\ Standing(u)
  BY DEF GroupAway, GroupServes, GroupInv, GroupStands
<1>2. GroupOthers(c)
  BY GroupOther DEF GroupInv
<1>3. CASE Concerns(c, u)
  <2>1. (Concerns(c, u)' => Phase(c, u)') /\ (~Concerns(c, u)' => Resting(u)')
    BY <1>1, <1>3, GroupOwn DEF GroupInv, Standing
  <2>2. QED
    BY <1>1, <1>2, <1>3, <2>1, StandOwn DEF GroupInv
<1>4. CASE ~Concerns(c, u)
  <2>1. ~Concerns(c, u)'
    BY <1>4 DEF Concerns, GroupServes, Group!Active
  <2>2. CASE pc[c] = "idle"
    <3>1. UNCHANGED <<member, part, conv>>
      BY <2>2, GroupIdle DEF GroupInv
    <3>2. Resting(u) => Resting(u)'
      BY <1>2, <2>2, <3>1, GroupAwaits DEF Resting, Group!InGroup
    <3>3. QED
      BY <1>1, <1>2, <1>4, <2>1, <3>1, <3>2, StandApart DEF Group!InGroup
  <2>3. CASE pc[c] # "idle"
    <3>1. u \notin Group!About(call[c])
      BY <1>4, <2>3 DEF Concerns, Group!Active
    <3>2. /\ Group!InGroup(u)' <=> Group!InGroup(u)
          /\ member[u] = None => member'[u] = None
          /\ part'[u] = part[u] /\ (conv' = "none" <=> conv = "none")
      BY <3>1 DEF GroupAway
    <3>3. Group!InGroup(u) /\ Awaited(u) => Awaited(u)'
      <4>1. CASE pc[c] \notin {"goc.read", "goc.fill"}
        BY <1>2, <4>1, GroupAwaits
      <4>2. CASE pc[c] \in {"goc.read", "goc.fill"}
        <5>1. Group!ReadMembers(c)
          BY <1>0, <4>2, GroupFilling DEF GroupInv
        <5>2. pc'[c] = "goc.fill" /\ saw'[c] = Group!Members
          BY <1>0, <5>1 DEF Group!ReadMembers, GroupSlots
        <5>3. QED
          BY <5>2 DEF Awaited, Group!Members
      <4>3. QED
        BY <4>1, <4>2
    <3>4. Resting(u) => Resting(u)'
      BY <3>2, <3>3 DEF Resting
    <3>5. QED
      BY <1>1, <1>2, <1>4, <2>1, <3>2, <3>4, StandApart
  <2>4. QED
    BY <2>2, <2>3
<1>5. QED
  BY <1>3, <1>4

(* A request arrives: whoever else is about the same user is noticed. *)
LEMMA GroupBegins ==
  ASSUME Group!GroupsAssumption, GroupInv, NEW c \in GroupCalls, Group!Start(c),
         group' = "live", NEW u \in Users, u \notin raced'
  PROVE  Standing(u)'
<1>0. GroupSlots /\ GroupTables /\ GroupOthers(c)
  BY GroupTypes, GroupOther DEF GroupInv, Group!Handle
<1>1. PICK r \in GroupRequests :
        /\ call' = [call EXCEPT ![c] = r] /\ pc' = [pc EXCEPT ![c] = Group!First[r.kind]]
        /\ raced' = raced \cup UNION {Group!About(r) \cap Group!About(call[d]) : d \in {e \in GroupCalls : Group!Active(e)}}
  BY DEF Group!Start
<1>2. UNCHANGED <<group, member, conv, part, posted, todo, saw>> /\ pc[c] = "idle"
  BY DEF Group!Start, Group!rows
<1>3. u \notin raced /\ Standing(u)
  BY <1>1, <1>2 DEF GroupInv, GroupStands
<1>4. call'[c] = r /\ pc'[c] = Group!First[r.kind]
  BY <1>0, <1>1 DEF GroupSlots
<1>5. ~Concerns(c, u)
  BY <1>2 DEF Concerns, Group!Active
<1>6. Resting(u) => Resting(u)'
  BY <1>0, <1>2, GroupAwaits DEF Resting, Group!InGroup
<1>7. CASE u \in Group!About(r)
  <2>1. \A d \in GroupCalls : ~Concerns(d, u)
    BY <1>1, <1>7 DEF Concerns
  <2>2. \A d \in GroupCalls \ {c} : ~Concerns(d, u)'
    BY <1>0, <2>1 DEF GroupOthers, Concerns, Group!Active
  <2>3. Resting(u)'
    BY <1>3, <1>6, <2>1 DEF Standing
  <2>4. pc'[c] \in {"perm", "group", "out"}
    BY <1>4, <1>7, GroupKinds DEF Group!About, Group!First, Group!Kinds
  <2>5. Phase(c, u)'
    BY <2>3, <2>4 DEF Phase
  <2>6. QED
    BY <2>2, <2>3, <2>5 DEF Standing
<1>8. CASE u \notin Group!About(r)
  <2>1. ~Concerns(c, u)'
    BY <1>4, <1>8 DEF Concerns
  <2>2. QED
    BY <1>0, <1>2, <1>3, <1>5, <1>6, <2>1, StandApart DEF Group!InGroup
<1>9. QED
  BY <1>7, <1>8

(* The group is created: nobody could have been let in before. *)
LEMMA GroupFounds ==
  ASSUME Group!GroupsAssumption, GroupInv, NEW c \in GroupCalls, Group!CreateGroup(c),
         group' = "live", NEW u \in Users, u \notin raced'
  PROVE  Standing(u)'
<1>0. GroupSlots /\ GroupTables /\ GroupOthers(c) /\ pc[c] = "create" /\ raced' = raced /\ pc'[c] = "idle"
  BY GroupTypes, GroupOther DEF GroupInv, Group!Handle, Group!CreateGroup, Group!Leave, GroupSlots
<1>1. ~Concerns(c, u) /\ ~Concerns(c, u)'
  BY <1>0 DEF GroupInv, GroupAsking, Concerns, Group!Active, Group!About
<1>2. CASE group = "live"
  <2>1. UNCHANGED <<group, member, conv, part>> /\ Standing(u)
    BY <1>0, <1>2 DEF Group!CreateGroup, GroupInv, GroupStands
  <2>2. Resting(u) => Resting(u)'
    BY <1>0, <2>1, GroupAwaits DEF Resting, Group!InGroup
  <2>3. QED
    BY <1>0, <1>1, <2>1, <2>2, StandApart DEF Group!InGroup
<1>3. CASE group = "none"
  <2>1. \A v \in Users : member[v] = None /\ part[v] = "none"
    BY <1>0, <1>3 DEF GroupTables
  <2>2. PICK w \in Users : /\ member' = [member EXCEPT ![w] = [role |-> "admin", in |-> TRUE]]
                           /\ part' = [part EXCEPT ![w] = "in"]
    BY <1>0, <1>3, GroupAsked DEF Group!CreateGroup
  <2>3. [role |-> "admin", in |-> TRUE] # None
    <3>1. [role |-> "admin", in |-> TRUE] \in GroupRow
      BY DEF GroupRow, Group!Roles
    <3>2. QED
      BY <3>1, GroupRowFacts
  <2>4. Group!InGroup(u)' <=> part'[u] = "in"
    BY <1>0, <2>1, <2>2, <2>3 DEF Group!InGroup, GroupTables
  <2>5. Resting(u)'
    BY <2>4 DEF Resting
  <2>6. ASSUME NEW d \in GroupCalls, Concerns(d, u)' PROVE Phase(d, u)'
    <3>1. d # c /\ pc'[d] = pc[d] /\ pc[d] # "idle" /\ call'[d] = call[d]
      BY <1>0, <1>1, <2>6 DEF GroupOthers, Concerns, Group!Active
    <3>2. pc[d] \in {"create", "perm", "group", "out", "member", "close"}
      BY <1>3, <3>1 DEF GroupInv, GroupKnows, Knows
    <3>3. QED
      BY <2>5, <3>1, <3>2 DEF Phase
  <2>7. QED
    BY <2>5, <2>6 DEF Standing
<1>4. QED
  BY <1>0, <1>2, <1>3 DEF Group!CreateGroup, GroupTables

(* The conversation of a group that had none: whoever is in is awaited. *)
LEMMA GroupOpens ==
  ASSUME Group!GroupsAssumption, GroupInv, NEW c \in GroupCalls, Group!Create(c),
         group' = "live", NEW u \in Users, u \notin raced'
  PROVE  Standing(u)'
<1>0. /\ GroupSlots /\ GroupTables /\ GroupOthers(c) /\ pc[c] = "goc.create" /\ pc'[c] = "goc.read" /\ group = "live"
      /\ UNCHANGED <<group, member, part, raced, call>>
  BY GroupTypes, GroupOther DEF GroupInv, Group!Handle, Group!Create, Group!Goto, GroupSlots
<1>1. Standing(u)
  BY <1>0 DEF GroupInv, GroupStands
<1>2. Resting(u) => Resting(u)'
  <2>1. Awaited(u)'
    BY <1>0 DEF Awaited
  <2>2. conv = "none" => part[u] = "none"
    BY <1>0 DEF GroupTables
  <2>3. QED
    BY <1>0, <2>1, <2>2 DEF Resting, Group!InGroup
<1>3. CASE Concerns(c, u)
  <2>1. Phase(c, u)
    BY <1>1, <1>3 DEF Standing
  <2>2. (Concerns(c, u)' => Phase(c, u)') /\ (~Concerns(c, u)' => Resting(u)')
    BY <1>0, <1>3, <2>1, GroupOwn DEF GroupInv, Group!Handle
  <2>3. QED
    BY <1>0, <1>3, <2>2, StandOwn DEF GroupInv
<1>4. CASE ~Concerns(c, u)
  <2>1. ~Concerns(c, u)'
    BY <1>0, <1>4 DEF Concerns, Group!Active
  <2>2. QED
    BY <1>0, <1>1, <1>2, <1>4, <2>1, StandApart DEF Group!InGroup
<1>5. QED
  BY <1>3, <1>4

(* The members who were read are let in; one who has left since is noticed. *)
LEMMA GroupLetsIn ==
  ASSUME Group!GroupsAssumption, GroupInv, NEW c \in GroupCalls, Group!Fill(c),
         group' = "live", NEW u \in Users, u \notin raced'
  PROVE  Standing(u)'
<1>0. /\ GroupSlots /\ GroupTables /\ GroupOthers(c) /\ pc[c] = "goc.fill" /\ group = "live"
      /\ UNCHANGED <<group, member, conv, call>> \/ (UNCHANGED <<group, member, conv>> /\ pc'[c] = "idle")
      /\ part' = Group!Seated(saw[c]) /\ raced' = raced \cup {v \in saw[c] : ~Group!InGroup(v)}
  BY GroupTypes, GroupOther DEF GroupInv, Group!Handle, Group!Fill, Group!Resume, Group!Leave, GroupSlots
<1>1. u \notin raced /\ Standing(u) /\ (u \in saw[c] => Group!InGroup(u)) /\ (Group!InGroup(u)' <=> Group!InGroup(u))
  BY <1>0 DEF GroupInv, GroupStands, Group!InGroup
<1>2. /\ u \notin saw[c] => part'[u] = part[u]
      /\ u \in saw[c] /\ conv # "none" /\ part[u] = "none" => part'[u] = "in"
      /\ part[u] # "none" => part'[u] = part[u]
      /\ part'[u] = "left" => part[u] = "left"
  BY <1>0 DEF Group!Seated
<1>3. Resting(u) => Resting(u)'
  <2>1. Awaited(u) /\ u \notin saw[c] => Awaited(u)'
    BY <1>0 DEF Awaited, GroupOthers
  <2>2. QED
    BY <1>0, <1>1, <1>2, <2>1 DEF Resting
<1>4. CASE Concerns(c, u)
  <2>1. Phase(c, u)
    BY <1>1, <1>4 DEF Standing
  <2>2. (Concerns(c, u)' => Phase(c, u)') /\ (~Concerns(c, u)' => Resting(u)')
    BY <1>0, <1>4, <2>1, GroupOwn DEF GroupInv, Group!Handle
  <2>3. QED
    BY <1>0, <1>1, <1>4, <2>2, StandOwn DEF GroupInv
<1>5. CASE ~Concerns(c, u)
  <2>1. ~Concerns(c, u)'
    BY <1>0, <1>5 DEF Concerns, Group!Active
  <2>2. ASSUME NEW d \in GroupCalls, Concerns(d, u)' PROVE Phase(d, u)'
    <3>1. d # c /\ pc'[d] = pc[d] /\ call'[d] = call[d] /\ todo'[d] = todo[d]
      BY <1>0, <2>1, <2>2 DEF GroupOthers
    <3>2. Phase(d, u)
      BY <1>1, <2>2, <3>1 DEF Standing, Concerns, Group!Active
    <3>3. QED
      BY <1>0, <1>1, <1>2, <1>3, <3>1, <3>2 DEF Phase
  <2>3. ASSUME \A d \in GroupCalls : ~Concerns(d, u)' PROVE Resting(u)'
    <3>1. \A d \in GroupCalls : ~Concerns(d, u)
      BY <1>0, <1>5, <2>3 DEF GroupOthers, Concerns, Group!Active
    <3>2. QED
      BY <1>1, <1>3, <3>1 DEF Standing
  <2>4. QED
    BY <2>2, <2>3 DEF Standing
<1>6. QED
  BY <1>4, <1>5

(* Every statement keeps the invariant of groups. *)
LEMMA GroupStep ==
  ASSUME Group!GroupsAssumption, GroupInv, Group!Next
  PROVE  GroupInv'
<1>1. PICK c \in GroupCalls : Group!Handle(c)
  BY DEF Group!Next
<1>2. Group!TypeOK' /\ GroupAsking' /\ GroupAlone' /\ GroupLed'
  BY <1>1, GroupTyped, GroupAsks, GroupAlways, GroupLeads DEF GroupInv
<1>3. GroupKnows'
  <2>1. \A d \in GroupCalls : call[d] # None => call[d].by \in Users /\ call[d].to \subseteq Users
    BY GroupTypes, GroupAsked DEF GroupInv, GroupSlots, Group!Active
  <2>2. GroupOthers(c) /\ GroupGrows /\ GroupSlots /\ Knows(c)'
    BY <1>1, GroupTypes, GroupOther, GroupGrow, GroupKnowing DEF GroupInv
  <2>3. QED
    BY <2>1, <2>2, GroupKnown DEF GroupInv
<1>4. ASSUME group' = "live", NEW u \in Users, u \notin raced' PROVE Standing(u)'
  <2>1. CASE Group!Erase(c)
    BY <1>4, <2>1 DEF Group!Erase
  <2>2. CASE Group!Start(c) \/ Group!CreateGroup(c) \/ Group!Create(c) \/ Group!Fill(c)
    BY <1>4, <2>2, GroupBegins, GroupFounds, GroupOpens, GroupLetsIn
  <2>3. CASE ~GroupMakes(c)
    <3>1. GroupServes /\ GroupAway(c) /\ ~Group!Fill(c)
      BY <1>1, <2>3, GroupServe, GroupElsewhere DEF GroupInv, GroupMakes
    <3>2. QED
      BY <1>1, <1>4, <3>1, GroupKeepsStanding
  <2>4. QED
    BY <2>1, <2>2, <2>3 DEF GroupMakes
<1>5. QED
  BY <1>2, <1>3, <1>4 DEF GroupInv, GroupStands

(* A step that changes nothing. *)
LEMMA GroupStill ==
  ASSUME GroupInv, UNCHANGED Group!vars
  PROVE  GroupInv'
<1>1. UNCHANGED <<group, member, conv, part, posted, call, pc, todo, saw, raced, demoting>>
  BY DEF Group!vars, Group!rows, Group!handler
<1>2. Group!TypeOK' /\ GroupAsking' /\ GroupKnows' /\ GroupLed' /\ GroupAlone'
  BY <1>1 DEF GroupInv, Group!TypeOK, GroupAsking, Group!Active, GroupKnows, Knows, Enrolled, GroupLed, InCharge, GroupAlone, Concerns, Group!Managers
<1>3. \A u \in Users : Resting(u) => Resting(u)'
  BY <1>1 DEF Resting, Group!InGroup, Awaited
<1>4. ASSUME NEW c \in GroupCalls, NEW u \in Users, Phase(c, u) PROVE Phase(c, u)'
  BY <1>1, <1>3, <1>4 DEF Phase, Group!InGroup
<1>5. \A u \in Users : Standing(u) => Standing(u)'
  BY <1>1, <1>3, <1>4 DEF Standing, Concerns, Group!Active
<1>6. QED
  BY <1>1, <1>2, <1>5 DEF GroupInv, GroupStands

(* The invariant holds before the first request. *)
LEMMA GroupInit ==
  ASSUME Group!GroupsAssumption, Group!Init
  PROVE  GroupInv
<1>1. \A c \in GroupCalls : pc[c] = "idle" /\ call[c] = None /\ todo[c] = {} /\ saw[c] = {}
  BY DEF Group!Init
<1>2. Group!TypeOK
  <2>1. [role |-> "admin", in |-> TRUE] \in GroupRow
    BY DEF GroupRow, Group!Roles
  <2>2. GroupTables
    BY <2>1, GroupRowFacts DEF Group!Init, GroupTables
  <2>3. GroupSlots
    BY <1>1 DEF Group!Init, GroupSlots, Group!Active, Group!Labels
  <2>4. QED
    BY <2>2, <2>3, GroupTypes
<1>3. GroupAsking /\ GroupAlone
  BY <1>1 DEF GroupAsking, GroupAlone, Concerns, Group!Active
<1>4. GroupKnows
  BY <1>1 DEF GroupKnows, Knows
<1>5. GroupLed
  <2>1. group = "live" => \E u \in Users : InCharge(u)
    <3>1. ASSUME NEW a \in Users, member = [u \in Users |-> IF u = a THEN [role |-> "admin", in |-> TRUE] ELSE None]
          PROVE  InCharge(a)
      <4>1. member[a] = [role |-> "admin", in |-> TRUE]
        BY <3>1
      <4>2. [role |-> "admin", in |-> TRUE] # None
        <5>1. [role |-> "admin", in |-> TRUE] \in GroupRow
          BY DEF GroupRow, Group!Roles
        <5>2. QED
          BY <5>1, GroupRowFacts
      <4>3. QED
        BY <4>1, <4>2 DEF InCharge, Group!Managers
    <3>2. QED
      BY <3>1 DEF Group!Init
  <2>2. QED
    BY <1>1, <2>1 DEF GroupLed, Group!Active
<1>6. GroupStands
  BY <1>1 DEF GroupStands, Standing, Concerns, Resting, Group!Active, Group!Init
<1>7. QED
  BY <1>2, <1>3, <1>4, <1>5, <1>6 DEF GroupInv

(* The properties of groups follow from the invariant. *)
LEMMA GroupHolds ==
  ASSUME Group!GroupsAssumption, GroupInv
  PROVE  Group!MembersParticipate /\ Group!SomeoneInCharge
<1>1. ASSUME conv # "none", NEW u \in Users, Group!Quiet(u) PROVE Group!InGroup(u) <=> part[u] = "in"
  <2>1. group = "live"
    BY <1>1, GroupTypes DEF GroupInv, GroupTables
  <2>2. \A c \in GroupCalls : ~Concerns(c, u)
    BY <1>1 DEF Group!Quiet, Concerns
  <2>3. Resting(u)
    BY <1>1, <2>1, <2>2 DEF GroupInv, GroupStands, Standing, Group!Quiet
  <2>4. ~Awaited(u)
    BY <1>1 DEF Awaited, Group!Quiet, Group!Active
  <2>5. QED
    BY <1>1, <2>3, <2>4 DEF Resting
<1>2. Group!SomeoneInCharge
  BY DEF GroupInv, GroupLed, InCharge, Group!SomeoneInCharge
<1>3. QED
  BY <1>1, <1>2 DEF Group!MembersParticipate
-----------------------------------------------------------------------------
(* Direct conversations.  Rows, and what a request serves. *)
DirectRow == [Writers -> {"none", "in", "left"}]
DirectMsg == [conv: Direct!Ids, by: Writers, to: Writers \cup {None}, read: BOOLEAN, deleted: BOOLEAN]
DirectSlots ==
  /\ call \in [DirectCalls -> DirectRequests \cup {None}] /\ pc \in [DirectCalls -> Direct!Labels]
  /\ todo \in [DirectCalls -> SUBSET Writers]
  /\ found \in [DirectCalls -> Direct!Ids \cup {None} \cup ((Direct!Ids \cup {None}) \X Writers)]
  /\ \A c \in DirectCalls : pc[c] # "new" => call[c] \in DirectRequests
DirectTables ==
  /\ account \subseteq Writers /\ gift \subseteq DirectCalls
  /\ conv \in [Direct!Ids -> DirectRow \cup {None}] /\ msg \in [Direct!Ids -> DirectMsg \cup {None}]
  /\ \A i \in Direct!Ids : msg[i] # None => conv[msg[i].conv] # None /\ msg[i].by \in account

(* A conversation was opened by a request, for two users, and only they ever had
   a seat in it; who opened it keeps his. *)
Opened(i) ==
  conv[i] # None =>
    /\ pc[i[1]] # "new" /\ Direct!Seated(i) \subseteq {call[i[1]].by, i[2]} /\ Direct!Seated(i) \subseteq account
    /\ call[i[1]].by \in Direct!Seated(i)
DirectOpened == \A i \in Direct!Ids : Opened(i)

DirectAsking ==
  \A c \in DirectCalls :
    /\ pc[c] \in {"find", "create"} => call[c].kind = "open" /\ todo[c] = call[c].to /\ call[c].to # {call[c].by}
    /\ pc[c] \in {"seat", "unseat"} => call[c].kind = "close"
    /\ pc[c] = "check" => call[c].kind \in {"send", "sendgift"}
    /\ pc[c] \in {"peer", "give"} => call[c].kind = "sendgift"
    /\ pc[c] = "write" => call[c].kind \in {"send", "sendgift"}
    /\ pc[c] \in {"mine", "retract"} => call[c].kind = "unsend"
    /\ pc[c] \in {"source", "dest", "make", "copy"} => call[c].kind = "forward" /\ todo[c] \subseteq call[c].to
    /\ pc[c] = "mark" => call[c].kind = "read"
    /\ pc[c] = "erase" => call[c].kind = "quit"

(* What a request has found is still there. *)
Finds(c) ==
  /\ pc[c] \in {"seat", "unseat", "check", "peer", "give", "write", "mark"} => found[c] \in Direct!Convs
  /\ pc[c] \in {"mine", "retract", "source"} => found[c] \in Direct!Ids /\ msg[found[c]] # None
  /\ pc[c] = "make" => \E v \in todo[c] : found[c] = <<None, v>>
  /\ pc[c] = "copy" => \E v \in todo[c] : \E i \in Direct!Convs : found[c] = <<i, v>> /\ Direct!Seated(i) \subseteq {call[c].by, v}
DirectFound == \A c \in DirectCalls : Finds(c)

(* A request opens a conversation for a user once. *)
Fresh(c) ==
  /\ pc[c] \in {"new", "find", "create"} => \A v \in Writers : conv[<<c, v>>] = None
  /\ pc[c] \in {"source", "dest", "make", "copy"} =>
       \A v \in todo[c] : conv[<<c, v>>] = None \/ (pc[c] = "copy" /\ found[c] = <<<<c, v>>, v>>)
DirectFresh == \A c \in DirectCalls : Fresh(c)

DirectCrossed ==
  \A c, d \in DirectCalls : c # d /\ Direct!Active(c) /\ Direct!Active(d)
     => \A p \in Direct!Pairs(call[c]) : p \in Direct!Pairs(call[d]) => p \in crossed

(* Who is about to open a conversation has seen that there is none. *)
Alone(u, v) == u # v => {u, v} \in crossed \/ \A i \in Direct!Convs : Direct!Seated(i) # {u, v}
Looked(c) ==
  /\ pc[c] = "create" => \A v \in todo[c] : Alone(call[c].by, v)
  /\ pc[c] = "make" => \A v \in todo[c] : found[c] = <<None, v>> => Alone(call[c].by, v)
DirectLooked == \A c \in DirectCalls : Looked(c)

DirectSingle ==
  \A i, j \in Direct!Convs, u, v \in Writers :
     i # j /\ u # v /\ Direct!Seated(i) = {u, v} /\ Direct!Seated(j) = {u, v} => {u, v} \in crossed

DirectSent == \A i \in Direct!Ids : msg[i] # None /\ msg[i].to # None => Direct!Seated(msg[i].conv) \subseteq {msg[i].by, msg[i].to}

DirectInv ==
  /\ DirectSlots /\ DirectTables /\ DirectOpened /\ DirectAsking /\ DirectFound /\ DirectFresh
  /\ DirectCrossed /\ DirectLooked /\ DirectSingle /\ DirectSent

(* The fields of a request. *)
LEMMA DirectRequest ==
  ASSUME Direct!MessagingAssumption, NEW r \in DirectRequests
  PROVE  r.kind \in Direct!Kinds /\ r.by \in Writers /\ r.to \subseteq Writers
BY DEF Direct!MessagingAssumption, Direct!Request

(* A step of one request leaves the others alone. *)
DirectOthers(c) ==
  \A d \in DirectCalls \ {c} : pc'[d] = pc[d] /\ call'[d] = call[d] /\ todo'[d] = todo[d] /\ found'[d] = found[d]

(* A step of one request leaves the others alone. *)
LEMMA DirectOther ==
  ASSUME Direct!MessagingAssumption, DirectSlots, NEW c \in DirectCalls, Direct!Handle(c)
  PROVE  DirectOthers(c)
<1> USE DEF DirectSlots, DirectOthers
<1>1. ASSUME Direct!Start(c) PROVE DirectOthers(c)
  BY <1>1, DirectRequest DEF Direct!Start, Direct!First, Direct!Kinds, Direct!Goto, Direct!rows
<1>2. ASSUME Direct!FindDirect(c) PROVE DirectOthers(c)
  BY <1>2 DEF Direct!FindDirect, Direct!Answer, Direct!Goto, Direct!Reads, Direct!rows, Direct!Between
<1>3. ASSUME Direct!CreateDirect(c) PROVE DirectOthers(c)
  BY <1>3 DEF Direct!CreateDirect, Direct!NewConv, Direct!Answer, Direct!Goto
<1>4. ASSUME Direct!FindSeat(c) PROVE DirectOthers(c)
  BY <1>4 DEF Direct!FindSeat, Direct!Sits, Direct!Answer, Direct!Goto, Direct!Reads, Direct!rows
<1>5. ASSUME Direct!Unseat(c) PROVE DirectOthers(c)
  BY <1>5 DEF Direct!Unseat, Direct!Answer, Direct!Goto
<1>6. ASSUME Direct!FindPeer(c) PROVE DirectOthers(c)
  BY <1>6 DEF Direct!FindPeer, Direct!Goto, Direct!Reads, Direct!rows
<1>7. ASSUME Direct!Give(c) PROVE DirectOthers(c)
  BY <1>7 DEF Direct!Give, Direct!Answer, Direct!Goto
<1>8. ASSUME Direct!Write(c) PROVE DirectOthers(c)
  BY <1>8 DEF Direct!Write, Direct!Message, Direct!Answer, Direct!Goto
<1>9. ASSUME Direct!FindMine(c) PROVE DirectOthers(c)
  BY <1>9 DEF Direct!FindMine, Direct!Goto, Direct!Answer, Direct!Reads, Direct!rows
<1>10. ASSUME Direct!Retract(c) PROVE DirectOthers(c)
  BY <1>10 DEF Direct!Retract, Direct!Answer, Direct!Goto
<1>11. ASSUME Direct!MarkRead(c) PROVE DirectOthers(c)
  BY <1>11 DEF Direct!MarkRead, Direct!Answer, Direct!Goto
<1>12. ASSUME Direct!FindSource(c) PROVE DirectOthers(c)
  BY <1>12 DEF Direct!FindSource, Direct!Answer, Direct!Goto, Direct!Reads, Direct!rows
<1>13. ASSUME Direct!FindDestination(c) PROVE DirectOthers(c)
  BY <1>13 DEF Direct!FindDestination, Direct!Suits, Direct!Answer, Direct!Goto, Direct!Reads, Direct!rows
<1>14. ASSUME Direct!MakeDestination(c) PROVE DirectOthers(c)
  BY <1>14 DEF Direct!MakeDestination, Direct!NewConv, Direct!Answer, Direct!Goto
<1>15. ASSUME Direct!Copy(c) PROVE DirectOthers(c)
  BY <1>15 DEF Direct!Copy, Direct!Message, Direct!Answer, Direct!Goto
<1>16. ASSUME Direct!Erase(c) PROVE DirectOthers(c)
  BY <1>16 DEF Direct!Erase, Direct!Bound, Direct!Answer, Direct!Goto
<1>17. ASSUME Direct!Crash(c) PROVE DirectOthers(c)
  BY <1>17 DEF Direct!Crash, Direct!Answer, Direct!Goto, Direct!Reads, Direct!rows
<1>18. QED
  BY <1>1, <1>2, <1>3, <1>4, <1>5, <1>6, <1>7, <1>8, <1>9, <1>10, <1>11, <1>12, <1>13, <1>14, <1>15, <1>16, <1>17 DEF Direct!Handle

(* A request serves what it was asked. *)
DirectServes(c) ==
  /\ pc'[c] # "new" /\ (pc[c] # "new" => call' = call /\ crossed' = crossed /\ pc[c] # "done")
  /\ pc[c] = "new" => Direct!Start(c)

(* A request begins. *)
LEMMA DirectBegins ==
  ASSUME Direct!MessagingAssumption, DirectSlots, NEW c \in DirectCalls, Direct!Start(c)
  PROVE  \E r \in DirectRequests : \E i \in Direct!Ids \cup {None} :
           /\ r.kind \in Direct!Kinds /\ r.by \in Writers /\ r.to \subseteq Writers /\ r.by \in account
           /\ r.kind = "open" => r.to # {r.by}
           /\ i \in Direct!Names(r) /\ found' = [found EXCEPT ![c] = i]
           /\ call' = [call EXCEPT ![c] = r] /\ pc' = [pc EXCEPT ![c] = Direct!First[r.kind]] /\ pc[c] = "new"
           /\ todo' = [todo EXCEPT ![c] = r.to] /\ Direct!First[r.kind] \in Direct!Labels \ {"new", "done"}
           /\ crossed' = crossed \cup UNION {Direct!Pairs(r) \cap Direct!Pairs(call[d]) : d \in {e \in DirectCalls : Direct!Active(e)}}
           /\ UNCHANGED <<account, conv, msg, gift>>
<1>1. PICK r \in DirectRequests :
           /\ r.by \in account /\ (r.kind = "open" => r.to # {r.by})
           /\ \E i \in Direct!Names(r) : found' = [found EXCEPT ![c] = i]
           /\ call' = [call EXCEPT ![c] = r] /\ pc' = [pc EXCEPT ![c] = Direct!First[r.kind]]
           /\ todo' = [todo EXCEPT ![c] = r.to]
           /\ crossed' = crossed \cup UNION {Direct!Pairs(r) \cap Direct!Pairs(call[d]) : d \in {e \in DirectCalls : Direct!Active(e)}}
  BY DEF Direct!Start, Direct!Goto
<1>2. PICK i \in Direct!Names(r) : found' = [found EXCEPT ![c] = i]
  BY <1>1
<1>3. i \in Direct!Ids \cup {None}
  BY DEF Direct!Names, Direct!Convs
<1>4. Direct!First[r.kind] \in Direct!Labels \ {"new", "done"} /\ r.kind \in Direct!Kinds /\ r.by \in Writers /\ r.to \subseteq Writers
  BY DirectRequest DEF Direct!First, Direct!Labels, Direct!Kinds
<1>5. pc[c] = "new" /\ UNCHANGED <<account, conv, msg, gift>>
  BY DEF Direct!Start, Direct!rows
<1>6. QED
  BY <1>1, <1>2, <1>3, <1>4, <1>5

(* A request serves what it was asked, until it is answered. *)
LEMMA DirectServe ==
  ASSUME Direct!MessagingAssumption, DirectSlots, NEW c \in DirectCalls, Direct!Handle(c)
  PROVE  DirectServes(c)
<1> USE DEF DirectSlots, DirectServes
<1>1. ASSUME Direct!Start(c) PROVE DirectServes(c)
  BY <1>1, DirectBegins
<1>2. ASSUME Direct!FindDirect(c) PROVE DirectServes(c)
  BY <1>2 DEF Direct!FindDirect, Direct!Answer, Direct!Goto, Direct!Reads, Direct!rows, Direct!Between
<1>3. ASSUME Direct!CreateDirect(c) PROVE DirectServes(c)
  BY <1>3 DEF Direct!CreateDirect, Direct!NewConv, Direct!Answer, Direct!Goto
<1>4. ASSUME Direct!FindSeat(c) PROVE DirectServes(c)
  BY <1>4 DEF Direct!FindSeat, Direct!Sits, Direct!Answer, Direct!Goto, Direct!Reads, Direct!rows
<1>5. ASSUME Direct!Unseat(c) PROVE DirectServes(c)
  BY <1>5 DEF Direct!Unseat, Direct!Answer, Direct!Goto
<1>6. ASSUME Direct!FindPeer(c) PROVE DirectServes(c)
  BY <1>6 DEF Direct!FindPeer, Direct!Goto, Direct!Reads, Direct!rows
<1>7. ASSUME Direct!Give(c) PROVE DirectServes(c)
  BY <1>7 DEF Direct!Give, Direct!Answer, Direct!Goto
<1>8. ASSUME Direct!Write(c) PROVE DirectServes(c)
  BY <1>8 DEF Direct!Write, Direct!Message, Direct!Answer, Direct!Goto
<1>9. ASSUME Direct!FindMine(c) PROVE DirectServes(c)
  BY <1>9 DEF Direct!FindMine, Direct!Goto, Direct!Answer, Direct!Reads, Direct!rows
<1>10. ASSUME Direct!Retract(c) PROVE DirectServes(c)
  BY <1>10 DEF Direct!Retract, Direct!Answer, Direct!Goto
<1>11. ASSUME Direct!MarkRead(c) PROVE DirectServes(c)
  BY <1>11 DEF Direct!MarkRead, Direct!Answer, Direct!Goto
<1>12. ASSUME Direct!FindSource(c) PROVE DirectServes(c)
  BY <1>12 DEF Direct!FindSource, Direct!Answer, Direct!Goto, Direct!Reads, Direct!rows
<1>13. ASSUME Direct!FindDestination(c) PROVE DirectServes(c)
  BY <1>13 DEF Direct!FindDestination, Direct!Suits, Direct!Answer, Direct!Goto, Direct!Reads, Direct!rows
<1>14. ASSUME Direct!MakeDestination(c) PROVE DirectServes(c)
  BY <1>14 DEF Direct!MakeDestination, Direct!NewConv, Direct!Answer, Direct!Goto
<1>15. ASSUME Direct!Copy(c) PROVE DirectServes(c)
  BY <1>15 DEF Direct!Copy, Direct!Message, Direct!Answer, Direct!Goto
<1>16. ASSUME Direct!Erase(c) PROVE DirectServes(c)
  BY <1>16 DEF Direct!Erase, Direct!Bound, Direct!Answer, Direct!Goto
<1>17. ASSUME Direct!Crash(c) PROVE DirectServes(c)
  BY <1>17 DEF Direct!Crash, Direct!Answer, Direct!Goto, Direct!Reads, Direct!rows
<1>18. QED
  BY <1>1, <1>2, <1>3, <1>4, <1>5, <1>6, <1>7, <1>8, <1>9, <1>10, <1>11, <1>12, <1>13, <1>14, <1>15, <1>16, <1>17 DEF Direct!Handle

(* Requests stay at statements of their kind. *)
LEMMA DirectAsks ==
  ASSUME Direct!MessagingAssumption, DirectSlots, DirectAsking, NEW c \in DirectCalls, Direct!Handle(c)
  PROVE  DirectAsking'
<1> USE DEF DirectSlots, DirectAsking
<1>1. ASSUME Direct!Start(c) PROVE DirectAsking'
  BY <1>1, DirectRequest DEF Direct!Start, Direct!First, Direct!Kinds, Direct!Goto, Direct!rows
<1>2. ASSUME Direct!FindDirect(c) PROVE DirectAsking'
  BY <1>2 DEF Direct!FindDirect, Direct!Answer, Direct!Goto, Direct!Reads, Direct!rows, Direct!Between
<1>3. ASSUME Direct!CreateDirect(c) PROVE DirectAsking'
  BY <1>3 DEF Direct!CreateDirect, Direct!NewConv, Direct!Answer, Direct!Goto
<1>4. ASSUME Direct!FindSeat(c) PROVE DirectAsking'
  BY <1>4 DEF Direct!FindSeat, Direct!Sits, Direct!Answer, Direct!Goto, Direct!Reads, Direct!rows
<1>5. ASSUME Direct!Unseat(c) PROVE DirectAsking'
  BY <1>5 DEF Direct!Unseat, Direct!Answer, Direct!Goto
<1>6. ASSUME Direct!FindPeer(c) PROVE DirectAsking'
  BY <1>6 DEF Direct!FindPeer, Direct!Goto, Direct!Reads, Direct!rows
<1>7. ASSUME Direct!Give(c) PROVE DirectAsking'
  BY <1>7 DEF Direct!Give, Direct!Answer, Direct!Goto
<1>8. ASSUME Direct!Write(c) PROVE DirectAsking'
  BY <1>8 DEF Direct!Write, Direct!Message, Direct!Answer, Direct!Goto
<1>9. ASSUME Direct!FindMine(c) PROVE DirectAsking'
  BY <1>9 DEF Direct!FindMine, Direct!Goto, Direct!Answer, Direct!Reads, Direct!rows
<1>10. ASSUME Direct!Retract(c) PROVE DirectAsking'
  BY <1>10 DEF Direct!Retract, Direct!Answer, Direct!Goto
<1>11. ASSUME Direct!MarkRead(c) PROVE DirectAsking'
  BY <1>11 DEF Direct!MarkRead, Direct!Answer, Direct!Goto
<1>12. ASSUME Direct!FindSource(c) PROVE DirectAsking'
  BY <1>12 DEF Direct!FindSource, Direct!Answer, Direct!Goto, Direct!Reads, Direct!rows
<1>13. ASSUME Direct!FindDestination(c) PROVE DirectAsking'
  BY <1>13 DEF Direct!FindDestination, Direct!Suits, Direct!Answer, Direct!Goto, Direct!Reads, Direct!rows
<1>14. ASSUME Direct!MakeDestination(c) PROVE DirectAsking'
  BY <1>14 DEF Direct!MakeDestination, Direct!NewConv, Direct!Answer, Direct!Goto
<1>15. ASSUME Direct!Copy(c) PROVE DirectAsking'
  BY <1>15 DEF Direct!Copy, Direct!Message, Direct!Answer, Direct!Goto
<1>16. ASSUME Direct!Erase(c) PROVE DirectAsking'
  BY <1>16 DEF Direct!Erase, Direct!Bound, Direct!Answer, Direct!Goto
<1>17. ASSUME Direct!Crash(c) PROVE DirectAsking'
  BY <1>17 DEF Direct!Crash, Direct!Answer, Direct!Goto, Direct!Reads, Direct!rows
<1>18. QED
  BY <1>1, <1>2, <1>3, <1>4, <1>5, <1>6, <1>7, <1>8, <1>9, <1>10, <1>11, <1>12, <1>13, <1>14, <1>15, <1>16, <1>17 DEF Direct!Handle

(* What requests hold keeps its type. *)
LEMMA DirectSlot ==
  ASSUME Direct!MessagingAssumption, DirectSlots, DirectAsking, DirectFound, NEW c \in DirectCalls, Direct!Handle(c)
  PROVE  DirectSlots'
<1> USE DEF DirectSlots, DirectAsking, Direct!Labels
<1>1. ASSUME Direct!Start(c) PROVE DirectSlots'
  BY <1>1, DirectBegins
<1>2. ASSUME Direct!FindDirect(c) PROVE DirectSlots'
  BY <1>2 DEF Direct!FindDirect, Direct!Answer, Direct!Goto, Direct!Reads, Direct!rows, Direct!Between, Direct!Names
<1>3. ASSUME Direct!CreateDirect(c) PROVE DirectSlots'
  BY <1>3 DEF Direct!CreateDirect, Direct!NewConv, Direct!Answer, Direct!Goto, Direct!Names
<1>4. ASSUME Direct!FindSeat(c) PROVE DirectSlots'
  BY <1>4 DEF Direct!FindSeat, Direct!Sits, Direct!Answer, Direct!Goto, Direct!Reads, Direct!rows, Direct!Names
<1>5. ASSUME Direct!Unseat(c) PROVE DirectSlots'
  BY <1>5 DEF Direct!Unseat, Direct!Answer, Direct!Goto, Direct!Names
<1>6. ASSUME Direct!FindPeer(c) PROVE DirectSlots'
  BY <1>6 DEF Direct!FindPeer, Direct!Goto, Direct!Reads, Direct!rows, Direct!Names
<1>7. ASSUME Direct!Give(c) PROVE DirectSlots'
  BY <1>7 DEF Direct!Give, Direct!Answer, Direct!Goto, Direct!Names
<1>8. ASSUME Direct!Write(c) PROVE DirectSlots'
  BY <1>8 DEF Direct!Write, Direct!Message, Direct!Answer, Direct!Goto, Direct!Names
<1>9. ASSUME Direct!FindMine(c) PROVE DirectSlots'
  BY <1>9 DEF Direct!FindMine, Direct!Goto, Direct!Answer, Direct!Reads, Direct!rows, Direct!Names
<1>10. ASSUME Direct!Retract(c) PROVE DirectSlots'
  BY <1>10 DEF Direct!Retract, Direct!Answer, Direct!Goto, Direct!Names
<1>11. ASSUME Direct!MarkRead(c) PROVE DirectSlots'
  BY <1>11 DEF Direct!MarkRead, Direct!Answer, Direct!Goto, Direct!Names
<1>12. ASSUME Direct!FindSource(c) PROVE DirectSlots'
  BY <1>12 DEF Direct!FindSource, Direct!Answer, Direct!Goto, Direct!Reads, Direct!rows, Direct!Names
<1>13. ASSUME Direct!FindDestination(c) PROVE DirectSlots'
  <2>1. found' = found \/ \E v \in Writers, x \in Direct!Ids \cup {None} : found' = [found EXCEPT ![c] = <<x, v>>]
    BY <1>13 DEF Direct!FindDestination, Direct!Answer, Direct!Convs
  <2>2. found' \in [DirectCalls -> Direct!Ids \cup {None} \cup ((Direct!Ids \cup {None}) \X Writers)]
    BY <2>1
  <2>3. /\ pc' \in [DirectCalls -> Direct!Labels] /\ UNCHANGED <<call, todo>> /\ pc[c] # "new"
        /\ \A e \in DirectCalls : pc'[e] = "new" <=> pc[e] = "new"
    BY <1>13 DEF Direct!FindDestination, Direct!Answer, Direct!Goto
  <2>4. QED
    BY <2>2, <2>3
<1>14. ASSUME Direct!MakeDestination(c) PROVE DirectSlots'
  <2>1. PICK v \in todo[c] : found[c] = <<None, v>>
    BY <1>14 DEF Direct!MakeDestination, DirectFound, Finds
  <2>2. found' = found \/ found' = [found EXCEPT ![c] = <<<<c, v>>, v>>]
    BY <1>14, <2>1 DEF Direct!MakeDestination, Direct!Answer
  <2>3. <<c, v>> \in Direct!Ids /\ v \in Writers
    BY DEF Direct!Ids
  <2>4. found' \in [DirectCalls -> Direct!Ids \cup {None} \cup ((Direct!Ids \cup {None}) \X Writers)]
    BY <2>2, <2>3
  <2>5. /\ pc' \in [DirectCalls -> Direct!Labels] /\ UNCHANGED <<call, todo>> /\ pc[c] # "new"
        /\ \A e \in DirectCalls : pc'[e] = "new" <=> pc[e] = "new"
    BY <1>14 DEF Direct!MakeDestination, Direct!Answer, Direct!Goto
  <2>6. QED
    BY <2>4, <2>5
<1>15. ASSUME Direct!Copy(c) PROVE DirectSlots'
  BY <1>15 DEF Direct!Copy, Direct!Message, Direct!Answer, Direct!Goto, Direct!Names
<1>16. ASSUME Direct!Erase(c) PROVE DirectSlots'
  BY <1>16 DEF Direct!Erase, Direct!Bound, Direct!Answer, Direct!Goto, Direct!Names
<1>17. ASSUME Direct!Crash(c) PROVE DirectSlots'
  BY <1>17 DEF Direct!Crash, Direct!Answer, Direct!Goto, Direct!Reads, Direct!rows, Direct!Names
<1>18. QED
  BY <1>1, <1>2, <1>3, <1>4, <1>5, <1>6, <1>7, <1>8, <1>9, <1>10, <1>11, <1>12, <1>13, <1>14, <1>15, <1>16, <1>17 DEF Direct!Handle

(* Few statements write conversations, and few messages. *)
DirectFew(c) ==
  /\ Direct!CreateDirect(c) \/ Direct!MakeDestination(c) \/ Direct!Unseat(c) \/ Direct!Erase(c) \/ UNCHANGED <<account, conv>>
  /\ Direct!Write(c) \/ Direct!Copy(c) \/ Direct!Retract(c) \/ Direct!MarkRead(c) \/ UNCHANGED msg

(* A step makes rows named by its request, and no account. *)
LEMMA DirectWriters ==
  ASSUME Direct!MessagingAssumption, DirectSlots, NEW c \in DirectCalls, Direct!Handle(c)
  PROVE  DirectFew(c)
<1> USE DEF DirectFew
<1>1. ASSUME Direct!Start(c) PROVE DirectFew(c)
  BY <1>1 DEF Direct!Start, Direct!rows
<1>2. ASSUME Direct!FindDirect(c) PROVE DirectFew(c)
  BY <1>2 DEF Direct!FindDirect, Direct!Answer, Direct!Goto, Direct!Reads, Direct!rows, Direct!Between
<1>3. ASSUME Direct!CreateDirect(c) PROVE DirectFew(c)
  <2>1. UNCHANGED msg
    BY <1>3 DEF Direct!CreateDirect
  <2>2. QED
    BY <1>3, <2>1
<1>4. ASSUME Direct!FindSeat(c) PROVE DirectFew(c)
  BY <1>4 DEF Direct!FindSeat, Direct!Sits, Direct!Answer, Direct!Goto, Direct!Reads, Direct!rows
<1>5. ASSUME Direct!Unseat(c) PROVE DirectFew(c)
  <2>1. UNCHANGED msg
    BY <1>5 DEF Direct!Unseat
  <2>2. QED
    BY <1>5, <2>1
<1>6. ASSUME Direct!FindPeer(c) PROVE DirectFew(c)
  BY <1>6 DEF Direct!FindPeer, Direct!Goto, Direct!Reads, Direct!rows
<1>7. ASSUME Direct!Give(c) PROVE DirectFew(c)
  BY <1>7 DEF Direct!Give, Direct!Answer, Direct!Goto
<1>8. ASSUME Direct!Write(c) PROVE DirectFew(c)
  <2>1. UNCHANGED <<account, conv>>
    BY <1>8 DEF Direct!Write
  <2>2. QED
    BY <1>8, <2>1
<1>9. ASSUME Direct!FindMine(c) PROVE DirectFew(c)
  BY <1>9 DEF Direct!FindMine, Direct!Goto, Direct!Answer, Direct!Reads, Direct!rows
<1>10. ASSUME Direct!Retract(c) PROVE DirectFew(c)
  <2>1. UNCHANGED <<account, conv>>
    BY <1>10 DEF Direct!Retract
  <2>2. QED
    BY <1>10, <2>1
<1>11. ASSUME Direct!MarkRead(c) PROVE DirectFew(c)
  <2>1. UNCHANGED <<account, conv>>
    BY <1>11 DEF Direct!MarkRead
  <2>2. QED
    BY <1>11, <2>1
<1>12. ASSUME Direct!FindSource(c) PROVE DirectFew(c)
  BY <1>12 DEF Direct!FindSource, Direct!Answer, Direct!Goto, Direct!Reads, Direct!rows
<1>13. ASSUME Direct!FindDestination(c) PROVE DirectFew(c)
  BY <1>13 DEF Direct!FindDestination, Direct!Suits, Direct!Answer, Direct!Goto, Direct!Reads, Direct!rows
<1>14. ASSUME Direct!MakeDestination(c) PROVE DirectFew(c)
  <2>1. UNCHANGED msg
    BY <1>14 DEF Direct!MakeDestination
  <2>2. QED
    BY <1>14, <2>1
<1>15. ASSUME Direct!Copy(c) PROVE DirectFew(c)
  <2>1. UNCHANGED <<account, conv>>
    BY <1>15 DEF Direct!Copy
  <2>2. QED
    BY <1>15, <2>1
<1>16. ASSUME Direct!Erase(c) PROVE DirectFew(c)
  <2>1. UNCHANGED msg
    BY <1>16 DEF Direct!Erase
  <2>2. QED
    BY <1>16, <2>1
<1>17. ASSUME Direct!Crash(c) PROVE DirectFew(c)
  BY <1>17 DEF Direct!Crash, Direct!Answer, Direct!Goto, Direct!Reads, Direct!rows
<1>18. QED
  BY <1>1, <1>2, <1>3, <1>4, <1>5, <1>6, <1>7, <1>8, <1>9, <1>10, <1>11, <1>12, <1>13, <1>14, <1>15, <1>16, <1>17 DEF Direct!Handle

(* A seat is not taken but by the request that opens the conversation. *)
DirectKept ==
  \A i \in Direct!Ids : conv[i] # None =>
    /\ conv'[i] # None /\ Direct!Seated(i)' \subseteq Direct!Seated(i) /\ Direct!Seated(i)' \subseteq account'
    /\ call[i[1]].by \in Direct!Seated(i)'
DirectNoNew == \A i \in Direct!Ids : conv'[i] # None => conv[i] # None
DirectMade(c, v) ==
  /\ \A i \in Direct!Ids : i # <<c, v>> => conv'[i] = conv[i]
  /\ conv[<<c, v>>] = None /\ conv'[<<c, v>>] # None
  /\ Direct!Seated(<<c, v>>)' = {call[c].by, v} /\ call[c].by # v /\ {call[c].by, v} \subseteq account
  /\ UNCHANGED <<account, msg>>
  /\ pc[c] = "create" \/ (pc[c] = "make" /\ found[c] = <<None, v>>)
DirectMakes(c) == \E v \in todo[c] : DirectMade(c, v)
DirectOpening(c) ==
  /\ conv' \in [Direct!Ids -> DirectRow \cup {None}] /\ account' \subseteq Writers
  /\ DirectKept /\ (DirectNoNew \/ DirectMakes(c))

(* A row is never None. *)
LEMMA DirectRows ==
  ASSUME Direct!MessagingAssumption, DirectTables
  PROVE  /\ None \notin DirectRow /\ None \notin DirectMsg
         /\ \A i \in Direct!Ids : conv[i] # None => conv[i] \in DirectRow /\ Direct!Seated(i) \subseteq Writers
         /\ \A i \in Direct!Ids : msg[i] # None => msg[i] \in DirectMsg
BY DEF Direct!MessagingAssumption, DirectTables, DirectRow, DirectMsg, Direct!Seated

(* A step that leaves accounts and conversations alone. *)
LEMMA DirectSame ==
  ASSUME DirectTables, DirectOpened, NEW c \in DirectCalls, UNCHANGED <<account, conv>>
  PROVE  DirectOpening(c)
BY DEF DirectTables, DirectOpened, Opened, DirectOpening, DirectKept, DirectNoNew, Direct!Seated

(* The conversation of c for v. *)
LEMMA DirectNew ==
  ASSUME Direct!MessagingAssumption, DirectSlots, DirectTables, DirectOpened, NEW c \in DirectCalls, NEW v \in todo[c], Direct!NewConv(c, v),
         conv[<<c, v>>] = None, pc[c] # "new", call[c].by # v, {call[c].by, v} \subseteq account, UNCHANGED <<account, msg>>,
         pc[c] = "create" \/ (pc[c] = "make" /\ found[c] = <<None, v>>)
  PROVE  DirectOpening(c) /\ DirectMade(c, v)
<1> DEFINE row == [u \in Writers |-> IF u \in {call[c].by, v} THEN "in" ELSE "none"]
<1>1. conv' = [conv EXCEPT ![<<c, v>>] = row]
  BY DEF Direct!NewConv
<1>2. row \in DirectRow /\ row # None
  <2>1. row \in DirectRow
    BY DEF DirectRow
  <2>2. QED
    BY <2>1, DirectRows
<1>3. v \in Writers /\ <<c, v>> \in Direct!Ids
  BY DEF DirectSlots, Direct!Ids
<1>4. conv' \in [Direct!Ids -> DirectRow \cup {None}]
  BY <1>1, <1>2, <1>3 DEF DirectTables
<1>5. conv'[<<c, v>>] = row /\ \A i \in Direct!Ids : i # <<c, v>> => conv'[i] = conv[i]
  BY <1>1, <1>3 DEF DirectTables
<1>6. {u \in Writers : row[u] # "none"} = {call[c].by, v}
  BY <1>3 DEF DirectTables
<1>7. Direct!Seated(<<c, v>>)' = {call[c].by, v}
  BY <1>5, <1>6 DEF Direct!Seated
<1> HIDE DEF row
<1>8. DirectKept
  BY <1>5 DEF DirectKept, DirectOpened, Opened, Direct!Seated
<1>9. DirectMade(c, v)
  BY <1>2, <1>5, <1>7 DEF DirectMade
<1>10. QED
  BY <1>4, <1>8, <1>9 DEF DirectOpening, DirectMakes, DirectTables

(* What a step does to the conversations. *)
LEMMA DirectOpener ==
  ASSUME Direct!MessagingAssumption, DirectSlots, DirectTables, DirectOpened, DirectAsking, DirectFound, DirectFresh, NEW c \in DirectCalls, Direct!Handle(c)
  PROVE  DirectOpening(c)
<1>1. CASE UNCHANGED <<account, conv>>
  BY <1>1, DirectSame
<1>2. ASSUME Direct!CreateDirect(c) PROVE DirectOpening(c)
  <2>1. PICK v \in todo[c] : IF {call[c].by, v} \subseteq account THEN Direct!NewConv(c, v) ELSE UNCHANGED conv
    BY <1>2 DEF Direct!CreateDirect
  <2>2. UNCHANGED <<account, msg>> /\ pc[c] = "create"
    BY <1>2 DEF Direct!CreateDirect
  <2>3. CASE {call[c].by, v} \subseteq account
    <3>1. call[c].by # v
      <4>1. call[c] \in DirectRequests /\ call[c].kind = "open" /\ todo[c] = call[c].to /\ call[c].to # {call[c].by}
        BY <2>2 DEF DirectSlots, DirectAsking
      <4>2. PICK u \in Writers : call[c].to = {u}
        BY <4>1 DEF Direct!MessagingAssumption
      <4>3. QED
        BY <4>1, <4>2
    <3>2. v \in Writers /\ conv[<<c, v>>] = None
      BY <2>2 DEF DirectSlots, DirectFresh, Fresh
    <3>3. QED
      BY <2>1, <2>2, <2>3, <3>1, <3>2, DirectNew
  <2>4. CASE ~({call[c].by, v} \subseteq account)
    BY <2>1, <2>2, <2>4, DirectSame
  <2>5. QED
    BY <2>3, <2>4
<1>3. ASSUME Direct!MakeDestination(c) PROVE DirectOpening(c)
  <2>1. PICK v \in todo[c] : found[c] = <<None, v>>
    BY <1>3 DEF Direct!MakeDestination, DirectFound, Finds
  <2>2. found[c][2] = v
    BY <2>1
  <2>3. UNCHANGED <<account, msg>> /\ pc[c] = "make"
    BY <1>3 DEF Direct!MakeDestination
  <2>4. ({call[c].by, v} \subseteq account /\ v # call[c].by /\ Direct!NewConv(c, v)) \/ UNCHANGED conv
    BY <1>3, <2>2 DEF Direct!MakeDestination
  <2>5. conv[<<c, v>>] = None
    BY <2>3 DEF DirectFresh, Fresh
  <2>6. QED
    BY <2>1, <2>3, <2>4, <2>5, DirectNew, DirectSame
<1>4. ASSUME Direct!Unseat(c) PROVE DirectOpening(c)
  <2>1. found[c] \in Direct!Ids /\ conv[found[c]] # None
    BY <1>4 DEF Direct!Unseat, DirectFound, Finds, Direct!Convs
  <2>2. PICK j \in Direct!Ids : j = found[c]
    BY <2>1
  <2>3. PICK u \in Writers : u = call[c].by
    BY <1>4, DirectRequest DEF Direct!Unseat, DirectSlots
  <2>4. conv' = [conv EXCEPT ![j] = [conv[j] EXCEPT ![u] = IF conv[j][u] = "none" THEN conv[j][u] ELSE "left"]] /\ account' = account
    BY <1>4, <2>2, <2>3 DEF Direct!Unseat
  <2>5. conv[j] \in DirectRow
    BY <2>1, <2>2, DirectRows
  <2>6. [conv[j] EXCEPT ![u] = IF conv[j][u] = "none" THEN conv[j][u] ELSE "left"] \in DirectRow
    BY <2>5 DEF DirectRow
  <2>7. /\ \A i \in Direct!Ids : i # j => conv'[i] = conv[i]
        /\ conv'[j] \in DirectRow /\ conv'[j] = [conv[j] EXCEPT ![u] = IF conv[j][u] = "none" THEN conv[j][u] ELSE "left"]
        /\ conv' \in [Direct!Ids -> DirectRow \cup {None}]
    BY <2>4, <2>6 DEF DirectTables
  <2>8. \A v \in Writers : conv'[j][v] # "none" <=> conv[j][v] # "none"
    BY <2>5, <2>7 DEF DirectRow
  <2>9. ASSUME NEW i \in Direct!Ids PROVE Direct!Seated(i)' = Direct!Seated(i)
    <3>1. CASE i = j
      BY <2>8, <3>1 DEF Direct!Seated
    <3>2. CASE i # j
      BY <2>7, <3>2 DEF Direct!Seated
    <3>3. QED
      BY <3>1, <3>2
  <2>10. \A i \in Direct!Ids : conv'[i] # None <=> conv[i] # None
    BY <2>1, <2>2, <2>7, DirectRows
  <2>11. QED
    BY <2>4, <2>7, <2>9, <2>10 DEF DirectOpening, DirectKept, DirectNoNew, DirectOpened, Opened, DirectTables
<1>5. ASSUME Direct!Erase(c) PROVE DirectOpening(c)
  <2>1. PICK u \in Writers : u = call[c].by
    BY <1>5, DirectRequest DEF Direct!Erase, DirectSlots
  <2>2. CASE Direct!Bound(u)
    BY <1>5, <2>1, <2>2, DirectSame DEF Direct!Erase
  <2>3. CASE ~Direct!Bound(u)
    <3>1. /\ account' = account \ {u}
          /\ conv' = [i \in Direct!Ids |-> IF conv[i] = None THEN None ELSE [conv[i] EXCEPT ![u] = "none"]]
      BY <1>5, <2>1, <2>3 DEF Direct!Erase
    <3>2. \A i \in Direct!Ids : conv[i] # None =>
            conv'[i] = [conv[i] EXCEPT ![u] = "none"] /\ conv'[i] \in DirectRow
      BY <3>1, DirectRows DEF DirectRow
    <3>3. \A i \in Direct!Ids : conv[i] = None => conv'[i] = None
      BY <3>1
    <3>4. \A i \in Direct!Ids : conv[i] # None => Direct!Seated(i)' = Direct!Seated(i) \ {u}
      <4>1. ASSUME NEW i \in Direct!Ids, conv[i] # None PROVE Direct!Seated(i)' = Direct!Seated(i) \ {u}
        <5>1. conv'[i] = [conv[i] EXCEPT ![u] = "none"] /\ conv[i] \in DirectRow
          BY <3>2, <4>1, DirectRows
        <5>2. \A v \in Writers : conv'[i][v] = IF v = u THEN "none" ELSE conv[i][v]
          BY <5>1 DEF DirectRow
        <5>3. QED
          BY <5>2 DEF Direct!Seated
      <4>2. QED
        BY <4>1
    <3>5. \A i \in Direct!Ids : conv[i] # None => call[i[1]].by # u
      BY <2>3 DEF Direct!Bound, Direct!Convs
    <3>6. conv' \in [Direct!Ids -> DirectRow \cup {None}]
      BY <3>1, <3>2, <3>3
    <3>7. \A i \in Direct!Ids : conv[i] # None => conv'[i] # None
      BY <3>2, DirectRows
    <3>8. DirectKept
      BY <3>1, <3>4, <3>5, <3>7 DEF DirectKept, DirectOpened, Opened
    <3>9. QED
      BY <3>1, <3>3, <3>6, <3>8 DEF DirectOpening, DirectNoNew, DirectTables
  <2>4. QED
    BY <2>2, <2>3
<1>6. QED
  BY <1>1, <1>2, <1>3, <1>4, <1>5, DirectWriters DEF DirectFew

(* A message stays where it is, or is new, in a conversation of its sender. *)
DirectMail ==
  /\ msg' \in [Direct!Ids -> DirectMsg \cup {None}] /\ gift' \subseteq DirectCalls
  /\ \A i \in Direct!Ids : msg[i] # None => msg'[i] # None
  /\ \A i \in Direct!Ids : msg'[i] # None =>
       /\ msg'[i].by \in account' /\ conv[msg'[i].conv] # None /\ msg'[i].conv \in Direct!Ids
       /\ msg'[i].to # None => Direct!Seated(msg'[i].conv) \subseteq {msg'[i].by, msg'[i].to}

(* A step that marks messages and leaves their senders. *)
LEMMA DirectRemarked ==
  ASSUME \A i \in Direct!Ids : msg[i] # None =>
           /\ msg[i].by \in account /\ conv[msg[i].conv] # None /\ msg[i].conv \in Direct!Ids
           /\ msg[i].to # None => Direct!Seated(msg[i].conv) \subseteq {msg[i].by, msg[i].to},
         \A i \in Direct!Ids : (msg'[i] # None <=> msg[i] # None) /\ msg'[i].conv = msg[i].conv /\ msg'[i].by = msg[i].by /\ msg'[i].to = msg[i].to,
         account' = account, msg' \in [Direct!Ids -> DirectMsg \cup {None}], gift' \subseteq DirectCalls
  PROVE  DirectMail
BY DEF DirectMail

(* What a step does to the messages. *)
LEMMA DirectMailed ==
  ASSUME Direct!MessagingAssumption, DirectSlots, DirectTables, DirectAsking, DirectFound, DirectSent, NEW c \in DirectCalls, Direct!Handle(c)
  PROVE  DirectMail
<1>1. gift' \subseteq DirectCalls
  <2>1. gift' \subseteq gift \cup {c}
    BY DEF Direct!Handle, Direct!Start, Direct!rows, Direct!Reads, Direct!FindDirect, Direct!CreateDirect, Direct!FindSeat, Direct!Unseat, Direct!FindPeer, Direct!Give, Direct!Write, Direct!FindMine, Direct!Retract, Direct!MarkRead, Direct!FindSource, Direct!FindDestination, Direct!MakeDestination, Direct!Copy, Direct!Erase, Direct!Crash
  <2>2. QED
    BY <2>1 DEF DirectTables
<1>2. \A i \in Direct!Ids : msg[i] # None =>
        /\ msg[i] \in DirectMsg /\ msg[i].by \in account /\ conv[msg[i].conv] # None /\ msg[i].conv \in Direct!Ids
        /\ msg[i].to # None => Direct!Seated(msg[i].conv) \subseteq {msg[i].by, msg[i].to}
  BY DirectRows DEF DirectTables, DirectSent, DirectMsg
<1>3. CASE UNCHANGED msg
  <2>1. ASSUME NEW i \in Direct!Ids, msg[i] # None PROVE msg[i].by \in account'
    <3>1. account' = account \/ (Direct!Erase(c) /\ ~Direct!Bound(call[c].by) /\ account' = account \ {call[c].by})
      BY DEF Direct!Handle, Direct!Start, Direct!rows, Direct!Reads, Direct!FindDirect, Direct!CreateDirect, Direct!FindSeat, Direct!Unseat, Direct!FindPeer, Direct!Give, Direct!Write, Direct!FindMine, Direct!Retract, Direct!MarkRead, Direct!FindSource, Direct!FindDestination, Direct!MakeDestination, Direct!Copy, Direct!Erase, Direct!Crash
    <3>2. ~Direct!Bound(call[c].by) => msg[i].by # call[c].by
      BY <2>1 DEF Direct!Bound
    <3>3. QED
      BY <1>2, <2>1, <3>1, <3>2, SMTT(30)
  <2>2. QED
    BY <1>1, <1>2, <1>3, <2>1 DEF DirectMail, DirectTables
<1>4. ASSUME Direct!Write(c) PROVE DirectMail
  <2>1. PICK u \in Writers, j \in Direct!Ids : u = call[c].by /\ j = found[c] /\ conv[j] # None
    BY <1>4, DirectRequest DEF Direct!Write, DirectSlots, DirectFound, Finds, Direct!Convs
  <2> DEFINE m == Direct!Message(j, u, None)
  <2>2. m \in DirectMsg /\ m.conv = j /\ m.by = u /\ m.to = None
    BY DEF Direct!Message, DirectMsg
  <2>3. <<c, u>> \in Direct!Ids
    BY DEF Direct!Ids
  <2>4. account' = account /\ ((u \in account /\ msg' = [msg EXCEPT ![<<c, u>>] = m]) \/ msg' = msg)
    BY <1>4, <2>1 DEF Direct!Write
  <2> HIDE DEF m
  <2>5. CASE u \in account /\ msg' = [msg EXCEPT ![<<c, u>>] = m]
    <3>1. msg'[<<c, u>>] = m /\ \A i \in Direct!Ids : i # <<c, u>> => msg'[i] = msg[i]
      BY <2>3, <2>5 DEF DirectTables
    <3>2. msg' \in [Direct!Ids -> DirectMsg \cup {None}]
      BY <2>2, <2>3, <2>5 DEF DirectTables
    <3>3. ASSUME NEW i \in Direct!Ids, msg'[i] # None
          PROVE  /\ msg'[i].by \in account' /\ conv[msg'[i].conv] # None /\ msg'[i].conv \in Direct!Ids
                 /\ msg'[i].to # None => Direct!Seated(msg'[i].conv) \subseteq {msg'[i].by, msg'[i].to}
      <4>1. CASE i = <<c, u>>
        BY <2>1, <2>2, <2>4, <2>5, <3>1, <4>1
      <4>2. CASE i # <<c, u>>
        <5>1. msg'[i] = msg[i] /\ account' = account
          BY <2>4, <3>1, <4>2
        <5>2. QED
          BY <1>2, <3>3, <5>1
      <4>3. QED
        BY <4>1, <4>2
    <3>4. \A i \in Direct!Ids : msg[i] # None => msg'[i] # None
      BY <2>2, <3>1, DirectRows
    <3>5. QED
      BY <1>1, <3>2, <3>3, <3>4 DEF DirectMail
  <2>6. QED
    BY <1>3, <2>4, <2>5
<1>5. ASSUME Direct!Copy(c) PROVE DirectMail
  <2>1. PICK v \in todo[c], j \in Direct!Ids : found[c] = <<j, v>> /\ conv[j] # None /\ Direct!Seated(j) \subseteq {call[c].by, v}
    BY <1>5 DEF Direct!Copy, DirectFound, Finds, Direct!Convs
  <2>2. PICK u \in Writers : u = call[c].by
    BY <1>5, DirectRequest DEF Direct!Copy, DirectSlots
  <2> DEFINE m == Direct!Message(j, u, v)
  <2>3. v \in Writers
    BY DEF DirectSlots
  <2>4. m \in DirectMsg /\ m.conv = j /\ m.by = u /\ m.to = v
    BY <2>3 DEF Direct!Message, DirectMsg
  <2>5. <<c, v>> \in Direct!Ids
    BY <2>3 DEF Direct!Ids
  <2>6. found[c][1] = j /\ found[c][2] = v
    BY <2>1
  <2>7. account' = account /\ ((u \in account /\ msg' = [msg EXCEPT ![<<c, v>>] = m]) \/ msg' = msg)
    BY <1>5, <2>2, <2>6 DEF Direct!Copy
  <2> HIDE DEF m
  <2>8. CASE u \in account /\ msg' = [msg EXCEPT ![<<c, v>>] = m]
    <3>1. msg'[<<c, v>>] = m /\ \A i \in Direct!Ids : i # <<c, v>> => msg'[i] = msg[i]
      BY <2>5, <2>8 DEF DirectTables
    <3>2. msg' \in [Direct!Ids -> DirectMsg \cup {None}]
      BY <2>4, <2>5, <2>8 DEF DirectTables
    <3>3. ASSUME NEW i \in Direct!Ids, msg'[i] # None
          PROVE  /\ msg'[i].by \in account' /\ conv[msg'[i].conv] # None /\ msg'[i].conv \in Direct!Ids
                 /\ msg'[i].to # None => Direct!Seated(msg'[i].conv) \subseteq {msg'[i].by, msg'[i].to}
      <4>1. CASE i = <<c, v>>
        BY <2>1, <2>2, <2>4, <2>7, <2>8, <3>1, <4>1
      <4>2. CASE i # <<c, v>>
        <5>1. msg'[i] = msg[i] /\ account' = account
          BY <2>7, <3>1, <4>2
        <5>2. QED
          BY <1>2, <3>3, <5>1
      <4>3. QED
        BY <4>1, <4>2
    <3>4. \A i \in Direct!Ids : msg[i] # None => msg'[i] # None
      BY <2>4, <3>1, DirectRows
    <3>5. QED
      BY <1>1, <3>2, <3>3, <3>4 DEF DirectMail
  <2>9. QED
    BY <1>3, <2>7, <2>8
<1>6. ASSUME Direct!Retract(c) PROVE DirectMail
  <2>1. PICK j \in Direct!Ids : j = found[c] /\ msg[j] # None
    BY <1>6 DEF Direct!Retract, DirectFound, Finds
  <2>2. account' = account /\ msg' = [msg EXCEPT ![j].deleted = TRUE]
    BY <1>6, <2>1 DEF Direct!Retract
  <2>3. msg[j] \in DirectMsg
    BY <1>2, <2>1
  <2> DEFINE m == [msg[j] EXCEPT !.deleted = TRUE]
  <2>4. m \in DirectMsg /\ m.conv = msg[j].conv /\ m.by = msg[j].by /\ m.to = msg[j].to
    BY <2>3 DEF DirectMsg
  <2>5. msg' = [msg EXCEPT ![j] = m]
    BY <2>2
  <2> HIDE DEF m
  <2>6. /\ msg'[j] = m /\ \A i \in Direct!Ids : i # j => msg'[i] = msg[i]
        /\ msg' \in [Direct!Ids -> DirectMsg \cup {None}]
    BY <2>4, <2>5 DEF DirectTables
  <2>7. \A i \in Direct!Ids : (msg'[i] # None <=> msg[i] # None) /\ msg'[i].conv = msg[i].conv /\ msg'[i].by = msg[i].by /\ msg'[i].to = msg[i].to
    BY <2>1, <2>4, <2>6, DirectRows
  <2>8. QED
    BY <1>1, <1>2, <2>2, <2>6, <2>7, DirectRemarked
<1>7. ASSUME Direct!MarkRead(c) PROVE DirectMail
  <2>1. /\ account' = account
        /\ msg' = [i \in Direct!Ids |-> IF msg[i] # None /\ msg[i].conv = found[c] /\ msg[i].by # call[c].by
                                        THEN [msg[i] EXCEPT !.read = TRUE] ELSE msg[i]]
    BY <1>7 DEF Direct!MarkRead
  <2>2. ASSUME NEW i \in Direct!Ids, msg[i] # None
        PROVE  msg'[i] \in DirectMsg /\ msg'[i].conv = msg[i].conv /\ msg'[i].by = msg[i].by /\ msg'[i].to = msg[i].to
    <3>1. msg[i] \in DirectMsg
      BY <1>2, <2>2
    <3>2. msg'[i] = [msg[i] EXCEPT !.read = TRUE] \/ msg'[i] = msg[i]
      BY <2>1
    <3>3. QED
      BY <3>1, <3>2 DEF DirectMsg
  <2>3. \A i \in Direct!Ids : msg[i] = None => msg'[i] = None
    BY <2>1
  <2>4. msg' \in [Direct!Ids -> DirectMsg \cup {None}]
    <3>1. \A i \in Direct!Ids : msg'[i] \in DirectMsg \cup {None}
      BY <2>2, <2>3
    <3>2. msg' = [i \in Direct!Ids |-> msg'[i]]
      BY <2>1
    <3>3. QED
      BY <3>1, <3>2
  <2>5. \A i \in Direct!Ids : (msg'[i] # None <=> msg[i] # None) /\ msg'[i].conv = msg[i].conv /\ msg'[i].by = msg[i].by /\ msg'[i].to = msg[i].to
    <3>1. \A i \in Direct!Ids : msg[i] = None => msg'[i] = msg[i]
      BY <2>1
    <3>2. QED
      BY <2>2, <3>1, DirectRows
  <2>6. QED
    BY <1>1, <1>2, <2>1, <2>4, <2>5, DirectRemarked
<1>8. QED
  BY <1>3, <1>4, <1>5, <1>6, <1>7, DirectWriters DEF DirectFew

(* The records after a step. *)
LEMMA DirectTabled ==
  ASSUME Direct!MessagingAssumption, NEW c \in DirectCalls, DirectOpening(c), DirectMail
  PROVE  DirectTables' /\ DirectSent'
<1>1. DirectTables'
  BY DEF DirectTables, DirectOpening, DirectMail, DirectKept
<1>2. DirectSent'
  BY DEF DirectSent, DirectOpening, DirectMail, DirectKept
<1>3. QED
  BY <1>1, <1>2

(* What a step leaves of the others' records. *)
LEMMA DirectStands ==
  ASSUME DirectSlots, DirectOpened, NEW c \in DirectCalls, DirectOthers(c), DirectServes(c), DirectOpening(c)
  PROVE  DirectOpened'
<1>1. ASSUME NEW i \in Direct!Ids, conv'[i] # None, conv[i] # None PROVE Opened(i)'
  <2>1. /\ pc[i[1]] # "new" /\ Direct!Seated(i) \subseteq {call[i[1]].by, i[2]} /\ i[1] \in DirectCalls
    BY <1>1 DEF DirectOpened, Opened, Direct!Ids
  <2>2. pc'[i[1]] # "new" /\ call'[i[1]] = call[i[1]]
    BY <2>1 DEF DirectOthers, DirectServes
  <2>3. QED
    BY <1>1, <2>1, <2>2 DEF DirectOpening, DirectKept, Opened
<1>2. ASSUME NEW i \in Direct!Ids, conv'[i] # None, conv[i] = None PROVE Opened(i)'
  <2>1. PICK v \in todo[c] : DirectMade(c, v)
    BY <1>2 DEF DirectOpening, DirectNoNew, DirectMakes
  <2>2. i = <<c, v>>
    BY <1>2, <2>1 DEF DirectMade
  <2>3. i[1] = c /\ i[2] = v /\ pc[c] # "new" /\ Direct!Seated(i)' = {call[c].by, v} /\ account' = account /\ {call[c].by, v} \subseteq account
    BY <2>1, <2>2 DEF DirectMade
  <2>4. pc'[c] # "new" /\ call' = call
    BY <2>3 DEF DirectServes
  <2>5. QED
    BY <2>3, <2>4 DEF Opened
<1>3. ASSUME NEW i \in Direct!Ids PROVE Opened(i)'
  <2>1. CASE conv'[i] = None
    BY <2>1 DEF Opened
  <2>2. QED
    BY <1>1, <1>2, <2>1
<1>4. QED
  BY <1>3 DEF DirectOpened

(* What another request has found. *)
LEMMA DirectFinding ==
  ASSUME DirectSlots, DirectFound, NEW c \in DirectCalls, DirectOthers(c), DirectOpening(c), DirectMail, Finds(c)'
  PROVE  DirectFound'
<1>1. ASSUME NEW d \in DirectCalls \ {c} PROVE Finds(d)'
  <2>1. pc'[d] = pc[d] /\ call'[d] = call[d] /\ todo'[d] = todo[d] /\ found'[d] = found[d] /\ Finds(d)
    BY DEF DirectOthers, DirectFound
  <2>2. \A i \in Direct!Convs : i \in Direct!Convs' /\ Direct!Seated(i)' \subseteq Direct!Seated(i)
    BY DEF DirectOpening, DirectKept, Direct!Convs
  <2>3. \A i \in Direct!Ids : msg[i] # None => msg'[i] # None
    BY DEF DirectMail
  <2>4. pc[d] = "copy" => \E v \in todo[d] : \E i \in Direct!Convs' : found[d] = <<i, v>> /\ Direct!Seated(i)' \subseteq {call[d].by, v}
    BY <2>1, <2>2 DEF Finds
  <2>5. QED
    BY <2>1, <2>2, <2>3, <2>4 DEF Finds
<1>2. QED
  BY <1>1 DEF DirectFound

(* The conversations of the other requests stay fresh. *)
LEMMA DirectRefreshing ==
  ASSUME DirectSlots, DirectFresh, NEW c \in DirectCalls, DirectOthers(c), DirectOpening(c), Fresh(c)'
  PROVE  DirectFresh'
<1>1. ASSUME NEW d \in DirectCalls \ {c} PROVE Fresh(d)'
  <2>1. pc'[d] = pc[d] /\ todo'[d] = todo[d] /\ found'[d] = found[d] /\ Fresh(d) /\ todo[d] \subseteq Writers
    BY DEF DirectOthers, DirectFresh, DirectSlots
  <2>2. \A v \in Writers : conv[<<d, v>>] = None => conv'[<<d, v>>] = None
    BY DEF DirectOpening, DirectNoNew, DirectMakes, DirectMade, Direct!Ids
  <2>3. QED
    BY <2>1, <2>2 DEF Fresh
<1>2. QED
  BY <1>1 DEF DirectFresh

(* Whole: both have a seat.  A conversation was whole before, or is new. *)
LEMMA DirectWhole ==
  ASSUME DirectOpened, NEW c \in DirectCalls, DirectOpening(c), NEW i \in Direct!Ids, conv[i] # None,
         NEW u, NEW v, u # v, Direct!Seated(i)' = {u, v}
  PROVE  Direct!Seated(i) = {u, v}
<1>1. /\ Direct!Seated(i) \subseteq {call[i[1]].by, i[2]}
      /\ {u, v} \subseteq Direct!Seated(i)
  BY DEF DirectOpening, DirectKept, DirectOpened, Opened
<1>2. QED
  BY <1>1

(* Requests that may open a conversation for the same two have been noticed. *)
LEMMA DirectMeets ==
  ASSUME Direct!MessagingAssumption, DirectSlots, DirectCrossed, NEW c \in DirectCalls, DirectOthers(c), DirectServes(c), Direct!Handle(c)
  PROVE  DirectCrossed' /\ crossed \subseteq crossed'
<1>1. CASE pc[c] # "new"
  <2>1. \A d \in DirectCalls : Direct!Active(d)' => Direct!Active(d)
    BY <1>1 DEF DirectOthers, DirectServes, Direct!Active
  <2>2. QED
    BY <1>1, <2>1 DEF DirectServes, DirectCrossed, Direct!Pairs
<1>2. CASE pc[c] = "new"
  <2>1. PICK r \in DirectRequests :
          /\ call' = [call EXCEPT ![c] = r]
          /\ crossed' = crossed \cup UNION {Direct!Pairs(r) \cap Direct!Pairs(call[d]) : d \in {e \in DirectCalls : Direct!Active(e)}}
    BY <1>2, DirectBegins DEF DirectServes
  <2>2. call'[c] = r /\ crossed \subseteq crossed'
    BY <2>1 DEF DirectSlots
  <2>3. ASSUME NEW d \in DirectCalls, NEW e \in DirectCalls, d # e, Direct!Active(d)', Direct!Active(e)',
               NEW p \in Direct!Pairs(call'[d]), p \in Direct!Pairs(call'[e])
        PROVE  p \in crossed'
    <3>1. CASE d # c /\ e # c
      BY <2>2, <2>3, <3>1 DEF DirectOthers, DirectCrossed, Direct!Active
    <3>2. CASE d = c
      <4>1. Direct!Active(e) /\ call'[e] = call[e]
        BY <2>3, <3>2 DEF DirectOthers, Direct!Active
      <4>2. QED
        BY <2>1, <2>2, <2>3, <3>2, <4>1
    <3>3. CASE e = c
      <4>1. Direct!Active(d) /\ call'[d] = call[d]
        BY <2>3, <3>3 DEF DirectOthers, Direct!Active
      <4>2. QED
        BY <2>1, <2>2, <2>3, <3>3, <4>1
    <3>4. QED
      BY <3>1, <3>2, <3>3
  <2>4. \A d \in DirectCalls : Direct!Pairs(call[d])' = Direct!Pairs(call'[d])
    BY DEF Direct!Pairs
  <2>5. QED
    BY <2>2, <2>3, <2>4 DEF DirectCrossed
<1>3. QED
  BY <1>1, <1>2

(* The two of a conversation that is being opened. *)
LEMMA DirectTwo ==
  ASSUME DirectSlots, DirectAsking, NEW d \in DirectCalls, pc[d] \in {"create", "make"}, NEW v \in todo[d]
  PROVE  Direct!Active(d) /\ {call[d].by, v} \in Direct!Pairs(call[d])
BY DEF DirectSlots, DirectAsking, Direct!Pairs, Direct!Active

(* A pair without a second conversation has none after a step that opens none for it. *)
LEMMA DirectAloneStill ==
  ASSUME DirectOpened, NEW c \in DirectCalls, DirectOpening(c), crossed \subseteq crossed', NEW u, NEW v, Alone(u, v),
         \A w \in todo[c] : DirectMade(c, w) => {call[c].by, w} # {u, v} \/ {u, v} \in crossed
  PROVE  Alone(u, v)'
<1>1. ASSUME u # v, {u, v} \notin crossed', NEW i \in Direct!Ids, conv'[i] # None, Direct!Seated(i)' = {u, v} PROVE FALSE
  <2>1. CASE conv[i] # None
    BY <1>1, <2>1, DirectWhole DEF Alone, Direct!Convs
  <2>2. CASE conv[i] = None
    <3>1. PICK w \in todo[c] : DirectMade(c, w)
      BY <1>1, <2>2 DEF DirectOpening, DirectNoNew, DirectMakes
    <3>2. i = <<c, w>>
      BY <1>1, <2>2, <3>1 DEF DirectMade
    <3>3. QED
      BY <1>1, <3>1, <3>2 DEF DirectMade
  <2>3. QED
    BY <2>1, <2>2
<1>2. QED
  BY <1>1 DEF Alone, Direct!Convs

(* What the other requests have looked for stays so. *)
LEMMA DirectLooking ==
  ASSUME DirectSlots, DirectAsking, DirectOpened, DirectCrossed, DirectLooked, NEW c \in DirectCalls, DirectOthers(c), DirectOpening(c),
         crossed \subseteq crossed', Looked(c)'
  PROVE  DirectLooked'
<1>1. ASSUME NEW d \in DirectCalls \ {c} PROVE Looked(d)'
  <2>1. pc'[d] = pc[d] /\ call'[d] = call[d] /\ todo'[d] = todo[d] /\ found'[d] = found[d] /\ Looked(d)
    BY DEF DirectOthers, DirectLooked
  <2>2. ASSUME pc[d] \in {"create", "make"}, NEW v \in todo[d], Alone(call[d].by, v) PROVE Alone(call[d].by, v)'
    <3>1. ASSUME NEW w \in todo[c], DirectMade(c, w), {call[c].by, w} = {call[d].by, v} PROVE {call[d].by, v} \in crossed
      <4>1. pc[c] \in {"create", "make"}
        BY <3>1 DEF DirectMade
      <4>2. /\ Direct!Active(c) /\ {call[d].by, v} \in Direct!Pairs(call[c])
            /\ Direct!Active(d) /\ {call[d].by, v} \in Direct!Pairs(call[d])
        BY <2>2, <3>1, <4>1, DirectTwo
      <4>3. QED
        BY <4>2 DEF DirectCrossed
    <3>2. PICK u : u = call[d].by
      OBVIOUS
    <3>3. Alone(u, v) /\ \A w \in todo[c] : DirectMade(c, w) => {call[c].by, w} # {u, v} \/ {u, v} \in crossed
      BY <2>2, <3>1, <3>2
    <3>4. Alone(u, v)'
      BY <3>3, DirectAloneStill
    <3>5. QED
      BY <2>1, <3>2, <3>4 DEF Alone
  <2>3. QED
    BY <2>1, <2>2 DEF Looked
<1>2. QED
  BY <1>1 DEF DirectLooked

(* Two whole conversations of the same two. *)
LEMMA DirectSingles ==
  ASSUME DirectSlots, DirectAsking, DirectOpened, DirectCrossed, DirectLooked, DirectSingle, NEW c \in DirectCalls, DirectOpening(c),
         crossed \subseteq crossed'
  PROVE  DirectSingle'
<1>1. ASSUME NEW i \in Direct!Ids, NEW j \in Direct!Ids, conv'[i] # None, conv'[j] # None, NEW u, NEW v, i # j, u # v,
             Direct!Seated(i)' = {u, v}, Direct!Seated(j)' = {u, v}, conv[i] # None, conv[j] = None
      PROVE  {u, v} \in crossed
  <2>1. PICK w \in todo[c] : DirectMade(c, w)
    BY <1>1 DEF DirectOpening, DirectNoNew, DirectMakes
  <2>2. j = <<c, w>>
    BY <1>1, <2>1 DEF DirectMade
  <2>3. {u, v} = {call[c].by, w} /\ call[c].by # w
    BY <1>1, <2>1, <2>2 DEF DirectMade
  <2>4. Alone(call[c].by, w)
    BY <2>1 DEF DirectMade, DirectLooked, Looked
  <2>5. Direct!Seated(i) = {u, v}
    BY <1>1, DirectWhole
  <2>6. QED
    BY <1>1, <2>3, <2>4, <2>5 DEF Alone, Direct!Convs
<1>2. ASSUME NEW i \in Direct!Ids, NEW j \in Direct!Ids, conv'[i] # None, conv'[j] # None, NEW u \in Writers, NEW v \in Writers, i # j, u # v,
             Direct!Seated(i)' = {u, v}, Direct!Seated(j)' = {u, v}
      PROVE  {u, v} \in crossed'
  <2>1. CASE conv[i] # None /\ conv[j] # None
    <3>1. Direct!Seated(i) = {u, v} /\ Direct!Seated(j) = {u, v}
      BY <1>2, <2>1, DirectWhole
    <3>2. QED
      BY <1>2, <2>1, <3>1 DEF DirectSingle, Direct!Convs
  <2>2. CASE conv[i] # None /\ conv[j] = None
    BY <1>1, <1>2, <2>2
  <2>3. CASE conv[i] = None /\ conv[j] # None
    BY <1>1, <1>2, <2>3
  <2>4. CASE conv[i] = None /\ conv[j] = None
    <3>1. PICK w \in todo[c] : DirectMade(c, w)
      BY <1>2, <2>4 DEF DirectOpening, DirectNoNew, DirectMakes
    <3>2. i = <<c, w>> /\ j = <<c, w>>
      BY <1>2, <2>4, <3>1 DEF DirectMade
    <3>3. QED
      BY <1>2, <3>2
  <2>5. QED
    BY <2>1, <2>2, <2>3, <2>4
<1>3. QED
  BY <1>2 DEF DirectSingle, Direct!Convs

(* Where conversations and messages are as they were. *)
LEMMA DirectEndures ==
  ASSUME UNCHANGED <<conv, msg>>
  PROVE  /\ Direct!Convs' = Direct!Convs /\ \A i \in Direct!Ids : Direct!Seated(i)' = Direct!Seated(i)
BY DEF Direct!Convs, Direct!Seated

(* A recipient's conversation is made. *)
LEMMA DirectMaking ==
  ASSUME Direct!MessagingAssumption, DirectSlots, DirectTables, DirectOpened, DirectAsking, DirectFound, DirectFresh, NEW c \in DirectCalls,
         Direct!MakeDestination(c)
  PROVE  \/ pc'[c] = "done"
         \/ \E v \in todo[c] : /\ DirectMade(c, v) /\ found'[c] = <<<<c, v>>, v>> /\ pc[c] = "make" /\ pc'[c] = "copy" /\ UNCHANGED <<call, todo>>
<1>1. PICK v \in todo[c] : found[c] = <<None, v>>
  BY DEF Direct!MakeDestination, DirectFound, Finds
<1>2. found[c][2] = v
  BY <1>1
<1>3. UNCHANGED <<account, msg, call, todo>> /\ pc[c] = "make"
  BY DEF Direct!MakeDestination, Direct!Answer
<1>4. CASE {call[c].by, v} \subseteq account /\ v # call[c].by
  <2>1. Direct!NewConv(c, v) /\ found' = [found EXCEPT ![c] = <<<<c, v>>, v>>] /\ pc' = [pc EXCEPT ![c] = "copy"]
    BY <1>2, <1>4 DEF Direct!MakeDestination, Direct!Goto
  <2>2. conv[<<c, v>>] = None
    BY <1>3 DEF DirectFresh, Fresh
  <2>3. DirectMade(c, v)
    BY <1>1, <1>3, <1>4, <2>1, <2>2, DirectNew
  <2>4. QED
    BY <1>3, <2>1, <2>3 DEF DirectSlots
<1>5. CASE ~({call[c].by, v} \subseteq account /\ v # call[c].by)
  BY <1>2, <1>5 DEF Direct!MakeDestination, Direct!Answer, Direct!Goto, DirectSlots
<1>6. QED
  BY <1>4, <1>5

(* A request has found what is there. *)
LEMMA DirectFinds ==
  ASSUME Direct!MessagingAssumption, DirectSlots, DirectTables, DirectOpened, DirectAsking, DirectFound, DirectFresh, NEW c \in DirectCalls, Direct!Handle(c)
  PROVE  Finds(c)'
<1> USE DEF DirectSlots, DirectFound, Finds
<1>1. ASSUME Direct!Start(c) PROVE Finds(c)'
  <2>1. PICK r \in DirectRequests, i \in Direct!Ids \cup {None} :
           /\ r.kind \in Direct!Kinds /\ i \in Direct!Names(r) /\ found'[c] = i /\ pc'[c] = Direct!First[r.kind] /\ UNCHANGED <<conv, msg>>
    BY <1>1, DirectBegins
  <2>2. Direct!Convs' = Direct!Convs
    BY <2>1, DirectEndures
  <2>3. /\ pc'[c] \in {"find", "seat", "check", "mine", "source", "mark", "erase"}
        /\ pc'[c] \in {"seat", "check", "mark"} => i \in Direct!Convs
        /\ pc'[c] \in {"mine", "source"} => i \in Direct!Ids /\ msg[i] # None
    BY <2>1 DEF Direct!First, Direct!Kinds, Direct!Names
  <2>4. QED
    BY <2>1, <2>2, <2>3
<1>2. ASSUME Direct!FindDirect(c) PROVE Finds(c)'
  BY <1>2, DirectEndures DEF Direct!FindDirect, Direct!Answer, Direct!Goto, Direct!Reads, Direct!rows, Direct!Between, Direct!Convs
<1>3. ASSUME Direct!CreateDirect(c) PROVE Finds(c)'
  <2>1. pc'[c] = "done"
    BY <1>3 DEF Direct!CreateDirect, Direct!Answer, Direct!Goto
  <2>2. QED
    BY <2>1
<1>4. ASSUME Direct!FindSeat(c) PROVE Finds(c)'
  BY <1>4, DirectEndures DEF Direct!FindSeat, Direct!Sits, Direct!Answer, Direct!Goto, Direct!Reads, Direct!rows, Direct!Convs
<1>5. ASSUME Direct!Unseat(c) PROVE Finds(c)'
  <2>1. pc'[c] = "done"
    BY <1>5 DEF Direct!Unseat, Direct!Answer, Direct!Goto
  <2>2. QED
    BY <2>1
<1>6. ASSUME Direct!FindPeer(c) PROVE Finds(c)'
  BY <1>6, DirectEndures DEF Direct!FindPeer, Direct!Goto, Direct!Reads, Direct!rows, Direct!Convs
<1>7. ASSUME Direct!Give(c) PROVE Finds(c)'
  BY <1>7, DirectEndures DEF Direct!Give, Direct!Answer, Direct!Goto, Direct!Convs
<1>8. ASSUME Direct!Write(c) PROVE Finds(c)'
  <2>1. pc'[c] = "done"
    BY <1>8 DEF Direct!Write, Direct!Answer, Direct!Goto
  <2>2. QED
    BY <2>1
<1>9. ASSUME Direct!FindMine(c) PROVE Finds(c)'
  BY <1>9, DirectEndures DEF Direct!FindMine, Direct!Goto, Direct!Answer, Direct!Reads, Direct!rows, Direct!Convs
<1>10. ASSUME Direct!Retract(c) PROVE Finds(c)'
  <2>1. pc'[c] = "done"
    BY <1>10 DEF Direct!Retract, Direct!Answer, Direct!Goto
  <2>2. QED
    BY <2>1
<1>11. ASSUME Direct!MarkRead(c) PROVE Finds(c)'
  <2>1. pc'[c] = "done"
    BY <1>11 DEF Direct!MarkRead, Direct!Answer, Direct!Goto
  <2>2. QED
    BY <2>1
<1>12. ASSUME Direct!FindSource(c) PROVE Finds(c)'
  BY <1>12, DirectEndures DEF Direct!FindSource, Direct!Answer, Direct!Goto, Direct!Reads, Direct!rows, Direct!Convs
<1>13. ASSUME Direct!FindDestination(c) PROVE Finds(c)'
  <2>1. Direct!Convs' = Direct!Convs /\ \A i \in Direct!Ids : Direct!Seated(i)' = Direct!Seated(i)
    BY <1>13, DirectEndures DEF Direct!FindDestination, Direct!Reads, Direct!rows
  <2>2. \/ pc'[c] = "done"
        \/ \E v \in todo[c] : \E i \in Direct!Convs : found'[c] = <<i, v>> /\ Direct!Seated(i) \subseteq {call[c].by, v} /\ pc'[c] = "copy" /\ UNCHANGED <<call, todo>>
        \/ \E v \in todo[c] : found'[c] = <<None, v>> /\ pc'[c] = "make" /\ UNCHANGED <<call, todo>>
    BY <1>13 DEF Direct!FindDestination, Direct!Suits, Direct!Answer, Direct!Goto
  <2>3. QED
    BY <2>1, <2>2 DEF Direct!Convs
<1>14. ASSUME Direct!MakeDestination(c) PROVE Finds(c)'
  <2>1. CASE pc'[c] = "done"
    BY <2>1
  <2>2. CASE pc'[c] # "done"
    <3>1. PICK v \in todo[c] : /\ DirectMade(c, v) /\ found'[c] = <<<<c, v>>, v>> /\ pc'[c] = "copy" /\ UNCHANGED <<call, todo>>
      BY <1>14, <2>2, DirectMaking
    <3>2. <<c, v>> \in Direct!Ids /\ conv'[<<c, v>>] # None /\ Direct!Seated(<<c, v>>)' = {call[c].by, v}
      BY <3>1 DEF DirectMade, Direct!Ids, DirectSlots
    <3>3. QED
      BY <3>1, <3>2 DEF Direct!Convs
  <2>3. QED
    BY <2>1, <2>2
<1>15. ASSUME Direct!Copy(c) PROVE Finds(c)'
  <2>1. pc'[c] \in {"dest", "done"}
    BY <1>15 DEF Direct!Copy, Direct!Answer, Direct!Goto
  <2>2. QED
    BY <2>1
<1>16. ASSUME Direct!Erase(c) PROVE Finds(c)'
  <2>1. pc'[c] = "done"
    BY <1>16 DEF Direct!Erase, Direct!Answer, Direct!Goto
  <2>2. QED
    BY <2>1
<1>17. ASSUME Direct!Crash(c) PROVE Finds(c)'
  <2>1. pc'[c] = "done"
    BY <1>17 DEF Direct!Crash, Direct!Answer, Direct!Goto
  <2>2. QED
    BY <2>1
<1>18. QED
  BY <1>1, <1>2, <1>3, <1>4, <1>5, <1>6, <1>7, <1>8, <1>9, <1>10, <1>11, <1>12, <1>13, <1>14, <1>15, <1>16, <1>17 DEF Direct!Handle

(* A request that opens conversations finds them unopened. *)
LEMMA DirectFreshens ==
  ASSUME Direct!MessagingAssumption, DirectSlots, DirectTables, DirectOpened, DirectAsking, DirectFound, DirectFresh, NEW c \in DirectCalls, Direct!Handle(c)
  PROVE  Fresh(c)'
<1> USE DEF DirectSlots, DirectFresh, Fresh
<1>1. ASSUME Direct!Start(c) PROVE Fresh(c)'
  <2>1. PICK r \in DirectRequests :
           /\ r.to \subseteq Writers /\ todo'[c] = r.to /\ pc'[c] # "new" /\ pc[c] = "new" /\ UNCHANGED conv
    BY <1>1, DirectBegins
  <2>2. \A v \in Writers : conv'[<<c, v>>] = None
    BY <2>1 DEF DirectFresh, Fresh
  <2>3. QED
    BY <2>1, <2>2
<1>2. ASSUME Direct!FindDirect(c) PROVE Fresh(c)'
  BY <1>2 DEF Direct!FindDirect, Direct!Answer, Direct!Goto, Direct!Reads, Direct!rows, Direct!Between
<1>3. ASSUME Direct!CreateDirect(c) PROVE Fresh(c)'
  <2>1. pc'[c] = "done"
    BY <1>3 DEF Direct!CreateDirect, Direct!Answer, Direct!Goto
  <2>2. QED
    BY <2>1
<1>4. ASSUME Direct!FindSeat(c) PROVE Fresh(c)'
  BY <1>4 DEF Direct!FindSeat, Direct!Sits, Direct!Answer, Direct!Goto, Direct!Reads, Direct!rows
<1>5. ASSUME Direct!Unseat(c) PROVE Fresh(c)'
  <2>1. pc'[c] = "done"
    BY <1>5 DEF Direct!Unseat, Direct!Answer, Direct!Goto
  <2>2. QED
    BY <2>1
<1>6. ASSUME Direct!FindPeer(c) PROVE Fresh(c)'
  BY <1>6 DEF Direct!FindPeer, Direct!Goto, Direct!Reads, Direct!rows
<1>7. ASSUME Direct!Give(c) PROVE Fresh(c)'
  BY <1>7 DEF Direct!Give, Direct!Answer, Direct!Goto
<1>8. ASSUME Direct!Write(c) PROVE Fresh(c)'
  <2>1. pc'[c] = "done"
    BY <1>8 DEF Direct!Write, Direct!Answer, Direct!Goto
  <2>2. QED
    BY <2>1
<1>9. ASSUME Direct!FindMine(c) PROVE Fresh(c)'
  BY <1>9 DEF Direct!FindMine, Direct!Goto, Direct!Answer, Direct!Reads, Direct!rows
<1>10. ASSUME Direct!Retract(c) PROVE Fresh(c)'
  <2>1. pc'[c] = "done"
    BY <1>10 DEF Direct!Retract, Direct!Answer, Direct!Goto
  <2>2. QED
    BY <2>1
<1>11. ASSUME Direct!MarkRead(c) PROVE Fresh(c)'
  <2>1. pc'[c] = "done"
    BY <1>11 DEF Direct!MarkRead, Direct!Answer, Direct!Goto
  <2>2. QED
    BY <2>1
<1>12. ASSUME Direct!FindSource(c) PROVE Fresh(c)'
  BY <1>12 DEF Direct!FindSource, Direct!Answer, Direct!Goto, Direct!Reads, Direct!rows
<1>13. ASSUME Direct!FindDestination(c) PROVE Fresh(c)'
  BY <1>13 DEF Direct!FindDestination, Direct!Suits, Direct!Answer, Direct!Goto, Direct!Reads, Direct!rows
<1>14. ASSUME Direct!MakeDestination(c) PROVE Fresh(c)'
  <2>1. CASE pc'[c] = "done"
    BY <2>1
  <2>2. CASE pc'[c] # "done"
    <3>1. PICK v \in todo[c] : /\ DirectMade(c, v) /\ found'[c] = <<<<c, v>>, v>> /\ pc[c] = "make" /\ pc'[c] = "copy" /\ UNCHANGED <<call, todo>>
      BY <1>14, <2>2, DirectMaking
    <3>2. \A w \in todo[c] : w # v => conv'[<<c, w>>] = conv[<<c, w>>] /\ conv[<<c, w>>] = None
      BY <3>1 DEF DirectMade, Direct!Ids, DirectSlots, DirectFresh, Fresh
    <3>3. QED
      BY <3>1, <3>2
  <2>3. QED
    BY <2>1, <2>2
<1>15. ASSUME Direct!Copy(c) PROVE Fresh(c)'
  <2>1. PICK v \in todo[c] : found[c][2] = v
    BY <1>15 DEF Direct!Copy, DirectFound, Finds
  <2>2. conv' = conv
    BY <1>15 DEF Direct!Copy
  <2>3. pc'[c] = "done" \/ (pc'[c] = "dest" /\ todo'[c] = todo[c] \ {v})
    BY <1>15, <2>1 DEF Direct!Copy, Direct!Answer, Direct!Goto
  <2>4. \A w \in todo[c] : w # v => conv[<<c, w>>] = None
    BY <1>15, <2>1 DEF Direct!Copy, DirectFresh, Fresh
  <2>5. QED
    BY <2>2, <2>3, <2>4
<1>16. ASSUME Direct!Erase(c) PROVE Fresh(c)'
  <2>1. pc'[c] = "done"
    BY <1>16 DEF Direct!Erase, Direct!Answer, Direct!Goto
  <2>2. QED
    BY <2>1
<1>17. ASSUME Direct!Crash(c) PROVE Fresh(c)'
  <2>1. pc'[c] = "done"
    BY <1>17 DEF Direct!Crash, Direct!Answer, Direct!Goto
  <2>2. QED
    BY <2>1
<1>18. QED
  BY <1>1, <1>2, <1>3, <1>4, <1>5, <1>6, <1>7, <1>8, <1>9, <1>10, <1>11, <1>12, <1>13, <1>14, <1>15, <1>16, <1>17 DEF Direct!Handle

(* A request that found no conversation of a pair opens the only one, unless another meets it. *)
LEMMA DirectLooks ==
  ASSUME Direct!MessagingAssumption, DirectSlots, DirectTables, DirectOpened, DirectAsking, DirectFound, DirectFresh, NEW c \in DirectCalls, Direct!Handle(c)
  PROVE  Looked(c)'
<1> USE DEF DirectSlots, Looked
<1>1. ASSUME Direct!Start(c) PROVE Looked(c)'
  <2>1. PICK r \in DirectRequests : pc'[c] = Direct!First[r.kind] /\ r.kind \in Direct!Kinds
    BY <1>1, DirectBegins
  <2>2. pc'[c] \notin {"create", "make"}
    BY <2>1 DEF Direct!First, Direct!Kinds
  <2>3. QED
    BY <2>2
<1>2. ASSUME Direct!FindDirect(c) PROVE Looked(c)'
  <2>1. Direct!Convs' = Direct!Convs /\ \A i \in Direct!Ids : Direct!Seated(i)' = Direct!Seated(i)
    BY <1>2, DirectEndures DEF Direct!FindDirect, Direct!Reads, Direct!rows
  <2>2. \/ pc'[c] = "done"
        \/ /\ \A i \in Direct!Convs, v \in todo[c] : Direct!Seated(i) # {call[c].by, v}
           /\ pc'[c] = "create" /\ UNCHANGED <<call, todo>>
    BY <1>2 DEF Direct!FindDirect, Direct!Between, Direct!Answer, Direct!Goto
  <2>3. QED
    BY <2>1, <2>2 DEF Alone, Direct!Convs
<1>3. ASSUME Direct!CreateDirect(c) PROVE Looked(c)'
  <2>1. pc'[c] = "done"
    BY <1>3 DEF Direct!CreateDirect, Direct!Answer, Direct!Goto
  <2>2. QED
    BY <2>1
<1>4. ASSUME Direct!FindSeat(c) PROVE Looked(c)'
  BY <1>4 DEF Direct!FindSeat, Direct!Sits, Direct!Answer, Direct!Goto, Direct!Reads, Direct!rows
<1>5. ASSUME Direct!Unseat(c) PROVE Looked(c)'
  <2>1. pc'[c] = "done"
    BY <1>5 DEF Direct!Unseat, Direct!Answer, Direct!Goto
  <2>2. QED
    BY <2>1
<1>6. ASSUME Direct!FindPeer(c) PROVE Looked(c)'
  BY <1>6 DEF Direct!FindPeer, Direct!Goto, Direct!Reads, Direct!rows
<1>7. ASSUME Direct!Give(c) PROVE Looked(c)'
  BY <1>7 DEF Direct!Give, Direct!Answer, Direct!Goto
<1>8. ASSUME Direct!Write(c) PROVE Looked(c)'
  <2>1. pc'[c] = "done"
    BY <1>8 DEF Direct!Write, Direct!Answer, Direct!Goto
  <2>2. QED
    BY <2>1
<1>9. ASSUME Direct!FindMine(c) PROVE Looked(c)'
  BY <1>9 DEF Direct!FindMine, Direct!Goto, Direct!Answer, Direct!Reads, Direct!rows
<1>10. ASSUME Direct!Retract(c) PROVE Looked(c)'
  <2>1. pc'[c] = "done"
    BY <1>10 DEF Direct!Retract, Direct!Answer, Direct!Goto
  <2>2. QED
    BY <2>1
<1>11. ASSUME Direct!MarkRead(c) PROVE Looked(c)'
  <2>1. pc'[c] = "done"
    BY <1>11 DEF Direct!MarkRead, Direct!Answer, Direct!Goto
  <2>2. QED
    BY <2>1
<1>12. ASSUME Direct!FindSource(c) PROVE Looked(c)'
  BY <1>12 DEF Direct!FindSource, Direct!Answer, Direct!Goto, Direct!Reads, Direct!rows
<1>13. ASSUME Direct!FindDestination(c) PROVE Looked(c)'
  <2>1. Direct!Convs' = Direct!Convs /\ \A i \in Direct!Ids : Direct!Seated(i)' = Direct!Seated(i)
    BY <1>13, DirectEndures DEF Direct!FindDestination, Direct!Reads, Direct!rows
  <2>2. \/ pc'[c] \in {"done", "copy"}
        \/ \E v \in todo[c] : /\ \A i \in Direct!Convs : ~(Direct!Seated(i) \subseteq {call[c].by, v})
                              /\ found'[c] = <<None, v>> /\ pc'[c] = "make" /\ UNCHANGED <<call, todo>>
    BY <1>13 DEF Direct!FindDestination, Direct!Suits, Direct!Answer, Direct!Goto
  <2>3. CASE pc'[c] \in {"done", "copy"}
    BY <2>3
  <2>4. CASE pc'[c] \notin {"done", "copy"}
    <3>1. PICK v \in todo[c] : /\ \A i \in Direct!Convs : ~(Direct!Seated(i) \subseteq {call[c].by, v})
                               /\ found'[c] = <<None, v>> /\ pc'[c] = "make" /\ UNCHANGED <<call, todo>>
      BY <2>2, <2>4
    <3>2. \A w : found'[c] = <<None, w>> => w = v
      BY <3>1
    <3>3. Alone(call[c].by, v)'
      BY <2>1, <3>1 DEF Alone, Direct!Convs
    <3>4. QED
      BY <3>1, <3>2, <3>3
  <2>5. QED
    BY <2>3, <2>4
<1>14. ASSUME Direct!MakeDestination(c) PROVE Looked(c)'
  BY <1>14, DirectMaking
<1>15. ASSUME Direct!Copy(c) PROVE Looked(c)'
  BY <1>15 DEF Direct!Copy, Direct!Message, Direct!Answer, Direct!Goto
<1>16. ASSUME Direct!Erase(c) PROVE Looked(c)'
  <2>1. pc'[c] = "done"
    BY <1>16 DEF Direct!Erase, Direct!Answer, Direct!Goto
  <2>2. QED
    BY <2>1
<1>17. ASSUME Direct!Crash(c) PROVE Looked(c)'
  <2>1. pc'[c] = "done"
    BY <1>17 DEF Direct!Crash, Direct!Answer, Direct!Goto
  <2>2. QED
    BY <2>1
<1>18. QED
  BY <1>1, <1>2, <1>3, <1>4, <1>5, <1>6, <1>7, <1>8, <1>9, <1>10, <1>11, <1>12, <1>13, <1>14, <1>15, <1>16, <1>17 DEF Direct!Handle

(* Every statement keeps the invariant of direct conversations. *)
LEMMA DirectStep ==
  ASSUME Direct!MessagingAssumption, DirectInv, Direct!Next
  PROVE  DirectInv'
<1>1. PICK c \in DirectCalls : Direct!Handle(c)
  BY DEF Direct!Next
<1>2. /\ DirectSlots /\ DirectTables /\ DirectOpened /\ DirectAsking /\ DirectFound /\ DirectFresh
      /\ DirectCrossed /\ DirectLooked /\ DirectSingle /\ DirectSent
  BY DEF DirectInv
<1>3. DirectOthers(c) /\ DirectServes(c) /\ DirectOpening(c) /\ DirectMail
  BY <1>1, <1>2, DirectOther, DirectServe, DirectOpener, DirectMailed
<1>4. DirectSlots' /\ DirectAsking' /\ DirectTables' /\ DirectSent' /\ DirectOpened'
  BY <1>1, <1>2, <1>3, DirectSlot, DirectAsks, DirectTabled, DirectStands
<1>5. DirectFound' /\ DirectFresh'
  BY <1>1, <1>2, <1>3, DirectFinds, DirectFreshens, DirectFinding, DirectRefreshing
<1>6. DirectCrossed' /\ crossed \subseteq crossed'
  BY <1>1, <1>2, <1>3, DirectMeets
<1>7. DirectLooked' /\ DirectSingle'
  BY <1>1, <1>2, <1>3, <1>6, DirectLooks, DirectLooking, DirectSingles
<1>8. QED
  BY <1>4, <1>5, <1>6, <1>7 DEF DirectInv

(* A step that changes nothing. *)
LEMMA DirectStill ==
  ASSUME DirectInv, UNCHANGED Direct!vars
  PROVE  DirectInv'
<1>1. UNCHANGED <<account, conv, msg, gift, call, pc, todo, found, crossed>>
  BY DEF Direct!vars, Direct!rows, Direct!handler
<1>2. DirectSlots' /\ DirectTables' /\ DirectAsking'
  BY <1>1 DEF DirectInv, DirectSlots, DirectTables, DirectAsking
<1>3. Direct!Convs' = Direct!Convs /\ \A i \in Direct!Ids : Direct!Seated(i)' = Direct!Seated(i)
  BY <1>1, DirectEndures
<1>4. DirectOpened' /\ DirectFresh' /\ DirectCrossed'
  BY <1>1, <1>3 DEF DirectInv, DirectOpened, Opened, DirectFresh, Fresh, DirectCrossed, Direct!Active, Direct!Pairs
<1>5. DirectFound'
  <2>1. ASSUME NEW c \in DirectCalls PROVE Finds(c)'
    <3>1. Finds(c) /\ \A i \in Direct!Convs : i \in Direct!Ids
      BY DEF DirectInv, DirectFound, Direct!Convs
    <3>2. QED
      BY <1>1, <1>3, <3>1 DEF Finds
  <2>2. QED
    BY <2>1 DEF DirectFound
<1>6. DirectLooked' /\ DirectSingle' /\ DirectSent'
  <2>1. \A i \in Direct!Convs : i \in Direct!Ids
    BY DEF Direct!Convs
  <2>2. \A u, v : Alone(u, v) => Alone(u, v)'
    BY <1>1, <1>3, <2>1 DEF Alone
  <2>3. DirectLooked'
    BY <1>1, <1>3, <2>1 DEF DirectInv, DirectLooked, Looked, Alone
  <2>4. DirectSingle'
    BY <1>1, <1>3, <2>1 DEF DirectInv, DirectSingle
  <2>5. DirectSent'
    BY <1>1 DEF DirectInv, DirectSent, Direct!Seated
  <2>6. QED
    BY <2>3, <2>4, <2>5
<1>7. QED
  BY <1>2, <1>4, <1>5, <1>6 DEF DirectInv

(* The invariant holds before the first request. *)
LEMMA DirectInit ==
  ASSUME Direct!MessagingAssumption, Direct!Init
  PROVE  DirectInv
<1>1. /\ \A i \in Direct!Ids : conv[i] = None /\ msg[i] = None
      /\ \A c \in DirectCalls : pc[c] = "new" /\ todo[c] = {} /\ found[c] = None /\ call[c] = None
      /\ Direct!Convs = {}
  BY DEF Direct!Init, Direct!Convs
<1>2. DirectSlots
  BY <1>1 DEF Direct!Init, DirectSlots, Direct!Labels
<1>3. DirectTables
  BY <1>1 DEF Direct!Init, DirectTables
<1>4. DirectOpened /\ DirectAsking /\ DirectFound /\ DirectSingle /\ DirectSent /\ DirectLooked
  BY <1>1 DEF DirectOpened, Opened, DirectAsking, DirectFound, Finds, DirectSingle, DirectSent, DirectLooked, Looked
<1>5. DirectFresh /\ DirectCrossed
  BY <1>1 DEF DirectFresh, Fresh, Direct!Ids, DirectCrossed, Direct!Active
<1>6. QED
  BY <1>2, <1>3, <1>4, <1>5 DEF DirectInv

(* Two seats are all there are. *)
LEMMA DirectPair ==
  ASSUME NEW x, NEW y, NEW S, S \subseteq {x, y}, Cardinality(S) = 2
  PROVE  x # y /\ S = {x, y}
<1>1. IsFiniteSet({}) /\ Cardinality({}) = 0
  BY FS_EmptySet
<1>2. \A z : IsFiniteSet({z}) /\ Cardinality({z}) = 1
  BY FS_Singleton
<1>3. S # {}
  BY <1>1
<1>4. ASSUME NEW z, S = {z} PROVE FALSE
  <2>1. Cardinality(S) = 1
    BY <1>2, <1>4, Zenon
  <2>2. QED
    BY <2>1
<1>5. x \in S /\ y \in S /\ x # y
  BY <1>3, <1>4
<1>6. QED
  BY <1>5

(* The properties of direct conversations follow from the invariant. *)
LEMMA DirectHolds ==
  ASSUME Direct!MessagingAssumption, DirectInv
  PROVE  Direct!TypeOK /\ Direct!OneDirect /\ Direct!ForwardsArrive
<1>1. Direct!TypeOK
  <2>1. \A i \in Direct!Ids : conv[i] # None =>
            conv[i] \in [Writers -> {"none", "in", "left"}] /\ Direct!Seated(i) \subseteq account /\ call[i[1]].by \in Direct!Seated(i)
    BY DirectRows DEF DirectInv, DirectOpened, Opened, DirectRow
  <2>2. \A i \in Direct!Ids : msg[i] # None => msg[i].conv \in Direct!Convs /\ msg[i].by \in account
    BY DirectRows DEF DirectInv, DirectTables, DirectMsg, Direct!Convs
  <2>3. QED
    BY <2>1, <2>2 DEF DirectInv, DirectSlots, DirectTables, Direct!TypeOK
<1>2. Direct!OneDirect
  <2>1. ASSUME NEW i \in Direct!Convs, NEW j \in Direct!Convs, i # j, Direct!Seated(i) = Direct!Seated(j), Cardinality(Direct!Seated(i)) = 2
        PROVE  Direct!Seated(i) \in crossed
    <3>1. Direct!Seated(i) \subseteq {call[i[1]].by, i[2]} /\ Direct!Seated(i) \subseteq Writers
      BY DirectRows DEF DirectInv, DirectOpened, Opened, Direct!Convs
    <3>2. PICK x, y, S : x = call[i[1]].by /\ y = i[2] /\ S = Direct!Seated(i)
      OBVIOUS
    <3>3. S \subseteq {x, y} /\ Cardinality(S) = 2
      BY <2>1, <3>1, <3>2, Zenon
    <3>4. x # y /\ S = {x, y}
      BY <3>3, DirectPair, Zenon
    <3>5. x \in Writers /\ y \in Writers
      BY <3>1, <3>2, <3>4
    <3>6. Direct!Seated(i) = {x, y} /\ Direct!Seated(j) = {x, y}
      BY <2>1, <3>2, <3>4, Zenon
    <3>7. DirectSingle
      BY DEF DirectInv
    <3>8. {x, y} \in crossed
      BY <2>1, <3>4, <3>5, <3>6, <3>7 DEF DirectSingle
    <3>9. QED
      BY <3>6, <3>8, Zenon
  <2>2. QED
    BY <2>1, Zenon DEF Direct!OneDirect, Direct!Cardinality, Cardinality
<1>3. Direct!ForwardsArrive
  <2>1. ASSUME NEW i \in Direct!Ids, msg[i] # None, msg[i].to # None, Cardinality(Direct!Seated(msg[i].conv)) = 2
        PROVE  {msg[i].by, msg[i].to} = Direct!Seated(msg[i].conv)
    <3>1. Direct!Seated(msg[i].conv) \subseteq {msg[i].by, msg[i].to}
      BY <2>1 DEF DirectInv, DirectSent
    <3>2. PICK x, y, S : x = msg[i].by /\ y = msg[i].to /\ S = Direct!Seated(msg[i].conv)
      OBVIOUS
    <3>3. S \subseteq {x, y} /\ Cardinality(S) = 2
      BY <2>1, <3>1, <3>2, Zenon
    <3>4. S = {x, y}
      BY <3>3, DirectPair, Zenon
    <3>5. QED
      BY <3>2, <3>4
  <2>2. QED
    BY <2>1, Zenon DEF Direct!ForwardsArrive, Direct!Cardinality, Cardinality
<1>4. QED
  BY <1>1, <1>2, <1>3
-----------------------------------------------------------------------------
(* Posts.  What a request serves, and the entries it still has to delete. *)
PostLike == [id: PostCalls, on: Post!Reactions]
PostSlots ==
  /\ call \in [PostCalls -> PostRequests \cup {None}] /\ pc \in [PostCalls -> Post!Labels]
  /\ todo \in [PostCalls -> Seq(Post!Entries)] /\ seen = [c \in PostCalls |-> seen[c]]
  /\ \A c \in PostCalls : /\ pc[c] # "new" => call[c] \in PostRequests
                          /\ pc[c] = "flush" <=> todo[c] # <<>>

PostAsking ==
  \A c \in PostCalls :
    /\ pc[c] = "post" => call[c].kind \in {"like", "comment", "addmedia"}
    /\ pc[c] \in {"mine", "create", "remove", "change"} => call[c].kind = "like"
    /\ pc[c] = "owner" => call[c].kind \in {"attach", "detach"}
    /\ pc[c] \in {"get", "load", "fill"} => call[c].kind = "read"
    /\ pc[c] \in {"attach", "count"} => seen[c] \subseteq call[c].tags
    /\ pc[c] = "drop" => seen[c] \in PostCalls

(* The rows. *)
PostRows ==
  /\ post \in {"none", "live", "gone"} /\ media \subseteq PostCalls /\ tagged \subseteq Tags
  /\ count \in [Tags -> Int] /\ cached = [e \in Post!Entries |-> cached[e]]
  /\ like = [u \in Users |-> like[u]] /\ \A u \in Users : like[u] # None => like[u] \in PostLike /\ post = "live"
  /\ media # {} \/ tagged # {} => post = "live"
  /\ torn \subseteq Post!Entries /\ listed \subseteq Tags /\ lost \subseteq Tags

(* A comment was written by its request, below one that was there and is no
   reply; so is the one a request has found. *)
IsRoot(d) == d \in PostCalls /\ pc[d] \in {"flush", "done"} /\ (comment[d] # None => comment[d].parent = None)
PostThreads ==
  /\ comment = [c \in PostCalls |-> comment[c]]
  /\ \A c \in PostCalls : comment[c] # None =>
       /\ post = "live" /\ comment[c].by \in Users /\ pc[c] \in {"flush", "done"}
       /\ comment[c].parent # None => IsRoot(comment[c].parent) /\ comment[comment[c].parent] # None
  /\ \A c \in PostCalls : pc[c] = "write" => seen[c] = None \/ IsRoot(seen[c])

(* What is cached, and what a reader is about to store. *)
Filled(e) == cached[e] # None /\ e \notin torn /\ (\A c \in PostCalls : e \notin Post!Flushing(c)) => cached[e] = Post!View(e)
Filling(c) == pc[c] = "fill" /\ call[c].on \notin torn => seen[c] = Post!View(call[c].on)
PostCached ==
  /\ \A e \in Post!Entries : Filled(e) /\ (post = "none" => cached[e] = None)
  /\ \A c \in PostCalls : Filling(c) /\ (pc[c] = "fill" => post # "none")

(* Attached and not yet counted, detached and not yet counted. *)
Uncounted(t) == {c \in PostCalls : pc[c] = "count" /\ t \in seen[c]}
Overcounted(t) == {c \in PostCalls : pc[c] = "uncount" /\ t \in call[c].tags}
Tallied(t) ==
  /\ IsFiniteSet(Uncounted(t)) /\ IsFiniteSet(Overcounted(t))
  /\ count[t] + Cardinality(Uncounted(t)) = (IF t \in tagged THEN 1 ELSE 0) + Cardinality(Overcounted(t))
PostTallied == \A t \in Tags \ (listed \cup lost) : Tallied(t)

PostInv == PostSlots /\ PostAsking /\ PostRows /\ PostThreads /\ PostCached /\ PostTallied

(* The fields of a request. *)
LEMMA PostRequest ==
  ASSUME Post!PostsAssumption, NEW r \in PostRequests
  PROVE  /\ r.kind \in Post!Kinds /\ r.by \in Users /\ r.tags \subseteq Tags
         /\ r.kind = "read" => r.on \in Post!Entries
         /\ r.kind = "like" => r.on \in Post!Reactions
BY DEF Post!PostsAssumption

(* Where a request starts. *)
LEMMA PostBegins ==
  ASSUME Post!PostsAssumption, PostSlots, NEW c \in PostCalls, Post!Start(c)
  PROVE  \E r \in PostRequests :
           /\ call' = [call EXCEPT ![c] = r] /\ pc' = [pc EXCEPT ![c] = Post!First[r.kind]] /\ pc[c] = "new"
           /\ Post!First[r.kind] \in {"insert", "own", "delete", "post", "unlike", "owner", "find", "get"}
           /\ Post!First[r.kind] = "post" => r.kind \in {"like", "comment", "addmedia"}
           /\ Post!First[r.kind] = "owner" => r.kind \in {"attach", "detach"}
           /\ Post!First[r.kind] = "get" => r.kind = "read"
           /\ UNCHANGED <<post, like, comment, media, tagged, count, cached, todo, seen, torn, listed, lost>>
<1>1. PICK r \in PostRequests : call' = [call EXCEPT ![c] = r] /\ pc' = [pc EXCEPT ![c] = Post!First[r.kind]]
  BY DEF Post!Start, Post!Goto
<1>2. /\ Post!First[r.kind] \in {"insert", "own", "delete", "post", "unlike", "owner", "find", "get"}
      /\ Post!First[r.kind] = "post" => r.kind \in {"like", "comment", "addmedia"}
      /\ Post!First[r.kind] = "owner" => r.kind \in {"attach", "detach"}
      /\ Post!First[r.kind] = "get" => r.kind = "read"
  BY PostRequest DEF Post!First, Post!Kinds, Post!CommentKinds
<1>3. pc[c] = "new" /\ UNCHANGED <<post, like, comment, media, tagged, count, cached, todo, seen, torn, listed, lost>>
  BY DEF Post!Start, Post!Keeps, Post!rows, Post!history
<1>4. QED
  BY <1>1, <1>2, <1>3

(* The lists of entries that requests delete. *)
LEMMA PostLists ==
  /\ <<"media", "likes", "stats", "comments">> \in Seq(Post!Entries) \ {<<>>} /\ <<"likes", "stats">> \in Seq(Post!Entries) \ {<<>>}
  /\ <<"comments">> \in Seq(Post!Entries) \ {<<>>} /\ <<"media">> \in Seq(Post!Entries) \ {<<>>}
<1>1. "media" \in Post!Entries /\ "likes" \in Post!Entries /\ "stats" \in Post!Entries /\ "comments" \in Post!Entries
  BY DEF Post!Entries
<1>2. QED
  BY <1>1

(* A request that has written deletes entries next; another is answered. *)
PostTurns(c) ==
  \/ \E es \in Seq(Post!Entries) \ {<<>>} :
        todo' = [todo EXCEPT ![c] = es] /\ pc' = [pc EXCEPT ![c] = "flush"] /\ UNCHANGED <<call, seen>>
  \/ pc' = [pc EXCEPT ![c] = "done"] /\ UNCHANGED <<call, todo, seen>>
PostWrites(c) == Post!Erase(c) \/ Post!Like(c) \/ Post!Unlike(c) \/ Post!Write(c) \/ Post!DropComment(c) \/ Post!AddMedia(c) \/ Post!DropMedia(c)

(* A request that writes deletes entries next, or is answered. *)
LEMMA PostTurn ==
  ASSUME NEW c \in PostCalls, PostWrites(c)
  PROVE  PostTurns(c) /\ pc[c] \in {"delete", "create", "remove", "change", "unlike", "write", "drop", "add"}
<1>1. ASSUME Post!Erase(c) PROVE PostTurns(c) /\ pc[c] \in {"delete", "create", "remove", "change", "unlike", "write", "drop", "add"}
  BY <1>1, PostLists DEF Post!Erase, Post!Flush, Post!Answer, Post!Goto, PostTurns
<1>2. ASSUME Post!Like(c) PROVE PostTurns(c) /\ pc[c] \in {"delete", "create", "remove", "change", "unlike", "write", "drop", "add"}
  BY <1>2, PostLists DEF Post!Like, Post!Flush, Post!Answer, Post!Goto, PostTurns
<1>3. ASSUME Post!Unlike(c) PROVE PostTurns(c) /\ pc[c] \in {"delete", "create", "remove", "change", "unlike", "write", "drop", "add"}
  BY <1>3, PostLists DEF Post!Unlike, Post!Flush, Post!Answer, Post!Goto, PostTurns, Post!Unliked
<1>4. ASSUME Post!Write(c) PROVE PostTurns(c) /\ pc[c] \in {"delete", "create", "remove", "change", "unlike", "write", "drop", "add"}
  BY <1>4, PostLists DEF Post!Write, Post!Flush, Post!Answer, Post!Goto, PostTurns
<1>5. ASSUME Post!DropComment(c) PROVE PostTurns(c) /\ pc[c] \in {"delete", "create", "remove", "change", "unlike", "write", "drop", "add"}
  BY <1>5, PostLists DEF Post!DropComment, Post!Flush, Post!Answer, Post!Goto, PostTurns
<1>6. ASSUME Post!AddMedia(c) PROVE PostTurns(c) /\ pc[c] \in {"delete", "create", "remove", "change", "unlike", "write", "drop", "add"}
  BY <1>6, PostLists DEF Post!AddMedia, Post!Flush, Post!Answer, Post!Goto, PostTurns
<1>7. ASSUME Post!DropMedia(c) PROVE PostTurns(c) /\ pc[c] \in {"delete", "create", "remove", "change", "unlike", "write", "drop", "add"}
  BY <1>7, PostLists DEF Post!DropMedia, Post!Flush, Post!Answer, Post!Goto, PostTurns
<1>8. QED
  BY <1>1, <1>2, <1>3, <1>4, <1>5, <1>6, <1>7 DEF PostWrites

(* A step of one request leaves the others alone. *)
PostOthers(c) ==
  \A d \in PostCalls \ {c} : pc'[d] = pc[d] /\ call'[d] = call[d] /\ todo'[d] = todo[d] /\ seen'[d] = seen[d]

(* A step of one request leaves the others alone. *)
LEMMA PostOther ==
  ASSUME Post!PostsAssumption, PostSlots, NEW c \in PostCalls, Post!Handle(c)
  PROVE  PostOthers(c)
<1> USE DEF PostSlots, PostOthers
<1>1. ASSUME Post!Start(c) PROVE PostOthers(c)
  BY <1>1, PostBegins
<1>2. ASSUME Post!FindPost(c) PROVE PostOthers(c)
  BY <1>2 DEF Post!FindPost, Post!Proceed, Post!Answer, Post!Goto, Post!AfterPost, Post!Keeps, Post!rows, Post!history
<1>3. ASSUME Post!Insert(c) PROVE PostOthers(c)
  BY <1>3 DEF Post!Insert, Post!Answer, Post!Goto
<1>4. ASSUME Post!FindOwn(c) PROVE PostOthers(c)
  BY <1>4 DEF Post!FindOwn, Post!Proceed, Post!Answer, Post!Goto, Post!Keeps, Post!rows, Post!history
<1>5. ASSUME Post!Update(c) PROVE PostOthers(c)
  BY <1>5 DEF Post!Update, Post!Answer, Post!Goto
<1>6. ASSUME Post!Erase(c) PROVE PostOthers(c)
  BY <1>6 DEF Post!Erase, Post!Flush, Post!Answer, Post!Goto, Post!Tears
<1>7. ASSUME Post!FindLike(c) PROVE PostOthers(c)
  BY <1>7 DEF Post!FindLike, Post!Goto, Post!Keeps, Post!rows, Post!history
<1>8. ASSUME Post!Like(c) PROVE PostOthers(c)
  BY <1>8 DEF Post!Like, Post!Writes, Post!Liked, Post!Tears, Post!Flush, Post!Answer, Post!Goto
<1>9. ASSUME Post!Unlike(c) PROVE PostOthers(c)
  BY <1>9 DEF Post!Unlike, Post!Unliked, Post!Tears, Post!Flush, Post!Answer, Post!Goto
<1>10. ASSUME Post!CheckOwner(c) PROVE PostOthers(c)
  BY <1>10 DEF Post!CheckOwner, Post!Proceed, Post!Answer, Post!Goto, Post!Keeps, Post!rows, Post!history
<1>11. ASSUME Post!FindAttached(c) PROVE PostOthers(c)
  BY <1>11 DEF Post!FindAttached, Post!Answer, Post!Goto, Post!Keeps, Post!rows, Post!history
<1>12. ASSUME Post!Attach(c) PROVE PostOthers(c)
  BY <1>12 DEF Post!Attach, Post!Insertable, Post!Proceed, Post!Answer, Post!Goto, Post!history
<1>13. ASSUME Post!CountAttached(c) PROVE PostOthers(c)
  BY <1>13 DEF Post!CountAttached, Post!Answer, Post!Goto, Post!history
<1>14. ASSUME Post!Detach(c) PROVE PostOthers(c)
  BY <1>14 DEF Post!Detach, Post!Proceed, Post!Answer, Post!Goto, Post!history
<1>15. ASSUME Post!CountDetached(c) PROVE PostOthers(c)
  BY <1>15 DEF Post!CountDetached, Post!Answer, Post!Goto, Post!history
<1>16. ASSUME Post!FindParent(c) PROVE PostOthers(c)
  BY <1>16 DEF Post!FindParent, Post!Root, Post!Answer, Post!Goto, Post!Keeps, Post!rows, Post!history
<1>17. ASSUME Post!Write(c) PROVE PostOthers(c)
  BY <1>17 DEF Post!Write, Post!Tears, Post!Flush, Post!Answer, Post!Goto
<1>18. ASSUME Post!FindRow(c) PROVE PostOthers(c)
  BY <1>18 DEF Post!FindRow, Post!Answer, Post!Goto, Post!Keeps, Post!rows, Post!history
<1>19. ASSUME Post!DropComment(c) PROVE PostOthers(c)
  BY <1>19 DEF Post!DropComment, Post!Tears, Post!Flush, Post!Answer, Post!Goto
<1>20. ASSUME Post!AddMedia(c) PROVE PostOthers(c)
  BY <1>20 DEF Post!AddMedia, Post!Tears, Post!Flush, Post!Answer, Post!Goto
<1>21. ASSUME Post!DropMedia(c) PROVE PostOthers(c)
  BY <1>21 DEF Post!DropMedia, Post!Tears, Post!Flush, Post!Answer, Post!Goto
<1>22. ASSUME Post!Get(c) PROVE PostOthers(c)
  BY <1>22 DEF Post!Get, Post!Answer, Post!Proceed, Post!Goto, Post!Keeps, Post!rows, Post!history
<1>23. ASSUME Post!Load(c) PROVE PostOthers(c)
  BY <1>23 DEF Post!Load, Post!View, Post!Answer, Post!Goto, Post!Keeps, Post!rows, Post!history
<1>24. ASSUME Post!Fill(c) PROVE PostOthers(c)
  BY <1>24 DEF Post!Fill, Post!Answer, Post!Goto, Post!rows, Post!history
<1>25. ASSUME Post!FlushOne(c) PROVE PostOthers(c)
  BY <1>25 DEF Post!FlushOne, Post!Cleansed, Post!Goto, Post!rows
<1>26. ASSUME Post!Crash(c) PROVE PostOthers(c)
  BY <1>26 DEF Post!Crash, Post!Flushing, Post!Goto, Post!rows
<1>27. QED
  BY <1>1, <1>2, <1>3, <1>4, <1>5, <1>6, <1>7, <1>8, <1>9, <1>10, <1>11, <1>12, <1>13, <1>14, <1>15, <1>16, <1>17, <1>18, <1>19, <1>20, <1>21, <1>22, <1>23, <1>24, <1>25, <1>26 DEF Post!Handle

(* A request serves what it was asked. *)
PostServes(c) ==
  pc'[c] # "new" /\ pc[c] # "done" /\ (pc[c] # "new" => call' = call) /\ (pc[c] = "flush" => pc'[c] \in {"flush", "done"})

(* A request serves what it was asked, until it is answered. *)
LEMMA PostServe ==
  ASSUME Post!PostsAssumption, PostSlots, PostAsking, NEW c \in PostCalls, Post!Handle(c)
  PROVE  PostServes(c)
<1> USE DEF PostSlots, PostAsking, PostServes
<1>1. ASSUME Post!Start(c) PROVE PostServes(c)
  <2>1. PICK r \in PostRequests :
           /\ call' = [call EXCEPT ![c] = r] /\ pc' = [pc EXCEPT ![c] = Post!First[r.kind]] /\ pc[c] = "new"
           /\ Post!First[r.kind] \in {"insert", "own", "delete", "post", "unlike", "owner", "find", "get"}
           /\ Post!First[r.kind] = "post" => r.kind \in {"like", "comment", "addmedia"}
           /\ Post!First[r.kind] = "owner" => r.kind \in {"attach", "detach"}
           /\ Post!First[r.kind] = "get" => r.kind = "read"
           /\ UNCHANGED <<post, like, comment, media, tagged, count, cached, todo, seen, torn, listed, lost>>
    BY <1>1, PostBegins
  <2>2. PICK p : p = Post!First[r.kind]
    OBVIOUS
  <2>3. QED
    BY <2>1, <2>2
<1>2. ASSUME Post!FindPost(c) PROVE PostServes(c)
  BY <1>2 DEF Post!FindPost, Post!Proceed, Post!Answer, Post!Goto, Post!AfterPost, Post!Keeps, Post!rows, Post!history
<1>3. ASSUME Post!Insert(c) PROVE PostServes(c)
  BY <1>3 DEF Post!Insert, Post!Answer, Post!Goto
<1>4. ASSUME Post!FindOwn(c) PROVE PostServes(c)
  BY <1>4 DEF Post!FindOwn, Post!Proceed, Post!Answer, Post!Goto, Post!Keeps, Post!rows, Post!history
<1>5. ASSUME Post!Update(c) PROVE PostServes(c)
  BY <1>5 DEF Post!Update, Post!Answer, Post!Goto
<1>6. ASSUME Post!Erase(c) PROVE PostServes(c)
  BY <1>6 DEF Post!Erase, Post!Flush, Post!Answer, Post!Goto, Post!Tears
<1>7. ASSUME Post!FindLike(c) PROVE PostServes(c)
  BY <1>7 DEF Post!FindLike, Post!Goto, Post!Keeps, Post!rows, Post!history
<1>8. ASSUME Post!Like(c) PROVE PostServes(c)
  BY <1>8 DEF Post!Like, Post!Writes, Post!Liked, Post!Tears, Post!Flush, Post!Answer, Post!Goto
<1>9. ASSUME Post!Unlike(c) PROVE PostServes(c)
  BY <1>9 DEF Post!Unlike, Post!Unliked, Post!Tears, Post!Flush, Post!Answer, Post!Goto
<1>10. ASSUME Post!CheckOwner(c) PROVE PostServes(c)
  BY <1>10 DEF Post!CheckOwner, Post!Proceed, Post!Answer, Post!Goto, Post!Keeps, Post!rows, Post!history
<1>11. ASSUME Post!FindAttached(c) PROVE PostServes(c)
  BY <1>11 DEF Post!FindAttached, Post!Answer, Post!Goto, Post!Keeps, Post!rows, Post!history
<1>12. ASSUME Post!Attach(c) PROVE PostServes(c)
  BY <1>12 DEF Post!Attach, Post!Insertable, Post!Proceed, Post!Answer, Post!Goto, Post!history
<1>13. ASSUME Post!CountAttached(c) PROVE PostServes(c)
  BY <1>13 DEF Post!CountAttached, Post!Answer, Post!Goto, Post!history
<1>14. ASSUME Post!Detach(c) PROVE PostServes(c)
  BY <1>14 DEF Post!Detach, Post!Proceed, Post!Answer, Post!Goto, Post!history
<1>15. ASSUME Post!CountDetached(c) PROVE PostServes(c)
  BY <1>15 DEF Post!CountDetached, Post!Answer, Post!Goto, Post!history
<1>16. ASSUME Post!FindParent(c) PROVE PostServes(c)
  BY <1>16 DEF Post!FindParent, Post!Root, Post!Answer, Post!Goto, Post!Keeps, Post!rows, Post!history
<1>17. ASSUME Post!Write(c) PROVE PostServes(c)
  BY <1>17 DEF Post!Write, Post!Tears, Post!Flush, Post!Answer, Post!Goto
<1>18. ASSUME Post!FindRow(c) PROVE PostServes(c)
  BY <1>18 DEF Post!FindRow, Post!Answer, Post!Goto, Post!Keeps, Post!rows, Post!history
<1>19. ASSUME Post!DropComment(c) PROVE PostServes(c)
  BY <1>19 DEF Post!DropComment, Post!Tears, Post!Flush, Post!Answer, Post!Goto
<1>20. ASSUME Post!AddMedia(c) PROVE PostServes(c)
  BY <1>20 DEF Post!AddMedia, Post!Tears, Post!Flush, Post!Answer, Post!Goto
<1>21. ASSUME Post!DropMedia(c) PROVE PostServes(c)
  BY <1>21 DEF Post!DropMedia, Post!Tears, Post!Flush, Post!Answer, Post!Goto
<1>22. ASSUME Post!Get(c) PROVE PostServes(c)
  BY <1>22 DEF Post!Get, Post!Answer, Post!Proceed, Post!Goto, Post!Keeps, Post!rows, Post!history
<1>23. ASSUME Post!Load(c) PROVE PostServes(c)
  BY <1>23 DEF Post!Load, Post!View, Post!Answer, Post!Goto, Post!Keeps, Post!rows, Post!history
<1>24. ASSUME Post!Fill(c) PROVE PostServes(c)
  BY <1>24 DEF Post!Fill, Post!Answer, Post!Goto, Post!rows, Post!history
<1>25. ASSUME Post!FlushOne(c) PROVE PostServes(c)
  BY <1>25 DEF Post!FlushOne, Post!Cleansed, Post!Goto, Post!rows
<1>26. ASSUME Post!Crash(c) PROVE PostServes(c)
  BY <1>26 DEF Post!Crash, Post!Flushing, Post!Goto, Post!rows
<1>27. QED
  BY <1>1, <1>2, <1>3, <1>4, <1>5, <1>6, <1>7, <1>8, <1>9, <1>10, <1>11, <1>12, <1>13, <1>14, <1>15, <1>16, <1>17, <1>18, <1>19, <1>20, <1>21, <1>22, <1>23, <1>24, <1>25, <1>26 DEF Post!Handle

(* Requests stay at statements of their kind. *)
LEMMA PostAsks ==
  ASSUME Post!PostsAssumption, PostSlots, PostAsking, PostRows, PostThreads, NEW c \in PostCalls, Post!Handle(c)
  PROVE  PostAsking'
<1> USE DEF PostSlots, PostAsking
<1>1. ASSUME Post!Start(c) PROVE PostAsking'
  <2>1. PICK r \in PostRequests :
           /\ call' = [call EXCEPT ![c] = r] /\ pc' = [pc EXCEPT ![c] = Post!First[r.kind]] /\ pc[c] = "new"
           /\ Post!First[r.kind] \in {"insert", "own", "delete", "post", "unlike", "owner", "find", "get"}
           /\ Post!First[r.kind] = "post" => r.kind \in {"like", "comment", "addmedia"}
           /\ Post!First[r.kind] = "owner" => r.kind \in {"attach", "detach"}
           /\ Post!First[r.kind] = "get" => r.kind = "read"
           /\ UNCHANGED <<post, like, comment, media, tagged, count, cached, todo, seen, torn, listed, lost>>
    BY <1>1, PostBegins
  <2>2. PICK p : p = Post!First[r.kind]
    OBVIOUS
  <2>3. QED
    BY <2>1, <2>2
<1>2. ASSUME Post!FindPost(c) PROVE PostAsking'
  BY <1>2 DEF Post!FindPost, Post!Proceed, Post!Answer, Post!Goto, Post!AfterPost, Post!Keeps, Post!rows, Post!history, PostRows
<1>3. ASSUME Post!Insert(c) PROVE PostAsking'
  BY <1>3 DEF Post!Insert, Post!Answer, Post!Goto, PostRows
<1>4. ASSUME Post!FindOwn(c) PROVE PostAsking'
  BY <1>4 DEF Post!FindOwn, Post!Proceed, Post!Answer, Post!Goto, Post!Keeps, Post!rows, Post!history, PostRows
<1>5. ASSUME Post!Update(c) PROVE PostAsking'
  BY <1>5 DEF Post!Update, Post!Answer, Post!Goto, PostRows
<1>6. ASSUME Post!Erase(c) PROVE PostAsking'
  <2>1. PostTurns(c) /\ pc[c] \in {"delete", "create", "remove", "change", "unlike", "write", "drop", "add"}
    BY <1>6, PostTurn DEF PostWrites
  <2>2. call' = call /\ seen' = seen /\ pc'[c] \in {"flush", "done"} /\ \A d \in PostCalls : d # c => pc'[d] = pc[d]
    BY <2>1 DEF PostTurns
  <2>3. QED
    BY <2>2
<1>7. ASSUME Post!FindLike(c) PROVE PostAsking'
  BY <1>7 DEF Post!FindLike, Post!Goto, Post!Keeps, Post!rows, Post!history, PostRows
<1>8. ASSUME Post!Like(c) PROVE PostAsking'
  <2>1. PostTurns(c) /\ pc[c] \in {"delete", "create", "remove", "change", "unlike", "write", "drop", "add"}
    BY <1>8, PostTurn DEF PostWrites
  <2>2. call' = call /\ seen' = seen /\ pc'[c] \in {"flush", "done"} /\ \A d \in PostCalls : d # c => pc'[d] = pc[d]
    BY <2>1 DEF PostTurns
  <2>3. QED
    BY <2>2
<1>9. ASSUME Post!Unlike(c) PROVE PostAsking'
  <2>1. PostTurns(c) /\ pc[c] \in {"delete", "create", "remove", "change", "unlike", "write", "drop", "add"}
    BY <1>9, PostTurn DEF PostWrites
  <2>2. call' = call /\ seen' = seen /\ pc'[c] \in {"flush", "done"} /\ \A d \in PostCalls : d # c => pc'[d] = pc[d]
    BY <2>1 DEF PostTurns
  <2>3. QED
    BY <2>2
<1>10. ASSUME Post!CheckOwner(c) PROVE PostAsking'
  BY <1>10 DEF Post!CheckOwner, Post!Proceed, Post!Answer, Post!Goto, Post!Keeps, Post!rows, Post!history, PostRows
<1>11. ASSUME Post!FindAttached(c) PROVE PostAsking'
  BY <1>11 DEF Post!FindAttached, Post!Answer, Post!Goto, Post!Keeps, Post!rows, Post!history, PostRows
<1>12. ASSUME Post!Attach(c) PROVE PostAsking'
  BY <1>12 DEF Post!Attach, Post!Insertable, Post!Proceed, Post!Answer, Post!Goto, Post!history, PostRows
<1>13. ASSUME Post!CountAttached(c) PROVE PostAsking'
  BY <1>13 DEF Post!CountAttached, Post!Answer, Post!Goto, Post!history, PostRows
<1>14. ASSUME Post!Detach(c) PROVE PostAsking'
  BY <1>14 DEF Post!Detach, Post!Proceed, Post!Answer, Post!Goto, Post!history, PostRows
<1>15. ASSUME Post!CountDetached(c) PROVE PostAsking'
  BY <1>15 DEF Post!CountDetached, Post!Answer, Post!Goto, Post!history, PostRows
<1>16. ASSUME Post!FindParent(c) PROVE PostAsking'
  <2>1. pc[c] = "parent" /\ pc'[c] \in {"write", "done"} /\ UNCHANGED call
    BY <1>16 DEF Post!FindParent, Post!Answer, Post!Goto
  <2>2. \A d \in PostCalls : d # c => pc'[d] = pc[d] /\ seen'[d] = seen[d]
    BY <1>16 DEF Post!FindParent, Post!Answer, Post!Goto
  <2>3. QED
    BY <2>1, <2>2
<1>17. ASSUME Post!Write(c) PROVE PostAsking'
  <2>1. PostTurns(c) /\ pc[c] \in {"delete", "create", "remove", "change", "unlike", "write", "drop", "add"}
    BY <1>17, PostTurn DEF PostWrites
  <2>2. call' = call /\ seen' = seen /\ pc'[c] \in {"flush", "done"} /\ \A d \in PostCalls : d # c => pc'[d] = pc[d]
    BY <2>1 DEF PostTurns
  <2>3. QED
    BY <2>2
<1>18. ASSUME Post!FindRow(c) PROVE PostAsking'
  BY <1>18 DEF Post!FindRow, Post!Answer, Post!Goto, Post!Keeps, Post!rows, Post!history, PostRows
<1>19. ASSUME Post!DropComment(c) PROVE PostAsking'
  <2>1. PostTurns(c) /\ pc[c] \in {"delete", "create", "remove", "change", "unlike", "write", "drop", "add"}
    BY <1>19, PostTurn DEF PostWrites
  <2>2. call' = call /\ seen' = seen /\ pc'[c] \in {"flush", "done"} /\ \A d \in PostCalls : d # c => pc'[d] = pc[d]
    BY <2>1 DEF PostTurns
  <2>3. QED
    BY <2>2
<1>20. ASSUME Post!AddMedia(c) PROVE PostAsking'
  <2>1. PostTurns(c) /\ pc[c] \in {"delete", "create", "remove", "change", "unlike", "write", "drop", "add"}
    BY <1>20, PostTurn DEF PostWrites
  <2>2. call' = call /\ seen' = seen /\ pc'[c] \in {"flush", "done"} /\ \A d \in PostCalls : d # c => pc'[d] = pc[d]
    BY <2>1 DEF PostTurns
  <2>3. QED
    BY <2>2
<1>21. ASSUME Post!DropMedia(c) PROVE PostAsking'
  <2>1. PostTurns(c) /\ pc[c] \in {"delete", "create", "remove", "change", "unlike", "write", "drop", "add"}
    BY <1>21, PostTurn DEF PostWrites
  <2>2. call' = call /\ seen' = seen /\ pc'[c] \in {"flush", "done"} /\ \A d \in PostCalls : d # c => pc'[d] = pc[d]
    BY <2>1 DEF PostTurns
  <2>3. QED
    BY <2>2
<1>22. ASSUME Post!Get(c) PROVE PostAsking'
  BY <1>22, SMTT(30) DEF Post!Get, Post!Answer, Post!Proceed, Post!Goto, Post!Keeps, Post!rows, Post!history, PostRows
<1>23. ASSUME Post!Load(c) PROVE PostAsking'
  BY <1>23 DEF Post!Load, Post!View, Post!Answer, Post!Goto, Post!Keeps, Post!rows, Post!history, PostRows
<1>24. ASSUME Post!Fill(c) PROVE PostAsking'
  BY <1>24 DEF Post!Fill, Post!Answer, Post!Goto, Post!rows, Post!history, PostRows
<1>25. ASSUME Post!FlushOne(c) PROVE PostAsking'
  BY <1>25 DEF Post!FlushOne, Post!Cleansed, Post!Goto, Post!rows, PostRows
<1>26. ASSUME Post!Crash(c) PROVE PostAsking'
  BY <1>26 DEF Post!Crash, Post!Flushing, Post!Goto, Post!rows, PostRows
<1>27. QED
  BY <1>1, <1>2, <1>3, <1>4, <1>5, <1>6, <1>7, <1>8, <1>9, <1>10, <1>11, <1>12, <1>13, <1>14, <1>15, <1>16, <1>17, <1>18, <1>19, <1>20, <1>21, <1>22, <1>23, <1>24, <1>25, <1>26 DEF Post!Handle

(* A request that turns to the entries it deletes keeps the types. *)
LEMMA PostTurning ==
  ASSUME PostSlots, NEW c \in PostCalls, pc[c] \notin {"new", "flush"}, PostTurns(c)
  PROVE  PostSlots'
<1>1. CASE pc' = [pc EXCEPT ![c] = "done"] /\ UNCHANGED <<call, todo, seen>>
  BY <1>1 DEF PostSlots, Post!Labels
<1>2. ASSUME NEW es \in Seq(Post!Entries) \ {<<>>},
             todo' = [todo EXCEPT ![c] = es], pc' = [pc EXCEPT ![c] = "flush"], UNCHANGED <<call, seen>>
      PROVE  PostSlots'
  <2>1. todo' \in [PostCalls -> Seq(Post!Entries)] /\ pc' \in [PostCalls -> Post!Labels]
    BY <1>2 DEF PostSlots, Post!Labels
  <2>2. ASSUME NEW d \in PostCalls PROVE (pc'[d] # "new" => call[d] \in PostRequests) /\ (pc'[d] = "flush" <=> todo'[d] # <<>>)
    <3>1. CASE d = c
      BY <1>2, <3>1 DEF PostSlots
    <3>2. CASE d # c
      BY <1>2, <3>2 DEF PostSlots
    <3>3. QED
      BY <3>1, <3>2
  <2>3. QED
    BY <1>2, <2>1, <2>2 DEF PostSlots
<1>3. QED
  BY <1>1, <1>2 DEF PostTurns

(* A request that goes to another statement, or is answered, keeps the types. *)
LEMMA PostGoes ==
  ASSUME PostSlots, NEW c \in PostCalls, pc[c] \notin {"new", "flush"}, NEW p \in Post!Labels \ {"new", "flush"},
         pc' = [pc EXCEPT ![c] = p], UNCHANGED <<call, todo>>, seen' = seen \/ \E v : seen' = [seen EXCEPT ![c] = v]
  PROVE  PostSlots'
<1>1. pc' \in [PostCalls -> Post!Labels] /\ seen' = [d \in PostCalls |-> seen'[d]]
  BY DEF PostSlots
<1>2. pc'[c] = p /\ \A d \in PostCalls : d # c => pc'[d] = pc[d]
  BY DEF PostSlots
<1>3. ASSUME NEW d \in PostCalls PROVE (pc'[d] # "new" => call[d] \in PostRequests) /\ (pc'[d] = "flush" <=> todo[d] # <<>>)
  BY <1>2 DEF PostSlots
<1>4. QED
  BY <1>1, <1>3 DEF PostSlots

(* What requests hold keeps its type. *)
LEMMA PostSlot ==
  ASSUME Post!PostsAssumption, PostSlots, PostAsking, NEW c \in PostCalls, Post!Handle(c)
  PROVE  PostSlots'
<1> USE DEF PostSlots, PostAsking, Post!Labels, Post!Entries
<1>1. ASSUME Post!Start(c) PROVE PostSlots'
  <2>1. PICK r \in PostRequests :
           /\ call' = [call EXCEPT ![c] = r] /\ pc' = [pc EXCEPT ![c] = Post!First[r.kind]] /\ pc[c] = "new"
           /\ Post!First[r.kind] \in {"insert", "own", "delete", "post", "unlike", "owner", "find", "get"}
           /\ Post!First[r.kind] = "post" => r.kind \in {"like", "comment", "addmedia"}
           /\ Post!First[r.kind] = "owner" => r.kind \in {"attach", "detach"}
           /\ Post!First[r.kind] = "get" => r.kind = "read"
           /\ UNCHANGED <<post, like, comment, media, tagged, count, cached, todo, seen, torn, listed, lost>>
    BY <1>1, PostBegins
  <2>2. PICK p : p = Post!First[r.kind]
    OBVIOUS
  <2>3. QED
    BY <2>1, <2>2
<1>2. ASSUME Post!FindPost(c) PROVE PostSlots'
  <2>1. /\ pc[c] = "post" /\ UNCHANGED <<call, todo, seen>> /\ call[c].kind \in {"like", "comment", "addmedia"}
        /\ pc' = [pc EXCEPT ![c] = Post!AfterPost[call[c].kind]] \/ pc' = [pc EXCEPT ![c] = "done"]
    BY <1>2 DEF Post!FindPost, Post!Proceed, Post!Answer, Post!Goto
  <2>2. Post!AfterPost[call[c].kind] \in {"mine", "parent", "add"}
    BY <2>1 DEF Post!AfterPost
  <2>3. PICK p \in {"mine", "parent", "add", "done"} : pc' = [pc EXCEPT ![c] = p]
    BY <2>1, <2>2
  <2>4. QED
    BY <2>1, <2>3
<1>3. ASSUME Post!Insert(c) PROVE PostSlots'
  <2>1. /\ pc[c] \notin {"new", "flush"} /\ UNCHANGED <<call, todo>> /\ (seen' = seen \/ \E v : seen' = [seen EXCEPT ![c] = v])
        /\ \E p \in Post!Labels \ {"new", "flush"} : pc' = [pc EXCEPT ![c] = p]
    BY <1>3 DEF Post!Insert, Post!Answer, Post!Goto
  <2>2. QED
    BY <2>1, PostGoes
<1>4. ASSUME Post!FindOwn(c) PROVE PostSlots'
  <2>1. /\ pc[c] \notin {"new", "flush"} /\ UNCHANGED <<call, todo>> /\ (seen' = seen \/ \E v : seen' = [seen EXCEPT ![c] = v])
        /\ \E p \in Post!Labels \ {"new", "flush"} : pc' = [pc EXCEPT ![c] = p]
    BY <1>4 DEF Post!FindOwn, Post!Proceed, Post!Answer, Post!Goto, Post!Keeps, Post!rows, Post!history
  <2>2. QED
    BY <2>1, PostGoes
<1>5. ASSUME Post!Update(c) PROVE PostSlots'
  <2>1. /\ pc[c] \notin {"new", "flush"} /\ UNCHANGED <<call, todo>> /\ (seen' = seen \/ \E v : seen' = [seen EXCEPT ![c] = v])
        /\ \E p \in Post!Labels \ {"new", "flush"} : pc' = [pc EXCEPT ![c] = p]
    BY <1>5 DEF Post!Update, Post!Answer, Post!Goto
  <2>2. QED
    BY <2>1, PostGoes
<1>6. ASSUME Post!Erase(c) PROVE PostSlots'
  <2>1. PostTurns(c) /\ pc[c] \in {"delete", "create", "remove", "change", "unlike", "write", "drop", "add"}
    BY <1>6, PostTurn DEF PostWrites
  <2>2. QED
    BY <2>1, PostTurning
<1>7. ASSUME Post!FindLike(c) PROVE PostSlots'
  <2>1. /\ pc[c] \notin {"new", "flush"} /\ UNCHANGED <<call, todo>> /\ (seen' = seen \/ \E v : seen' = [seen EXCEPT ![c] = v])
        /\ \E p \in Post!Labels \ {"new", "flush"} : pc' = [pc EXCEPT ![c] = p]
    BY <1>7 DEF Post!FindLike, Post!Goto, Post!Keeps, Post!rows, Post!history
  <2>2. QED
    BY <2>1, PostGoes
<1>8. ASSUME Post!Like(c) PROVE PostSlots'
  <2>1. PostTurns(c) /\ pc[c] \in {"delete", "create", "remove", "change", "unlike", "write", "drop", "add"}
    BY <1>8, PostTurn DEF PostWrites
  <2>2. QED
    BY <2>1, PostTurning
<1>9. ASSUME Post!Unlike(c) PROVE PostSlots'
  <2>1. PostTurns(c) /\ pc[c] \in {"delete", "create", "remove", "change", "unlike", "write", "drop", "add"}
    BY <1>9, PostTurn DEF PostWrites
  <2>2. QED
    BY <2>1, PostTurning
<1>10. ASSUME Post!CheckOwner(c) PROVE PostSlots'
  <2>1. /\ pc[c] \notin {"new", "flush"} /\ UNCHANGED <<call, todo>> /\ (seen' = seen \/ \E v : seen' = [seen EXCEPT ![c] = v])
        /\ \E p \in Post!Labels \ {"new", "flush"} : pc' = [pc EXCEPT ![c] = p]
    BY <1>10 DEF Post!CheckOwner, Post!Proceed, Post!Answer, Post!Goto, Post!Keeps, Post!rows, Post!history
  <2>2. QED
    BY <2>1, PostGoes
<1>11. ASSUME Post!FindAttached(c) PROVE PostSlots'
  <2>1. /\ pc[c] \notin {"new", "flush"} /\ UNCHANGED <<call, todo>> /\ (seen' = seen \/ \E v : seen' = [seen EXCEPT ![c] = v])
        /\ \E p \in Post!Labels \ {"new", "flush"} : pc' = [pc EXCEPT ![c] = p]
    BY <1>11 DEF Post!FindAttached, Post!Answer, Post!Goto, Post!Keeps, Post!rows, Post!history
  <2>2. QED
    BY <2>1, PostGoes
<1>12. ASSUME Post!Attach(c) PROVE PostSlots'
  <2>1. /\ pc[c] \notin {"new", "flush"} /\ UNCHANGED <<call, todo>> /\ (seen' = seen \/ \E v : seen' = [seen EXCEPT ![c] = v])
        /\ \E p \in Post!Labels \ {"new", "flush"} : pc' = [pc EXCEPT ![c] = p]
    BY <1>12 DEF Post!Attach, Post!Insertable, Post!Proceed, Post!Answer, Post!Goto, Post!history
  <2>2. QED
    BY <2>1, PostGoes
<1>13. ASSUME Post!CountAttached(c) PROVE PostSlots'
  <2>1. /\ pc[c] \notin {"new", "flush"} /\ UNCHANGED <<call, todo>> /\ (seen' = seen \/ \E v : seen' = [seen EXCEPT ![c] = v])
        /\ \E p \in Post!Labels \ {"new", "flush"} : pc' = [pc EXCEPT ![c] = p]
    BY <1>13 DEF Post!CountAttached, Post!Answer, Post!Goto, Post!history
  <2>2. QED
    BY <2>1, PostGoes
<1>14. ASSUME Post!Detach(c) PROVE PostSlots'
  <2>1. /\ pc[c] \notin {"new", "flush"} /\ UNCHANGED <<call, todo>> /\ (seen' = seen \/ \E v : seen' = [seen EXCEPT ![c] = v])
        /\ \E p \in Post!Labels \ {"new", "flush"} : pc' = [pc EXCEPT ![c] = p]
    BY <1>14 DEF Post!Detach, Post!Proceed, Post!Answer, Post!Goto, Post!history
  <2>2. QED
    BY <2>1, PostGoes
<1>15. ASSUME Post!CountDetached(c) PROVE PostSlots'
  <2>1. /\ pc[c] \notin {"new", "flush"} /\ UNCHANGED <<call, todo>> /\ (seen' = seen \/ \E v : seen' = [seen EXCEPT ![c] = v])
        /\ \E p \in Post!Labels \ {"new", "flush"} : pc' = [pc EXCEPT ![c] = p]
    BY <1>15 DEF Post!CountDetached, Post!Answer, Post!Goto, Post!history
  <2>2. QED
    BY <2>1, PostGoes
<1>16. ASSUME Post!FindParent(c) PROVE PostSlots'
  <2>1. /\ pc[c] \notin {"new", "flush"} /\ UNCHANGED <<call, todo>> /\ (seen' = seen \/ \E v : seen' = [seen EXCEPT ![c] = v])
        /\ \E p \in Post!Labels \ {"new", "flush"} : pc' = [pc EXCEPT ![c] = p]
    BY <1>16 DEF Post!FindParent, Post!Root, Post!Answer, Post!Goto, Post!Keeps, Post!rows, Post!history
  <2>2. QED
    BY <2>1, PostGoes
<1>17. ASSUME Post!Write(c) PROVE PostSlots'
  <2>1. PostTurns(c) /\ pc[c] \in {"delete", "create", "remove", "change", "unlike", "write", "drop", "add"}
    BY <1>17, PostTurn DEF PostWrites
  <2>2. QED
    BY <2>1, PostTurning
<1>18. ASSUME Post!FindRow(c) PROVE PostSlots'
  <2>1. /\ pc[c] \notin {"new", "flush"} /\ UNCHANGED <<call, todo>> /\ (seen' = seen \/ \E v : seen' = [seen EXCEPT ![c] = v])
        /\ \E p \in Post!Labels \ {"new", "flush"} : pc' = [pc EXCEPT ![c] = p]
    BY <1>18 DEF Post!FindRow, Post!Answer, Post!Goto, Post!Keeps, Post!rows, Post!history
  <2>2. QED
    BY <2>1, PostGoes
<1>19. ASSUME Post!DropComment(c) PROVE PostSlots'
  <2>1. PostTurns(c) /\ pc[c] \in {"delete", "create", "remove", "change", "unlike", "write", "drop", "add"}
    BY <1>19, PostTurn DEF PostWrites
  <2>2. QED
    BY <2>1, PostTurning
<1>20. ASSUME Post!AddMedia(c) PROVE PostSlots'
  <2>1. PostTurns(c) /\ pc[c] \in {"delete", "create", "remove", "change", "unlike", "write", "drop", "add"}
    BY <1>20, PostTurn DEF PostWrites
  <2>2. QED
    BY <2>1, PostTurning
<1>21. ASSUME Post!DropMedia(c) PROVE PostSlots'
  <2>1. PostTurns(c) /\ pc[c] \in {"delete", "create", "remove", "change", "unlike", "write", "drop", "add"}
    BY <1>21, PostTurn DEF PostWrites
  <2>2. QED
    BY <2>1, PostTurning
<1>22. ASSUME Post!Get(c) PROVE PostSlots'
  <2>1. /\ pc[c] \notin {"new", "flush"} /\ UNCHANGED <<call, todo>> /\ (seen' = seen \/ \E v : seen' = [seen EXCEPT ![c] = v])
        /\ \E p \in Post!Labels \ {"new", "flush"} : pc' = [pc EXCEPT ![c] = p]
    BY <1>22 DEF Post!Get, Post!Answer, Post!Proceed, Post!Goto, Post!Keeps, Post!rows, Post!history
  <2>2. QED
    BY <2>1, PostGoes
<1>23. ASSUME Post!Load(c) PROVE PostSlots'
  <2>1. /\ pc[c] \notin {"new", "flush"} /\ UNCHANGED <<call, todo>> /\ (seen' = seen \/ \E v : seen' = [seen EXCEPT ![c] = v])
        /\ \E p \in Post!Labels \ {"new", "flush"} : pc' = [pc EXCEPT ![c] = p]
    BY <1>23 DEF Post!Load, Post!View, Post!Answer, Post!Goto, Post!Keeps, Post!rows, Post!history
  <2>2. QED
    BY <2>1, PostGoes
<1>24. ASSUME Post!Fill(c) PROVE PostSlots'
  <2>1. /\ pc[c] \notin {"new", "flush"} /\ UNCHANGED <<call, todo>> /\ (seen' = seen \/ \E v : seen' = [seen EXCEPT ![c] = v])
        /\ \E p \in Post!Labels \ {"new", "flush"} : pc' = [pc EXCEPT ![c] = p]
    BY <1>24 DEF Post!Fill, Post!Answer, Post!Goto, Post!rows, Post!history
  <2>2. QED
    BY <2>1, PostGoes
<1>25. ASSUME Post!FlushOne(c) PROVE PostSlots'
  <2>1. PICK s \in Seq(Post!Entries) : s = todo[c] /\ s # <<>>
    BY <1>25 DEF Post!FlushOne
  <2>2. Tail(s) \in Seq(Post!Entries)
    BY <2>1
  <2>3. Len(s) = 1 <=> Tail(s) = <<>>
    <3>1. Len(Tail(s)) = Len(s) - 1 /\ Len(s) \in Nat /\ Len(Tail(s)) \in Nat
      BY <2>1, <2>2, HeadTailProperties, LenProperties
    <3>2. Tail(s) # <<>> => Len(Tail(s)) \in Nat \ {0}
      BY <2>2, EmptySeq
    <3>3. Tail(s) = <<>> => Len(Tail(s)) = 0
      BY EmptySeq
    <3>4. QED
      BY <3>1, <3>2, <3>3
  <2>4. todo' = [todo EXCEPT ![c] = Tail(s)] /\ pc' = [pc EXCEPT ![c] = IF Len(s) = 1 THEN "done" ELSE "flush"] /\ pc[c] = "flush" /\ UNCHANGED <<call, seen>>
    BY <1>25, <2>1 DEF Post!FlushOne, Post!Goto
  <2>5. QED
    BY <2>2, <2>3, <2>4
<1>26. ASSUME Post!Crash(c) PROVE PostSlots'
  BY <1>26 DEF Post!Crash, Post!Flushing, Post!Goto, Post!rows
<1>27. QED
  BY <1>1, <1>2, <1>3, <1>4, <1>5, <1>6, <1>7, <1>8, <1>9, <1>10, <1>11, <1>12, <1>13, <1>14, <1>15, <1>16, <1>17, <1>18, <1>19, <1>20, <1>21, <1>22, <1>23, <1>24, <1>25, <1>26 DEF Post!Handle

(* Rows hang on a live post. *)
LEMMA PostRowed ==
  ASSUME Post!PostsAssumption, PostSlots, PostAsking, PostRows, NEW c \in PostCalls, Post!Handle(c)
  PROVE  PostRows'
<1> USE DEF PostSlots, PostAsking, PostRows
<1>1. ASSUME Post!Start(c) PROVE PostRows'
  BY <1>1, PostBegins, PostRequest DEF Post!Entries
<1>2. ASSUME Post!FindPost(c) PROVE PostRows'
  BY <1>2, PostRequest DEF Post!FindPost, Post!Proceed, Post!Answer, Post!Goto, Post!AfterPost, Post!Keeps, Post!rows, Post!history, Post!Entries
<1>3. ASSUME Post!Insert(c) PROVE PostRows'
  <2>1. call[c].tags \subseteq Tags
    BY <1>3, PostRequest DEF Post!Insert
  <2>2. QED
    BY <1>3, <2>1 DEF Post!Insert, Post!Entries
<1>4. ASSUME Post!FindOwn(c) PROVE PostRows'
  BY <1>4, PostRequest DEF Post!FindOwn, Post!Proceed, Post!Answer, Post!Goto, Post!Keeps, Post!rows, Post!history, Post!Entries
<1>5. ASSUME Post!Update(c) PROVE PostRows'
  <2>1. call[c].tags \subseteq Tags
    BY <1>5, PostRequest DEF Post!Update
  <2>2. QED
    BY <1>5, <2>1 DEF Post!Update, Post!Entries
<1>6. ASSUME Post!Erase(c) PROVE PostRows'
  BY <1>6, PostRequest DEF Post!Erase, Post!Flush, Post!Answer, Post!Goto, Post!Tears, Post!Entries
<1>7. ASSUME Post!FindLike(c) PROVE PostRows'
  BY <1>7, PostRequest DEF Post!FindLike, Post!Goto, Post!Keeps, Post!rows, Post!history, Post!Entries
<1>8. ASSUME Post!Like(c) PROVE PostRows'
  <2>1. pc[c] \in {"create", "remove", "change"} /\ call[c].on \in Post!Reactions /\ call[c].by \in Users
    BY <1>8, PostRequest DEF Post!Like
  <2>2. PICK u \in Users : u = call[c].by
    BY <2>1
  <2>3. torn' \subseteq Post!Entries /\ UNCHANGED <<post, media, tagged, count, cached, listed, lost>>
    BY <1>8 DEF Post!Like, Post!Tears, Post!Entries
  <2>4. CASE Post!Writes(c)
    <3>1. Post!Liked(c) = None \/ (Post!Liked(c) \in PostLike /\ post = "live")
      <4>1. pc[c] # "create" => like[u] # None /\ like[u].id = seen[c].id /\ like[u] \in PostLike
        BY <2>2, <2>4 DEF Post!Writes
      <4>2. pc[c] # "create" => seen[c].id \in PostCalls
        BY <4>1 DEF PostLike
      <4>3. pc[c] = "create" => post = "live"
        BY <2>4 DEF Post!Writes
      <4>4. QED
        BY <2>1, <4>1, <4>2, <4>3 DEF Post!Liked, PostLike
    <3>2. like' = [like EXCEPT ![u] = Post!Liked(c)]
      BY <1>8, <2>2, <2>4 DEF Post!Like
    <3>3. QED
      BY <2>3, <3>1, <3>2
  <2>5. CASE ~Post!Writes(c)
    <3>1. like' = like
      BY <1>8, <2>5 DEF Post!Like
    <3>2. QED
      BY <2>3, <3>1
  <2>6. QED
    BY <2>4, <2>5
<1>9. ASSUME Post!Unlike(c) PROVE PostRows'
  BY <1>9, PostRequest DEF Post!Unlike, Post!Unliked, Post!Tears, Post!Flush, Post!Answer, Post!Goto, Post!Entries
<1>10. ASSUME Post!CheckOwner(c) PROVE PostRows'
  BY <1>10, PostRequest DEF Post!CheckOwner, Post!Proceed, Post!Answer, Post!Goto, Post!Keeps, Post!rows, Post!history, Post!Entries
<1>11. ASSUME Post!FindAttached(c) PROVE PostRows'
  BY <1>11, PostRequest DEF Post!FindAttached, Post!Answer, Post!Goto, Post!Keeps, Post!rows, Post!history, Post!Entries
<1>12. ASSUME Post!Attach(c) PROVE PostRows'
  BY <1>12, PostRequest DEF Post!Attach, Post!Insertable, Post!Proceed, Post!Answer, Post!Goto, Post!history, Post!Entries
<1>13. ASSUME Post!CountAttached(c) PROVE PostRows'
  BY <1>13, PostRequest DEF Post!CountAttached, Post!Answer, Post!Goto, Post!history, Post!Entries
<1>14. ASSUME Post!Detach(c) PROVE PostRows'
  BY <1>14, PostRequest DEF Post!Detach, Post!Proceed, Post!Answer, Post!Goto, Post!history, Post!Entries
<1>15. ASSUME Post!CountDetached(c) PROVE PostRows'
  BY <1>15, PostRequest DEF Post!CountDetached, Post!Answer, Post!Goto, Post!history, Post!Entries
<1>16. ASSUME Post!FindParent(c) PROVE PostRows'
  BY <1>16, PostRequest DEF Post!FindParent, Post!Root, Post!Answer, Post!Goto, Post!Keeps, Post!rows, Post!history, Post!Entries
<1>17. ASSUME Post!Write(c) PROVE PostRows'
  BY <1>17, PostRequest DEF Post!Write, Post!Tears, Post!Flush, Post!Answer, Post!Goto, Post!Entries
<1>18. ASSUME Post!FindRow(c) PROVE PostRows'
  BY <1>18, PostRequest DEF Post!FindRow, Post!Answer, Post!Goto, Post!Keeps, Post!rows, Post!history, Post!Entries
<1>19. ASSUME Post!DropComment(c) PROVE PostRows'
  BY <1>19, PostRequest DEF Post!DropComment, Post!Tears, Post!Flush, Post!Answer, Post!Goto, Post!Entries
<1>20. ASSUME Post!AddMedia(c) PROVE PostRows'
  BY <1>20, PostRequest DEF Post!AddMedia, Post!Tears, Post!Flush, Post!Answer, Post!Goto, Post!Entries
<1>21. ASSUME Post!DropMedia(c) PROVE PostRows'
  BY <1>21, PostRequest DEF Post!DropMedia, Post!Tears, Post!Flush, Post!Answer, Post!Goto, Post!Entries
<1>22. ASSUME Post!Get(c) PROVE PostRows'
  BY <1>22, PostRequest DEF Post!Get, Post!Answer, Post!Proceed, Post!Goto, Post!Keeps, Post!rows, Post!history, Post!Entries
<1>23. ASSUME Post!Load(c) PROVE PostRows'
  BY <1>23, PostRequest DEF Post!Load, Post!View, Post!Answer, Post!Goto, Post!Keeps, Post!rows, Post!history, Post!Entries
<1>24. ASSUME Post!Fill(c) PROVE PostRows'
  BY <1>24, PostRequest DEF Post!Fill, Post!Answer, Post!Goto, Post!rows, Post!history, Post!Entries
<1>25. ASSUME Post!FlushOne(c) PROVE PostRows'
  BY <1>25, PostRequest DEF Post!FlushOne, Post!Cleansed, Post!Goto, Post!rows, Post!Entries
<1>26. ASSUME Post!Crash(c) PROVE PostRows'
  BY <1>26, PostRequest, SMTT(30) DEF Post!Crash, Post!Flushing, Post!Goto, Post!rows, Post!Entries
<1>27. QED
  BY <1>1, <1>2, <1>3, <1>4, <1>5, <1>6, <1>7, <1>8, <1>9, <1>10, <1>11, <1>12, <1>13, <1>14, <1>15, <1>16, <1>17, <1>18, <1>19, <1>20, <1>21, <1>22, <1>23, <1>24, <1>25, <1>26 DEF Post!Handle

(* Who has written stays where he is, or is answered. *)
LEMMA PostRoots ==
  ASSUME NEW c \in PostCalls, PostOthers(c), PostServes(c), NEW d, IsRoot(d), comment'[d] # None => comment'[d] = comment[d]
  PROVE  IsRoot(d)'
BY DEF IsRoot, PostOthers, PostServes

(* A step that writes no comment leaves the threads alone. *)
LEMMA PostThreadsKept ==
  ASSUME PostThreads, NEW c \in PostCalls, PostOthers(c), PostServes(c), comment' = comment, post' = post \/ post = "none",
         pc'[c] = "write" => seen'[c] = None \/ IsRoot(seen'[c])
  PROVE  PostThreads'
<1>1. \A d : IsRoot(d) => IsRoot(d)'
  BY PostRoots
<1>2. \A d \in PostCalls : comment[d] # None => pc'[d] \in {"flush", "done"} /\ post' = "live"
  BY DEF PostThreads, PostOthers, PostServes
<1>3. \A d \in PostCalls : pc'[d] = "write" => seen'[d] = None \/ IsRoot(seen'[d])
  BY DEF PostThreads, PostOthers
<1>4. ASSUME NEW d \in PostCalls, pc'[d] = "write" PROVE (seen[d] = None \/ IsRoot(seen[d]))'
  <2>1. PICK s : s = seen'[d]
    OBVIOUS
  <2>2. s = None \/ IsRoot(s)'
    BY <1>1, <1>3, <1>4, <2>1
  <2>3. QED
    BY <2>1, <2>2 DEF IsRoot
<1>5. ASSUME NEW d \in PostCalls, comment[d] # None, comment[d].parent # None PROVE IsRoot(comment[d].parent)' /\ comment[comment[d].parent] # None
  <2>1. IsRoot(comment[d].parent) /\ comment[comment[d].parent] # None
    BY <1>5 DEF PostThreads
  <2>2. PICK s : s = comment[d].parent
    OBVIOUS
  <2>3. IsRoot(s)'
    BY <1>1, <2>1, <2>2
  <2>4. QED
    BY <2>1, <2>2, <2>3 DEF IsRoot
<1>6. QED
  BY <1>2, <1>4, <1>5 DEF PostThreads

(* Comments stay in threads of two levels. *)
LEMMA PostThreaded ==
  ASSUME Post!PostsAssumption, PostSlots, PostAsking, PostRows, PostThreads, NEW c \in PostCalls, Post!Handle(c)
  PROVE  PostThreads'
<1>0. PostSlots /\ PostAsking /\ PostThreads /\ PostOthers(c) /\ PostServes(c)
  BY PostOther, PostServe
<1>1. ASSUME Post!Start(c) PROVE PostThreads'
  <2>1. PICK r \in PostRequests :
           /\ pc' = [pc EXCEPT ![c] = Post!First[r.kind]]
           /\ Post!First[r.kind] \in {"insert", "own", "delete", "post", "unlike", "owner", "find", "get"} /\ UNCHANGED <<post, comment>>
    BY <1>1, PostBegins
  <2>2. pc'[c] # "write"
    <3>1. PICK p : p = Post!First[r.kind]
      OBVIOUS
    <3>2. QED
      BY <1>0, <2>1, <3>1 DEF PostSlots
  <2>3. QED
    BY <1>0, <2>1, <2>2, PostThreadsKept
<1>2. ASSUME Post!FindPost(c) PROVE PostThreads'
  <2>1. comment' = comment /\ (post' = post \/ post = "none") /\ pc'[c] # "write"
    BY <1>2 DEF Post!FindPost, Post!Proceed, Post!Answer, Post!Goto, Post!AfterPost, Post!Keeps, Post!rows, Post!history, PostSlots, PostAsking
  <2>2. QED
    BY <1>0, <2>1, PostThreadsKept
<1>3. ASSUME Post!Insert(c) PROVE PostThreads'
  <2>1. comment' = comment /\ (post' = post \/ post = "none") /\ pc'[c] # "write"
    BY <1>3 DEF Post!Insert, Post!Answer, Post!Goto, PostSlots, PostAsking
  <2>2. QED
    BY <1>0, <2>1, PostThreadsKept
<1>4. ASSUME Post!FindOwn(c) PROVE PostThreads'
  <2>1. comment' = comment /\ (post' = post \/ post = "none") /\ pc'[c] # "write"
    BY <1>4 DEF Post!FindOwn, Post!Proceed, Post!Answer, Post!Goto, Post!Keeps, Post!rows, Post!history, PostSlots, PostAsking
  <2>2. QED
    BY <1>0, <2>1, PostThreadsKept
<1>5. ASSUME Post!Update(c) PROVE PostThreads'
  <2>1. comment' = comment /\ (post' = post \/ post = "none") /\ pc'[c] # "write"
    BY <1>5 DEF Post!Update, Post!Answer, Post!Goto, PostSlots, PostAsking
  <2>2. QED
    BY <1>0, <2>1, PostThreadsKept
<1>6. ASSUME Post!Erase(c) PROVE PostThreads'
  <2>1. pc'[c] # "write"
    BY <1>0, <1>6 DEF Post!Erase, Post!Flush, Post!Answer, Post!Goto, PostSlots
  <2>2. (UNCHANGED <<comment, post>>) \/ comment' = [d \in PostCalls |-> None]
    BY <1>6 DEF Post!Erase
  <2>3. CASE UNCHANGED <<comment, post>>
    BY <1>0, <2>1, <2>3, PostThreadsKept
  <2>4. CASE comment' = [d \in PostCalls |-> None]
    <3>1. \A d : IsRoot(d) => IsRoot(d)'
      <4>1. ASSUME NEW d, IsRoot(d) PROVE comment'[d] # None => comment'[d] = comment[d]
        BY <2>4, <4>1 DEF IsRoot
      <4>2. QED
        BY <1>0, <4>1, PostRoots
    <3>2. ASSUME NEW d \in PostCalls, pc'[d] = "write" PROVE (seen[d] = None \/ IsRoot(seen[d]))'
      <4>1. d # c /\ seen'[d] = seen[d] /\ (seen[d] = None \/ IsRoot(seen[d]))
        BY <1>0, <2>1, <3>2 DEF PostOthers, PostThreads
      <4>2. PICK s : s = seen[d]
        OBVIOUS
      <4>3. s = None \/ IsRoot(s)'
        BY <3>1, <4>1, <4>2
      <4>4. QED
        BY <4>1, <4>2, <4>3 DEF IsRoot
    <3>3. QED
      BY <2>4, <3>2 DEF PostThreads
  <2>5. QED
    BY <2>2, <2>3, <2>4
<1>7. ASSUME Post!FindLike(c) PROVE PostThreads'
  <2>1. comment' = comment /\ (post' = post \/ post = "none") /\ pc'[c] # "write"
    BY <1>7 DEF Post!FindLike, Post!Goto, Post!Keeps, Post!rows, Post!history, PostSlots, PostAsking
  <2>2. QED
    BY <1>0, <2>1, PostThreadsKept
<1>8. ASSUME Post!Like(c) PROVE PostThreads'
  <2>1. comment' = comment /\ (post' = post \/ post = "none") /\ pc'[c] # "write"
    BY <1>8 DEF Post!Like, Post!Writes, Post!Liked, Post!Tears, Post!Flush, Post!Answer, Post!Goto, PostSlots, PostAsking
  <2>2. QED
    BY <1>0, <2>1, PostThreadsKept
<1>9. ASSUME Post!Unlike(c) PROVE PostThreads'
  <2>1. comment' = comment /\ (post' = post \/ post = "none") /\ pc'[c] # "write"
    BY <1>9 DEF Post!Unlike, Post!Unliked, Post!Tears, Post!Flush, Post!Answer, Post!Goto, PostSlots, PostAsking
  <2>2. QED
    BY <1>0, <2>1, PostThreadsKept
<1>10. ASSUME Post!CheckOwner(c) PROVE PostThreads'
  <2>1. comment' = comment /\ (post' = post \/ post = "none") /\ pc'[c] # "write"
    BY <1>10 DEF Post!CheckOwner, Post!Proceed, Post!Answer, Post!Goto, Post!Keeps, Post!rows, Post!history, PostSlots, PostAsking
  <2>2. QED
    BY <1>0, <2>1, PostThreadsKept
<1>11. ASSUME Post!FindAttached(c) PROVE PostThreads'
  <2>1. comment' = comment /\ (post' = post \/ post = "none") /\ pc'[c] # "write"
    BY <1>11 DEF Post!FindAttached, Post!Answer, Post!Goto, Post!Keeps, Post!rows, Post!history, PostSlots, PostAsking
  <2>2. QED
    BY <1>0, <2>1, PostThreadsKept
<1>12. ASSUME Post!Attach(c) PROVE PostThreads'
  <2>1. comment' = comment /\ (post' = post \/ post = "none") /\ pc'[c] # "write"
    BY <1>12 DEF Post!Attach, Post!Insertable, Post!Proceed, Post!Answer, Post!Goto, Post!history, PostSlots, PostAsking
  <2>2. QED
    BY <1>0, <2>1, PostThreadsKept
<1>13. ASSUME Post!CountAttached(c) PROVE PostThreads'
  <2>1. comment' = comment /\ (post' = post \/ post = "none") /\ pc'[c] # "write"
    BY <1>13 DEF Post!CountAttached, Post!Answer, Post!Goto, Post!history, PostSlots, PostAsking
  <2>2. QED
    BY <1>0, <2>1, PostThreadsKept
<1>14. ASSUME Post!Detach(c) PROVE PostThreads'
  <2>1. comment' = comment /\ (post' = post \/ post = "none") /\ pc'[c] # "write"
    BY <1>14 DEF Post!Detach, Post!Proceed, Post!Answer, Post!Goto, Post!history, PostSlots, PostAsking
  <2>2. QED
    BY <1>0, <2>1, PostThreadsKept
<1>15. ASSUME Post!CountDetached(c) PROVE PostThreads'
  <2>1. comment' = comment /\ (post' = post \/ post = "none") /\ pc'[c] # "write"
    BY <1>15 DEF Post!CountDetached, Post!Answer, Post!Goto, Post!history, PostSlots, PostAsking
  <2>2. QED
    BY <1>0, <2>1, PostThreadsKept
<1>16. ASSUME Post!FindParent(c) PROVE PostThreads'
  <2>1. comment' = comment /\ post' = post
    BY <1>16 DEF Post!FindParent, Post!Keeps, Post!rows
  <2>2. pc'[c] = "write" => seen'[c] = None \/ \E p \in PostCalls : comment[p] # None /\ seen'[c] = Post!Root(p)
    BY <1>16 DEF Post!FindParent, Post!Answer, Post!Goto, PostSlots
  <2>3. \A p \in PostCalls : comment[p] # None => IsRoot(Post!Root(p))
    BY DEF PostThreads, Post!Root, IsRoot
  <2>4. QED
    BY <1>0, <2>1, <2>2, <2>3, PostThreadsKept
<1>17. ASSUME Post!Write(c) PROVE PostThreads'
  <2>1. pc[c] = "write" /\ UNCHANGED post
    BY <1>17 DEF Post!Write
  <2>2. (pc'[c] # "write" /\ comment' = comment) \/
        (/\ post = "live" /\ pc'[c] = "flush" /\ (seen[c] = None \/ comment[seen[c]] # None)
         /\ comment' = [comment EXCEPT ![c] = [by |-> call[c].by, parent |-> seen[c]]])
    BY <1>0, <1>17 DEF Post!Write, Post!Flush, Post!Answer, Post!Goto, PostSlots
  <2>3. CASE pc'[c] # "write" /\ comment' = comment
    BY <1>0, <2>1, <2>3, PostThreadsKept
  <2>4. CASE /\ post = "live" /\ pc'[c] = "flush" /\ (seen[c] = None \/ comment[seen[c]] # None)
             /\ comment' = [comment EXCEPT ![c] = [by |-> call[c].by, parent |-> seen[c]]]
    <3>1. /\ comment'[c].by = call[c].by /\ comment'[c].parent = seen[c] /\ \A d \in PostCalls : d # c => comment'[d] = comment[d]
          /\ comment' = [d \in PostCalls |-> comment'[d]]
      BY <2>4 DEF PostThreads
    <3>2. \A d : IsRoot(d) => d # c /\ IsRoot(d)'
      <4>1. ASSUME NEW d, IsRoot(d) PROVE d # c /\ (comment'[d] # None => comment'[d] = comment[d])
        BY <2>1, <3>1, <4>1 DEF IsRoot
      <4>2. QED
        BY <1>0, <4>1, PostRoots
    <3>3. \A d \in PostCalls : comment'[d] # None => comment'[d].by \in Users /\ pc'[d] \in {"flush", "done"}
      BY <1>0, <2>1, <2>4, <3>1, PostRequest DEF PostThreads, PostOthers, PostServes, PostSlots
    <3>4. ASSUME NEW d \in PostCalls, comment'[d] # None, comment'[d].parent # None
          PROVE  (IsRoot(comment[d].parent) /\ comment[comment[d].parent] # None)'
      <4>1. PICK s : s = comment'[d].parent
        OBVIOUS
      <4>2. IsRoot(s) /\ comment[s] # None
        BY <2>1, <2>4, <3>1, <3>4, <4>1 DEF PostThreads
      <4>3. IsRoot(s)' /\ comment'[s] # None
        BY <3>1, <3>2, <4>2 DEF IsRoot
      <4>4. QED
        BY <4>1, <4>3 DEF IsRoot
    <3>5. ASSUME NEW d \in PostCalls, pc'[d] = "write" PROVE (seen[d] = None \/ IsRoot(seen[d]))'
      <4>1. d # c /\ seen'[d] = seen[d] /\ (seen[d] = None \/ IsRoot(seen[d]))
        BY <1>0, <2>4, <3>5 DEF PostOthers, PostThreads
      <4>2. PICK s : s = seen[d]
        OBVIOUS
      <4>3. s = None \/ IsRoot(s)'
        BY <3>2, <4>1, <4>2
      <4>4. QED
        BY <4>1, <4>2, <4>3 DEF IsRoot
    <3>6. QED
      BY <2>1, <2>4, <3>1, <3>3, <3>4, <3>5 DEF PostThreads
  <2>5. QED
    BY <2>2, <2>3, <2>4
<1>18. ASSUME Post!FindRow(c) PROVE PostThreads'
  <2>1. comment' = comment /\ (post' = post \/ post = "none") /\ pc'[c] # "write"
    BY <1>18 DEF Post!FindRow, Post!Answer, Post!Goto, Post!Keeps, Post!rows, Post!history, PostSlots, PostAsking
  <2>2. QED
    BY <1>0, <2>1, PostThreadsKept
<1>19. ASSUME Post!DropComment(c) PROVE PostThreads'
  <2>1. pc[c] = "drop" /\ UNCHANGED post /\ pc'[c] # "write" /\ seen[c] # None
    BY <1>0, <1>19 DEF Post!DropComment, Post!Flush, Post!Answer, Post!Goto, PostSlots, PostAsking, Post!PostsAssumption
  <2>2. comment' = comment \/ comment' = [d \in PostCalls |-> IF d = seen[c] \/ (comment[d] # None /\ comment[d].parent = seen[c]) THEN None ELSE comment[d]]
    BY <1>19 DEF Post!DropComment
  <2>3. CASE comment' = comment
    BY <1>0, <2>1, <2>3, PostThreadsKept
  <2>4. CASE comment' = [d \in PostCalls |-> IF d = seen[c] \/ (comment[d] # None /\ comment[d].parent = seen[c]) THEN None ELSE comment[d]]
    <3>1. \A d \in PostCalls : comment'[d] # None => comment'[d] = comment[d] /\ d # seen[c] /\ comment[d].parent # seen[c]
      BY <2>4
    <3>2. \A d : IsRoot(d) => IsRoot(d)'
      <4>1. ASSUME NEW d, IsRoot(d) PROVE comment'[d] # None => comment'[d] = comment[d]
        BY <3>1, <4>1 DEF IsRoot
      <4>2. QED
        BY <1>0, <4>1, PostRoots
    <3>3. ASSUME NEW d \in PostCalls, comment'[d] # None PROVE post = "live" /\ comment'[d].by \in Users /\ pc'[d] \in {"flush", "done"}
      BY <1>0, <3>1, <3>3 DEF PostThreads, PostOthers, PostServes
    <3>4. ASSUME NEW d \in PostCalls, comment'[d] # None, comment'[d].parent # None
          PROVE  (IsRoot(comment[d].parent) /\ comment[comment[d].parent] # None)'
      <4>1. PICK s : s = comment'[d].parent
        OBVIOUS
      <4>2. IsRoot(s) /\ comment[s] # None /\ s # seen[c] /\ comment[s].parent = None
        BY <3>1, <3>4, <4>1 DEF PostThreads, IsRoot
      <4>3. IsRoot(s)' /\ comment'[s] # None
        BY <2>1, <2>4, <3>2, <4>2 DEF IsRoot
      <4>4. QED
        BY <4>1, <4>3 DEF IsRoot
    <3>5. ASSUME NEW d \in PostCalls, pc'[d] = "write" PROVE (seen[d] = None \/ IsRoot(seen[d]))'
      <4>1. d # c /\ seen'[d] = seen[d] /\ (seen[d] = None \/ IsRoot(seen[d]))
        BY <1>0, <2>1, <3>5 DEF PostOthers, PostThreads
      <4>2. PICK s : s = seen[d]
        OBVIOUS
      <4>3. s = None \/ IsRoot(s)'
        BY <3>2, <4>1, <4>2
      <4>4. QED
        BY <4>1, <4>2, <4>3 DEF IsRoot
    <3>6. QED
      BY <2>1, <2>4, <3>3, <3>4, <3>5 DEF PostThreads
  <2>5. QED
    BY <2>2, <2>3, <2>4
<1>20. ASSUME Post!AddMedia(c) PROVE PostThreads'
  <2>1. comment' = comment /\ (post' = post \/ post = "none") /\ pc'[c] # "write"
    BY <1>20 DEF Post!AddMedia, Post!Tears, Post!Flush, Post!Answer, Post!Goto, PostSlots, PostAsking
  <2>2. QED
    BY <1>0, <2>1, PostThreadsKept
<1>21. ASSUME Post!DropMedia(c) PROVE PostThreads'
  <2>1. comment' = comment /\ (post' = post \/ post = "none") /\ pc'[c] # "write"
    BY <1>21 DEF Post!DropMedia, Post!Tears, Post!Flush, Post!Answer, Post!Goto, PostSlots, PostAsking
  <2>2. QED
    BY <1>0, <2>1, PostThreadsKept
<1>22. ASSUME Post!Get(c) PROVE PostThreads'
  <2>1. comment' = comment /\ (post' = post \/ post = "none") /\ pc'[c] # "write"
    BY <1>22 DEF Post!Get, Post!Answer, Post!Proceed, Post!Goto, Post!Keeps, Post!rows, Post!history, PostSlots, PostAsking
  <2>2. QED
    BY <1>0, <2>1, PostThreadsKept
<1>23. ASSUME Post!Load(c) PROVE PostThreads'
  <2>1. comment' = comment /\ (post' = post \/ post = "none") /\ pc'[c] # "write"
    BY <1>23 DEF Post!Load, Post!View, Post!Answer, Post!Goto, Post!Keeps, Post!rows, Post!history, PostSlots, PostAsking
  <2>2. QED
    BY <1>0, <2>1, PostThreadsKept
<1>24. ASSUME Post!Fill(c) PROVE PostThreads'
  <2>1. comment' = comment /\ (post' = post \/ post = "none") /\ pc'[c] # "write"
    BY <1>24 DEF Post!Fill, Post!Answer, Post!Goto, Post!rows, Post!history, PostSlots, PostAsking
  <2>2. QED
    BY <1>0, <2>1, PostThreadsKept
<1>25. ASSUME Post!FlushOne(c) PROVE PostThreads'
  <2>1. comment' = comment /\ (post' = post \/ post = "none") /\ pc'[c] # "write"
    BY <1>25 DEF Post!FlushOne, Post!Cleansed, Post!Goto, Post!rows, PostSlots, PostAsking
  <2>2. QED
    BY <1>0, <2>1, PostThreadsKept
<1>26. ASSUME Post!Crash(c) PROVE PostThreads'
  <2>1. comment' = comment /\ (post' = post \/ post = "none") /\ pc'[c] # "write"
    BY <1>26 DEF Post!Crash, Post!Flushing, Post!Goto, Post!rows, PostSlots, PostAsking
  <2>2. QED
    BY <1>0, <2>1, PostThreadsKept
<1>27. QED
  BY <1>1, <1>2, <1>3, <1>4, <1>5, <1>6, <1>7, <1>8, <1>9, <1>10, <1>11, <1>12, <1>13, <1>14, <1>15, <1>16, <1>17, <1>18, <1>19, <1>20, <1>21, <1>22, <1>23, <1>24, <1>25, <1>26 DEF Post!Handle

(* What a step of one request leaves of a cached list: it is deleted, or its
   rows stay as they are, or it is marked. *)
PostAwaited(c, e) == \E d \in PostCalls \ {c} : pc[d] = "fill" /\ call[d].on = e
Marked(c, e) == e \in torn' \/ e \in Post!Flushing(c)'
PostFresh(c, e) ==
  /\ cached'[e] = None \/ (cached'[e] = cached[e] /\ (e \in torn => e \in torn') /\ (e \in Post!Flushing(c) => Marked(c, e)))
  /\ PostAwaited(c, e) /\ e \in torn => e \in torn'
  /\ post = "none" \/ Post!View(e)' = Post!View(e) \/ (Marked(c, e) /\ (PostAwaited(c, e) => e \in torn'))

(* A reader reads one of the lists. *)
LEMMA PostReads ==
  ASSUME Post!PostsAssumption, PostSlots, PostAsking, NEW c \in PostCalls, pc[c] \in {"get", "load", "fill"}
  PROVE  call[c].on \in Post!Entries
<1>1. PICK r \in PostRequests : r = call[c]
  BY DEF PostSlots
<1>2. r.kind = "read"
  BY <1>1 DEF PostAsking
<1>3. QED
  BY <1>1, <1>2, PostRequest

(* If a step leaves every list deleted, current or marked, what is cached is current. *)
LEMMA PostFreshens ==
  ASSUME Post!PostsAssumption, PostSlots, PostAsking, PostCached, NEW c \in PostCalls, PostOthers(c), PostServes(c),
         \A e \in Post!Entries : PostFresh(c, e), post' = "none" => post = "none",
         pc'[c] = "fill" => post' # "none" /\ \E e \in Post!Entries : e = call'[c].on /\ seen'[c] = Post!View(e)'
  PROVE  PostCached'
<1>1. ASSUME NEW e \in Post!Entries PROVE Filled(e)' /\ (post' = "none" => cached'[e] = None)
  <2>1. cached'[e] = None \/ cached'[e] = cached[e]
    BY DEF PostFresh
  <2>2. post = "none" => cached[e] = None
    BY DEF PostCached
  <2>3. ASSUME cached'[e] # None, e \notin torn', \A d \in PostCalls : e \notin Post!Flushing(d)' PROVE cached'[e] = Post!View(e)'
    <3>1. cached'[e] = cached[e] /\ e \notin torn /\ e \notin Post!Flushing(c) /\ ~Marked(c, e)
      BY <2>3 DEF PostFresh, Marked
    <3>2. Post!View(e)' = Post!View(e)
      BY <2>2, <2>3, <3>1 DEF PostFresh
    <3>3. \A d \in PostCalls \ {c} : e \notin Post!Flushing(d)
      BY <2>3 DEF PostOthers, Post!Flushing
    <3>4. QED
      BY <2>3, <3>1, <3>2, <3>3 DEF PostCached, Filled
  <2>4. QED
    BY <2>1, <2>2, <2>3 DEF Filled
<1>2. ASSUME NEW d \in PostCalls PROVE Filling(d)' /\ (pc'[d] = "fill" => post' # "none")
  <2>1. CASE d = c
    BY <2>1 DEF Filling
  <2>2. CASE d # c /\ pc'[d] = "fill"
    <3>1. pc[d] = "fill" /\ call'[d] = call[d] /\ seen'[d] = seen[d]
      BY <2>2 DEF PostOthers
    <3>2. PICK e \in Post!Entries : e = call[d].on
      BY <3>1, PostReads
    <3>3. PostAwaited(c, e) /\ post # "none"
      BY <2>2, <3>1, <3>2 DEF PostAwaited, PostCached
    <3>4. ASSUME e \notin torn' PROVE seen[d] = Post!View(e)'
      <4>1. e \notin torn /\ Post!View(e)' = Post!View(e)
        BY <3>3, <3>4 DEF PostFresh
      <4>2. QED
        BY <3>1, <3>2, <4>1 DEF PostCached, Filling
    <3>5. Filling(d)'
      BY <3>1, <3>2, <3>4 DEF Filling
    <3>6. QED
      BY <3>3, <3>5
  <2>3. QED
    BY <2>1, <2>2 DEF Filling
<1>3. QED
  BY <1>1, <1>2 DEF PostCached

(* A step that changes neither rows nor lists. *)
LEMMA PostQuiet ==
  ASSUME NEW c \in PostCalls, UNCHANGED <<post, like, comment, media, cached, torn>>, PostSlots, pc[c] # "flush"
  PROVE  \A e \in Post!Entries : PostFresh(c, e)
<1>1. Post!Flushing(c) = {}
  BY DEF PostSlots, Post!Flushing
<1>2. \A e \in Post!Entries : Post!View(e)' = Post!View(e)
  BY DEF Post!View
<1>3. QED
  BY <1>1, <1>2 DEF PostFresh

(* A write that marks what it makes stale. *)
LEMMA PostMarks ==
  ASSUME NEW c \in PostCalls, PostSlots, pc[c] \notin {"flush", "fill"}, NEW es \in SUBSET Post!Entries, Post!Tears(es), UNCHANGED cached,
         NEW s, todo' = [todo EXCEPT ![c] = s], es \subseteq {s[i] : i \in DOMAIN s},
         \A e \in Post!Entries \ es : Post!View(e)' = Post!View(e)
  PROVE  \A e \in Post!Entries : PostFresh(c, e)
<1>1. Post!Flushing(c) = {}
  BY DEF PostSlots, Post!Flushing
<1>2. Post!Flushing(c)' = {s[i] : i \in DOMAIN s}
  BY DEF PostSlots, Post!Flushing
<1>3. torn \subseteq torn' /\ \A e \in es : PostAwaited(c, e) => e \in torn'
  BY DEF Post!Tears, PostAwaited
<1>4. QED
  BY <1>1, <1>2, <1>3 DEF PostFresh, Marked

(* What is cached stays current. *)
LEMMA PostCurrent ==
  ASSUME Post!PostsAssumption, PostSlots, PostAsking, PostRows, PostCached, NEW c \in PostCalls, Post!Handle(c)
  PROVE  PostCached'
<1>0. PostOthers(c) /\ PostServes(c)
  BY PostOther, PostServe
<1>1. ASSUME Post!Start(c) PROVE PostCached'
  <2>1. UNCHANGED <<post, like, comment, media, cached, torn>> /\ pc[c] # "flush" /\ pc'[c] # "fill"
    <3>1. PICK r \in PostRequests :
           /\ call' = [call EXCEPT ![c] = r] /\ pc' = [pc EXCEPT ![c] = Post!First[r.kind]] /\ pc[c] = "new"
           /\ Post!First[r.kind] \in {"insert", "own", "delete", "post", "unlike", "owner", "find", "get"}
           /\ UNCHANGED <<post, like, comment, media, tagged, count, cached, todo, seen, torn, listed, lost>>
      BY <1>1, PostBegins
    <3>2. PICK p \in {"insert", "own", "delete", "post", "unlike", "owner", "find", "get"} : p = Post!First[r.kind]
      BY <3>1
    <3>3. QED
      BY <3>1, <3>2 DEF PostSlots
  <2>2. QED
    BY <1>0, <2>1, PostQuiet, PostFreshens
<1>2. ASSUME Post!FindPost(c) PROVE PostCached'
  <2>1. UNCHANGED <<post, like, comment, media, cached, torn>> /\ pc[c] # "flush" /\ pc'[c] # "fill"
    BY <1>2 DEF Post!FindPost, Post!Proceed, Post!Answer, Post!Goto, Post!AfterPost, Post!Keeps, Post!rows, Post!history, PostSlots, PostAsking
  <2>2. QED
    BY <1>0, <2>1, PostQuiet, PostFreshens
<1>3. ASSUME Post!Insert(c) PROVE PostCached'
  <2>1. UNCHANGED <<cached, torn>> /\ pc[c] = "insert" /\ pc'[c] # "fill" /\ (post' = "live" \/ UNCHANGED post)
        /\ ((UNCHANGED <<post, like, comment, media>>) \/ post = "none")
    BY <1>3 DEF Post!Insert, Post!Answer, Post!Goto, PostSlots
  <2>2. Post!Flushing(c) = {}
    BY <2>1 DEF PostSlots, Post!Flushing
  <2>3. \A e \in Post!Entries : Post!View(e)' = Post!View(e) \/ post = "none"
    BY <2>1 DEF Post!View
  <2>4. \A e \in Post!Entries : PostFresh(c, e)
    BY <2>1, <2>2, <2>3 DEF PostFresh
  <2>5. QED
    BY <1>0, <2>1, <2>4, PostFreshens
<1>4. ASSUME Post!FindOwn(c) PROVE PostCached'
  <2>1. UNCHANGED <<post, like, comment, media, cached, torn>> /\ pc[c] # "flush" /\ pc'[c] # "fill"
    BY <1>4 DEF Post!FindOwn, Post!Proceed, Post!Answer, Post!Goto, Post!Keeps, Post!rows, Post!history, PostSlots, PostAsking
  <2>2. QED
    BY <1>0, <2>1, PostQuiet, PostFreshens
<1>5. ASSUME Post!Update(c) PROVE PostCached'
  <2>1. UNCHANGED <<post, like, comment, cached>> /\ pc[c] = "update" /\ pc'[c] # "fill" /\ torn \subseteq torn'
        /\ ("media" \in torn' \/ UNCHANGED media)
    BY <1>5 DEF Post!Update, Post!Answer, Post!Goto, PostSlots
  <2>2. Post!Flushing(c) = {}
    BY <2>1 DEF PostSlots, Post!Flushing
  <2>3. \A e \in Post!Entries : Post!View(e)' = Post!View(e) \/ e \in torn'
    BY <2>1 DEF Post!View, Post!Entries
  <2>4. \A e \in Post!Entries : PostFresh(c, e)
    BY <2>1, <2>2, <2>3 DEF PostFresh, Marked
  <2>5. QED
    BY <1>0, <2>1, <2>4, PostFreshens
<1>6. ASSUME Post!Erase(c) PROVE PostCached'
  <2>1. UNCHANGED cached /\ (post' = "gone" \/ UNCHANGED post) /\ pc[c] \notin {"flush", "fill"} /\ pc'[c] # "fill"
    BY <1>6 DEF Post!Erase, Post!Flush, Post!Answer, Post!Goto, PostSlots
  <2>2. (UNCHANGED <<post, like, comment, media, torn>>) \/ (Post!Tears(Post!Entries) /\ todo' = [todo EXCEPT ![c] = <<"media", "likes", "stats", "comments">>])
    BY <1>6 DEF Post!Erase, Post!Flush
  <2>3. CASE UNCHANGED <<post, like, comment, media, torn>>
    BY <1>0, <2>1, <2>3, PostQuiet, PostFreshens
  <2>4. CASE Post!Tears(Post!Entries) /\ todo' = [todo EXCEPT ![c] = <<"media", "likes", "stats", "comments">>]
    <3>1. PICK s : s = <<"media", "likes", "stats", "comments">>
      OBVIOUS
    <3>2. Post!Entries \in SUBSET Post!Entries /\ Post!Entries \subseteq {s[i] : i \in DOMAIN s}
      BY <3>1 DEF Post!Entries
    <3>3. \A e \in Post!Entries \ Post!Entries : Post!View(e)' = Post!View(e)
      BY <2>1 DEF Post!View, Post!Entries
    <3>0. PICK es \in SUBSET Post!Entries : es = Post!Entries
      OBVIOUS
    <3>4. \A e \in Post!Entries : PostFresh(c, e)
      <4>1. Post!Tears(es)
        BY <2>4, <3>0
      <4>2. \A e \in Post!Entries \ es : Post!View(e)' = Post!View(e)
        BY <3>0
      <4>3. es \subseteq {s[i] : i \in DOMAIN s}
        BY <3>0, <3>2
      <4>4. QED
        <5>1. todo' = [todo EXCEPT ![c] = s] /\ es \in SUBSET Post!Entries
          BY <2>4, <3>1
        <5>2. UNCHANGED cached /\ pc[c] \notin {"flush", "fill"}
          BY <2>1
        <5>3. QED
          BY <4>1, <4>2, <4>3, <5>1, <5>2, PostMarks
    <3>5. QED
      BY <1>0, <2>1, <3>4, PostFreshens
  <2>5. QED
    BY <2>2, <2>3, <2>4
<1>7. ASSUME Post!FindLike(c) PROVE PostCached'
  <2>1. UNCHANGED <<post, like, comment, media, cached, torn>> /\ pc[c] # "flush" /\ pc'[c] # "fill"
    BY <1>7 DEF Post!FindLike, Post!Goto, Post!Keeps, Post!rows, Post!history, PostSlots, PostAsking
  <2>2. QED
    BY <1>0, <2>1, PostQuiet, PostFreshens
<1>8. ASSUME Post!Like(c) PROVE PostCached'
  <2>1. UNCHANGED cached /\ UNCHANGED <<post, comment, media>> /\ pc[c] \notin {"flush", "fill"} /\ pc'[c] # "fill"
    BY <1>8 DEF Post!Like, Post!Flush, Post!Answer, Post!Goto, PostSlots
  <2>2. (UNCHANGED <<post, like, comment, media, torn>>) \/ (Post!Tears({"likes", "stats"}) /\ todo' = [todo EXCEPT ![c] = <<"likes", "stats">>])
    BY <1>8 DEF Post!Like, Post!Flush
  <2>3. CASE UNCHANGED <<post, like, comment, media, torn>>
    BY <1>0, <2>1, <2>3, PostQuiet, PostFreshens
  <2>4. CASE Post!Tears({"likes", "stats"}) /\ todo' = [todo EXCEPT ![c] = <<"likes", "stats">>]
    <3>1. PICK s : s = <<"likes", "stats">>
      OBVIOUS
    <3>2. {"likes", "stats"} \in SUBSET Post!Entries /\ {"likes", "stats"} \subseteq {s[i] : i \in DOMAIN s}
      BY <3>1 DEF Post!Entries
    <3>3. \A e \in Post!Entries \ {"likes", "stats"} : Post!View(e)' = Post!View(e)
      BY <2>1 DEF Post!View, Post!Entries
    <3>4. \A e \in Post!Entries : PostFresh(c, e)
      BY <2>1, <2>4, <3>1, <3>2, <3>3, PostMarks
    <3>5. QED
      BY <1>0, <2>1, <3>4, PostFreshens
  <2>5. QED
    BY <2>2, <2>3, <2>4
<1>9. ASSUME Post!Unlike(c) PROVE PostCached'
  <2>1. UNCHANGED cached /\ UNCHANGED <<post, comment, media>> /\ pc[c] \notin {"flush", "fill"} /\ pc'[c] # "fill"
    BY <1>9 DEF Post!Unlike, Post!Flush, Post!Answer, Post!Goto, PostSlots
  <2>2. (UNCHANGED <<post, like, comment, media, torn>>) \/ (Post!Tears({"likes", "stats"}) /\ todo' = [todo EXCEPT ![c] = <<"likes", "stats">>])
    BY <1>9 DEF Post!Unlike, Post!Flush, Post!Unliked
  <2>3. CASE UNCHANGED <<post, like, comment, media, torn>>
    BY <1>0, <2>1, <2>3, PostQuiet, PostFreshens
  <2>4. CASE Post!Tears({"likes", "stats"}) /\ todo' = [todo EXCEPT ![c] = <<"likes", "stats">>]
    <3>1. PICK s : s = <<"likes", "stats">>
      OBVIOUS
    <3>2. {"likes", "stats"} \in SUBSET Post!Entries /\ {"likes", "stats"} \subseteq {s[i] : i \in DOMAIN s}
      BY <3>1 DEF Post!Entries
    <3>3. \A e \in Post!Entries \ {"likes", "stats"} : Post!View(e)' = Post!View(e)
      BY <2>1 DEF Post!View, Post!Entries
    <3>4. \A e \in Post!Entries : PostFresh(c, e)
      BY <2>1, <2>4, <3>1, <3>2, <3>3, PostMarks
    <3>5. QED
      BY <1>0, <2>1, <3>4, PostFreshens
  <2>5. QED
    BY <2>2, <2>3, <2>4
<1>10. ASSUME Post!CheckOwner(c) PROVE PostCached'
  <2>1. UNCHANGED <<post, like, comment, media, cached, torn>> /\ pc[c] # "flush" /\ pc'[c] # "fill"
    BY <1>10 DEF Post!CheckOwner, Post!Proceed, Post!Answer, Post!Goto, Post!Keeps, Post!rows, Post!history, PostSlots, PostAsking
  <2>2. QED
    BY <1>0, <2>1, PostQuiet, PostFreshens
<1>11. ASSUME Post!FindAttached(c) PROVE PostCached'
  <2>1. UNCHANGED <<post, like, comment, media, cached, torn>> /\ pc[c] # "flush" /\ pc'[c] # "fill"
    BY <1>11 DEF Post!FindAttached, Post!Answer, Post!Goto, Post!Keeps, Post!rows, Post!history, PostSlots, PostAsking
  <2>2. QED
    BY <1>0, <2>1, PostQuiet, PostFreshens
<1>12. ASSUME Post!Attach(c) PROVE PostCached'
  <2>1. UNCHANGED <<post, like, comment, media, cached, torn>> /\ pc[c] # "flush" /\ pc'[c] # "fill"
    BY <1>12 DEF Post!Attach, Post!Insertable, Post!Proceed, Post!Answer, Post!Goto, Post!history, PostSlots, PostAsking
  <2>2. QED
    BY <1>0, <2>1, PostQuiet, PostFreshens
<1>13. ASSUME Post!CountAttached(c) PROVE PostCached'
  <2>1. UNCHANGED <<post, like, comment, media, cached, torn>> /\ pc[c] # "flush" /\ pc'[c] # "fill"
    BY <1>13 DEF Post!CountAttached, Post!Answer, Post!Goto, Post!history, PostSlots, PostAsking
  <2>2. QED
    BY <1>0, <2>1, PostQuiet, PostFreshens
<1>14. ASSUME Post!Detach(c) PROVE PostCached'
  <2>1. UNCHANGED <<post, like, comment, media, cached, torn>> /\ pc[c] # "flush" /\ pc'[c] # "fill"
    BY <1>14 DEF Post!Detach, Post!Proceed, Post!Answer, Post!Goto, Post!history, PostSlots, PostAsking
  <2>2. QED
    BY <1>0, <2>1, PostQuiet, PostFreshens
<1>15. ASSUME Post!CountDetached(c) PROVE PostCached'
  <2>1. UNCHANGED <<post, like, comment, media, cached, torn>> /\ pc[c] # "flush" /\ pc'[c] # "fill"
    BY <1>15 DEF Post!CountDetached, Post!Answer, Post!Goto, Post!history, PostSlots, PostAsking
  <2>2. QED
    BY <1>0, <2>1, PostQuiet, PostFreshens
<1>16. ASSUME Post!FindParent(c) PROVE PostCached'
  <2>1. UNCHANGED <<post, like, comment, media, cached, torn>> /\ pc[c] # "flush" /\ pc'[c] # "fill"
    BY <1>16 DEF Post!FindParent, Post!Root, Post!Answer, Post!Goto, Post!Keeps, Post!rows, Post!history, PostSlots, PostAsking
  <2>2. QED
    BY <1>0, <2>1, PostQuiet, PostFreshens
<1>17. ASSUME Post!Write(c) PROVE PostCached'
  <2>1. UNCHANGED cached /\ UNCHANGED <<post, like, media>> /\ pc[c] \notin {"flush", "fill"} /\ pc'[c] # "fill"
    BY <1>17 DEF Post!Write, Post!Flush, Post!Answer, Post!Goto, PostSlots
  <2>2. (UNCHANGED <<post, like, comment, media, torn>>) \/ (Post!Tears({"comments"}) /\ todo' = [todo EXCEPT ![c] = <<"comments">>])
    BY <1>17 DEF Post!Write, Post!Flush
  <2>3. CASE UNCHANGED <<post, like, comment, media, torn>>
    BY <1>0, <2>1, <2>3, PostQuiet, PostFreshens
  <2>4. CASE Post!Tears({"comments"}) /\ todo' = [todo EXCEPT ![c] = <<"comments">>]
    <3>1. PICK s : s = <<"comments">>
      OBVIOUS
    <3>2. {"comments"} \in SUBSET Post!Entries /\ {"comments"} \subseteq {s[i] : i \in DOMAIN s}
      BY <3>1 DEF Post!Entries
    <3>3. \A e \in Post!Entries \ {"comments"} : Post!View(e)' = Post!View(e)
      BY <2>1 DEF Post!View, Post!Entries
    <3>4. \A e \in Post!Entries : PostFresh(c, e)
      BY <2>1, <2>4, <3>1, <3>2, <3>3, PostMarks
    <3>5. QED
      BY <1>0, <2>1, <3>4, PostFreshens
  <2>5. QED
    BY <2>2, <2>3, <2>4
<1>18. ASSUME Post!FindRow(c) PROVE PostCached'
  <2>1. UNCHANGED <<post, like, comment, media, cached, torn>> /\ pc[c] # "flush" /\ pc'[c] # "fill"
    BY <1>18 DEF Post!FindRow, Post!Answer, Post!Goto, Post!Keeps, Post!rows, Post!history, PostSlots, PostAsking
  <2>2. QED
    BY <1>0, <2>1, PostQuiet, PostFreshens
<1>19. ASSUME Post!DropComment(c) PROVE PostCached'
  <2>1. UNCHANGED cached /\ UNCHANGED <<post, like, media>> /\ pc[c] \notin {"flush", "fill"} /\ pc'[c] # "fill"
    BY <1>19 DEF Post!DropComment, Post!Flush, Post!Answer, Post!Goto, PostSlots
  <2>2. (UNCHANGED <<post, like, comment, media, torn>>) \/ (Post!Tears({"comments"}) /\ todo' = [todo EXCEPT ![c] = <<"comments">>])
    BY <1>19 DEF Post!DropComment, Post!Flush
  <2>3. CASE UNCHANGED <<post, like, comment, media, torn>>
    BY <1>0, <2>1, <2>3, PostQuiet, PostFreshens
  <2>4. CASE Post!Tears({"comments"}) /\ todo' = [todo EXCEPT ![c] = <<"comments">>]
    <3>1. PICK s : s = <<"comments">>
      OBVIOUS
    <3>2. {"comments"} \in SUBSET Post!Entries /\ {"comments"} \subseteq {s[i] : i \in DOMAIN s}
      BY <3>1 DEF Post!Entries
    <3>3. \A e \in Post!Entries \ {"comments"} : Post!View(e)' = Post!View(e)
      BY <2>1 DEF Post!View, Post!Entries
    <3>4. \A e \in Post!Entries : PostFresh(c, e)
      BY <2>1, <2>4, <3>1, <3>2, <3>3, PostMarks
    <3>5. QED
      BY <1>0, <2>1, <3>4, PostFreshens
  <2>5. QED
    BY <2>2, <2>3, <2>4
<1>20. ASSUME Post!AddMedia(c) PROVE PostCached'
  <2>1. UNCHANGED cached /\ UNCHANGED <<post, like, comment>> /\ pc[c] \notin {"flush", "fill"} /\ pc'[c] # "fill"
    BY <1>20 DEF Post!AddMedia, Post!Flush, Post!Answer, Post!Goto, PostSlots
  <2>2. (UNCHANGED <<post, like, comment, media, torn>>) \/ (Post!Tears({"media"}) /\ todo' = [todo EXCEPT ![c] = <<"media">>])
    BY <1>20 DEF Post!AddMedia, Post!Flush
  <2>3. CASE UNCHANGED <<post, like, comment, media, torn>>
    BY <1>0, <2>1, <2>3, PostQuiet, PostFreshens
  <2>4. CASE Post!Tears({"media"}) /\ todo' = [todo EXCEPT ![c] = <<"media">>]
    <3>1. PICK s : s = <<"media">>
      OBVIOUS
    <3>2. {"media"} \in SUBSET Post!Entries /\ {"media"} \subseteq {s[i] : i \in DOMAIN s}
      BY <3>1 DEF Post!Entries
    <3>3. \A e \in Post!Entries \ {"media"} : Post!View(e)' = Post!View(e)
      BY <2>1 DEF Post!View, Post!Entries
    <3>4. \A e \in Post!Entries : PostFresh(c, e)
      BY <2>1, <2>4, <3>1, <3>2, <3>3, PostMarks
    <3>5. QED
      BY <1>0, <2>1, <3>4, PostFreshens
  <2>5. QED
    BY <2>2, <2>3, <2>4
<1>21. ASSUME Post!DropMedia(c) PROVE PostCached'
  <2>1. UNCHANGED cached /\ UNCHANGED <<post, like, comment>> /\ pc[c] \notin {"flush", "fill"} /\ pc'[c] # "fill"
    BY <1>21 DEF Post!DropMedia, Post!Flush, Post!Answer, Post!Goto, PostSlots
  <2>2. (UNCHANGED <<post, like, comment, media, torn>>) \/ (Post!Tears({"media"}) /\ todo' = [todo EXCEPT ![c] = <<"media">>])
    BY <1>21 DEF Post!DropMedia, Post!Flush
  <2>3. CASE UNCHANGED <<post, like, comment, media, torn>>
    BY <1>0, <2>1, <2>3, PostQuiet, PostFreshens
  <2>4. CASE Post!Tears({"media"}) /\ todo' = [todo EXCEPT ![c] = <<"media">>]
    <3>1. PICK s : s = <<"media">>
      OBVIOUS
    <3>2. {"media"} \in SUBSET Post!Entries /\ {"media"} \subseteq {s[i] : i \in DOMAIN s}
      BY <3>1 DEF Post!Entries
    <3>3. \A e \in Post!Entries \ {"media"} : Post!View(e)' = Post!View(e)
      BY <2>1 DEF Post!View, Post!Entries
    <3>4. \A e \in Post!Entries : PostFresh(c, e)
      BY <2>1, <2>4, <3>1, <3>2, <3>3, PostMarks
    <3>5. QED
      BY <1>0, <2>1, <3>4, PostFreshens
  <2>5. QED
    BY <2>2, <2>3, <2>4
<1>22. ASSUME Post!Get(c) PROVE PostCached'
  <2>1. UNCHANGED <<post, like, comment, media, cached, torn>> /\ pc[c] # "flush" /\ pc'[c] # "fill"
    BY <1>22 DEF Post!Get, Post!Answer, Post!Proceed, Post!Goto, Post!Keeps, Post!rows, Post!history, PostSlots, PostAsking
  <2>2. QED
    BY <1>0, <2>1, PostQuiet, PostFreshens
<1>23. ASSUME Post!Load(c) PROVE PostCached'
  <2>1. UNCHANGED <<post, like, comment, media, cached, torn, call>> /\ pc[c] = "load"
        /\ (pc'[c] = "fill" => post = "live" /\ seen'[c] = Post!View(call[c].on))
    BY <1>23 DEF Post!Load, Post!Answer, Post!Goto, Post!Keeps, Post!rows, Post!history, PostSlots
  <2>2. PICK e \in Post!Entries : e = call[c].on
    BY <2>1, PostReads
  <2>3. Post!View(e)' = Post!View(e)
    BY <2>1 DEF Post!View
  <2>4. pc'[c] = "fill" => post' # "none" /\ \E f \in Post!Entries : f = call'[c].on /\ seen'[c] = Post!View(f)'
    BY <2>1, <2>2, <2>3
  <2>5. \A f \in Post!Entries : PostFresh(c, f)
    BY <2>1, PostQuiet
  <2>6. QED
    BY <1>0, <2>1, <2>4, <2>5, PostFreshens
<1>24. ASSUME Post!Fill(c) PROVE PostCached'
  <2>1. PICK e \in Post!Entries : e = call[c].on
    BY <1>24, PostReads DEF Post!Fill
  <2>2. UNCHANGED <<post, like, comment, media, torn, todo, call, seen>> /\ pc[c] = "fill" /\ pc'[c] = "done"
    BY <1>24 DEF Post!Fill, Post!Answer, Post!Goto, Post!rows, Post!history, PostSlots
  <2>3. cached' = [cached EXCEPT ![e] = seen[c]]
    BY <1>24, <2>1 DEF Post!Fill
  <2>4. cached'[e] = seen[c] /\ \A f \in Post!Entries \ {e} : cached'[f] = cached[f]
    BY <2>3 DEF PostRows
  <2>5. \A f \in Post!Entries : Post!View(f)' = Post!View(f)
    BY <2>2 DEF Post!View
  <2>6. \A d \in PostCalls : Post!Flushing(d)' = Post!Flushing(d)
    BY <2>2 DEF Post!Flushing
  <2>7. e \notin torn => seen[c] = Post!View(e)
    BY <2>1, <2>2 DEF PostCached, Filling
  <2>8. post # "none"
    BY <2>2 DEF PostCached
  <2>9. ASSUME NEW f \in Post!Entries PROVE Filled(f)'
    <3>1. CASE f = e
      BY <2>2, <2>4, <2>5, <2>7, <3>1 DEF Filled
    <3>2. CASE f # e
      <4>1. Filled(f) /\ cached'[f] = cached[f]
        BY <2>4, <3>2 DEF PostCached
      <4>2. QED
        BY <2>2, <2>5, <2>6, <4>1 DEF Filled
    <3>3. QED
      BY <3>1, <3>2
  <2>10. ASSUME NEW d \in PostCalls PROVE Filling(d)' /\ (pc'[d] = "fill" => post' # "none")
    <3>1. CASE d = c
      BY <2>2, <3>1 DEF Filling
    <3>2. CASE d # c /\ pc'[d] = "fill"
      <4>1. pc[d] = "fill"
        BY <1>0, <3>2 DEF PostOthers
      <4>2. PICK f \in Post!Entries : f = call[d].on
        BY <4>1, PostReads
      <4>3. f \notin torn => seen[d] = Post!View(f)
        BY <4>1, <4>2 DEF PostCached, Filling
      <4>4. QED
        BY <2>2, <2>5, <2>8, <4>2, <4>3 DEF Filling
    <3>3. QED
      BY <2>2, <2>8, <3>1, <3>2 DEF Filling
  <2>11. QED
    BY <2>2, <2>8, <2>9, <2>10 DEF PostCached
<1>25. ASSUME Post!FlushOne(c) PROVE PostCached'
  <2>1. PICK s \in Seq(Post!Entries) : s = todo[c] /\ s # <<>>
    BY <1>25 DEF Post!FlushOne, PostSlots
  <2>2. PICK h \in Post!Entries : h = Head(s)
    BY <2>1, HeadTailProperties
  <2>3. /\ cached' = [cached EXCEPT ![h] = None] /\ torn' = Post!Cleansed(h) /\ todo' = [todo EXCEPT ![c] = Tail(s)]
        /\ UNCHANGED <<post, like, comment, media>> /\ pc[c] = "flush" /\ pc'[c] # "fill"
    BY <1>25, <2>1, <2>2 DEF Post!FlushOne, Post!Goto, Post!rows, PostSlots
  <2>4. \A e \in Post!Entries : Post!View(e)' = Post!View(e)
    BY <2>3 DEF Post!View
  <2>5. cached'[h] = None /\ \A e \in Post!Entries \ {h} : cached'[e] = cached[e]
    BY <2>3 DEF PostRows
  <2>6. \A e \in Post!Entries : (e # h \/ PostAwaited(c, e)) /\ e \in torn => e \in torn'
    BY <2>3 DEF Post!Cleansed, PostAwaited
  <2>7. ASSUME NEW e \in Post!Entries, e # h, e \in Post!Flushing(c) PROVE e \in Post!Flushing(c)'
    <3>1. PICK i \in DOMAIN s : e = s[i]
      BY <2>1, <2>7 DEF Post!Flushing
    <3>2. i \in 2 .. Len(s)
      BY <2>1, <2>2, <2>7, <3>1
    <3>3. i - 1 \in 1 .. Len(Tail(s)) /\ Tail(s)[i - 1] = s[i]
      <4>1. Len(Tail(s)) = Len(s) - 1 /\ Len(s) \in Nat /\ \A j \in 1 .. Len(Tail(s)) : Tail(s)[j] = s[j + 1]
        BY <2>1, HeadTailProperties
      <4>2. i - 1 \in 1 .. Len(Tail(s)) /\ (i - 1) + 1 = i
        BY <3>2, <4>1
      <4>3. QED
        BY <4>1, <4>2
    <3>4. i - 1 \in DOMAIN Tail(s)
      BY <2>1, <3>3, HeadTailProperties, LenProperties
    <3>5. todo'[c] = Tail(s)
      BY <2>3 DEF PostSlots
    <3>6. QED
      BY <3>1, <3>3, <3>4, <3>5 DEF Post!Flushing
  <2>8. \A e \in Post!Entries : PostFresh(c, e)
    BY <2>4, <2>5, <2>6, <2>7 DEF PostFresh, Marked
  <2>9. QED
    BY <1>0, <2>3, <2>8, PostFreshens
<1>26. ASSUME Post!Crash(c) PROVE PostCached'
  <2>1. UNCHANGED <<post, like, comment, media, cached>> /\ torn' = torn \cup Post!Flushing(c) /\ pc'[c] # "fill"
    BY <1>26 DEF Post!Crash, Post!Goto, Post!rows, PostSlots
  <2>2. \A e \in Post!Entries : Post!View(e)' = Post!View(e)
    BY <2>1 DEF Post!View
  <2>3. \A e \in Post!Entries : PostFresh(c, e)
    BY <2>1, <2>2 DEF PostFresh, Marked
  <2>4. QED
    BY <1>0, <2>1, <2>3, PostFreshens
<1>27. QED
  BY <1>1, <1>2, <1>3, <1>4, <1>5, <1>6, <1>7, <1>8, <1>9, <1>10, <1>11, <1>12, <1>13, <1>14, <1>15, <1>16, <1>17, <1>18, <1>19, <1>20, <1>21, <1>22, <1>23, <1>24, <1>25, <1>26 DEF Post!Handle

(* One request enters or leaves a set of requests. *)
LEMMA PostEnters ==
  ASSUME NEW S, NEW T, NEW c, IsFiniteSet(S), T \ {c} = S \ {c}
  PROVE  /\ IsFiniteSet(T) /\ Cardinality(S) \in Nat
         /\ (c \in S <=> c \in T) => Cardinality(T) = Cardinality(S)
         /\ c \notin S /\ c \in T => Cardinality(T) = Cardinality(S) + 1
         /\ c \in S /\ c \notin T => Cardinality(T) = Cardinality(S) - 1
<1>1. IsFiniteSet(S \cup {c}) /\ IsFiniteSet(S \ {c}) /\ Cardinality(S) \in Nat
  BY FS_AddElement, FS_RemoveElement, FS_CardinalityType
<1>2. (c \in S <=> c \in T) => T = S
  OBVIOUS
<1>3. c \notin S /\ c \in T => T = S \cup {c} /\ Cardinality(S \cup {c}) = Cardinality(S) + 1
  BY FS_AddElement
<1>4. c \in S /\ c \notin T => T = S \ {c} /\ Cardinality(S \ {c}) = Cardinality(S) - 1
  BY FS_RemoveElement
<1>5. IsFiniteSet(T)
  BY <1>1, <1>2, <1>3, <1>4
<1>6. QED
  BY <1>1, <1>2, <1>3, <1>4, <1>5

(* How a step of one request moves the tally of a hashtag. *)
PostMoves(c, t) ==
  \/ /\ c \in Uncounted(t)' <=> c \in Uncounted(t)
     /\ c \in Overcounted(t)' <=> c \in Overcounted(t)
     /\ count'[t] = count[t] /\ (t \in tagged' <=> t \in tagged)
  \/ /\ c \notin Uncounted(t) /\ c \in Uncounted(t)' /\ c \notin Overcounted(t) /\ c \notin Overcounted(t)'
     /\ count'[t] = count[t] /\ t \notin tagged /\ t \in tagged'
  \/ /\ c \in Uncounted(t) /\ c \notin Uncounted(t)' /\ c \notin Overcounted(t) /\ c \notin Overcounted(t)'
     /\ count'[t] = count[t] + 1 /\ (t \in tagged' <=> t \in tagged)
  \/ /\ c \notin Uncounted(t) /\ c \notin Uncounted(t)' /\ c \notin Overcounted(t) /\ c \in Overcounted(t)'
     /\ count'[t] = count[t] /\ t \in tagged /\ t \notin tagged'
  \/ /\ c \notin Uncounted(t) /\ c \notin Uncounted(t)' /\ c \in Overcounted(t) /\ c \notin Overcounted(t)'
     /\ count'[t] = count[t] - 1 /\ (t \in tagged' <=> t \in tagged)

(* The tally of a hashtag is right after such a move. *)
LEMMA PostTally ==
  ASSUME NEW c \in PostCalls, PostOthers(c), NEW t \in Tags, count[t] \in Int, Tallied(t), PostMoves(c, t)
  PROVE  Tallied(t)'
<1>1. Uncounted(t)' \ {c} = Uncounted(t) \ {c} /\ Overcounted(t)' \ {c} = Overcounted(t) \ {c}
  BY DEF PostOthers, Uncounted, Overcounted
<1>2. PICK U : U = Uncounted(t)
  OBVIOUS
<1>3. PICK V : V = Uncounted(t)'
  OBVIOUS
<1>4. PICK O : O = Overcounted(t)
  OBVIOUS
<1>5. PICK P : P = Overcounted(t)'
  OBVIOUS
<1>6. IsFiniteSet(U) /\ IsFiniteSet(O) /\ V \ {c} = U \ {c} /\ P \ {c} = O \ {c}
  BY <1>1, <1>2, <1>3, <1>4, <1>5 DEF Tallied
<1>7. /\ IsFiniteSet(V) /\ Cardinality(U) \in Nat
      /\ (c \in U <=> c \in V) => Cardinality(V) = Cardinality(U)
      /\ c \notin U /\ c \in V => Cardinality(V) = Cardinality(U) + 1
      /\ c \in U /\ c \notin V => Cardinality(V) = Cardinality(U) - 1
  BY <1>6, PostEnters
<1>8. /\ IsFiniteSet(P) /\ Cardinality(O) \in Nat
      /\ (c \in O <=> c \in P) => Cardinality(P) = Cardinality(O)
      /\ c \notin O /\ c \in P => Cardinality(P) = Cardinality(O) + 1
      /\ c \in O /\ c \notin P => Cardinality(P) = Cardinality(O) - 1
  BY <1>6, PostEnters
<1>9. PICK k \in Nat : k = Cardinality(U)
  BY <1>7
<1>10. PICK l \in Nat : l = Cardinality(O)
  BY <1>8
<1>11. PICK x : x = IF t \in tagged THEN 1 ELSE 0
  OBVIOUS
<1>12. PICK y : y = IF t \in tagged' THEN 1 ELSE 0
  OBVIOUS
<1>13. count[t] + k = x + l /\ x \in {0, 1} /\ y \in {0, 1}
  BY <1>2, <1>4, <1>9, <1>10, <1>11, <1>12 DEF Tallied
<1>14. count'[t] + Cardinality(V) = y + Cardinality(P)
  <2>1. \/ Cardinality(V) = k /\ Cardinality(P) = l /\ count'[t] = count[t] /\ y = x
        \/ Cardinality(V) = k + 1 /\ Cardinality(P) = l /\ count'[t] = count[t] /\ x = 0 /\ y = 1
        \/ Cardinality(V) = k - 1 /\ Cardinality(P) = l /\ count'[t] = count[t] + 1 /\ y = x
        \/ Cardinality(V) = k /\ Cardinality(P) = l + 1 /\ count'[t] = count[t] /\ x = 1 /\ y = 0
        \/ Cardinality(V) = k /\ Cardinality(P) = l - 1 /\ count'[t] = count[t] - 1 /\ y = x
    <3>1. \/ (c \in V <=> c \in U) /\ (c \in P <=> c \in O) /\ count'[t] = count[t] /\ y = x
          \/ c \notin U /\ c \in V /\ c \notin O /\ c \notin P /\ count'[t] = count[t] /\ x = 0 /\ y = 1
          \/ c \in U /\ c \notin V /\ c \notin O /\ c \notin P /\ count'[t] = count[t] + 1 /\ y = x
          \/ c \notin U /\ c \notin V /\ c \notin O /\ c \in P /\ count'[t] = count[t] /\ x = 1 /\ y = 0
          \/ c \notin U /\ c \notin V /\ c \in O /\ c \notin P /\ count'[t] = count[t] - 1 /\ y = x
      BY <1>2, <1>3, <1>4, <1>5, <1>11, <1>12, Zenon DEF PostMoves
    <3>2. QED
      BY <1>7, <1>8, <1>9, <1>10, <3>1, Zenon
  <2>2. QED
    BY <1>13, <2>1
<1>15. QED
  BY <1>3, <1>5, <1>7, <1>8, <1>12, <1>14, Zenon DEF Tallied

(* A step moves the tally of a hashtag in one of these ways. *)
LEMMA PostMoving ==
  ASSUME Post!PostsAssumption, PostSlots, PostAsking, PostRows, NEW t \in Tags \ (listed' \cup lost'), NEW c \in PostCalls, Post!Handle(c)
  PROVE  PostMoves(c, t)
<1>1. ASSUME Post!Start(c) PROVE PostMoves(c, t)
  <2>1. PICK r \in PostRequests :
           /\ call' = [call EXCEPT ![c] = r] /\ pc' = [pc EXCEPT ![c] = Post!First[r.kind]] /\ pc[c] = "new"
           /\ Post!First[r.kind] \in {"insert", "own", "delete", "post", "unlike", "owner", "find", "get"}
           /\ UNCHANGED <<post, like, comment, media, tagged, count, cached, todo, seen, torn, listed, lost>>
    BY <1>1, PostBegins
  <2>2. PICK p \in {"insert", "own", "delete", "post", "unlike", "owner", "find", "get"} : p = Post!First[r.kind]
    BY <2>1
  <2>3. pc'[c] \notin {"count", "uncount"}
    BY <2>1, <2>2 DEF PostSlots
  <2>4. QED
    BY <2>1, <2>3 DEF PostMoves, Uncounted, Overcounted
<1>2. ASSUME Post!FindPost(c) PROVE PostMoves(c, t)
  <2>1. UNCHANGED <<count, tagged, listed, lost>> /\ pc[c] = "post" /\ call[c].kind \in {"like", "comment", "addmedia"}
        /\ (pc'[c] = Post!AfterPost[call[c].kind] \/ pc'[c] = "done")
    BY <1>2 DEF Post!FindPost, Post!Proceed, Post!Answer, Post!Goto, Post!Keeps, Post!rows, Post!history, PostSlots, PostAsking
  <2>2. Post!AfterPost[call[c].kind] \in {"mine", "parent", "add"}
    BY <2>1 DEF Post!AfterPost
  <2>3. pc'[c] \notin {"count", "uncount"}
    BY <2>1, <2>2
  <2>4. QED
    BY <2>1, <2>3 DEF PostMoves, Uncounted, Overcounted
<1>3. ASSUME Post!Insert(c) PROVE PostMoves(c, t)
  <2>1. UNCHANGED count /\ pc[c] \notin {"count", "uncount"} /\ pc'[c] \notin {"count", "uncount"}
    BY <1>3 DEF Post!Insert, Post!Answer, Post!Goto, PostSlots
  <2>2. UNCHANGED tagged \/ (post = "none" /\ tagged = {} /\ tagged' = call[c].tags /\ listed' = listed \cup call[c].tags)
    BY <1>3 DEF Post!Insert, PostRows
  <2>3. t \in tagged' <=> t \in tagged
    BY <2>2
  <2>4. QED
    BY <2>1, <2>3 DEF PostMoves, Uncounted, Overcounted
<1>4. ASSUME Post!FindOwn(c) PROVE PostMoves(c, t)
  <2>1. UNCHANGED <<count, tagged, listed, lost>> /\ pc[c] \notin {"count", "uncount"} /\ pc'[c] \notin {"count", "uncount"}
    BY <1>4 DEF Post!FindOwn, Post!Proceed, Post!Answer, Post!Goto, Post!Keeps, Post!rows, Post!history, PostSlots, PostAsking
  <2>2. QED
    BY <2>1 DEF PostMoves, Uncounted, Overcounted
<1>5. ASSUME Post!Update(c) PROVE PostMoves(c, t)
  <2>1. UNCHANGED count /\ pc[c] \notin {"count", "uncount"} /\ pc'[c] \notin {"count", "uncount"}
    BY <1>5 DEF Post!Update, Post!Answer, Post!Goto, PostSlots
  <2>2. UNCHANGED tagged \/ (tagged' = call[c].tags /\ listed' = listed \cup tagged \cup call[c].tags)
    BY <1>5 DEF Post!Update, PostRows
  <2>3. t \in tagged' <=> t \in tagged
    BY <2>2
  <2>4. QED
    BY <2>1, <2>3 DEF PostMoves, Uncounted, Overcounted
<1>6. ASSUME Post!Erase(c) PROVE PostMoves(c, t)
  <2>1. UNCHANGED count /\ pc[c] \notin {"count", "uncount"} /\ pc'[c] \notin {"count", "uncount"}
    BY <1>6 DEF Post!Erase, Post!Flush, Post!Answer, Post!Goto, Post!Tears, PostSlots
  <2>2. UNCHANGED tagged \/ (tagged' = {} /\ listed' = listed \cup tagged)
    BY <1>6 DEF Post!Erase, PostRows
  <2>3. t \in tagged' <=> t \in tagged
    BY <2>2
  <2>4. QED
    BY <2>1, <2>3 DEF PostMoves, Uncounted, Overcounted
<1>7. ASSUME Post!FindLike(c) PROVE PostMoves(c, t)
  <2>1. UNCHANGED <<count, tagged, listed, lost>> /\ pc[c] \notin {"count", "uncount"} /\ pc'[c] \notin {"count", "uncount"}
    BY <1>7 DEF Post!FindLike, Post!Goto, Post!Keeps, Post!rows, Post!history, PostSlots, PostAsking
  <2>2. QED
    BY <2>1 DEF PostMoves, Uncounted, Overcounted
<1>8. ASSUME Post!Like(c) PROVE PostMoves(c, t)
  <2>1. UNCHANGED <<count, tagged, listed, lost>> /\ pc[c] \notin {"count", "uncount"} /\ pc'[c] \notin {"count", "uncount"}
    BY <1>8 DEF Post!Like, Post!Writes, Post!Liked, Post!Tears, Post!Flush, Post!Answer, Post!Goto, PostSlots, PostAsking
  <2>2. QED
    BY <2>1 DEF PostMoves, Uncounted, Overcounted
<1>9. ASSUME Post!Unlike(c) PROVE PostMoves(c, t)
  <2>1. UNCHANGED <<count, tagged, listed, lost>> /\ pc[c] \notin {"count", "uncount"} /\ pc'[c] \notin {"count", "uncount"}
    BY <1>9 DEF Post!Unlike, Post!Unliked, Post!Tears, Post!Flush, Post!Answer, Post!Goto, PostSlots, PostAsking
  <2>2. QED
    BY <2>1 DEF PostMoves, Uncounted, Overcounted
<1>10. ASSUME Post!CheckOwner(c) PROVE PostMoves(c, t)
  <2>1. UNCHANGED <<count, tagged, listed, lost>> /\ pc[c] \notin {"count", "uncount"} /\ pc'[c] \notin {"count", "uncount"}
    BY <1>10 DEF Post!CheckOwner, Post!Proceed, Post!Answer, Post!Goto, Post!Keeps, Post!rows, Post!history, PostSlots, PostAsking
  <2>2. QED
    BY <2>1 DEF PostMoves, Uncounted, Overcounted
<1>11. ASSUME Post!FindAttached(c) PROVE PostMoves(c, t)
  <2>1. UNCHANGED <<count, tagged, listed, lost>> /\ pc[c] \notin {"count", "uncount"} /\ pc'[c] \notin {"count", "uncount"}
    BY <1>11 DEF Post!FindAttached, Post!Answer, Post!Goto, Post!Keeps, Post!rows, Post!history, PostSlots, PostAsking
  <2>2. QED
    BY <2>1 DEF PostMoves, Uncounted, Overcounted
<1>12. ASSUME Post!Attach(c) PROVE PostMoves(c, t)
  <2>1. UNCHANGED <<count, seen>> /\ pc[c] = "attach"
        /\ \/ pc'[c] = "done" /\ UNCHANGED tagged
           \/ pc'[c] = "count" /\ tagged' = tagged \cup seen[c] /\ seen[c] \cap tagged = {}
    BY <1>12 DEF Post!Attach, Post!Insertable, Post!Proceed, Post!Answer, Post!Goto, PostSlots
  <2>2. QED
    BY <2>1 DEF PostMoves, Uncounted, Overcounted
<1>13. ASSUME Post!CountAttached(c) PROVE PostMoves(c, t)
  <2>1. UNCHANGED tagged /\ pc[c] = "count" /\ pc'[c] = "done" /\ count'[t] = (IF t \in seen[c] THEN count[t] + 1 ELSE count[t])
    BY <1>13 DEF Post!CountAttached, Post!Answer, Post!Goto, PostSlots
  <2>2. QED
    BY <2>1 DEF PostMoves, Uncounted, Overcounted
<1>14. ASSUME Post!Detach(c) PROVE PostMoves(c, t)
  <2>1. UNCHANGED <<count, call>> /\ pc[c] = "detach"
        /\ \/ pc'[c] = "done" /\ UNCHANGED tagged
           \/ pc'[c] = "uncount" /\ tagged' = tagged \ call[c].tags /\ call[c].tags \subseteq tagged
    BY <1>14 DEF Post!Detach, Post!Proceed, Post!Answer, Post!Goto, PostSlots
  <2>2. QED
    BY <2>1 DEF PostMoves, Uncounted, Overcounted
<1>15. ASSUME Post!CountDetached(c) PROVE PostMoves(c, t)
  <2>1. UNCHANGED tagged /\ pc[c] = "uncount" /\ pc'[c] = "done" /\ count'[t] = (IF t \in call[c].tags THEN count[t] - 1 ELSE count[t])
    BY <1>15 DEF Post!CountDetached, Post!Answer, Post!Goto, PostSlots
  <2>2. QED
    BY <2>1 DEF PostMoves, Uncounted, Overcounted
<1>16. ASSUME Post!FindParent(c) PROVE PostMoves(c, t)
  <2>1. UNCHANGED <<count, tagged, listed, lost>> /\ pc[c] \notin {"count", "uncount"} /\ pc'[c] \notin {"count", "uncount"}
    BY <1>16 DEF Post!FindParent, Post!Root, Post!Answer, Post!Goto, Post!Keeps, Post!rows, Post!history, PostSlots, PostAsking
  <2>2. QED
    BY <2>1 DEF PostMoves, Uncounted, Overcounted
<1>17. ASSUME Post!Write(c) PROVE PostMoves(c, t)
  <2>1. UNCHANGED <<count, tagged, listed, lost>> /\ pc[c] \notin {"count", "uncount"} /\ pc'[c] \notin {"count", "uncount"}
    BY <1>17 DEF Post!Write, Post!Tears, Post!Flush, Post!Answer, Post!Goto, PostSlots, PostAsking
  <2>2. QED
    BY <2>1 DEF PostMoves, Uncounted, Overcounted
<1>18. ASSUME Post!FindRow(c) PROVE PostMoves(c, t)
  <2>1. UNCHANGED <<count, tagged, listed, lost>> /\ pc[c] \notin {"count", "uncount"} /\ pc'[c] \notin {"count", "uncount"}
    BY <1>18 DEF Post!FindRow, Post!Answer, Post!Goto, Post!Keeps, Post!rows, Post!history, PostSlots, PostAsking
  <2>2. QED
    BY <2>1 DEF PostMoves, Uncounted, Overcounted
<1>19. ASSUME Post!DropComment(c) PROVE PostMoves(c, t)
  <2>1. UNCHANGED <<count, tagged, listed, lost>> /\ pc[c] \notin {"count", "uncount"} /\ pc'[c] \notin {"count", "uncount"}
    BY <1>19 DEF Post!DropComment, Post!Tears, Post!Flush, Post!Answer, Post!Goto, PostSlots, PostAsking
  <2>2. QED
    BY <2>1 DEF PostMoves, Uncounted, Overcounted
<1>20. ASSUME Post!AddMedia(c) PROVE PostMoves(c, t)
  <2>1. UNCHANGED <<count, tagged, listed, lost>> /\ pc[c] \notin {"count", "uncount"} /\ pc'[c] \notin {"count", "uncount"}
    BY <1>20 DEF Post!AddMedia, Post!Tears, Post!Flush, Post!Answer, Post!Goto, PostSlots, PostAsking
  <2>2. QED
    BY <2>1 DEF PostMoves, Uncounted, Overcounted
<1>21. ASSUME Post!DropMedia(c) PROVE PostMoves(c, t)
  <2>1. UNCHANGED <<count, tagged, listed, lost>> /\ pc[c] \notin {"count", "uncount"} /\ pc'[c] \notin {"count", "uncount"}
    BY <1>21 DEF Post!DropMedia, Post!Tears, Post!Flush, Post!Answer, Post!Goto, PostSlots, PostAsking
  <2>2. QED
    BY <2>1 DEF PostMoves, Uncounted, Overcounted
<1>22. ASSUME Post!Get(c) PROVE PostMoves(c, t)
  <2>1. UNCHANGED <<count, tagged, listed, lost>> /\ pc[c] \notin {"count", "uncount"} /\ pc'[c] \notin {"count", "uncount"}
    BY <1>22 DEF Post!Get, Post!Answer, Post!Proceed, Post!Goto, Post!Keeps, Post!rows, Post!history, PostSlots, PostAsking
  <2>2. QED
    BY <2>1 DEF PostMoves, Uncounted, Overcounted
<1>23. ASSUME Post!Load(c) PROVE PostMoves(c, t)
  <2>1. UNCHANGED <<count, tagged, listed, lost>> /\ pc[c] \notin {"count", "uncount"} /\ pc'[c] \notin {"count", "uncount"}
    BY <1>23 DEF Post!Load, Post!View, Post!Answer, Post!Goto, Post!Keeps, Post!rows, Post!history, PostSlots, PostAsking
  <2>2. QED
    BY <2>1 DEF PostMoves, Uncounted, Overcounted
<1>24. ASSUME Post!Fill(c) PROVE PostMoves(c, t)
  <2>1. UNCHANGED <<count, tagged, listed, lost>> /\ pc[c] \notin {"count", "uncount"} /\ pc'[c] \notin {"count", "uncount"}
    BY <1>24 DEF Post!Fill, Post!Answer, Post!Goto, Post!rows, Post!history, PostSlots, PostAsking
  <2>2. QED
    BY <2>1 DEF PostMoves, Uncounted, Overcounted
<1>25. ASSUME Post!FlushOne(c) PROVE PostMoves(c, t)
  <2>1. UNCHANGED <<count, tagged>> /\ pc[c] = "flush" /\ pc'[c] \in {"done", "flush"}
    BY <1>25 DEF Post!FlushOne, Post!Goto, Post!rows, PostSlots
  <2>2. QED
    BY <2>1 DEF PostMoves, Uncounted, Overcounted
<1>26. ASSUME Post!Crash(c) PROVE PostMoves(c, t)
  <2>1. UNCHANGED <<count, tagged>> /\ pc'[c] = "done" /\ (pc[c] # "flush" => lost' = lost \cup call[c].tags)
    BY <1>26 DEF Post!Crash, Post!Goto, Post!rows, PostSlots
  <2>2. pc[c] = "count" => seen[c] \subseteq call[c].tags
    BY DEF PostAsking
  <2>3. c \notin Uncounted(t) /\ c \notin Overcounted(t)
    BY <2>1, <2>2 DEF Uncounted, Overcounted
  <2>4. QED
    BY <2>1, <2>3 DEF PostMoves, Uncounted, Overcounted
<1>27. QED
  BY <1>1, <1>2, <1>3, <1>4, <1>5, <1>6, <1>7, <1>8, <1>9, <1>10, <1>11, <1>12, <1>13, <1>14, <1>15, <1>16, <1>17, <1>18, <1>19, <1>20, <1>21, <1>22, <1>23, <1>24, <1>25, <1>26 DEF Post!Handle

(* The hashtags set apart are never taken back. *)
LEMMA PostGrows ==
  ASSUME Post!PostsAssumption, PostSlots, NEW c \in PostCalls, Post!Handle(c)
  PROVE  listed \subseteq listed' /\ lost \subseteq lost'
<1>1. ASSUME Post!Start(c) PROVE listed \subseteq listed' /\ lost \subseteq lost'
  BY <1>1, PostBegins
<1>2. ASSUME Post!FindPost(c) PROVE listed \subseteq listed' /\ lost \subseteq lost'
  BY <1>2 DEF Post!FindPost, Post!Keeps, Post!history
<1>3. ASSUME Post!Insert(c) PROVE listed \subseteq listed' /\ lost \subseteq lost'
  BY <1>3 DEF Post!Insert, Post!Keeps, Post!history
<1>4. ASSUME Post!FindOwn(c) PROVE listed \subseteq listed' /\ lost \subseteq lost'
  BY <1>4 DEF Post!FindOwn, Post!Keeps, Post!history
<1>5. ASSUME Post!Update(c) PROVE listed \subseteq listed' /\ lost \subseteq lost'
  BY <1>5 DEF Post!Update, Post!Keeps, Post!history
<1>6. ASSUME Post!Erase(c) PROVE listed \subseteq listed' /\ lost \subseteq lost'
  BY <1>6 DEF Post!Erase, Post!Keeps, Post!history
<1>7. ASSUME Post!FindLike(c) PROVE listed \subseteq listed' /\ lost \subseteq lost'
  BY <1>7 DEF Post!FindLike, Post!Keeps, Post!history
<1>8. ASSUME Post!Like(c) PROVE listed \subseteq listed' /\ lost \subseteq lost'
  BY <1>8 DEF Post!Like, Post!Keeps, Post!history
<1>9. ASSUME Post!Unlike(c) PROVE listed \subseteq listed' /\ lost \subseteq lost'
  BY <1>9 DEF Post!Unlike, Post!Keeps, Post!history
<1>10. ASSUME Post!CheckOwner(c) PROVE listed \subseteq listed' /\ lost \subseteq lost'
  BY <1>10 DEF Post!CheckOwner, Post!Keeps, Post!history
<1>11. ASSUME Post!FindAttached(c) PROVE listed \subseteq listed' /\ lost \subseteq lost'
  BY <1>11 DEF Post!FindAttached, Post!Keeps, Post!history
<1>12. ASSUME Post!Attach(c) PROVE listed \subseteq listed' /\ lost \subseteq lost'
  BY <1>12 DEF Post!Attach, Post!Keeps, Post!history
<1>13. ASSUME Post!CountAttached(c) PROVE listed \subseteq listed' /\ lost \subseteq lost'
  BY <1>13 DEF Post!CountAttached, Post!Keeps, Post!history
<1>14. ASSUME Post!Detach(c) PROVE listed \subseteq listed' /\ lost \subseteq lost'
  BY <1>14 DEF Post!Detach, Post!Keeps, Post!history
<1>15. ASSUME Post!CountDetached(c) PROVE listed \subseteq listed' /\ lost \subseteq lost'
  BY <1>15 DEF Post!CountDetached, Post!Keeps, Post!history
<1>16. ASSUME Post!FindParent(c) PROVE listed \subseteq listed' /\ lost \subseteq lost'
  BY <1>16 DEF Post!FindParent, Post!Keeps, Post!history
<1>17. ASSUME Post!Write(c) PROVE listed \subseteq listed' /\ lost \subseteq lost'
  BY <1>17 DEF Post!Write, Post!Keeps, Post!history
<1>18. ASSUME Post!FindRow(c) PROVE listed \subseteq listed' /\ lost \subseteq lost'
  BY <1>18 DEF Post!FindRow, Post!Keeps, Post!history
<1>19. ASSUME Post!DropComment(c) PROVE listed \subseteq listed' /\ lost \subseteq lost'
  BY <1>19 DEF Post!DropComment, Post!Keeps, Post!history
<1>20. ASSUME Post!AddMedia(c) PROVE listed \subseteq listed' /\ lost \subseteq lost'
  BY <1>20 DEF Post!AddMedia, Post!Keeps, Post!history
<1>21. ASSUME Post!DropMedia(c) PROVE listed \subseteq listed' /\ lost \subseteq lost'
  BY <1>21 DEF Post!DropMedia, Post!Keeps, Post!history
<1>22. ASSUME Post!Get(c) PROVE listed \subseteq listed' /\ lost \subseteq lost'
  BY <1>22 DEF Post!Get, Post!Keeps, Post!history
<1>23. ASSUME Post!Load(c) PROVE listed \subseteq listed' /\ lost \subseteq lost'
  BY <1>23 DEF Post!Load, Post!Keeps, Post!history
<1>24. ASSUME Post!Fill(c) PROVE listed \subseteq listed' /\ lost \subseteq lost'
  BY <1>24 DEF Post!Fill, Post!Keeps, Post!history
<1>25. ASSUME Post!FlushOne(c) PROVE listed \subseteq listed' /\ lost \subseteq lost'
  BY <1>25 DEF Post!FlushOne, Post!Keeps, Post!history
<1>26. ASSUME Post!Crash(c) PROVE listed \subseteq listed' /\ lost \subseteq lost'
  BY <1>26 DEF Post!Crash, Post!Keeps, Post!history
<1>27. QED
  BY <1>1, <1>2, <1>3, <1>4, <1>5, <1>6, <1>7, <1>8, <1>9, <1>10, <1>11, <1>12, <1>13, <1>14, <1>15, <1>16, <1>17, <1>18, <1>19, <1>20, <1>21, <1>22, <1>23, <1>24, <1>25, <1>26 DEF Post!Handle

(* The tallies stay right. *)
LEMMA PostTallying ==
  ASSUME Post!PostsAssumption, PostSlots, PostAsking, PostRows, PostTallied, NEW c \in PostCalls, Post!Handle(c)
  PROVE  PostTallied'
<1>1. ASSUME NEW t \in Tags \ (listed' \cup lost') PROVE Tallied(t)'
  <2>1. Tallied(t)
    BY PostGrows DEF PostTallied
  <2>2. PostMoves(c, t) /\ PostOthers(c) /\ count[t] \in Int
    BY PostMoving, PostOther DEF PostRows
  <2>3. QED
    BY <2>1, <2>2, PostTally
<1>2. QED
  BY <1>1 DEF PostTallied

(* An entry expires. *)
LEMMA PostExpires ==
  ASSUME Post!PostsAssumption, PostInv, NEW h \in Post!Entries, Post!Expire(h)
  PROVE  PostInv'
<1>1. /\ cached' = [cached EXCEPT ![h] = None] /\ torn' = Post!Cleansed(h)
      /\ UNCHANGED <<post, like, comment, media, tagged, count, call, pc, todo, seen, listed, lost>>
  BY DEF Post!Expire, Post!rows
<1>2. PostSlots' /\ PostAsking' /\ PostThreads'
  BY <1>1 DEF PostInv, PostSlots, PostAsking, PostThreads, IsRoot
<1>3. /\ cached' = [e \in Post!Entries |-> cached'[e]] /\ cached'[h] = None
      /\ \A e \in Post!Entries \ {h} : cached'[e] = cached[e]
  BY <1>1 DEF PostInv, PostRows
<1>4. torn' \subseteq torn /\ \A e \in torn : e \notin torn' => e = h /\ \A d \in PostCalls : ~(pc[d] = "fill" /\ call[d].on = e)
  BY <1>1 DEF Post!Cleansed
<1>5. PostRows'
  BY <1>1, <1>3, <1>4 DEF PostInv, PostRows
<1>6. PostTallied'
  BY <1>1 DEF PostInv, PostTallied, Tallied, Uncounted, Overcounted
<1>7. ASSUME NEW e \in Post!Entries PROVE Filled(e)' /\ (post' = "none" => cached'[e] = None)
  <2>1. Post!View(e)' = Post!View(e) /\ \A d \in PostCalls : Post!Flushing(d)' = Post!Flushing(d)
    BY <1>1 DEF Post!View, Post!Flushing
  <2>2. CASE e = h
    BY <1>3, <2>2 DEF Filled
  <2>3. CASE e # h
    <3>1. Filled(e) /\ (post = "none" => cached[e] = None) /\ cached'[e] = cached[e] /\ (e \in torn => e \in torn')
      BY <1>3, <1>4, <2>3 DEF PostInv, PostCached
    <3>2. QED
      BY <1>1, <2>1, <3>1 DEF Filled
  <2>4. QED
    BY <2>2, <2>3
<1>8. ASSUME NEW d \in PostCalls PROVE Filling(d)' /\ (pc'[d] = "fill" => post' # "none")
  <2>1. CASE pc[d] = "fill"
    <3>1. PICK e \in Post!Entries : e = call[d].on
      BY <2>1, PostReads DEF PostInv
    <3>2. (e \in torn => e \in torn') /\ (e \notin torn => seen[d] = Post!View(e)) /\ post # "none"
      BY <1>4, <2>1, <3>1 DEF PostInv, PostCached, Filling
    <3>3. Post!View(e)' = Post!View(e)
      BY <1>1 DEF Post!View
    <3>4. QED
      BY <1>1, <3>1, <3>2, <3>3 DEF Filling
  <2>2. CASE pc[d] # "fill"
    BY <1>1, <2>2 DEF Filling
  <2>3. QED
    BY <2>1, <2>2
<1>9. PostCached'
  BY <1>7, <1>8 DEF PostCached
<1>10. QED
  BY <1>2, <1>5, <1>6, <1>9 DEF PostInv

(* Every step keeps the invariant. *)
LEMMA PostStep ==
  ASSUME Post!PostsAssumption, PostInv, Post!Next
  PROVE  PostInv'
<1>1. ASSUME NEW c \in PostCalls, Post!Handle(c) PROVE PostInv'
  <2>1. PostSlots /\ PostAsking /\ PostRows /\ PostThreads /\ PostCached /\ PostTallied
    BY DEF PostInv
  <2>2. PostSlots' /\ PostAsking' /\ PostRows'
    BY <1>1, <2>1, PostSlot, PostAsks, PostRowed
  <2>3. PostThreads' /\ PostCached' /\ PostTallied'
    BY <1>1, <2>1, PostThreaded, PostCurrent, PostTallying
  <2>4. QED
    BY <2>2, <2>3 DEF PostInv
<1>2. QED
  BY <1>1, PostExpires DEF Post!Next

(* A step that changes nothing. *)
LEMMA PostStill ==
  ASSUME PostInv, UNCHANGED <<post, like, comment, media, tagged, count, cached, call, pc, todo, seen, torn, listed, lost>>
  PROVE  PostInv'
<1>1. PostSlots' /\ PostAsking' /\ PostRows'
  BY DEF PostInv, PostSlots, PostAsking, PostRows
<1>2. PostThreads'
  BY DEF PostInv, PostThreads, IsRoot
<1>3. PostTallied'
  BY DEF PostInv, PostTallied, Tallied, Uncounted, Overcounted
<1>4. PostCached'
  <2>1. ASSUME NEW e \in Post!Entries PROVE Filled(e)' /\ (post' = "none" => cached'[e] = None)
    <3>1. Post!View(e)' = Post!View(e) /\ \A d \in PostCalls : Post!Flushing(d)' = Post!Flushing(d)
      BY DEF Post!View, Post!Flushing
    <3>2. QED
      BY <3>1 DEF PostInv, PostCached, Filled
  <2>2. ASSUME NEW c \in PostCalls PROVE Filling(c)' /\ (pc'[c] = "fill" => post' # "none")
    <3>1. Post!View(call[c].on)' = Post!View(call[c].on)
      BY DEF Post!View
    <3>2. QED
      BY <3>1 DEF PostInv, PostCached, Filling
  <2>3. QED
    BY <2>1, <2>2 DEF PostCached
<1>5. QED
  BY <1>1, <1>2, <1>3, <1>4 DEF PostInv

(* The invariant holds before the first request. *)
LEMMA PostInit ==
  ASSUME Post!PostsAssumption, Post!Init
  PROVE  PostInv
<1>1. PostSlots /\ PostAsking
  <2>1. <<>> \in Seq(Post!Entries)
    OBVIOUS
  <2>2. QED
    BY <2>1 DEF Post!Init, PostSlots, PostAsking, Post!Labels
<1>2. PostRows
  BY DEF Post!Init, PostRows
<1>3. PostThreads
  BY DEF Post!Init, PostThreads
<1>4. PostCached
  BY DEF Post!Init, PostCached, Filled, Filling
<1>5. ASSUME NEW t \in Tags PROVE Tallied(t)
  <2>1. Uncounted(t) = {} /\ Overcounted(t) = {} /\ count[t] = 0 /\ t \notin tagged
    BY DEF Post!Init, Uncounted, Overcounted
  <2>2. QED
    BY <2>1, FS_EmptySet DEF Tallied
<1>6. QED
  BY <1>1, <1>2, <1>3, <1>4, <1>5 DEF PostInv, PostTallied

(* The properties of posts follow from the invariant. *)
LEMMA PostHolds ==
  ASSUME PostInv
  PROVE  Post!TypeOK /\ Post!PostListsCurrent /\ Post!TagsCounted
<1>1. Post!TypeOK
  <2>1. \A d \in PostCalls : comment[d] # None =>
          /\ post = "live" /\ comment[d].by \in Users
          /\ comment[d].parent # None => comment[comment[d].parent] # None /\ comment[comment[d].parent].parent = None
    BY DEF PostInv, PostThreads, IsRoot
  <2>2. \A u \in Users : like[u] # None => like[u] \in [id: PostCalls, on: Post!Reactions] /\ post = "live"
    BY DEF PostInv, PostRows, PostLike
  <2>3. QED
    BY <2>1, <2>2 DEF PostInv, PostRows, PostSlots, Post!TypeOK
<1>2. Post!PostListsCurrent
  BY DEF PostInv, PostCached, Filled, Post!PostListsCurrent
<1>3. Post!TagsCounted
  <2>1. ASSUME NEW t \in Tags \ (listed \cup lost), \A c \in PostCalls : pc[c] \notin {"count", "uncount"}
        PROVE  count[t] = (IF t \in tagged THEN 1 ELSE 0)
    <3>1. Uncounted(t) = {} /\ Overcounted(t) = {} /\ Tallied(t)
      BY <2>1 DEF Uncounted, Overcounted, PostInv, PostTallied
    <3>2. Cardinality(Uncounted(t)) = 0 /\ Cardinality(Overcounted(t)) = 0
      BY <3>1, FS_EmptySet
    <3>3. count[t] \in Int
      BY DEF PostInv, PostRows
    <3>4. count[t] + 0 = (IF t \in tagged THEN 1 ELSE 0) + 0
      BY <3>1, <3>2 DEF Tallied
    <3>5. QED
      BY <3>3, <3>4
  <2>2. QED
    BY <2>1 DEF Post!TagsCounted
<1>4. QED
  BY <1>1, <1>2, <1>3
-----------------------------------------------------------------------------
(* The components side by side: the one that runs keeps its invariant. *)
CommunityInv ==
  /\ mode \in {"Group", "Direct", "Post"}
  /\ mode = "Group" => GroupInv
  /\ mode = "Direct" => DirectInv
  /\ mode = "Post" => PostInv

(* The assumptions on the constants, component by component. *)
LEMMA CommunityAssumed == Group!GroupsAssumption /\ Direct!MessagingAssumption /\ Post!PostsAssumption
BY CommunityAssumption

(* Each component starts where its invariant holds. *)
LEMMA CommunityInit == Init => CommunityInv
<1>1. mode = "Group" /\ Group!Init => CommunityInv
  BY CommunityAssumed, GroupInit DEF CommunityInv
<1>2. mode = "Direct" /\ Direct!Init => CommunityInv
  BY CommunityAssumed, DirectInit DEF CommunityInv
<1>3. mode = "Post" /\ Post!Init => CommunityInv
  BY CommunityAssumed, PostInit DEF CommunityInv
<1>4. QED
  BY <1>1, <1>2, <1>3 DEF Init

(* A step of one component leaves the others out. *)
LEMMA CommunityStep == ASSUME CommunityInv, Next PROVE CommunityInv'
<1>1. CASE mode = "Group" /\ Group!Next /\ UNCHANGED OffGroup
  <2>1. mode' = mode /\ GroupInv'
    BY <1>1, CommunityAssumed, GroupStep DEF CommunityInv, OffGroup
  <2>2. QED
    BY <1>1, <2>1 DEF CommunityInv
<1>2. CASE mode = "Direct" /\ Direct!Next /\ UNCHANGED OffDirect
  <2>1. mode' = mode /\ DirectInv'
    BY <1>2, CommunityAssumed, DirectStep DEF CommunityInv, OffDirect
  <2>2. QED
    BY <1>2, <2>1 DEF CommunityInv
<1>3. CASE mode = "Post" /\ Post!Next /\ UNCHANGED OffPost
  <2>1. mode' = mode /\ PostInv'
    BY <1>3, CommunityAssumed, PostStep DEF CommunityInv, OffPost
  <2>2. QED
    BY <1>3, <2>1 DEF CommunityInv
<1>4. QED
  BY <1>1, <1>2, <1>3 DEF Next

(* A step that changes nothing. *)
LEMMA CommunityStill == ASSUME CommunityInv, UNCHANGED vars PROVE CommunityInv'
<1>1. GroupInv => GroupInv'
  <2>1. UNCHANGED Group!vars
    BY DEF vars, Group!vars, Group!rows, Group!handler
  <2>2. QED
    BY <2>1, GroupStill
<1>2. DirectInv => DirectInv'
  <2>1. UNCHANGED Direct!vars
    BY DEF vars, Direct!vars, Direct!rows, Direct!handler
  <2>2. QED
    BY <2>1, DirectStill
<1>3. PostInv => PostInv'
  BY PostStill DEF vars
<1>4. mode' = mode
  BY DEF vars
<1>5. QED
  BY <1>1, <1>2, <1>3, <1>4 DEF CommunityInv

(* The invariant holds. *)
THEOREM CommunitySafe == Spec => []CommunityInv
<1>1. Init => CommunityInv
  BY CommunityInit
<1>2. CommunityInv /\ [Next]_vars => CommunityInv'
  BY CommunityStep, CommunityStill
<1>3. QED
  BY <1>1, <1>2, PTL DEF Spec

(* The variables of each component have their types; in particular rows hang on
   live posts, and a reply hangs below a comment that is none (comment.service.ts). *)
THEOREM CommunityTyped == Spec => []TypeOK
<1>1. CommunityInv => TypeOK
  BY CommunityAssumed, DirectHolds, PostHolds DEF CommunityInv, TypeOK, GroupInv
<1>2. QED
  BY <1>1, CommunitySafe, PTL

(* The members of a group take part in its conversation, and nobody else does, once
   their requests are through (group-crud.service.ts, group-members.service.ts,
   group-chat.service.ts). *)
THEOREM GroupsMeet == Spec => []MembersParticipate
<1>1. CommunityInv => MembersParticipate
  BY CommunityAssumed, GroupHolds DEF CommunityInv, MembersParticipate
<1>2. QED
  BY <1>1, CommunitySafe, PTL

(* Somebody is in charge of a group, unless two managers changed roles at once
   (group-members.service.ts). *)
THEOREM GroupsAreLed == Spec => []SomeoneInCharge
<1>1. CommunityInv => SomeoneInCharge
  BY CommunityAssumed, GroupHolds DEF CommunityInv, SomeoneInCharge
<1>2. QED
  BY <1>1, CommunitySafe, PTL

(* Two users have one direct conversation, unless two requests that might open it
   overlapped (conversation.service.ts). *)
THEOREM PairsMeetOnce == Spec => []OneDirect
<1>1. CommunityInv => OneDirect
  BY CommunityAssumed, DirectHolds DEF CommunityInv, OneDirect
<1>2. QED
  BY <1>1, CommunitySafe, PTL

(* A forwarded message is where its recipient reads it (message.service.ts). *)
THEOREM ForwardsAreRead == Spec => []ForwardsArrive
<1>1. CommunityInv => ForwardsArrive
  BY CommunityAssumed, DirectHolds DEF CommunityInv, ForwardsArrive
<1>2. QED
  BY <1>1, CommunitySafe, PTL

(* A cached list of a post shows its rows, unless a request is still to delete it,
   its reader crossed a write, or a deletion failed (like.service.ts,
   comment.service.ts, post-media.service.ts). *)
THEOREM PostsAreShown == Spec => []PostListsCurrent
<1>1. CommunityInv => PostListsCurrent
  BY PostHolds DEF CommunityInv, PostListsCurrent
<1>2. QED
  BY <1>1, CommunitySafe, PTL

(* post_count is right for hashtags that are attached and detached by requests of
   their own, none of which was cut off (hashtag.service.ts). *)
THEOREM TagsAreCounted == Spec => []TagsCounted
<1>1. CommunityInv => TagsCounted
  BY PostHolds DEF CommunityInv, TagsCounted
<1>2. QED
  BY <1>1, CommunitySafe, PTL
=============================================================================
