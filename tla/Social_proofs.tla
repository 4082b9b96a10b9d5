---------------------------- MODULE Social_proofs ----------------------------
(***************************************************************************)
(* Proofs about Social for every set of accounts, requests and slots, with *)
(* requests overlapping and dying anywhere.                                *)
(***************************************************************************)
EXTENDS Social, TLAPS

Served(c) == pc[c] # "idle"
Writer(c) == Served(c) /\ call[c].kind \in Writes

KindsAt == [upsert |-> {"follow", "block"}, check |-> {"follow"}, create |-> {"follow"},
            find |-> {"unfollow", "remove", "unblock"}, delete |-> {"unfollow", "remove"},
            reverse |-> {"unfollow", "remove"}, unfriend |-> {"unfollow", "remove", "unfriend"},
            invalidate |-> {"follow", "unfollow", "remove", "unfriend"},
            sever |-> {"block"}, part |-> {"block"}, drop |-> {"unblock"},
            query |-> {"list"}, fill |-> {"list"}]

(* A request awaits a statement of its own handler. *)
InHandler ==
  \A c \in Calls : Served(c) => /\ call[c] \in Call
                                /\ call[c].kind \in KindsAt[pc[c]]
                                /\ Accepted(call[c])

(* Two requests on one pair are never taken for undisturbed. *)
Disturbed ==
  /\ \A e \in overlap : Flip(e) \in overlap
  /\ \A c \in Calls : Writer(c) /\ Edge(c) \notin overlap => c \in alone
  /\ \A c, d \in Calls : c # d /\ Writer(c) /\ On(d, Edge(c)) => c \notin alone /\ Edge(c) \in overlap

FollowQuery(e) == <<"follow", e[1], e[2]>>
FriendQuery(e) == <<"friend", e[1], e[2]>>

(* What a follow that runs alone knows. *)
FollowPhase(c) ==
  LET e == Edge(c) IN
  /\ pc[c] = "upsert" => found[c] = {}
  /\ pc[c] \in {"check", "create", "invalidate"} => e \in follow
  /\ pc[c] = "check" =>
       /\ todo[c] \subseteq {FollowQuery(Flip(e)), FriendQuery(e)}
       /\ found[c] \subseteq {FollowQuery(Flip(e)), FriendQuery(e)} \ todo[c]
       /\ FollowQuery(Flip(e)) \notin todo[c] => (FollowQuery(Flip(e)) \in found[c] <=> Flip(e) \in follow)
       /\ FriendQuery(e) \notin todo[c] => (FriendQuery(e) \in found[c] <=> AreFriends(e))
  /\ pc[c] = "create" => Flip(e) \in follow /\ ~AreFriends(e)
  /\ pc[c] = "invalidate" => (Flip(e) \in follow => AreFriends(e))

(* What a block that runs alone has deleted so far. *)
BlockPhase(c) ==
  LET e == Edge(c) IN
  /\ pc[c] \in {"sever", "part"} => e \in block
  /\ pc[c] = "sever" => \A f \in Both(e) : f \in follow => FollowQuery(f) \in todo[c]
  /\ pc[c] = "part" => /\ \A f \in Both(e) : f \notin follow
                       /\ \A f \in Both(e) : f \in friend => FriendQuery(f) \in todo[c]

Phase(c) ==
  /\ call[c].kind = "follow" => FollowPhase(c)
  /\ call[c].kind = "block" => BlockPhase(c)
  /\ call[c].kind = "unfriend" /\ pc[c] = "invalidate" => ~AreFriends(Edge(c))

Phases == \A c \in alone : Writer(c) => Phase(c)

Mutual(e) == AreFriends(e) => e \in follow /\ Flip(e) \in follow

(* Friends follow each other but between the statements of one request; the
   one that deleted a follow row and has not looked back yet knows the other. *)
PairFits(e) ==
  /\ ~(e \in friend /\ Flip(e) \in friend)
  /\ Mutual(e) \/ \E c \in Calls : On(c, e) /\ pc[c] \in {"reverse", "unfriend", "sever", "part"}

Pairs == \A e \in Edges \ overlap : PairFits(e)

LooksBack(c) ==
  pc[c] = "reverse" /\ Edge(c) \notin overlap =>
    (AreFriends(Edge(c)) => Flip(Edge(c)) \in follow)

Reversal == \A c \in Calls : Writer(c) => LooksBack(c)

(* A block or an unblock deletes rows of its own pair only. *)
Holding(c) ==
  /\ pc[c] = "drop" => found[c] \subseteq {<<"block", Edge(c)[1], Edge(c)[2]>>}
  /\ pc[c] = "sever" => todo[c] \subseteq {FollowQuery(f) : f \in Both(Edge(c))}
  /\ pc[c] = "part" => todo[c] \subseteq {FriendQuery(f) : f \in Both(Edge(c))}

Holdings == \A c \in Calls : Writer(c) => Holding(c)

(* The inductive invariant.  FriendsFollowEachOther needs the phases of the
   request in flight, and those hold only of requests that run alone. *)
IInv == TypeOK /\ InHandler /\ Disturbed /\ Phases /\ Pairs /\ Reversal /\ Holdings

-----------------------------------------------------------------------------
LEMMA PairFacts ==
  ASSUME NEW e \in Users \X Users
  PROVE  /\ Flip(e) \in Users \X Users /\ Flip(Flip(e)) = e
         /\ e = <<e[1], e[2]>> /\ Flip(e) = <<e[2], e[1]>>
         /\ Both(Flip(e)) = Both(e)
         /\ \A f : f \in Both(e) <=> f = e \/ f = Flip(e)
BY DEF Flip, Both

LEMMA EdgeFacts ==
  ASSUME InHandler, NEW c \in Calls, Served(c)
  PROVE  /\ call[c] \in Call /\ call[c].user \in Users /\ call[c].target \in Users
         /\ Edge(c) \in Users \X Users
         /\ call[c].kind \in {"follow", "block"} => Edge(c) \in Edges
BY DEF InHandler, Call, Edge, Edges, Accepted

TypeInv == TypeOK /\ InHandler

LEMMA IdleFacts ==
  ASSUME TypeOK, NEW c \in Calls, pc[c] = "idle"
  PROVE  found[c] = {}
BY DEF TypeOK

LEMMA TypeInit == Init => TypeInv
BY DEF Init, TypeInv, TypeOK, InHandler, Served, Labels, Rows, Edges

LEMMA StartTypes ==
  ASSUME TypeInv, NEW c \in Calls, Start(c)
  PROVE  TypeInv'
<1>1. PICK r \in Requests :
        /\ Accepted(r)
        /\ call' = [call EXCEPT ![c] = r] /\ pc' = [pc EXCEPT ![c] = First[r.kind]]
        /\ todo' = [todo EXCEPT ![c] =
                     IF r.kind = "list" THEN {<<"follow", r.user, r.user>>, <<"friend", r.user, r.user>>}
                                        ELSE {}]
        /\ alone' \subseteq alone \cup {c}
        /\ overlap' \subseteq overlap \cup Both(<<r.user, r.target>>)
        /\ dirty' \subseteq dirty \cup {r.user, r.target}
  BY DEF Start
<1>2. r \in Call /\ r # None /\ r.user \in Users /\ r.target \in Users /\ r.kind \in Writes \cup {"list"}
  BY SocialAssumption DEF Call
<1>3. First[r.kind] \in Labels \ {"idle"} /\ r.kind \in KindsAt[First[r.kind]]
  BY <1>2 DEF First, Labels, KindsAt, Writes
<1>4. Both(<<r.user, r.target>>) \subseteq Users \X Users
  BY <1>2 DEF Both, Flip
<1>5. pc[c] = "idle" /\ UNCHANGED <<tables, cached, found>>
  BY DEF Start
<1>6. todo' \in [Calls -> SUBSET Rows]
  BY <1>1, <1>2 DEF TypeInv, TypeOK, Rows
<1>7. TypeOK'
  BY <1>1, <1>2, <1>3, <1>4, <1>5, <1>6 DEF TypeInv, TypeOK, tables
<1>8. InHandler'
  BY <1>1, <1>2, <1>3, <1>5 DEF TypeInv, TypeOK, InHandler, Served, Accepted
<1>. QED  BY <1>7, <1>8 DEF TypeInv

Tables == follow \subseteq Edges /\ friend \subseteq Edges /\ block \subseteq Edges
              /\ cached \in [Users -> {None} \cup SUBSET Rows]
              /\ overlap \subseteq Users \X Users /\ dirty \subseteq Users

LEMMA LeaveTypes ==
  ASSUME TypeInv, Tables', NEW c \in Calls, Leave(c)
  PROVE  TypeInv'
BY DEF Leave, Tables, TypeInv, TypeOK, InHandler, Served, Labels, Accepted

LEMMA GotoTypes ==
  ASSUME TypeInv, Tables', NEW c \in Calls, Served(c), NEW to \in Labels \ {"idle"},
         call[c].kind \in KindsAt[to], pc' = [pc EXCEPT ![c] = to], UNCHANGED <<call, alone>>,
         todo' \in [Calls -> SUBSET Rows], found' \in [Calls -> SUBSET Rows],
         \A d \in Calls \ {c} : todo'[d] = todo[d] /\ found'[d] = found[d]
  PROVE  TypeInv'
BY DEF Tables, TypeInv, TypeOK, InHandler, Served, Accepted

LEMMA GotoStep ==
  ASSUME TypeInv, Tables', NEW c \in Calls, Served(c), NEW to \in Labels \ {"idle"},
         call[c].kind \in KindsAt[to], Goto(c, to), UNCHANGED alone
  PROVE  TypeInv'
<1>1. todo' \in [Calls -> SUBSET Rows] /\ found' \in [Calls -> SUBSET Rows]
  BY DEF Goto, TypeInv, TypeOK
<1>2. pc' = [pc EXCEPT ![c] = to] /\ UNCHANGED <<call, alone>>
      /\ \A d \in Calls \ {c} : todo'[d] = todo[d] /\ found'[d] = found[d]
  BY DEF Goto
<1>. QED  BY <1>1, <1>2, GotoTypes

LEMMA FollowTypes ==
  ASSUME TypeInv, NEW c \in Calls,
         UpsertFollow(c) \/ Check(c) \/ CreateFriend(c) \/ CreateFriendLost(c)
  PROVE  TypeInv'
<1> USE DEF TypeInv
<1>1. Served(c) /\ call[c] \in Call /\ call[c].kind \in KindsAt[pc[c]]
      /\ call[c].user \in Users /\ call[c].target \in Users
  <2>1. Served(c)
    BY DEF UpsertFollow, Check, CreateFriend, CreateFriendLost, Served
  <2>. QED  BY <2>1, EdgeFacts DEF InHandler
<1>2. Edge(c) \in Edges
  <2>1. call[c].kind = "follow"
    BY <1>1 DEF UpsertFollow, Check, CreateFriend, CreateFriendLost, KindsAt
  <2>. QED  BY <1>1, <2>1, EdgeFacts
<1>3. CASE UpsertFollow(c)
  <2>1. Tables'
    BY <1>2, <1>3 DEF UpsertFollow, Quiet, history, TypeOK, Tables
  <2>2. todo' \in [Calls -> SUBSET Rows]
    BY <1>1, <1>3 DEF UpsertFollow, TypeOK, Rows
  <2>. QED  BY <1>1, <1>3, <2>1, <2>2, GotoTypes
            DEF UpsertFollow, Quiet, history, TypeOK, Labels, KindsAt
<1>4. CASE Check(c)
  <2>1. Tables'
    BY <1>4 DEF Check, Quiet, history, TypeOK, Tables
  <2>2. PICK q \in todo[c] :
          /\ found' = [found EXCEPT ![c] = IF Present(q) THEN @ \cup {q} ELSE @]
          /\ todo' = [todo EXCEPT ![c] = @ \ {q}]
          /\ pc' = [pc EXCEPT ![c] = IF todo[c] = {q} THEN AfterCheck(found'[c]) ELSE "check"]
    BY <1>4 DEF Check
  <2>3. todo' \in [Calls -> SUBSET Rows] /\ found' \in [Calls -> SUBSET Rows]
    BY <2>2 DEF TypeOK
  <2>4. PICK to \in {"check", "create", "invalidate"} : pc' = [pc EXCEPT ![c] = to]
    BY <2>2 DEF AfterCheck
  <2>5. call[c].kind \in KindsAt[to] /\ to \in Labels \ {"idle"}
    BY <1>1, <1>4 DEF Check, KindsAt, Labels
  <2>6. \A d \in Calls \ {c} : todo'[d] = todo[d] /\ found'[d] = found[d]
    BY <2>2 DEF TypeOK
  <2>7. UNCHANGED <<call, alone>>
    BY <1>4 DEF Check, Quiet, history
  <2>. QED  BY <1>1, <2>1, <2>3, <2>4, <2>5, <2>6, <2>7, GotoTypes
<1>5. CASE CreateFriend(c)
  <2>1. Tables'
    BY <1>2, <1>5 DEF CreateFriend, Quiet, history, TypeOK, Tables
  <2>2. call[c].kind \in KindsAt["invalidate"] /\ "invalidate" \in Labels \ {"idle"}
    BY <1>1, <1>5 DEF CreateFriend, KindsAt, Labels
  <2>3. Goto(c, "invalidate") /\ UNCHANGED alone
    BY <1>5 DEF CreateFriend, Quiet, history
  <2>. QED  BY <1>1, <2>1, <2>2, <2>3, GotoStep
<1>6. CASE CreateFriendLost(c)
  <2>1. Tables'
    BY <1>1, <1>6 DEF CreateFriendLost, tables, TypeOK, Tables
  <2>. QED  BY <1>6, <2>1, LeaveTypes DEF CreateFriendLost
<1>. QED  BY <1>3, <1>4, <1>5, <1>6

LEMMA UnfollowTypes ==
  ASSUME TypeInv, NEW c \in Calls,
         FindFollow(c) \/ DeleteFollow(c) \/ ReadReverse(c) \/ DeleteFriend(c) \/ Invalidate(c)
  PROVE  TypeInv'
<1> USE DEF TypeInv
<1>1. Served(c) /\ call[c] \in Call /\ call[c].kind \in KindsAt[pc[c]]
  BY DEF FindFollow, DeleteFollow, ReadReverse, DeleteFriend, Invalidate, Served, InHandler
<1>2. CASE FindFollow(c)
  <2>1. Tables'
    BY <1>2 DEF FindFollow, tables, TypeOK, Tables
  <2>2. CASE Leave(c)
    BY <2>1, <2>2, LeaveTypes
  <2>3. CASE Goto(c, "delete") /\ UNCHANGED alone
    BY <1>1, <1>2, <2>1, <2>3, GotoTypes DEF FindFollow, Goto, TypeOK, Labels, KindsAt
  <2>. QED  BY <1>2, <2>2, <2>3 DEF FindFollow
<1>3. CASE DeleteFollow(c)
  <2>1. Tables'
    BY <1>3 DEF DeleteFollow, Quiet, history, TypeOK, Tables
  <2>2. call[c].kind \in KindsAt["reverse"] /\ "reverse" \in Labels \ {"idle"}
    BY <1>1, <1>3 DEF DeleteFollow, KindsAt, Labels
  <2>3. Goto(c, "reverse") /\ UNCHANGED alone
    BY <1>3 DEF DeleteFollow, Quiet, history
  <2>. QED  BY <1>1, <2>1, <2>2, <2>3, GotoStep
<1>4. CASE ReadReverse(c)
  <2>1. Tables'
    BY <1>4 DEF ReadReverse, Quiet, history, TypeOK, Tables
  <2>2. PICK to \in {"unfriend", "invalidate"} : Goto(c, to)
    BY <1>4 DEF ReadReverse
  <2>3. call[c].kind \in KindsAt[to] /\ to \in Labels \ {"idle"}
    BY <1>1, <1>4 DEF ReadReverse, KindsAt, Labels
  <2>4. UNCHANGED alone
    BY <1>4 DEF ReadReverse, Quiet, history
  <2>. QED  BY <1>1, <2>1, <2>2, <2>3, <2>4, GotoStep
<1>5. CASE DeleteFriend(c)
  <2>1. Tables'
    BY <1>5 DEF DeleteFriend, Quiet, history, TypeOK, Tables
  <2>2. call[c].kind \in KindsAt["invalidate"] /\ "invalidate" \in Labels \ {"idle"}
    BY <1>1, <1>5 DEF DeleteFriend, KindsAt, Labels
  <2>3. Goto(c, "invalidate") /\ UNCHANGED alone
    BY <1>5 DEF DeleteFriend, Quiet, history
  <2>. QED  BY <1>1, <2>1, <2>2, <2>3, GotoStep
<1>6. CASE Invalidate(c)
  <2>1. Tables'
    BY <1>6 DEF Invalidate, tables, TypeOK, Tables
  <2>. QED  BY <1>6, <2>1, LeaveTypes DEF Invalidate
<1>. QED  BY <1>2, <1>3, <1>4, <1>5, <1>6

LEMMA BlockTypes ==
  ASSUME TypeInv, NEW c \in Calls,
         UpsertBlock(c) \/ Sever(c) \/ Part(c) \/ FindBlock(c) \/ DropBlock(c)
  PROVE  TypeInv'
<1> USE DEF TypeInv
<1>1. Served(c) /\ call[c] \in Call /\ call[c].kind \in KindsAt[pc[c]]
      /\ call[c].user \in Users /\ call[c].target \in Users /\ Edge(c) \in Users \X Users
  <2>1. Served(c)
    BY DEF UpsertBlock, Sever, Part, FindBlock, DropBlock, Served
  <2>. QED  BY <2>1, EdgeFacts DEF InHandler
<1>2. Both(Edge(c)) \subseteq Users \X Users
      /\ {FollowQuery(e) : e \in Both(Edge(c))} \subseteq Rows /\ Severing(c) \subseteq Rows
  BY <1>1 DEF Both, Flip, FollowQuery, Severing, Rows
<1>3. CASE UpsertBlock(c)
  <2>1. Edge(c) \in Edges
    BY <1>1, <1>3, EdgeFacts DEF UpsertBlock
  <2>2. Tables'
    BY <2>1, <1>3 DEF UpsertBlock, history, TypeOK, Tables
  <2>3. todo' \in [Calls -> SUBSET Rows]
    BY <1>2, <1>3 DEF UpsertBlock, TypeOK, FollowQuery
  <2>4. pc' = [pc EXCEPT ![c] = "sever"] /\ UNCHANGED <<call, alone, found>>
        /\ \A d \in Calls \ {c} : todo'[d] = todo[d] /\ found'[d] = found[d]
    BY <1>3 DEF UpsertBlock, history, TypeOK
  <2>5. "sever" \in Labels \ {"idle"} /\ call[c].kind \in KindsAt["sever"]
    BY <1>3 DEF UpsertBlock, Labels, KindsAt
  <2>6. found' \in [Calls -> SUBSET Rows]
    BY <2>4 DEF TypeOK
  <2>. QED  BY <1>1, <2>2, <2>3, <2>4, <2>5, <2>6, GotoTypes
<1>4. CASE Sever(c)
  <2>1. PICK q \in todo[c] :
          /\ follow' = follow \ {<<q[2], q[3]>>}
          /\ todo' = [todo EXCEPT ![c] = IF @ = {q} THEN Severing(c) ELSE @ \ {q}]
          /\ pc' = [pc EXCEPT ![c] = IF todo[c] = {q} THEN "part" ELSE "sever"]
    BY <1>4 DEF Sever
  <2>2. Tables'
    BY <2>1, <1>4 DEF Sever, Quiet, history, TypeOK, Tables
  <2>3. todo' \in [Calls -> SUBSET Rows] /\ found' \in [Calls -> SUBSET Rows]
    BY <2>1, <1>2, <1>4 DEF Sever, TypeOK
  <2>4. UNCHANGED <<call, alone, found>>
        /\ \A d \in Calls \ {c} : todo'[d] = todo[d] /\ found'[d] = found[d]
    BY <2>1, <1>4 DEF Sever, Quiet, history, TypeOK
  <2>5. PICK to \in {"sever", "part"} : pc' = [pc EXCEPT ![c] = to]
    BY <2>1
  <2>6. to \in Labels \ {"idle"} /\ call[c].kind \in KindsAt[to]
    BY <1>1, <1>4 DEF Sever, Labels, KindsAt
  <2>. QED  BY <1>1, <2>2, <2>3, <2>4, <2>5, <2>6, GotoTypes
<1>5. CASE Part(c)
  <2>1. PICK q \in todo[c] :
          /\ friend' = friend \ {<<q[2], q[3]>>}
          /\ \/ /\ todo[c] = {q} /\ Leave(c) /\ overlap' = overlap \ Healed(c)
             \/ /\ todo[c] # {q}
                /\ todo' = [todo EXCEPT ![c] = @ \ {q}]
                /\ UNCHANGED <<pc, call, found, alone, overlap>>
    BY <1>5 DEF Part
  <2>2. Tables'
    BY <2>1, <1>5 DEF Part, TypeOK, Tables
  <2>3. CASE Leave(c)
    BY <2>2, <2>3, LeaveTypes
  <2>4. CASE todo' = [todo EXCEPT ![c] = @ \ {q}] /\ UNCHANGED <<pc, call, found, alone, overlap>>
    <3>1. todo' \in [Calls -> SUBSET Rows] /\ found' \in [Calls -> SUBSET Rows]
      BY <2>4 DEF TypeOK
    <3>2. \A d \in Calls \ {c} : todo'[d] = todo[d] /\ found'[d] = found[d]
      BY <2>4 DEF TypeOK
    <3>3. pc' = [pc EXCEPT ![c] = "part"] /\ "part" \in Labels \ {"idle"}
          /\ call[c].kind \in KindsAt["part"]
      BY <1>1, <1>5, <2>4 DEF Part, TypeOK, Labels
    <3>. QED  BY <1>1, <2>2, <2>4, <3>1, <3>2, <3>3, GotoTypes
  <2>. QED  BY <2>1, <2>3, <2>4
<1>6. CASE FindBlock(c)
  <2>1. Tables'
    BY <1>6 DEF FindBlock, tables, TypeOK, Tables
  <2>2. CASE Leave(c)
    BY <2>1, <2>2, LeaveTypes
  <2>3. CASE /\ found' = [found EXCEPT ![c] = {<<"block", Edge(c)[1], Edge(c)[2]>>}]
             /\ pc' = [pc EXCEPT ![c] = "drop"] /\ UNCHANGED <<call, todo, alone>>
    <3>1. todo' \in [Calls -> SUBSET Rows] /\ found' \in [Calls -> SUBSET Rows]
      BY <1>1, <2>3 DEF TypeOK, Rows
    <3>2. \A d \in Calls \ {c} : todo'[d] = todo[d] /\ found'[d] = found[d]
      BY <2>3 DEF TypeOK
    <3>3. "drop" \in Labels \ {"idle"} /\ call[c].kind \in KindsAt["drop"]
      BY <1>6 DEF FindBlock, Labels, KindsAt
    <3>. QED  BY <1>1, <2>1, <2>3, <3>1, <3>2, <3>3, GotoTypes
  <2>. QED  BY <1>6, <2>2, <2>3 DEF FindBlock
<1>7. CASE DropBlock(c)
  <2>1. Tables'
    BY <1>7 DEF DropBlock, TypeOK, Tables
  <2>2. found' \in [Calls -> SUBSET Rows]
    BY <1>7 DEF DropBlock, TypeOK
  <2>3. found'[c] = {}
    <3>1. found'[c] = found[c] \ found[c]
      BY <1>7 DEF DropBlock
    <3>2. \A q : q \notin found[c] \ found[c]
      OBVIOUS
    <3>. QED  BY <3>1, <3>2
  <2>4. ASSUME NEW d \in Calls, pc[d] = "idle"
        PROVE  found'[d] = {}
    <3>1. found'[d] = found[d]
      BY <1>7, <2>4 DEF DropBlock
    <3>2. found[d] = {}
      BY <2>4, IdleFacts
    <3>. QED  BY <3>1, <3>2
  <2>. QED  BY <1>7, <2>1, <2>2, <2>3, <2>4
            DEF DropBlock, Tables, TypeOK, InHandler, Served, Labels, Accepted
<1>. QED  BY <1>3, <1>4, <1>5, <1>6, <1>7

LEMMA ListTypes ==
  ASSUME TypeInv, NEW c \in Calls, Query(c) \/ Fill(c)
  PROVE  TypeInv'
<1> USE DEF TypeInv
<1>1. Served(c) /\ call[c] \in Call /\ call[c].kind \in KindsAt[pc[c]] /\ call[c].user \in Users
  <2>1. Served(c)
    BY DEF Query, Fill, Served
  <2>. QED  BY <2>1, EdgeFacts DEF InHandler
<1>2. CASE Query(c)
  <2>1. Tables'
    BY <1>2 DEF Query, tables, history, TypeOK, Tables
  <2>2. PICK q \in todo[c] :
          /\ found' = [found EXCEPT ![c] = @ \cup (IF q[1] = "follow" THEN Following(q[2]) ELSE Friends(q[2]))]
          /\ todo' = [todo EXCEPT ![c] = @ \ {q}]
          /\ pc' = [pc EXCEPT ![c] = IF todo[c] = {q} THEN "fill" ELSE "query"]
    BY <1>2 DEF Query
  <2>3. q[2] \in Users
    BY <2>2 DEF TypeOK, Rows
  <2>4. Following(q[2]) \subseteq Rows /\ Friends(q[2]) \subseteq Rows
    <3>1. \A v \in Users : <<"follow", q[2], v>> \in Rows /\ <<"friend", q[2], v>> \in Rows
      BY <2>3 DEF Rows
    <3>. QED  BY <3>1 DEF Following, Friends
  <2>5. todo' \in [Calls -> SUBSET Rows] /\ found' \in [Calls -> SUBSET Rows]
    BY <2>2, <2>4 DEF TypeOK
  <2>6. \A d \in Calls \ {c} : todo'[d] = todo[d] /\ found'[d] = found[d]
    BY <2>2 DEF TypeOK
  <2>7. PICK to \in {"query", "fill"} : pc' = [pc EXCEPT ![c] = to]
    BY <2>2
  <2>8. to \in Labels \ {"idle"} /\ call[c].kind \in KindsAt[to] /\ UNCHANGED <<call, alone>>
    BY <1>1, <1>2 DEF Query, history, Labels, KindsAt
  <2>. QED  BY <1>1, <2>1, <2>5, <2>6, <2>7, <2>8, GotoTypes
<1>3. CASE Fill(c)
  <2>1. Tables'
    BY <1>1, <1>3 DEF Fill, tables, TypeOK, Tables
  <2>. QED  BY <1>3, <2>1, LeaveTypes DEF Fill
<1>. QED  BY <1>2, <1>3

LEMMA CrashTypes ==
  ASSUME TypeInv, NEW c \in Calls, Crash(c)
  PROVE  TypeInv'
<1>1. Served(c) /\ Leave(c) /\ UNCHANGED <<tables, cached>>
  BY DEF Crash, Served
<1>2. call[c].user \in Users /\ call[c].target \in Users /\ Edge(c) \in Users \X Users
  BY <1>1, EdgeFacts DEF TypeInv
<1>3. Both(Edge(c)) \subseteq Users \X Users
  BY <1>2 DEF Both, Flip
<1>4. Tables'
  BY <1>1, <1>2, <1>3 DEF Crash, tables, TypeInv, TypeOK, Tables
<1>. QED  BY <1>1, <1>4, LeaveTypes

LEMMA ExpireTypes ==
  ASSUME TypeInv, NEW u \in Users, Expire(u)
  PROVE  TypeInv'
BY DEF Expire, tables, handler, TypeInv, TypeOK, InHandler, Served, Accepted

LEMMA TypeStep ==
  ASSUME TypeInv, [Next]_vars
  PROVE  TypeInv'
<1>1. ASSUME NEW c \in Calls, Handle(c)
      PROVE  TypeInv'
  BY <1>1, StartTypes, FollowTypes, UnfollowTypes, BlockTypes, ListTypes, CrashTypes DEF Handle
<1>2. ASSUME NEW u \in Users, Expire(u)
      PROVE  TypeInv'
  BY <1>2, ExpireTypes
<1>3. CASE UNCHANGED vars
  BY <1>3 DEF vars, tables, handler, history, TypeInv, TypeOK, InHandler, Served, Accepted
<1>. QED  BY <1>1, <1>2, <1>3 DEF Next

(* The tables, the entries and the requests in flight keep their types, and no
   account follows, blocks or befriends itself. *)
THEOREM TypeCorrect == Spec => []TypeOK
<1>1. Init => TypeInv
  BY TypeInit
<1>2. TypeInv /\ [Next]_vars => TypeInv'
  BY TypeStep
<1>3. TypeInv => TypeOK
  BY DEF TypeInv
<1>. QED  BY <1>1, <1>2, <1>3, PTL DEF Spec

-----------------------------------------------------------------------------
(* What one statement of c leaves as it was. *)
Frame(c) ==
  /\ \A d \in Calls \ {c} :
       /\ pc'[d] = pc[d] /\ call'[d] = call[d] /\ todo'[d] = todo[d]
       /\ found'[d] = found[d] \/ (pc[d] = "drop" /\ found'[d] \subseteq found[d])
       /\ d \in alone' <=> d \in alone
  /\ pc'[c] # "idle" => call'[c] = call[c] /\ (c \in alone' <=> c \in alone)
  /\ c \in alone' => pc'[c] # "idle"
  /\ \A e \in (Users \X Users) \ Both(Edge(c)) :
       (e \in follow' <=> e \in follow) /\ (e \in friend' <=> e \in friend) /\ (e \in block' <=> e \in block)
  /\ \/ UNCHANGED overlap
     \/ overlap' = overlap \cup Both(Edge(c)) /\ pc'[c] = "idle"
     \/ overlap' = overlap \ Both(Edge(c)) /\ c \in alone /\ pc'[c] = "idle"

LEMMA SamePhase ==
  ASSUME TypeInv, NEW d \in Calls, Writer(d), Phase(d),
         pc'[d] = pc[d], call'[d] = call[d], todo'[d] = todo[d],
         found'[d] = found[d] \/ pc[d] = "drop",
         \A e \in Both(Edge(d)) :
           (e \in follow' <=> e \in follow) /\ (e \in friend' <=> e \in friend) /\ (e \in block' <=> e \in block)
  PROVE  Phase(d)'
<1>1. Edge(d)' = Edge(d) /\ Edge(d) \in Users \X Users
  BY EdgeFacts DEF Edge, TypeInv, Writer
<1> DEFINE e == Edge(d)
<1>2. Edge(d) \in Both(Edge(d)) /\ Flip(Edge(d)) \in Both(Edge(d))
  BY DEF Both
<1>3. AreFriends(Edge(d))' <=> AreFriends(Edge(d))
  BY <1>1, <1>2 DEF AreFriends, Both, Flip
<1>4. call[d].kind = "follow" => FollowPhase(d)'
  BY <1>1, <1>2, <1>3 DEF Phase, FollowPhase, Flip, FollowQuery, FriendQuery
<1>5. call[d].kind = "block" => BlockPhase(d)'
  BY <1>1, <1>2 DEF Phase, BlockPhase, Both, Flip, FollowQuery, FriendQuery
<1>. QED  BY <1>1, <1>3, <1>4, <1>5 DEF Phase

LEMMA OnSame ==
  ASSUME NEW d \in Calls, pc'[d] = pc[d], call'[d] = call[d]
  PROVE  /\ Edge(d)' = Edge(d) /\ Writer(d)' = Writer(d) /\ Served(d)' = Served(d)
         /\ \A e : On(d, e)' = On(d, e)
BY DEF Edge, Writer, Served, On, Both, Flip

LEMMA OnFacts ==
  ASSUME TypeInv, NEW c \in Calls, NEW d \in Calls, Writer(c), Writer(d)
  PROVE  /\ Edge(c) \in Users \X Users /\ Edge(d) \in Users \X Users
         /\ On(d, Edge(c)) <=> Edge(d) \in Both(Edge(c))
         /\ Edge(d) \in Both(Edge(c)) <=> Edge(c) \in Both(Edge(d))
         /\ Edge(d) \in Both(Edge(c)) => Both(Edge(d)) = Both(Edge(c))
         /\ Edge(d) \notin Both(Edge(c)) => Both(Edge(d)) \cap Both(Edge(c)) = {}
<1>1. Edge(c) \in Users \X Users /\ Edge(d) \in Users \X Users
  BY EdgeFacts DEF TypeInv, Writer
<1>2. On(d, Edge(c)) <=> Edge(d) \in Both(Edge(c))
  BY DEF On, Writer, Served
<1>. QED  BY <1>1, <1>2 DEF Both, Flip

(* Both requests of a pair that overlap are disturbed. *)
LEMMA Overlapping ==
  ASSUME TypeInv, Disturbed, NEW c \in Calls, NEW d \in Calls, c # d, Writer(c), Writer(d),
         Edge(d) \in Both(Edge(c))
  PROVE  c \notin alone /\ d \notin alone /\ Edge(c) \in overlap /\ Edge(d) \in overlap
BY OnFacts DEF Disturbed

LEMMA DisturbedStep ==
  ASSUME TypeInv, TypeInv', Disturbed, NEW c \in Calls, Writer(c), Frame(c)
  PROVE  Disturbed'
<1>1. \A d \in Calls : Writer(d)' =>
        Writer(d) /\ Edge(d)' = Edge(d) /\ (d \in alone' <=> d \in alone) /\ pc'[d] # "idle"
        /\ \A e : On(d, e)' => On(d, e)
  <2>1. ASSUME NEW d \in Calls, d # c
        PROVE  Writer(d)' => Writer(d) /\ Edge(d)' = Edge(d) /\ (d \in alone' <=> d \in alone) /\ pc'[d] # "idle"
               /\ \A e : On(d, e)' => On(d, e)
    BY <2>1, OnSame DEF Frame, Writer, Served
  <2>2. Writer(c)' => Writer(c) /\ Edge(c)' = Edge(c) /\ (c \in alone' <=> c \in alone) /\ pc'[c] # "idle"
               /\ \A e : On(c, e)' => On(c, e)
    BY DEF Frame, Writer, Served, Edge, On, Both, Flip
  <2>. QED  BY <2>1, <2>2
<1>2. Edge(c) \in Users \X Users
  BY EdgeFacts DEF TypeInv, Writer
<1>3. ASSUME NEW e \in overlap'
      PROVE  Flip(e) \in overlap'
  <2>1. e \in Users \X Users
    BY DEF TypeInv, TypeOK
  <2>2. Flip(e) \in Both(Edge(c)) <=> e \in Both(Edge(c))
    BY <1>2, <2>1 DEF Both, Flip
  <2>. QED  BY <2>2 DEF Frame, Disturbed
<1>4. ASSUME NEW d \in Calls, Writer(d)', Edge(d)' \notin overlap'
      PROVE  d \in alone'
  <2>1. Writer(d) /\ Edge(d)' = Edge(d)
    BY <1>1, <1>4
  <2>2. CASE Edge(d) \notin overlap
    BY <1>1, <1>4, <2>1, <2>2 DEF Disturbed
  <2>3. CASE Edge(d) \in overlap
    <3>1. Edge(d) \in Both(Edge(c)) /\ c \in alone /\ pc'[c] = "idle"
      BY <1>4, <2>1, <2>3 DEF Frame
    <3>2. d # c
      BY <1>1, <1>4, <3>1
    <3>. QED  BY <2>1, <3>1, <3>2, Overlapping
  <2>. QED  BY <2>2, <2>3
<1>5. ASSUME NEW d \in Calls, NEW g \in Calls, d # g, Writer(d)', On(g, Edge(d))'
      PROVE  d \notin alone' /\ Edge(d)' \in overlap'
  <2>1. Writer(g)'
    BY <1>5 DEF On, Writer, Served
  <2>2. Writer(d) /\ Writer(g) /\ Edge(d)' = Edge(d) /\ On(g, Edge(d))
    <3>1. On(g, Edge(d)') => On(g, Edge(d))
      BY <1>1, <1>5
    <3>2. On(g, Edge(d))' => Edge(g)' \in Both(Edge(d)')
      BY DEF On, Both, Flip
    <3>3. Edge(g) \in Both(Edge(d))
      BY <1>1, <1>5, <2>1, <3>2
    <3>. QED  BY <1>1, <1>5, <2>1, <3>3, OnFacts
  <2>3. d \notin alone /\ Edge(d) \in overlap
    BY <1>5, <2>2 DEF Disturbed
  <2>4. d \notin alone'
    BY <1>1, <1>5, <2>3
  <2>5. CASE Edge(d) \notin Both(Edge(c))
    BY <2>2, <2>3, <2>5 DEF Frame
  <2>6. CASE Edge(d) \in Both(Edge(c))
    <3>1. d # c => c \notin alone
      BY <2>2, <2>6, Overlapping
    <3>2. d = c => c \notin alone
      BY <2>3
    <3>. QED  BY <2>2, <2>3, <3>1, <3>2 DEF Frame
  <2>. QED  BY <2>4, <2>5, <2>6
<1>. QED  BY <1>3, <1>4, <1>5 DEF Disturbed

LEMMA Apart ==
  ASSUME TypeInv, NEW c \in Calls, Writer(c), Frame(c), NEW e \in Users \X Users, e \notin Both(Edge(c))
  PROVE  /\ e \in overlap' <=> e \in overlap
         /\ \A f \in Both(e) : /\ f \in follow' <=> f \in follow
                               /\ f \in friend' <=> f \in friend
                               /\ f \in block' <=> f \in block
         /\ AreFriends(e)' <=> AreFriends(e)
<1>1. Edge(c) \in Users \X Users
  BY EdgeFacts DEF TypeInv, Writer
<1>2. \A f \in Both(e) : f \in (Users \X Users) \ Both(Edge(c))
  BY <1>1 DEF Both, Flip
<1>3. \A f \in Both(e) : /\ f \in follow' <=> f \in follow
                         /\ f \in friend' <=> f \in friend
                         /\ f \in block' <=> f \in block
  BY <1>2 DEF Frame
<1>4. AreFriends(e)' <=> AreFriends(e)
  BY <1>3 DEF AreFriends, Both, Flip
<1>. QED  BY <1>3, <1>4 DEF Frame

(* What remains to be shown of one statement: the facts about its own request
   and its own pair. *)
LEMMA FrameStep ==
  ASSUME IInv, TypeInv', NEW c \in Calls, Writer(c), Frame(c),
         c \in alone' => Phase(c)',
         Writer(c)' => LooksBack(c)' /\ Holding(c)',
         \A e \in Edges \cap Both(Edge(c)) : e \notin overlap' => PairFits(e)'
  PROVE  IInv'
<1>1. TypeInv /\ Disturbed /\ Phases /\ Pairs /\ Reversal /\ Holdings
  BY DEF IInv, TypeInv
<1>2. Disturbed'
  BY <1>1, DisturbedStep
<1>3. Edge(c) \in Users \X Users
  BY <1>1, EdgeFacts DEF TypeInv, Writer
<1>4. ASSUME NEW d \in Calls, d # c, Writer(d)'
      PROVE  Writer(d) /\ Edge(d)' = Edge(d) /\ Edge(d) \in Users \X Users
             /\ pc'[d] = pc[d] /\ call'[d] = call[d]
  <2>1. pc'[d] = pc[d] /\ call'[d] = call[d]
    BY <1>4 DEF Frame
  <2>2. Writer(d) /\ Edge(d)' = Edge(d)
    BY <1>4, <2>1, OnSame
  <2>. QED  BY <1>1, <2>1, <2>2, EdgeFacts DEF TypeInv, Writer
<1>5. ASSUME NEW d \in alone', Writer(d)'
      PROVE  Phase(d)'
  <2>1. d \in Calls
    BY DEF TypeInv, TypeOK
  <2>2. CASE d # c
    <3>1. d \in alone /\ Writer(d)
      BY <1>4, <1>5, <2>1, <2>2 DEF Frame
    <3>2. Phase(d)
      BY <1>1, <3>1 DEF Phases
    <3>3. Edge(d) \notin Both(Edge(c))
      BY <1>1, <2>1, <2>2, <3>1, Overlapping
    <3>4. Edge(d) \in Users \X Users
      BY <1>4, <1>5, <2>1, <2>2
    <3>5. \A e \in Both(Edge(d)) :
            (e \in follow' <=> e \in follow) /\ (e \in friend' <=> e \in friend) /\ (e \in block' <=> e \in block)
      BY <1>1, <3>3, <3>4, Apart
    <3>. QED  BY <1>1, <2>1, <2>2, <3>1, <3>2, <3>5, SamePhase DEF Frame
  <2>. QED  BY <1>5, <2>2
<1>6. ASSUME NEW d \in Calls, Writer(d)'
      PROVE  LooksBack(d)'
  <2>1. CASE d # c
    <3>1. Writer(d) /\ Edge(d)' = Edge(d) /\ Edge(d) \in Users \X Users /\ pc'[d] = pc[d]
      BY <1>4, <1>6, <2>1
    <3>2. LooksBack(d)
      BY <1>1, <3>1 DEF Reversal
    <3>3. CASE Edge(d) \in Both(Edge(c))
      <4>1. c \notin alone /\ Edge(d) \in overlap
        BY <1>1, <2>1, <3>1, <3>3, Overlapping
      <4>2. Edge(d) \in overlap'
        BY <4>1 DEF Frame
      <4>. QED  BY <3>1, <4>2 DEF LooksBack
    <3>4. CASE Edge(d) \notin Both(Edge(c))
      <4>1. /\ Edge(d) \in overlap' <=> Edge(d) \in overlap
            /\ Flip(Edge(d)) \in follow' <=> Flip(Edge(d)) \in follow
            /\ AreFriends(Edge(d))' <=> AreFriends(Edge(d))
        <5>1. Flip(Edge(d)) \in Both(Edge(d))
          BY DEF Both
        <5>. QED  BY <1>1, <3>1, <3>4, <5>1, Apart
      <4>. QED  BY <3>1, <3>2, <4>1 DEF LooksBack, AreFriends, Both, Flip
    <3>. QED  BY <3>3, <3>4
  <2>. QED  BY <1>6, <2>1
<1>7. ASSUME NEW e \in Edges \ overlap'
      PROVE  PairFits(e)'
  <2>1. e \in Users \X Users
    BY DEF Edges
  <2>2. CASE e \notin Both(Edge(c))
    <3>1. e \notin overlap
      BY <1>1, <1>7, <2>1, <2>2, Apart
    <3>2. PairFits(e)
      BY <1>1, <3>1 DEF Pairs
    <3>3. /\ e \in follow' <=> e \in follow
          /\ e \in friend' <=> e \in friend
          /\ Flip(e) \in follow' <=> Flip(e) \in follow
          /\ Flip(e) \in friend' <=> Flip(e) \in friend
          /\ AreFriends(e)' <=> AreFriends(e)
      <4>1. e \in Both(e) /\ Flip(e) \in Both(e)
        BY DEF Both
      <4>. QED  BY <1>1, <2>1, <2>2, <4>1, Apart
    <3>4. ASSUME NEW d \in Calls, On(d, e)
          PROVE  On(d, e)' /\ pc'[d] = pc[d]
      <4>1. d # c
        BY <1>3, <2>1, <2>2, <3>4 DEF On, Both, Flip
      <4>2. pc'[d] = pc[d] /\ call'[d] = call[d]
        BY <4>1 DEF Frame
      <4>. QED  BY <3>4, <4>2, OnSame
    <3>5. CASE Mutual(e)
      BY <3>2, <3>3, <3>5 DEF PairFits, Mutual, Flip
    <3>6. CASE \E d \in Calls : On(d, e) /\ pc[d] \in {"reverse", "unfriend", "sever", "part"}
      BY <3>2, <3>3, <3>4, <3>6 DEF PairFits, Flip
    <3>. QED  BY <3>2, <3>5, <3>6 DEF PairFits
  <2>. QED  BY <1>7, <2>2
<1>8. ASSUME NEW d \in Calls, Writer(d)'
      PROVE  Holding(d)'
  BY <1>1, <1>4, <1>8 DEF Holdings, Holding, Frame
<1>. QED  BY <1>2, <1>5, <1>6, <1>7, <1>8 DEF IInv, TypeInv, Phases, Reversal, Pairs, Holdings

LEMMA OwnStep ==
  ASSUME IInv, TypeInv', NEW c \in Calls, Writer(c), Frame(c), NEW e, e = Edge(c),
         c \in alone' => Phase(c)',
         Writer(c)' => LooksBack(c)' /\ Holding(c)',
         e \in Edges /\ e \notin overlap' => PairFits(e)'
  PROVE  IInv'
<1>1. e \in Users \X Users /\ Disturbed'
  BY EdgeFacts, DisturbedStep DEF IInv, TypeInv, Writer
<1>2. ASSUME NEW f \in Edges \cap Both(Edge(c)), f \notin overlap'
      PROVE  PairFits(f)'
  <2>1. CASE f = e
    BY <1>2, <2>1
  <2>2. CASE f = Flip(e)
    <3>1. e \in Edges /\ e = Flip(f)
      BY <1>1, <2>2 DEF Edges, Flip
    <3>2. e \notin overlap'
      <4>1. e \in overlap' => Flip(e) \in overlap'
        BY <1>1 DEF Disturbed
      <4>. QED  BY <1>2, <2>2, <4>1
    <3>3. PairFits(e)'
      BY <3>1, <3>2
    <3>. QED  BY <1>1, <2>2, <3>1, <3>3 DEF PairFits, Mutual, AreFriends, On, Both, Flip
  <2>. QED  BY <2>1, <2>2 DEF Both
<1>. QED  BY <1>2, FrameStep

(* What the request knows about its own pair if nothing overlapped there. *)
LEMMA OwnFacts ==
  ASSUME IInv, NEW c \in Calls, Writer(c)
  PROVE  /\ Edge(c) \in Users \X Users
         /\ c \in alone => Phase(c)
         /\ LooksBack(c) /\ Holding(c)
         /\ Edge(c) \notin overlap => c \in alone
         /\ AreFriends(Edge(c)) => Edge(c) \in Edges
         /\ Edge(c) \in Edges \ overlap =>
              /\ PairFits(Edge(c))
              /\ pc[c] \notin {"reverse", "unfriend", "sever", "part"} => Mutual(Edge(c))
<1>1. Edge(c) \in Users \X Users
  BY EdgeFacts DEF IInv, TypeInv, Writer
<1>2. (c \in alone => Phase(c)) /\ LooksBack(c) /\ Holding(c) /\ (Edge(c) \notin overlap => c \in alone)
  BY DEF IInv, Phases, Reversal, Holdings, Disturbed
<1>3. AreFriends(Edge(c)) => Edge(c) \in Edges
  BY <1>1 DEF AreFriends, Both, Flip, Edges, IInv, TypeOK
<1>4. ASSUME Edge(c) \in Edges \ overlap
      PROVE  /\ PairFits(Edge(c))
             /\ pc[c] \notin {"reverse", "unfriend", "sever", "part"} => Mutual(Edge(c))
  <2>1. PairFits(Edge(c))
    BY <1>4 DEF IInv, Pairs
  <2>2. \A d \in Calls : On(d, Edge(c)) => d = c
    BY <1>4 DEF IInv, Disturbed
  <2>. QED  BY <2>1, <2>2 DEF PairFits
<1>. QED  BY <1>1, <1>2, <1>3, <1>4

-----------------------------------------------------------------------------
LEMMA LeaveFrame ==
  ASSUME TypeInv, NEW c \in Calls, Writer(c), Leave(c), UNCHANGED tables,
         \/ UNCHANGED overlap
         \/ overlap' = overlap \cup Both(Edge(c))
         \/ overlap' = overlap \ Both(Edge(c)) /\ c \in alone
  PROVE  Frame(c) /\ ~Writer(c)' /\ c \notin alone'
BY DEF Leave, Frame, tables, TypeInv, TypeOK, Writer, Served

(* A request that leaves without having touched its pair in this statement. *)
LEMMA LeaveStep ==
  ASSUME IInv, TypeInv', NEW c \in Calls, Writer(c), Leave(c), UNCHANGED <<tables, overlap>>,
         pc[c] \notin {"reverse", "unfriend", "sever", "part"}
  PROVE  IInv'
<1>1. PICK e \in Users \X Users : e = Edge(c)
  BY OwnFacts
<1>2. Frame(c) /\ ~Writer(c)' /\ c \notin alone'
  BY LeaveFrame DEF IInv, TypeInv
<1>3. ASSUME e \in Edges, e \notin overlap'
      PROVE  PairFits(e)'
  <2>1. PairFits(e) /\ Mutual(e)
    BY <1>1, <1>3, OwnFacts
  <2>. QED  BY <2>1 DEF PairFits, Mutual, AreFriends, Both, Flip, tables
<1>. QED  BY <1>1, <1>2, <1>3, OwnStep

LEMMA CrashStep ==
  ASSUME IInv, TypeInv', NEW c \in Calls, Writer(c), Crash(c)
  PROVE  IInv'
<1>1. PICK e \in Users \X Users : e = Edge(c)
  BY OwnFacts
<1>2. Leave(c) /\ UNCHANGED tables /\ overlap' = overlap \cup Both(Edge(c))
  BY DEF Crash, Writer, Writes
<1>3. Frame(c) /\ ~Writer(c)' /\ c \notin alone'
  BY <1>2, LeaveFrame DEF IInv, TypeInv
<1>4. e \in overlap'
  BY <1>1, <1>2 DEF Both
<1>. QED  BY <1>1, <1>3, <1>4, OwnStep

LEMMA GotoFrame ==
  ASSUME TypeInv, NEW c \in Calls, Writer(c), NEW to \in Labels \ {"idle"},
         pc' = [pc EXCEPT ![c] = to], UNCHANGED <<call, alone, overlap>>,
         \A d \in Calls \ {c} : todo'[d] = todo[d] /\ found'[d] = found[d],
         \A e \in (Users \X Users) \ Both(Edge(c)) :
           (e \in follow' <=> e \in follow) /\ (e \in friend' <=> e \in friend) /\ (e \in block' <=> e \in block)
  PROVE  /\ Frame(c) /\ Writer(c)' /\ Edge(c)' = Edge(c) /\ pc'[c] = to
         /\ call'[c] = call[c] /\ alone' = alone /\ overlap' = overlap
         /\ \A e : e = Edge(c) => On(c, e)'
<1>1. pc'[c] = to /\ \A d \in Calls \ {c} : pc'[d] = pc[d]
  BY DEF TypeInv, TypeOK
<1>2. Frame(c)
  BY <1>1 DEF Frame
<1>3. Writer(c)' /\ Edge(c)' = Edge(c)
  BY <1>1 DEF Writer, Served, Edge
<1>4. \A e : e = Edge(c) => On(c, e)'
  BY <1>1, <1>3 DEF On, Writer, Served, Both
<1>. QED  BY <1>1, <1>2, <1>3, <1>4

LEMMA UpsertFollowStep ==
  ASSUME IInv, TypeInv', NEW c \in Calls, UpsertFollow(c)
  PROVE  IInv'
<1>1. Writer(c) /\ call[c].kind = "follow" /\ pc[c] = "upsert" /\ TypeInv
  BY DEF UpsertFollow, Writer, Served, Writes, IInv, TypeInv
<1>2. PICK e \in Users \X Users : e = Edge(c)
  BY <1>1, OwnFacts
<1>3. e = <<call[c].user, call[c].target>>
  BY <1>1, <1>2 DEF Edge
<1>4. /\ follow' = follow \cup {e} /\ friend' = friend /\ block' = block
      /\ pc' = [pc EXCEPT ![c] = "check"] /\ found' = found
      /\ todo'[c] = {FollowQuery(Flip(e)), FriendQuery(e)}
      /\ \A d \in Calls \ {c} : todo'[d] = todo[d] /\ found'[d] = found[d]
      /\ UNCHANGED <<call, alone, overlap>>
  BY <1>1, <1>2, <1>3 DEF UpsertFollow, Quiet, history, TypeInv, TypeOK, FollowQuery, FriendQuery, Flip
<1>5. /\ Frame(c) /\ Writer(c)' /\ Edge(c)' = Edge(c) /\ pc'[c] = "check"
      /\ call'[c] = call[c] /\ alone' = alone /\ overlap' = overlap
  <2>1. \A f \in (Users \X Users) \ Both(Edge(c)) :
           (f \in follow' <=> f \in follow) /\ (f \in friend' <=> f \in friend) /\ (f \in block' <=> f \in block)
    BY <1>2, <1>4 DEF Both
  <2>2. "check" \in Labels \ {"idle"}
    BY DEF Labels
  <2>. QED  BY <1>1, <1>4, <2>1, <2>2, GotoFrame
<1>6. c \in alone' => Phase(c)'
  <2>1. c \in alone => found[c] = {}
    BY <1>1, OwnFacts DEF Phase, FollowPhase
  <2>. QED  BY <1>1, <1>2, <1>4, <1>5, <2>1 DEF Phase, FollowPhase
<1>7. Writer(c)' => LooksBack(c)' /\ Holding(c)'
  BY <1>5 DEF LooksBack, Holding
<1>8. ASSUME e \in Edges, e \notin overlap'
      PROVE  PairFits(e)'
  <2>1. PairFits(e) /\ Mutual(e)
    BY <1>1, <1>2, <1>5, <1>8, OwnFacts
  <2>. QED  BY <1>4, <2>1 DEF PairFits, Mutual, AreFriends
<1>. QED  BY <1>1, <1>2, <1>5, <1>6, <1>7, <1>8, OwnStep

LEMMA CheckStep ==
  ASSUME IInv, TypeInv', NEW c \in Calls, Check(c)
  PROVE  IInv'
<1>1. Writer(c) /\ call[c].kind = "follow" /\ pc[c] = "check" /\ TypeInv
  BY DEF Check, Writer, Served, Writes, IInv, TypeInv, InHandler, KindsAt
<1>2. PICK e \in Users \X Users : e = Edge(c)
  BY <1>1, OwnFacts
<1>3. PICK q \in todo[c] :
        /\ found' = [found EXCEPT ![c] = IF Present(q) THEN @ \cup {q} ELSE @]
        /\ todo' = [todo EXCEPT ![c] = @ \ {q}]
        /\ pc' = [pc EXCEPT ![c] = IF todo[c] = {q} THEN AfterCheck(found'[c]) ELSE "check"]
  BY DEF Check
<1>4. PICK to \in {"check", "create", "invalidate"} : pc' = [pc EXCEPT ![c] = to]
  BY <1>3 DEF AfterCheck
<1>5. UNCHANGED <<follow, friend, block, call, alone, overlap>>
  BY DEF Check, Quiet, history
<1>6. /\ Frame(c) /\ Writer(c)' /\ Edge(c)' = Edge(c) /\ pc'[c] = to
      /\ call'[c] = call[c] /\ alone' = alone /\ overlap' = overlap
  <2>1. \A d \in Calls \ {c} : todo'[d] = todo[d] /\ found'[d] = found[d]
    BY <1>1, <1>3 DEF TypeInv, TypeOK
  <2>2. to \in Labels \ {"idle"}
    BY DEF Labels
  <2>. QED  BY <1>1, <1>4, <1>5, <2>1, <2>2, GotoFrame
<1>7. ASSUME c \in alone
      PROVE  Phase(c)'
  <2> DEFINE rev == FollowQuery(Flip(e))
             fri == FriendQuery(e)
  <2>1. FollowPhase(c)
    BY <1>1, <1>7, OwnFacts DEF Phase
  <2>2. rev # fri /\ rev = <<"follow", e[2], e[1]>> /\ fri = <<"friend", e[1], e[2]>>
    BY DEF FollowQuery, FriendQuery, Flip
  <2>3. /\ e \in follow /\ todo[c] \subseteq {rev, fri} /\ found[c] \subseteq {rev, fri} \ todo[c]
        /\ rev \notin todo[c] => (rev \in found[c] <=> Flip(e) \in follow)
        /\ fri \notin todo[c] => (fri \in found[c] <=> AreFriends(e))
    BY <1>1, <1>2, <2>1 DEF FollowPhase
  <2>4. Present(rev) <=> Flip(e) \in follow
    BY <2>2 DEF Present, Flip
  <2>5. Present(fri) <=> AreFriends(e)
    BY <1>2, <2>2, PairFacts DEF Present
  <2>6. /\ todo'[c] = todo[c] \ {q}
        /\ found'[c] = IF Present(q) THEN found[c] \cup {q} ELSE found[c]
    BY <1>1, <1>3 DEF TypeInv, TypeOK
  <2>7. q = rev \/ q = fri
    BY <2>3
  <2>8. /\ todo'[c] \subseteq {rev, fri} /\ found'[c] \subseteq {rev, fri} \ todo'[c]
        /\ rev \notin todo'[c] => (rev \in found'[c] <=> Flip(e) \in follow)
        /\ fri \notin todo'[c] => (fri \in found'[c] <=> AreFriends(e))
    <3> HIDE DEF rev, fri
    <3>1. CASE q = rev
      BY <2>2, <2>3, <2>4, <2>6, <3>1
    <3>2. CASE q = fri
      BY <2>2, <2>3, <2>5, <2>6, <3>2
    <3>. QED  BY <2>7, <3>1, <3>2
  <2>9. CASE todo[c] # {q}
    <3>1. pc'[c] = "check"
      BY <1>1, <1>3, <2>9 DEF TypeInv, TypeOK
    <3>. QED  BY <1>1, <1>2, <1>5, <1>6, <2>3, <2>8, <3>1 DEF Phase, FollowPhase, AreFriends
  <2>10. CASE todo[c] = {q}
    <3>1. pc'[c] = AfterCheck(found'[c])
      BY <1>1, <1>3, <2>10 DEF TypeInv, TypeOK
    <3>2. rev \notin todo'[c] /\ fri \notin todo'[c]
      BY <2>6, <2>10
    <3>3. (rev \in found'[c] <=> Flip(e) \in follow) /\ (fri \in found'[c] <=> AreFriends(e))
          /\ found'[c] \subseteq {rev, fri}
      BY <2>8, <3>2
    <3>4. pc'[c] = "create" <=> rev \in found'[c] /\ fri \notin found'[c]
      <4>1. rev[1] = "follow" /\ fri[1] = "friend"
        BY <2>2
      <4> HIDE DEF rev, fri
      <4>2. (\E x \in found'[c] : x[1] = "friend") <=> fri \in found'[c]
        BY <3>3, <4>1
      <4>. QED  BY <2>2, <3>1, <3>3, <4>2 DEF AfterCheck
    <3>5. pc'[c] \in {"create", "invalidate"}
      BY <3>1 DEF AfterCheck
    <3>6. /\ pc'[c] = "create" => Flip(e) \in follow /\ ~AreFriends(e)
          /\ pc'[c] = "invalidate" => (Flip(e) \in follow => AreFriends(e))
      BY <3>3, <3>4, <3>5
    <3>. QED  BY <1>1, <1>2, <1>5, <1>6, <2>3, <3>5, <3>6 DEF Phase, FollowPhase, AreFriends
  <2>. QED  BY <2>9, <2>10
<1>8. Writer(c)' => LooksBack(c)' /\ Holding(c)'
  BY <1>6 DEF LooksBack, Holding
<1>9. ASSUME e \in Edges, e \notin overlap'
      PROVE  PairFits(e)'
  <2>1. PairFits(e) /\ Mutual(e)
    BY <1>1, <1>2, <1>6, <1>9, OwnFacts
  <2>. QED  BY <1>5, <2>1 DEF PairFits, Mutual, AreFriends
<1>. QED  BY <1>1, <1>2, <1>6, <1>7, <1>8, <1>9, OwnStep

LEMMA CreateFriendStep ==
  ASSUME IInv, TypeInv', NEW c \in Calls, CreateFriend(c)
  PROVE  IInv'
<1>1. Writer(c) /\ call[c].kind = "follow" /\ pc[c] = "create" /\ TypeInv
  BY DEF CreateFriend, Writer, Served, Writes, IInv, TypeInv, InHandler, KindsAt
<1>2. PICK e \in Users \X Users : e = Edge(c)
  BY <1>1, OwnFacts
<1>3. /\ friend' = friend \cup {e} /\ Goto(c, "invalidate")
      /\ UNCHANGED <<follow, block, alone, overlap>>
  BY <1>2 DEF CreateFriend, Quiet, history
<1>4. /\ Frame(c) /\ Writer(c)' /\ Edge(c)' = Edge(c) /\ pc'[c] = "invalidate"
      /\ call'[c] = call[c] /\ alone' = alone /\ overlap' = overlap
  <2>1. "invalidate" \in Labels \ {"idle"}
    BY DEF Labels
  <2>2. \A f \in (Users \X Users) \ Both(Edge(c)) :
           (f \in follow' <=> f \in follow) /\ (f \in friend' <=> f \in friend) /\ (f \in block' <=> f \in block)
    BY <1>2, <1>3 DEF Both
  <2>. QED  BY <1>1, <1>3, <2>1, <2>2, GotoFrame DEF Goto
<1>5. c \in alone => e \in follow /\ Flip(e) \in follow /\ ~AreFriends(e)
  BY <1>1, <1>2, OwnFacts DEF Phase, FollowPhase
<1>6. AreFriends(e)'
  BY <1>3 DEF AreFriends, Both
<1>7. c \in alone' => Phase(c)'
  BY <1>1, <1>2, <1>3, <1>4, <1>5, <1>6 DEF Phase, FollowPhase, AreFriends, Both, Flip
<1>8. Writer(c)' => LooksBack(c)' /\ Holding(c)'
  BY <1>4 DEF LooksBack, Holding
<1>9. ASSUME e \in Edges, e \notin overlap'
      PROVE  PairFits(e)'
  <2>1. c \in alone /\ Flip(e) # e
    BY <1>1, <1>2, <1>4, <1>9, OwnFacts DEF Edges, Flip
  <2>2. Flip(e) \notin friend'
    BY <1>3, <1>5, <2>1 DEF AreFriends, Both
  <2>. QED  BY <1>3, <1>5, <2>1, <2>2 DEF PairFits, Mutual, Flip
<1>. QED  BY <1>1, <1>2, <1>4, <1>7, <1>8, <1>9, OwnStep

LEMMA CreateFriendLostStep ==
  ASSUME IInv, TypeInv', NEW c \in Calls, CreateFriendLost(c)
  PROVE  IInv'
<1>1. Writer(c) /\ pc[c] = "create" /\ Leave(c) /\ UNCHANGED <<tables, overlap>>
  BY DEF CreateFriendLost, Writer, Served, Writes, IInv, InHandler, KindsAt
<1>. QED  BY <1>1, LeaveStep

LEMMA FindFollowStep ==
  ASSUME IInv, TypeInv', NEW c \in Calls, FindFollow(c)
  PROVE  IInv'
<1>1. Writer(c) /\ call[c].kind \in {"unfollow", "remove"} /\ pc[c] = "find" /\ TypeInv
      /\ UNCHANGED <<tables, overlap>>
  BY DEF FindFollow, Writer, Served, Writes, IInv, TypeInv
<1>2. CASE Leave(c)
  BY <1>1, <1>2, LeaveStep
<1>3. CASE Goto(c, "delete") /\ UNCHANGED alone
  <2>1. PICK e \in Users \X Users : e = Edge(c)
    BY <1>1, OwnFacts
  <2>2. /\ Frame(c) /\ Writer(c)' /\ Edge(c)' = Edge(c) /\ pc'[c] = "delete"
        /\ call'[c] = call[c] /\ alone' = alone /\ overlap' = overlap
    <3>1. "delete" \in Labels \ {"idle"}
      BY DEF Labels
    <3>. QED  BY <1>1, <1>3, <3>1, GotoFrame DEF Goto, tables
  <2>3. Phase(c)' /\ LooksBack(c)' /\ Holding(c)'
    BY <1>1, <2>2 DEF Phase, LooksBack, Holding
  <2>4. ASSUME e \in Edges, e \notin overlap'
        PROVE  PairFits(e)'
    <3>1. PairFits(e) /\ Mutual(e)
      BY <1>1, <2>1, <2>2, <2>4, OwnFacts
    <3>. QED  BY <1>1, <3>1 DEF PairFits, Mutual, AreFriends, tables
  <2>. QED  BY <1>1, <2>1, <2>2, <2>3, <2>4, OwnStep
<1>. QED  BY <1>2, <1>3 DEF FindFollow

LEMMA DeleteFollowStep ==
  ASSUME IInv, TypeInv', NEW c \in Calls, DeleteFollow(c)
  PROVE  IInv'
<1>1. Writer(c) /\ call[c].kind \in {"unfollow", "remove"} /\ pc[c] = "delete" /\ TypeInv
  BY DEF DeleteFollow, Writer, Served, Writes, IInv, TypeInv, InHandler, KindsAt
<1>2. PICK e \in Users \X Users : e = Edge(c)
  BY <1>1, OwnFacts
<1>3. /\ follow' = follow \ {e} /\ Goto(c, "reverse")
      /\ UNCHANGED <<friend, block, alone, overlap>>
  BY <1>2 DEF DeleteFollow, Quiet, history
<1>4. /\ Frame(c) /\ Writer(c)' /\ Edge(c)' = Edge(c) /\ pc'[c] = "reverse"
      /\ call'[c] = call[c] /\ alone' = alone /\ overlap' = overlap
      /\ On(c, e)'
  <2>1. "reverse" \in Labels \ {"idle"}
    BY DEF Labels
  <2>2. \A f \in (Users \X Users) \ Both(Edge(c)) :
           (f \in follow' <=> f \in follow) /\ (f \in friend' <=> f \in friend) /\ (f \in block' <=> f \in block)
    BY <1>2, <1>3 DEF Both
  <2>3. pc' = [pc EXCEPT ![c] = "reverse"] /\ UNCHANGED <<call, todo, found>>
    BY <1>3 DEF Goto
  <2>. QED  BY <1>1, <1>2, <1>3, <2>1, <2>2, <2>3, GotoFrame
<1>5. Phase(c)' /\ Holding(c)'
  BY <1>1, <1>4 DEF Phase, Holding
<1>6. LooksBack(c)'
  <2>1. SUFFICES ASSUME e \notin overlap, AreFriends(e)
                 PROVE  Flip(e) \in follow'
    BY <1>2, <1>3, <1>4 DEF LooksBack, AreFriends, Both, Flip
  <2>2. e \in Edges /\ Mutual(e)
    BY <1>1, <1>2, <2>1, OwnFacts
  <2>3. Flip(e) # e
    BY <2>2 DEF Edges, Flip
  <2>. QED  BY <1>3, <2>1, <2>2, <2>3 DEF Mutual
<1>7. ASSUME e \in Edges, e \notin overlap'
      PROVE  PairFits(e)'
  <2>1. PairFits(e)
    BY <1>1, <1>2, <1>4, <1>7, OwnFacts
  <2>. QED  BY <1>3, <1>4, <2>1 DEF PairFits, Flip
<1>. QED  BY <1>1, <1>2, <1>4, <1>5, <1>6, <1>7, OwnStep

LEMMA ReadReverseStep ==
  ASSUME IInv, TypeInv', NEW c \in Calls, ReadReverse(c)
  PROVE  IInv'
<1>1. Writer(c) /\ call[c].kind \in {"unfollow", "remove"} /\ pc[c] = "reverse" /\ TypeInv
  BY DEF ReadReverse, Writer, Served, Writes, IInv, TypeInv, InHandler, KindsAt
<1>2. PICK e \in Users \X Users : e = Edge(c)
  BY <1>1, OwnFacts
<1>3. PICK to \in {"unfriend", "invalidate"} :
        Goto(c, to) /\ (to = "unfriend" <=> Flip(e) \in follow)
  BY <1>2 DEF ReadReverse
<1>4. UNCHANGED <<follow, friend, block, alone, overlap>>
  BY DEF ReadReverse, Quiet, history
<1>5. /\ Frame(c) /\ Writer(c)' /\ Edge(c)' = Edge(c) /\ pc'[c] = to
      /\ call'[c] = call[c] /\ alone' = alone /\ overlap' = overlap
      /\ On(c, e)'
  <2>1. to \in Labels \ {"idle"}
    BY DEF Labels
  <2>. QED  BY <1>1, <1>2, <1>3, <1>4, <2>1, GotoFrame DEF Goto
<1>6. Phase(c)' /\ LooksBack(c)' /\ Holding(c)'
  BY <1>1, <1>5 DEF Phase, LooksBack, Holding
<1>7. ASSUME e \in Edges, e \notin overlap'
      PROVE  PairFits(e)'
  <2>1. PairFits(e) /\ (AreFriends(e) => Flip(e) \in follow)
    BY <1>1, <1>2, <1>5, <1>7, OwnFacts DEF LooksBack
  <2>2. CASE to = "unfriend"
    BY <1>4, <1>5, <2>1, <2>2 DEF PairFits, Flip
  <2>3. CASE to = "invalidate"
    BY <1>3, <1>4, <2>1, <2>3 DEF PairFits, Mutual, AreFriends
  <2>. QED  BY <2>2, <2>3
<1>. QED  BY <1>1, <1>2, <1>5, <1>6, <1>7, OwnStep

LEMMA DeleteFriendStep ==
  ASSUME IInv, TypeInv', NEW c \in Calls, DeleteFriend(c)
  PROVE  IInv'
<1>1. Writer(c) /\ call[c].kind \in {"unfollow", "remove", "unfriend"} /\ pc[c] = "unfriend" /\ TypeInv
  BY DEF DeleteFriend, Writer, Served, Writes, IInv, TypeInv, InHandler, KindsAt
<1>2. PICK e \in Users \X Users : e = Edge(c)
  BY <1>1, OwnFacts
<1>3. /\ friend' = friend \ Both(e) /\ Goto(c, "invalidate")
      /\ UNCHANGED <<follow, block, alone, overlap>>
  BY <1>2 DEF DeleteFriend, Quiet, history
<1>4. /\ Frame(c) /\ Writer(c)' /\ Edge(c)' = Edge(c) /\ pc'[c] = "invalidate"
      /\ call'[c] = call[c] /\ alone' = alone /\ overlap' = overlap
  <2>1. "invalidate" \in Labels \ {"idle"}
    BY DEF Labels
  <2>2. \A f \in (Users \X Users) \ Both(Edge(c)) :
           (f \in follow' <=> f \in follow) /\ (f \in friend' <=> f \in friend) /\ (f \in block' <=> f \in block)
    BY <1>2, <1>3
  <2>. QED  BY <1>1, <1>3, <2>1, <2>2, GotoFrame DEF Goto
<1>5. ~AreFriends(e)' /\ e \notin friend'
  BY <1>3 DEF AreFriends, Both
<1>6. Phase(c)' /\ LooksBack(c)' /\ Holding(c)'
  BY <1>1, <1>2, <1>4, <1>5 DEF Phase, LooksBack, Holding, AreFriends, Both, Flip
<1>7. PairFits(e)'
  BY <1>5 DEF PairFits, Mutual
<1>. QED  BY <1>1, <1>2, <1>4, <1>6, <1>7, OwnStep

LEMMA InvalidateStep ==
  ASSUME IInv, TypeInv', NEW c \in Calls, Invalidate(c)
  PROVE  IInv'
<1>1. Writer(c) /\ call[c].kind \in {"follow", "unfollow", "remove", "unfriend"} /\ pc[c] = "invalidate"
      /\ TypeInv /\ Leave(c) /\ UNCHANGED tables
  BY DEF Invalidate, Writer, Served, Writes, IInv, TypeInv, InHandler, KindsAt
<1>2. CASE overlap' = overlap
  BY <1>1, <1>2, LeaveStep
<1>3. CASE c \in alone /\ call[c].kind = "unfriend" /\ overlap' = overlap \ Both(Edge(c))
  <2>1. PICK e \in Users \X Users : e = Edge(c)
    BY <1>1, OwnFacts
  <2>2. Frame(c) /\ ~Writer(c)' /\ c \notin alone'
    BY <1>1, <1>3, LeaveFrame
  <2>3. ~AreFriends(e)
    BY <1>1, <1>3, <2>1, OwnFacts DEF Phase
  <2>4. PairFits(e)'
    BY <1>1, <2>3 DEF PairFits, Mutual, AreFriends, Both, tables
  <2>. QED  BY <1>1, <2>1, <2>2, <2>4, OwnStep
<1>. QED  BY <1>1, <1>2, <1>3 DEF Invalidate, Healed

LEMMA UpsertBlockStep ==
  ASSUME IInv, TypeInv', NEW c \in Calls, UpsertBlock(c)
  PROVE  IInv'
<1>1. Writer(c) /\ call[c].kind = "block" /\ pc[c] = "upsert" /\ TypeInv
  BY DEF UpsertBlock, Writer, Served, Writes, IInv, TypeInv
<1>2. PICK e \in Users \X Users : e = Edge(c)
  BY <1>1, OwnFacts
<1>3. /\ block' = block \cup {e} /\ follow' = follow /\ friend' = friend
      /\ pc' = [pc EXCEPT ![c] = "sever"]
      /\ todo'[c] = {FollowQuery(f) : f \in Both(e)}
      /\ \A d \in Calls \ {c} : todo'[d] = todo[d] /\ found'[d] = found[d]
      /\ UNCHANGED <<call, alone, overlap>>
  BY <1>1, <1>2 DEF UpsertBlock, history, TypeInv, TypeOK, FollowQuery
<1>4. /\ Frame(c) /\ Writer(c)' /\ Edge(c)' = Edge(c) /\ pc'[c] = "sever"
      /\ call'[c] = call[c] /\ alone' = alone /\ overlap' = overlap /\ On(c, e)'
  <2>1. \A f \in (Users \X Users) \ Both(Edge(c)) :
           (f \in follow' <=> f \in follow) /\ (f \in friend' <=> f \in friend) /\ (f \in block' <=> f \in block)
    BY <1>2, <1>3 DEF Both
  <2>2. "sever" \in Labels \ {"idle"}
    BY DEF Labels
  <2>. QED  BY <1>1, <1>2, <1>3, <2>1, <2>2, GotoFrame
<1>5. Phase(c)' /\ LooksBack(c)' /\ Holding(c)'
  BY <1>1, <1>2, <1>3, <1>4 DEF Phase, BlockPhase, LooksBack, Holding, Both, Flip, FollowQuery
<1>6. ASSUME e \in Edges, e \notin overlap'
      PROVE  PairFits(e)'
  <2>1. PairFits(e)
    BY <1>1, <1>2, <1>4, <1>6, OwnFacts
  <2>. QED  BY <1>3, <1>4, <2>1 DEF PairFits, Flip
<1>. QED  BY <1>1, <1>2, <1>4, <1>5, <1>6, OwnStep

LEMMA SeverStep ==
  ASSUME IInv, TypeInv', NEW c \in Calls, Sever(c)
  PROVE  IInv'
<1>1. Writer(c) /\ call[c].kind = "block" /\ pc[c] = "sever" /\ TypeInv
  BY DEF Sever, Writer, Served, Writes, IInv, TypeInv, InHandler, KindsAt
<1>2. PICK e \in Users \X Users : e = Edge(c)
  BY <1>1, OwnFacts
<1>3. PICK q \in todo[c] :
        /\ follow' = follow \ {<<q[2], q[3]>>}
        /\ todo' = [todo EXCEPT ![c] = IF @ = {q} THEN Severing(c) ELSE @ \ {q}]
        /\ pc' = [pc EXCEPT ![c] = IF todo[c] = {q} THEN "part" ELSE "sever"]
  BY DEF Sever
<1>4. UNCHANGED <<friend, block, call, found, alone, overlap>>
  BY DEF Sever, Quiet, history
<1>5. c \in alone => BlockPhase(c)
  BY <1>1, OwnFacts DEF Phase
<1>6. PICK to \in {"sever", "part"} : pc' = [pc EXCEPT ![c] = to] /\ (to = "part" <=> todo[c] = {q})
  BY <1>3
<1>7. pc'[c] = to /\ LooksBack(c)'
  BY <1>1, <1>6 DEF LooksBack, TypeInv, TypeOK
<1>8. /\ todo[c] \subseteq {FollowQuery(f) : f \in Both(e)}
      /\ c \in alone => /\ e \in block
                        /\ \A f \in Both(e) : f \in follow => FollowQuery(f) \in todo[c]
  BY <1>1, <1>2, <1>5, OwnFacts DEF BlockPhase, Holding
<1>9. \A f \in Both(e) : f \in Users \X Users
  BY DEF Both, Flip
<1>10. ASSUME c \in alone
       PROVE  Phase(c)'
  <2>1. call'[c] = call[c] /\ Edge(c)' = e
    BY <1>2, <1>4 DEF Edge
  <2>2. CASE to = "sever"
    <3>1. todo'[c] = todo[c] \ {q}
      BY <1>1, <1>3, <1>6, <2>2 DEF TypeInv, TypeOK
    <3>2. \A f \in Both(e) : f \in follow' => FollowQuery(f) \in todo'[c]
      BY <1>3, <1>8, <1>9, <1>10, <3>1 DEF FollowQuery
    <3>. QED  BY <1>1, <1>4, <1>7, <1>8, <1>10, <2>1, <2>2, <3>2 DEF Phase, BlockPhase, Both, Flip, FollowQuery
  <2>3. CASE to = "part"
    <3>1. todo'[c] = {FriendQuery(f) : f \in Both(e)}
      BY <1>1, <1>2, <1>3, <1>6, <2>3 DEF TypeInv, TypeOK, Severing, FriendQuery
    <3>2. ASSUME NEW f \in Both(e), f \in follow'
          PROVE  FALSE
      <4>1. FollowQuery(f) = q
        BY <1>3, <1>6, <1>8, <1>10, <2>3, <3>2
      <4>2. f = <<q[2], q[3]>>
        BY <1>9, <4>1 DEF FollowQuery
      <4>. QED  BY <1>3, <3>2, <4>2
    <3>. QED  BY <1>1, <1>4, <1>7, <1>8, <1>10, <2>1, <2>3, <3>1, <3>2 DEF Phase, BlockPhase, Both, Flip, FriendQuery
  <2>. QED  BY <2>2, <2>3
<1>11. Frame(c) /\ Writer(c)' /\ alone' = alone /\ overlap' = overlap /\ On(c, e)'
  <2>1. to \in Labels \ {"idle"}
    BY DEF Labels
  <2>2. \A d \in Calls \ {c} : todo'[d] = todo[d] /\ found'[d] = found[d]
    BY <1>1, <1>3, <1>4 DEF TypeInv, TypeOK
  <2>3. <<q[2], q[3]>> \in Both(e)
    <3>1. PICK f \in Both(e) : q = FollowQuery(f)
      BY <1>8
    <3>2. f = <<q[2], q[3]>>
      BY <1>9, <3>1 DEF FollowQuery
    <3>. QED  BY <3>1, <3>2
  <2>4. \A f \in (Users \X Users) \ Both(Edge(c)) :
           (f \in follow' <=> f \in follow) /\ (f \in friend' <=> f \in friend) /\ (f \in block' <=> f \in block)
    BY <1>2, <1>3, <1>4, <2>3
  <2>. QED  BY <1>1, <1>2, <1>4, <1>6, <2>1, <2>2, <2>4, GotoFrame
<1>12. ASSUME e \in Edges, e \notin overlap'
       PROVE  PairFits(e)'
  <2>1. PairFits(e)
    BY <1>1, <1>2, <1>11, <1>12, OwnFacts
  <2>. QED  BY <1>4, <1>7, <1>11, <2>1 DEF PairFits, Flip
<1>13. Holding(c)'
  <2>1. Edge(c)' = e
    BY <1>2, <1>4 DEF Edge
  <2>2. CASE to = "sever"
    BY <1>1, <1>3, <1>6, <1>7, <1>8, <2>1, <2>2 DEF Holding, TypeInv, TypeOK, Both, Flip, FollowQuery
  <2>3. CASE to = "part"
    BY <1>1, <1>2, <1>3, <1>6, <1>7, <2>1, <2>3 DEF Holding, TypeInv, TypeOK, Both, Flip, Severing, FriendQuery
  <2>. QED  BY <2>2, <2>3
<1>. QED  BY <1>1, <1>2, <1>7, <1>10, <1>11, <1>12, <1>13, OwnStep

(* The last statement of a block that ran alone leaves nothing between the two. *)
LEMMA PartFacts ==
  ASSUME IInv, NEW c \in Calls, pc[c] = "part", NEW q \in todo[c], friend' = friend \ {<<q[2], q[3]>>}
  PROVE  /\ Writer(c) /\ call[c].kind = "block" /\ Edge(c) \in Users \X Users
         /\ <<q[2], q[3]>> \in Both(Edge(c))
         /\ c \in alone => /\ Edge(c) \in block
                           /\ \A f \in Both(Edge(c)) : f \notin follow
                           /\ \A f \in Both(Edge(c)) : f \in friend' => FriendQuery(f) \in todo[c] \ {q}
<1>1. Writer(c) /\ call[c].kind = "block"
  BY DEF Writer, Served, Writes, IInv, InHandler, KindsAt
<1>2. PICK e \in Users \X Users : e = Edge(c)
  BY <1>1, OwnFacts
<1>3. \A f \in Both(e) : f \in Users \X Users
  BY DEF Both, Flip
<1>4. /\ todo[c] \subseteq {FriendQuery(f) : f \in Both(e)}
      /\ c \in alone => BlockPhase(c)
  BY <1>1, <1>2, OwnFacts DEF Phase, Holding
<1>5. PICK g \in Both(e) : q = FriendQuery(g)
  BY <1>4
<1>6. g = <<q[2], q[3]>>
  BY <1>3, <1>5 DEF FriendQuery
<1>7. ASSUME c \in alone
      PROVE  /\ e \in block
             /\ \A f \in Both(e) : f \notin follow
             /\ \A f \in Both(e) : f \in friend => FriendQuery(f) \in todo[c]
  BY <1>2, <1>4, <1>7 DEF BlockPhase
<1>8. ASSUME c \in alone, NEW f \in Both(e), f \in friend'
      PROVE  FriendQuery(f) \in todo[c] \ {q}
  <2>1. f # g /\ FriendQuery(f) \in todo[c]
    BY <1>6, <1>7, <1>8
  <2>2. FriendQuery(f) # q
    BY <1>3, <1>5, <2>1 DEF FriendQuery
  <2>. QED  BY <2>1, <2>2
<1>. QED  BY <1>1, <1>2, <1>5, <1>6, <1>7, <1>8

LEMMA PartStep ==
  ASSUME IInv, TypeInv', NEW c \in Calls, Part(c)
  PROVE  IInv'
<1>1. PICK q \in todo[c] :
        /\ friend' = friend \ {<<q[2], q[3]>>}
        /\ \/ /\ todo[c] = {q} /\ Leave(c) /\ overlap' = overlap \ Healed(c)
           \/ /\ todo[c] # {q}
              /\ todo' = [todo EXCEPT ![c] = @ \ {q}]
              /\ UNCHANGED <<pc, call, found, alone, overlap>>
  BY DEF Part
<1>2. pc[c] = "part" /\ UNCHANGED <<follow, block>> /\ TypeInv
  BY DEF Part, IInv, TypeInv
<1>3. PICK e \in Users \X Users : e = Edge(c)
  BY <1>1, <1>2, PartFacts
<1>4. /\ Writer(c) /\ call[c].kind = "block" /\ <<q[2], q[3]>> \in Both(e)
      /\ c \in alone => /\ e \in block
                        /\ \A f \in Both(e) : f \notin follow
                        /\ \A f \in Both(e) : f \in friend' => FriendQuery(f) \in todo[c] \ {q}
  BY <1>1, <1>2, <1>3, PartFacts
<1>5. \A f \in (Users \X Users) \ Both(Edge(c)) :
         (f \in follow' <=> f \in follow) /\ (f \in friend' <=> f \in friend) /\ (f \in block' <=> f \in block)
  BY <1>1, <1>2, <1>3, <1>4
<1>6. CASE todo[c] = {q} /\ Leave(c) /\ overlap' = overlap \ Healed(c)
  <2>1. UNCHANGED overlap \/ (overlap' = overlap \ Both(Edge(c)) /\ c \in alone)
    BY <1>6 DEF Healed
  <2>2. Frame(c) /\ ~Writer(c)' /\ c \notin alone'
    <3>1. pc'[c] = "idle" /\ c \notin alone'
      BY <1>2, <1>6 DEF Leave, TypeInv, TypeOK
    <3>2. \A d \in Calls \ {c} :
            /\ pc'[d] = pc[d] /\ call'[d] = call[d] /\ todo'[d] = todo[d] /\ found'[d] = found[d]
            /\ d \in alone' <=> d \in alone
      BY <1>2, <1>6 DEF Leave, TypeInv, TypeOK
    <3>. QED  BY <1>5, <2>1, <3>1, <3>2 DEF Frame, Writer, Served
  <2>3. ASSUME e \in Edges, e \notin overlap'
        PROVE  PairFits(e)'
    <3>1. c \in alone
      BY <1>3, <1>4, <2>1, <2>3, OwnFacts
    <3>2. e \notin friend' /\ Flip(e) \notin friend'
      BY <1>4, <1>6, <3>1 DEF Both
    <3>. QED  BY <3>2 DEF PairFits, Mutual, AreFriends, Both, Flip
  <2>. QED  BY <1>3, <1>4, <2>2, <2>3, OwnStep
<1>7. CASE /\ todo' = [todo EXCEPT ![c] = @ \ {q}]
           /\ UNCHANGED <<pc, call, found, alone, overlap>>
  <2>1. Writer(c)' /\ Edge(c)' = e /\ On(c, e)' /\ todo'[c] = todo[c] \ {q}
    BY <1>2, <1>3, <1>4, <1>7 DEF Writer, Served, Edge, On, Both, TypeInv, TypeOK
  <2>2. Frame(c)
    BY <1>2, <1>5, <1>7 DEF Frame, TypeInv, TypeOK
  <2>3. Holding(c)
    BY <1>4, OwnFacts
  <2>4. Holding(c)' /\ LooksBack(c)'
    BY <1>2, <1>3, <1>7, <2>1, <2>3 DEF Holding, LooksBack, Both, Flip, FriendQuery
  <2>5. c \in alone' => Phase(c)'
    BY <1>2, <1>4, <1>7, <2>1 DEF Phase, BlockPhase, Both, Flip, FriendQuery
  <2>6. ASSUME e \in Edges, e \notin overlap'
        PROVE  PairFits(e)'
    <3>1. PairFits(e)
      BY <1>3, <1>4, <1>7, <2>6, OwnFacts
    <3>. QED  BY <1>1, <1>2, <1>7, <2>1, <3>1 DEF PairFits, Flip
  <2>. QED  BY <1>3, <1>4, <2>2, <2>4, <2>5, <2>6, OwnStep
<1>. QED  BY <1>1, <1>6, <1>7

LEMMA FindBlockStep ==
  ASSUME IInv, TypeInv', NEW c \in Calls, FindBlock(c)
  PROVE  IInv'
<1>1. Writer(c) /\ call[c].kind = "unblock" /\ pc[c] = "find" /\ TypeInv
      /\ UNCHANGED <<follow, friend, block, overlap>>
  BY DEF FindBlock, Writer, Served, Writes, IInv, TypeInv, tables
<1>2. CASE Leave(c)
  BY <1>1, <1>2, LeaveStep DEF tables
<1>3. CASE /\ found' = [found EXCEPT ![c] = {<<"block", Edge(c)[1], Edge(c)[2]>>}]
           /\ pc' = [pc EXCEPT ![c] = "drop"]
           /\ UNCHANGED <<call, todo, alone>>
  <2>1. PICK e \in Users \X Users : e = Edge(c)
    BY <1>1, OwnFacts
  <2>2. /\ Frame(c) /\ Writer(c)' /\ Edge(c)' = Edge(c) /\ pc'[c] = "drop"
        /\ call'[c] = call[c] /\ alone' = alone /\ overlap' = overlap
    <3>1. "drop" \in Labels \ {"idle"}
      BY DEF Labels
    <3>2. \A d \in Calls \ {c} : todo'[d] = todo[d] /\ found'[d] = found[d]
      BY <1>1, <1>3 DEF TypeInv, TypeOK
    <3>. QED  BY <1>1, <1>3, <3>1, <3>2, GotoFrame
  <2>3. Phase(c)' /\ LooksBack(c)'
    BY <1>1, <2>2 DEF Phase, LooksBack
  <2>4. Holding(c)'
    BY <1>1, <1>3, <2>2 DEF Holding, TypeInv, TypeOK
  <2>5. ASSUME e \in Edges, e \notin overlap'
        PROVE  PairFits(e)'
    <3>1. PairFits(e) /\ Mutual(e)
      BY <1>1, <2>1, <2>2, <2>5, OwnFacts
    <3>. QED  BY <1>1, <3>1 DEF PairFits, Mutual, AreFriends
  <2>. QED  BY <1>1, <2>1, <2>2, <2>3, <2>4, <2>5, OwnStep
<1>. QED  BY <1>2, <1>3 DEF FindBlock

LEMMA DropBlockStep ==
  ASSUME IInv, TypeInv', NEW c \in Calls, DropBlock(c)
  PROVE  IInv'
<1>1. Writer(c) /\ call[c].kind = "unblock" /\ pc[c] = "drop" /\ TypeInv
      /\ UNCHANGED <<follow, friend, overlap>>
  BY DEF DropBlock, Writer, Served, Writes, IInv, TypeInv, InHandler, KindsAt
<1>2. PICK e \in Users \X Users : e = Edge(c)
  BY <1>1, OwnFacts
<1>3. found[c] \subseteq {<<"block", e[1], e[2]>>}
  BY <1>1, <1>2, OwnFacts DEF Holding
<1>4. \A q \in found[c] : <<q[2], q[3]>> = e
  BY <1>3
<1>5. \A f \in (Users \X Users) \ Both(Edge(c)) :
         (f \in follow' <=> f \in follow) /\ (f \in friend' <=> f \in friend) /\ (f \in block' <=> f \in block)
  <2>1. block' = block \ {<<q[2], q[3]>> : q \in found[c]}
    BY DEF DropBlock
  <2>. QED  BY <1>1, <1>2, <1>4, <2>1 DEF Both
<1>6. /\ \A d \in Calls \ {c} : /\ pc'[d] = pc[d] /\ call'[d] = call[d] /\ todo'[d] = todo[d]
                                /\ found'[d] = found[d] \/ (pc[d] = "drop" /\ found'[d] \subseteq found[d])
                                /\ d \in alone' <=> d \in alone
      /\ pc'[c] = "idle" /\ c \notin alone'
  BY <1>1 DEF DropBlock, TypeInv, TypeOK
<1>7. Frame(c) /\ ~Writer(c)'
  BY <1>1, <1>5, <1>6 DEF Frame, Writer, Served
<1>8. ASSUME e \in Edges, e \notin overlap'
      PROVE  PairFits(e)'
  <2>1. PairFits(e) /\ Mutual(e)
    BY <1>1, <1>2, <1>8, OwnFacts
  <2>. QED  BY <1>1, <2>1 DEF PairFits, Mutual, AreFriends
<1>. QED  BY <1>1, <1>2, <1>6, <1>7, <1>8, OwnStep

(* Steps of list requests, of the cache, and none at all. *)
LEMMA AsideStep ==
  ASSUME IInv, TypeInv', UNCHANGED <<tables, overlap>>,
         \A d \in Calls :
           /\ Writer(d)' <=> Writer(d)
           /\ Writer(d) => /\ pc'[d] = pc[d] /\ call'[d] = call[d] /\ todo'[d] = todo[d] /\ found'[d] = found[d]
                           /\ d \in alone' <=> d \in alone
  PROVE  IInv'
<1>1. TypeInv /\ Disturbed /\ Phases /\ Pairs /\ Reversal /\ Holdings
  BY DEF IInv, TypeInv
<1>2. ASSUME NEW d \in Calls, Writer(d)
      PROVE  Edge(d)' = Edge(d) /\ pc'[d] = pc[d] /\ call'[d] = call[d] /\ \A e : On(d, e)' = On(d, e)
  BY <1>2, OnSame
<1>3. \A d \in Calls : \A e : On(d, e)' <=> On(d, e)
  BY <1>2 DEF On, Writer, Served
<1>4. Disturbed'
  <2>1. \A e \in overlap' : Flip(e) \in overlap'
    BY <1>1 DEF Disturbed
  <2>2. \A c \in Calls : Writer(c)' /\ Edge(c)' \notin overlap' => c \in alone'
    BY <1>1, <1>2 DEF Disturbed
  <2>3. ASSUME NEW c \in Calls, NEW d \in Calls, c # d, Writer(c)', On(d, Edge(c))'
        PROVE  c \notin alone' /\ Edge(c)' \in overlap'
    <3>1. Writer(c) /\ Writer(d)' /\ Edge(d)' \in Both(Edge(c))'
      BY <2>3 DEF On, Writer, Served
    <3>2. Writer(d) /\ Edge(d)' = Edge(d) /\ Edge(c)' = Edge(c)
      BY <1>2, <3>1
    <3>3. On(d, Edge(c))
      BY <3>1, <3>2 DEF On, Writer, Served, Both, Flip
    <3>. QED  BY <1>1, <2>3, <3>1, <3>2, <3>3 DEF Disturbed
  <2>. QED  BY <2>1, <2>2, <2>3 DEF Disturbed
<1>5. ASSUME NEW d \in alone', Writer(d)'
      PROVE  Phase(d)'
  <2>1. d \in Calls
    BY DEF TypeInv, TypeOK
  <2>2. Writer(d) /\ Phase(d) /\ pc'[d] = pc[d] /\ call'[d] = call[d] /\ todo'[d] = todo[d] /\ found'[d] = found[d]
    BY <1>1, <1>5, <2>1 DEF Phases
  <2>. QED  BY <1>1, <2>1, <2>2, SamePhase DEF tables
<1>6. ASSUME NEW d \in Calls, Writer(d)'
      PROVE  LooksBack(d)' /\ Holding(d)'
  <2>1. Writer(d) /\ LooksBack(d) /\ Holding(d) /\ Edge(d)' = Edge(d) /\ pc'[d] = pc[d]
        /\ todo'[d] = todo[d] /\ found'[d] = found[d]
    BY <1>1, <1>2, <1>6 DEF Reversal, Holdings
  <2>. QED  BY <2>1 DEF LooksBack, Holding, AreFriends, Both, Flip, FollowQuery, FriendQuery, tables
<1>7. ASSUME NEW e \in Edges \ overlap'
      PROVE  PairFits(e)'
  <2>1. PairFits(e)
    BY <1>1, <1>7 DEF Pairs
  <2>2. \A d \in Calls : On(d, e) => On(d, e)' /\ pc'[d] = pc[d]
    BY <1>3 DEF On, Writer, Served
  <2>3. CASE Mutual(e)
    BY <2>1, <2>3 DEF PairFits, Mutual, AreFriends, Both, Flip, tables
  <2>4. CASE \E d \in Calls : On(d, e) /\ pc[d] \in {"reverse", "unfriend", "sever", "part"}
    BY <2>1, <2>2, <2>4 DEF PairFits, Flip, tables
  <2>. QED  BY <2>1, <2>3, <2>4 DEF PairFits
<1>. QED  BY <1>4, <1>5, <1>6, <1>7 DEF IInv, TypeInv, Phases, Reversal, Pairs, Holdings

LEMMA ListStep ==
  ASSUME IInv, TypeInv', NEW c \in Calls, Served(c), ~Writer(c), Query(c) \/ Fill(c) \/ Crash(c)
  PROVE  IInv'
<1>1. call[c].kind = "list" /\ TypeInv
  BY EdgeFacts DEF Writer, Call, IInv, TypeInv
<1>2. UNCHANGED <<tables, overlap>>
  BY <1>1 DEF Query, Fill, Crash, history
<1>3. /\ pc' = [pc EXCEPT ![c] = pc'[c]] /\ call' = [call EXCEPT ![c] = call'[c]]
      /\ todo' = [todo EXCEPT ![c] = todo'[c]] /\ found' = [found EXCEPT ![c] = found'[c]]
      /\ alone' \in {alone, alone \ {c}} /\ (pc'[c] = "idle" \/ call'[c] = call[c])
  BY <1>1 DEF Query, Fill, Crash, Leave, history, TypeInv, TypeOK
<1>4. ~Writer(c)'
  BY <1>1, <1>3 DEF Writer, Served, Writes
<1>5. ASSUME NEW d \in Calls, d # c
      PROVE  /\ pc'[d] = pc[d] /\ call'[d] = call[d] /\ todo'[d] = todo[d] /\ found'[d] = found[d]
             /\ d \in alone' <=> d \in alone
             /\ Writer(d)' <=> Writer(d)
  <2>1. /\ pc'[d] = pc[d] /\ call'[d] = call[d] /\ todo'[d] = todo[d] /\ found'[d] = found[d]
        /\ d \in alone' <=> d \in alone
    BY <1>1, <1>3, <1>5 DEF TypeInv, TypeOK
  <2>. QED  BY <2>1, OnSame
<1>. QED  BY <1>2, <1>4, <1>5, AsideStep

LEMMA StartStep ==
  ASSUME IInv, TypeInv', NEW c \in Calls, Start(c)
  PROVE  IInv'
<1>1. TypeInv /\ Disturbed /\ Phases /\ Pairs /\ Reversal /\ Holdings
  BY DEF IInv, TypeInv
<1>2. PICK r \in Requests :
        /\ Accepted(r)
        /\ call' = [call EXCEPT ![c] = r] /\ pc' = [pc EXCEPT ![c] = First[r.kind]]
        /\ \A d \in Calls \ {c} : todo'[d] = todo[d]
        /\ LET pair == Both(<<r.user, r.target>>)
               rivals == {d \in Calls \ {c} : On(d, <<r.user, r.target>>)}
           IN IF r.kind = "list" THEN UNCHANGED <<alone, overlap>>
              ELSE /\ alone' = IF rivals = {} THEN alone \cup {c} ELSE alone \ (rivals \cup {c})
                   /\ overlap' = IF rivals = {} THEN overlap ELSE overlap \cup pair
  BY <1>1 DEF Start, TypeInv, TypeOK
<1>3. r \in Call /\ r.user \in Users /\ r.target \in Users /\ r.kind \in Writes \cup {"list"}
  BY SocialAssumption DEF Call
<1>4. pc[c] = "idle" /\ UNCHANGED tables /\ found' = found
  BY DEF Start
<1>5. /\ call'[c] = r /\ pc'[c] = First[r.kind] /\ pc'[c] # "idle"
      /\ \A d \in Calls \ {c} : /\ pc'[d] = pc[d] /\ call'[d] = call[d]
                                /\ todo'[d] = todo[d] /\ found'[d] = found[d]
  BY <1>1, <1>2, <1>3, <1>4 DEF TypeInv, TypeOK, First, Writes
<1>6. ~Writer(c) /\ c \notin alone
  BY <1>1, <1>4 DEF Writer, Served, TypeInv, TypeOK
<1>7. CASE r.kind = "list"
  <2>1. ~Writer(c)'
    BY <1>5, <1>7 DEF Writer, Writes
  <2>2. ASSUME NEW d \in Calls, d # c
        PROVE  Writer(d)' <=> Writer(d)
    BY <1>5, <2>2, OnSame
  <2>. QED  BY <1>2, <1>4, <1>5, <1>6, <1>7, <2>1, <2>2, AsideStep
<1>8. CASE r.kind # "list"
  <2> DEFINE e == <<r.user, r.target>>
             rivals == {d \in Calls \ {c} : On(d, e)}
  <2>1. e \in Users \X Users
    BY <1>3
  <2>2. /\ alone' = IF rivals = {} THEN alone \cup {c} ELSE alone \ (rivals \cup {c})
        /\ overlap' = IF rivals = {} THEN overlap ELSE overlap \cup Both(e)
    BY <1>2, <1>8
  <2>3. \A d \in Calls : d \in rivals <=> d # c /\ On(d, e)
    OBVIOUS
  <2>4. \A f : f \in overlap => f \in overlap'
    BY <2>2
  <2>5. Writer(c)' /\ Edge(c)' \in Both(e)
    BY <1>3, <1>5, <1>8 DEF Writer, Served, Edge, Both, Flip
  <2> HIDE DEF rivals, e
  <2>6. ASSUME NEW d \in Calls, d # c
        PROVE  /\ Writer(d)' = Writer(d) /\ Edge(d)' = Edge(d) /\ \A f : On(d, f)' = On(d, f)
               /\ d \in alone' => d \in alone /\ (d \in alone' => ~On(d, e))
               /\ d \in alone /\ ~On(d, e) => d \in alone'
               /\ Writer(d) => Edge(d) \in Users \X Users
    BY <1>1, <1>5, <2>2, <2>3, <2>6, OnSame, EdgeFacts DEF TypeInv, Writer
  <2>7. Disturbed'
    <3>1. ASSUME NEW f \in overlap'
          PROVE  Flip(f) \in overlap'
      BY <1>1, <2>1, <2>2, <3>1 DEF Disturbed, Both, Flip
    <3>2. ASSUME NEW d \in Calls, Writer(d)', Edge(d)' \notin overlap'
          PROVE  d \in alone'
      <4>1. CASE d = c
        <5>1. rivals = {}
          BY <2>2, <2>5, <3>2, <4>1
        <5>. QED  BY <2>2, <4>1, <5>1
      <4>2. CASE d # c
        <5>1. Writer(d) /\ Edge(d)' = Edge(d) /\ d \in alone
          BY <1>1, <2>4, <2>6, <3>2, <4>2 DEF Disturbed
        <5>2. CASE rivals = {}
          BY <2>2, <5>1, <5>2
        <5>3. CASE rivals # {}
          <6>1. Edge(d) \notin Both(e)
            BY <2>2, <3>2, <5>1, <5>3
          <6>. QED  BY <2>6, <4>2, <5>1, <6>1 DEF On
        <5>. QED  BY <5>2, <5>3
      <4>. QED  BY <4>1, <4>2
    <3>3. ASSUME NEW d \in Calls, NEW g \in Calls, d # g, Writer(d)', On(g, Edge(d))'
          PROVE  d \notin alone' /\ Edge(d)' \in overlap'
      <4>1. Writer(g)' /\ Edge(g)' \in Both(Edge(d)')
        BY <3>3 DEF On, Writer, Served, Both, Flip
      <4>2. CASE d = c
        <5>1. Writer(g) /\ Edge(g)' = Edge(g) /\ Edge(g) \in Both(e)
          BY <2>1, <2>5, <2>6, <3>3, <4>1, <4>2 DEF Both, Flip
        <5>2. g \in rivals
          BY <2>3, <3>3, <4>2, <5>1 DEF On, Writer, Served
        <5>. QED  BY <2>2, <2>5, <4>2, <5>2
      <4>3. CASE g = c
        <5>1. Writer(d) /\ Edge(d)' = Edge(d) /\ Edge(d) \in Users \X Users
          BY <2>6, <3>3, <4>3
        <5>2. Edge(d) \in Both(e)
          BY <2>1, <2>5, <4>1, <4>3, <5>1 DEF Both, Flip
        <5>3. d \in rivals
          BY <2>3, <3>3, <4>3, <5>1, <5>2 DEF On, Writer, Served
        <5>. QED  BY <2>2, <5>1, <5>2, <5>3
      <4>4. CASE d # c /\ g # c
        <5>1. Writer(d) /\ Writer(g) /\ Edge(d)' = Edge(d) /\ Edge(g)' = Edge(g)
          BY <2>6, <3>3, <4>1, <4>4
        <5>2. On(g, Edge(d))
          BY <4>1, <5>1 DEF On, Writer, Served
        <5>3. d \notin alone /\ Edge(d) \in overlap
          BY <1>1, <3>3, <5>1, <5>2 DEF Disturbed
        <5>. QED  BY <2>4, <2>6, <4>4, <5>1, <5>3
      <4>. QED  BY <4>2, <4>3, <4>4
    <3>. QED  BY <3>1, <3>2, <3>3 DEF Disturbed
  <2>8. pc'[c] \in {"upsert", "find", "unfriend"} /\ found'[c] = {}
    <3>1. pc'[c] \in {"upsert", "find", "unfriend"}
      BY <1>3, <1>5, <1>8 DEF First, Writes
    <3>2. found'[c] = {}
      BY <1>1, <1>4, IdleFacts DEF TypeInv
    <3>. QED  BY <3>1, <3>2
  <2>9. Phase(c)' /\ LooksBack(c)' /\ Holding(c)'
    BY <2>8 DEF Phase, FollowPhase, BlockPhase, LooksBack, Holding
  <2>10. ASSUME NEW d \in alone', Writer(d)'
         PROVE  Phase(d)'
    <3>1. d \in Calls
      BY DEF TypeInv, TypeOK
    <3>2. CASE d # c
      <4>1. Writer(d) /\ d \in alone
        BY <2>6, <2>10, <3>1, <3>2
      <4>2. Phase(d)
        BY <1>1, <4>1 DEF Phases
      <4>. QED  BY <1>1, <1>4, <1>5, <3>1, <3>2, <4>1, <4>2, SamePhase DEF tables
    <3>. QED  BY <2>9, <3>2
  <2>11. ASSUME NEW d \in Calls, Writer(d)'
         PROVE  LooksBack(d)' /\ Holding(d)'
    <3>1. CASE d # c
      <4>1. Writer(d) /\ LooksBack(d) /\ Holding(d) /\ Edge(d)' = Edge(d)
        BY <1>1, <2>6, <2>11, <3>1 DEF Reversal, Holdings
      <4>2. pc'[d] = pc[d] /\ todo'[d] = todo[d] /\ found'[d] = found[d]
        BY <1>5, <3>1
      <4>3. AreFriends(Edge(d))' <=> AreFriends(Edge(d))
        BY <1>4, <4>1 DEF AreFriends, Both, Flip, tables
      <4>. QED  BY <1>4, <2>4, <4>1, <4>2, <4>3 DEF LooksBack, Holding, Flip, Both, FollowQuery, FriendQuery, tables
    <3>. QED  BY <2>9, <3>1
  <2>12. ASSUME NEW f \in Edges \ overlap'
         PROVE  PairFits(f)'
    <3>1. PairFits(f)
      BY <1>1, <2>4, <2>12 DEF Pairs
    <3>2. \A d \in Calls : On(d, f) => On(d, f)' /\ pc'[d] = pc[d]
      <4>1. ~On(c, f)
        BY <1>4 DEF On
      <4>. QED  BY <1>5, <2>6, <4>1
    <3>3. CASE Mutual(f)
      BY <1>4, <3>1, <3>3 DEF PairFits, Mutual, AreFriends, Both, Flip, tables
    <3>4. CASE \E d \in Calls : On(d, f) /\ pc[d] \in {"reverse", "unfriend", "sever", "part"}
      BY <1>4, <3>1, <3>2, <3>4 DEF PairFits, Flip, tables
    <3>. QED  BY <3>1, <3>3, <3>4 DEF PairFits
  <2>. QED  BY <2>7, <2>10, <2>11, <2>12 DEF IInv, TypeInv, Phases, Reversal, Pairs, Holdings
<1>. QED  BY <1>7, <1>8

-----------------------------------------------------------------------------
LEMMA InitIInv == Init => IInv
<1> SUFFICES ASSUME Init PROVE IInv
  OBVIOUS
<1>1. TypeInv
  BY TypeInit
<1>2. \A c \in Calls : ~Served(c)
  BY DEF Init, Served
<1>3. \A e \in Edges : Mutual(e) /\ ~(e \in friend /\ Flip(e) \in friend)
  BY DEF Init, Mutual, AreFriends
<1>. QED  BY <1>1, <1>2, <1>3
          DEF Init, IInv, TypeInv, Disturbed, Phases, Pairs, PairFits, Reversal, Holdings, Writer

LEMMA StepIInv == IInv /\ [Next]_vars => IInv'
<1> SUFFICES ASSUME IInv, [Next]_vars PROVE IInv'
  OBVIOUS
<1>1. TypeInv' /\ TypeInv
  BY TypeStep DEF IInv, TypeInv
<1> USE <1>1
<1>2. ASSUME NEW c \in Calls, Handle(c)
      PROVE  IInv'
  <2>1. CASE Start(c)
    BY <2>1, StartStep
  <2>2. CASE UpsertFollow(c) \/ Check(c) \/ CreateFriend(c) \/ CreateFriendLost(c)
    BY <2>2, UpsertFollowStep, CheckStep, CreateFriendStep, CreateFriendLostStep
  <2>3. CASE FindFollow(c) \/ DeleteFollow(c) \/ ReadReverse(c) \/ DeleteFriend(c) \/ Invalidate(c)
    BY <2>3, FindFollowStep, DeleteFollowStep, ReadReverseStep, DeleteFriendStep, InvalidateStep
  <2>4. CASE UpsertBlock(c) \/ Sever(c) \/ Part(c) \/ FindBlock(c) \/ DropBlock(c)
    BY <2>4, UpsertBlockStep, SeverStep, PartStep, FindBlockStep, DropBlockStep
  <2>5. CASE Query(c) \/ Fill(c)
    <3>1. Served(c) /\ ~Writer(c)
      BY <2>5 DEF Query, Fill, Served, Writer, Writes, IInv, InHandler, KindsAt
    <3>. QED  BY <2>5, <3>1, ListStep
  <2>6. CASE Crash(c)
    BY <2>6, CrashStep, ListStep DEF Crash, Served
  <2>. QED  BY <1>2, <2>1, <2>2, <2>3, <2>4, <2>5, <2>6 DEF Handle
<1>3. ASSUME NEW u \in Users, Expire(u)
      PROVE  IInv'
  BY <1>3, AsideStep DEF Expire, handler, Writer, Served
<1>4. CASE UNCHANGED vars
  BY <1>4, AsideStep DEF vars, handler, history, Writer, Served
<1>. QED  BY <1>2, <1>3, <1>4 DEF Next

LEMMA IInvImplies == IInv => FriendsFollowEachOther /\ OneFriendRow /\ FollowsTakeEffect
<1> SUFFICES ASSUME IInv PROVE FriendsFollowEachOther /\ OneFriendRow /\ FollowsTakeEffect
  OBVIOUS
<1>1. ASSUME NEW e \in Edges \ overlap
      PROVE  /\ ~(Both(e) \subseteq friend)
             /\ ~Busy(e) /\ AreFriends(e) => Both(e) \subseteq follow
  <2>1. PairFits(e)
    BY DEF IInv, Pairs
  <2>. QED  BY <2>1 DEF PairFits, Mutual, Busy, Both
<1>2. ASSUME NEW c \in alone, pc[c] = "invalidate", call[c].kind = "follow"
      PROVE  Edge(c) \in follow /\ (Flip(Edge(c)) \in follow => AreFriends(Edge(c)))
  <2>1. Phase(c)
    BY <1>2 DEF IInv, TypeOK, Phases, Writer, Served, Writes
  <2>. QED  BY <1>2, <2>1 DEF Phase, FollowPhase
<1>. QED  BY <1>1, <1>2 DEF FriendsFollowEachOther, OneFriendRow, FollowsTakeEffect

(* The statements of other requests do not end a request. *)
LEMMA OthersStay ==
  ASSUME TypeInv, NEW c \in Calls, NEW d \in Calls, Handle(d), d # c
  PROVE  pc'[c] = pc[c]
<1>1. CASE Start(d)
  BY <1>1 DEF Start, TypeInv, TypeOK
<1>2. CASE UpsertFollow(d) \/ Check(d) \/ CreateFriend(d) \/ CreateFriendLost(d)
  BY <1>2 DEF UpsertFollow, Check, CreateFriend, CreateFriendLost, Goto, Leave, TypeInv, TypeOK
<1>3. CASE FindFollow(d) \/ DeleteFollow(d) \/ ReadReverse(d) \/ DeleteFriend(d) \/ Invalidate(d)
  BY <1>3 DEF FindFollow, DeleteFollow, ReadReverse, DeleteFriend, Invalidate, Goto, Leave, TypeInv, TypeOK
<1>4. CASE UpsertBlock(d) \/ Sever(d) \/ Part(d) \/ FindBlock(d) \/ DropBlock(d)
  BY <1>4 DEF UpsertBlock, Sever, Part, FindBlock, DropBlock, Leave, TypeInv, TypeOK
<1>5. CASE Query(d) \/ Fill(d) \/ Crash(d)
  BY <1>5 DEF Query, Fill, Crash, Leave, TypeInv, TypeOK
<1>. QED  BY <1>1, <1>2, <1>3, <1>4, <1>5 DEF Handle

LEMMA BlockEnds ==
  ASSUME IInv, [Next]_vars, NEW c \in alone,
         pc[c] = "part", pc'[c] = "idle", Edge(c) \notin overlap'
  PROVE  /\ Edge(c) \in block'
         /\ \A e \in Both(Edge(c)) : e \notin follow' /\ e \notin friend'
<1>1. c \in Calls /\ TypeInv
  BY DEF IInv, TypeInv, TypeOK
<1>2. PICK d \in Calls : Handle(d)
  BY <1>1 DEF Next, Expire, handler, vars
<1>3. Handle(c)
  BY <1>1, <1>2, OthersStay
<1>4. Writer(c)
  BY <1>1 DEF Writer, Served, Writes, IInv, InHandler, KindsAt
<1>5. Part(c) \/ Crash(c)
  BY <1>3 DEF Handle, Start, UpsertFollow, Check, CreateFriend, CreateFriendLost, FindFollow, DeleteFollow,
              ReadReverse, DeleteFriend, Invalidate, UpsertBlock, Sever, FindBlock, DropBlock, Query, Fill
<1>6. ~Crash(c)
  BY <1>4 DEF Crash, Both, Writer, Writes
<1>7. PICK q \in todo[c] : /\ friend' = friend \ {<<q[2], q[3]>>}
                           /\ todo[c] = {q} \/ UNCHANGED pc
  BY <1>5, <1>6 DEF Part
<1>8. todo[c] = {q} /\ UNCHANGED <<follow, block>>
  BY <1>5, <1>6, <1>7 DEF Part
<1>. QED  BY <1>1, <1>7, <1>8, PartFacts

(* Requests that never overlapped on a pair leave it friends only if they
   follow each other, whatever happens on other pairs. *)
THEOREM FriendsAreMutual == Spec => []FriendsFollowEachOther
BY InitIInv, StepIInv, IInvImplies, PTL DEF Spec

(* A friendship has one row as long as no requests overlapped on the pair. *)
THEOREM OneRowPerFriendship == Spec => []OneFriendRow
BY InitIInv, StepIInv, IInvImplies, PTL DEF Spec

(* A follow that runs alone is in effect when it is answered. *)
THEOREM FollowsWork == Spec => []FollowsTakeEffect
BY InitIInv, StepIInv, IInvImplies, PTL DEF Spec

(* A block that runs alone separates the pair, whatever state it found. *)
THEOREM BlocksSeparate == Spec => BlockSeparates
<1> DEFINE Ends ==
      \A c \in alone : pc[c] = "part" /\ pc'[c] = "idle" /\ Edge(c) \notin overlap' =>
        /\ Edge(c) \in block'
        /\ \A e \in Both(Edge(c)) : e \notin follow' /\ e \notin friend'
<1>1. IInv /\ [Next]_vars => [Ends]_vars
  BY BlockEnds
<1>. QED  BY <1>1, InitIInv, StepIInv, PTL DEF Spec, BlockSeparates

-----------------------------------------------------------------------------
(* The entries of user:<id>:connections.  u is one of the two accounts of a
   write in flight. *)
Touches(c, u) == Writer(c) /\ u \in {call[c].user, call[c].target}

(* A list request has read what the tables hold of the queries it has made. *)
Listing(c, u) ==
  LET follows == <<"follow", u, u>>
      friends == <<"friend", u, u>> IN
  /\ todo[c] \subseteq {follows, friends} /\ (pc[c] = "fill" => todo[c] = {})
  /\ found[c] = (IF follows \in todo[c] THEN {} ELSE Following(u))
                  \cup (IF friends \in todo[c] THEN {} ELSE Friends(u))

(* An entry is current until a write on its user begins.  A block leaves no
   entry to outdate, and no list request of a clean user meets a write. *)
EntryFits(u) ==
  /\ (\A c \in Calls : Touches(c, u) => pc[c] \in {"find", "drop"}) => cached[u] \in {None, Snapshot(u)}
  /\ \A c \in Calls : Touches(c, u) /\ call[c].kind = "block" => cached[u] = None
  /\ \A c \in Calls : ListOf(c, u) => Listing(c, u) /\ \A d \in Calls : ~Touches(d, u)

Entries == \A u \in Users \ dirty : EntryFits(u)

(* What a statement of c leaves as it was, as far as entries go. *)
Elsewhere(c) ==
  /\ \A d \in Calls \ {c} :
       /\ pc'[d] = pc[d] /\ call'[d] = call[d] /\ todo'[d] = todo[d]
       /\ found'[d] = found[d] \/ pc[d] = "drop"
  /\ pc'[c] # "idle" => call'[c] = call[c]
  /\ \A e \in (Users \X Users) \ Both(Edge(c)) :
       (e \in follow' <=> e \in follow) /\ (e \in friend' <=> e \in friend)

LEMMA SnapshotSame ==
  ASSUME NEW u \in Users, NEW e \in Users \X Users, u # e[1], u # e[2],
         \A f \in (Users \X Users) \ Both(e) :
           (f \in follow' <=> f \in follow) /\ (f \in friend' <=> f \in friend)
  PROVE  Following(u)' = Following(u) /\ Friends(u)' = Friends(u)
<1>1. \A w \in Users : <<u, w>> \in (Users \X Users) \ Both(e) /\ <<w, u>> \in (Users \X Users) \ Both(e)
  BY DEF Both, Flip
<1>2. \A w \in Users : <<u, w>> \in follow' <=> <<u, w>> \in follow
  BY <1>1
<1>3. \A w \in Users : AreFriends(<<u, w>>)' <=> AreFriends(<<u, w>>)
  BY <1>1 DEF AreFriends, Both, Flip
<1>. QED  BY <1>2, <1>3 DEF Following, Friends

LEMMA ListingSame ==
  ASSUME TypeInv, NEW d \in Calls, NEW u \in Users, ListOf(d, u), Listing(d, u),
         pc'[d] = pc[d], call'[d] = call[d], todo'[d] = todo[d], found'[d] = found[d] \/ pc[d] = "drop",
         Following(u)' = Following(u), Friends(u)' = Friends(u)
  PROVE  Listing(d, u)'
<1>1. pc[d] # "drop"
  BY DEF ListOf, TypeInv, InHandler, Served, KindsAt
<1>2. found'[d] = found[d]
  BY <1>1
<1>. QED  BY <1>2 DEF Listing

LEMMA WriterEntry ==
  ASSUME TypeInv, NEW c \in Calls, Writer(c), Elsewhere(c), NEW u \in Users, EntryFits(u),
         cached'[u] \in {cached[u], None},
         Touches(c, u) => \/ cached'[u] = None
                          \/ pc'[c] \notin {"idle", "find", "drop"}
                          \/ pc[c] \in {"find", "drop"} /\ UNCHANGED <<follow, friend>>
  PROVE  EntryFits(u)'
<1>1. Edge(c) \in Users \X Users
  BY EdgeFacts DEF TypeInv, Writer
<1>2. \A d \in Calls \ {c} : (Touches(d, u)' <=> Touches(d, u)) /\ (ListOf(d, u)' <=> ListOf(d, u))
  BY DEF Elsewhere, Touches, Writer, Served, ListOf
<1>3. ~ListOf(c, u)' /\ (Touches(c, u)' => Touches(c, u) /\ call'[c] = call[c])
  BY DEF Elsewhere, Touches, Writer, Served, ListOf, Writes
<1>4. ASSUME ~Touches(c, u)
      PROVE  Following(u)' = Following(u) /\ Friends(u)' = Friends(u)
  <2>1. u # Edge(c)[1] /\ u # Edge(c)[2]
    BY <1>4 DEF Touches, Edge
  <2>. QED  BY <1>1, <2>1, SnapshotSame DEF Elsewhere
<1>5. ASSUME \A d \in Calls : Touches(d, u)' => pc'[d] \in {"find", "drop"}
      PROVE  cached'[u] \in {None, Snapshot(u)'}
  <2>1. \A d \in Calls \ {c} : Touches(d, u) => pc[d] \in {"find", "drop"}
    BY <1>2, <1>5 DEF Elsewhere
  <2>2. CASE ~Touches(c, u)
    <3>1. cached[u] \in {None, Snapshot(u)}
      BY <2>1, <2>2 DEF EntryFits
    <3>. QED  BY <1>4, <2>2, <3>1 DEF Snapshot
  <2>3. CASE cached'[u] = None
    BY <2>3
  <2>4. CASE Touches(c, u) /\ pc[c] \in {"find", "drop"} /\ UNCHANGED <<follow, friend>>
    <3>1. cached[u] \in {None, Snapshot(u)}
      BY <2>1, <2>4 DEF EntryFits
    <3>2. Snapshot(u)' = Snapshot(u)
      BY <2>4 DEF Snapshot, Following, Friends, AreFriends
    <3>. QED  BY <3>1, <3>2
  <2>5. CASE Touches(c, u) /\ pc'[c] \notin {"idle", "find", "drop"}
    <3>1. Touches(c, u)'
      BY <2>5 DEF Touches, Writer, Served, Elsewhere
    <3>. QED  BY <1>5, <2>5, <3>1
  <2>. QED  BY <2>2, <2>3, <2>4, <2>5
<1>6. ASSUME NEW d \in Calls, Touches(d, u)', call'[d].kind = "block"
      PROVE  cached'[u] = None
  <2>1. Touches(d, u) /\ call[d].kind = "block"
    BY <1>2, <1>3, <1>6 DEF Elsewhere
  <2>. QED  BY <2>1 DEF EntryFits
<1>7. ASSUME NEW d \in Calls, ListOf(d, u)'
      PROVE  Listing(d, u)' /\ \A x \in Calls : ~Touches(x, u)'
  <2>1. d # c /\ ListOf(d, u)
    BY <1>2, <1>3, <1>7
  <2>2. Listing(d, u) /\ \A x \in Calls : ~Touches(x, u)
    BY <2>1 DEF EntryFits
  <2>3. Following(u)' = Following(u) /\ Friends(u)' = Friends(u)
    BY <1>4, <2>2
  <2>4. Listing(d, u)'
    BY <2>1, <2>2, <2>3, ListingSame DEF Elsewhere
  <2>. QED  BY <1>2, <1>3, <2>2, <2>4
<1>. QED  BY <1>5, <1>6, <1>7 DEF EntryFits

LEMMA ElsewhereHolds ==
  ASSUME IInv, NEW c \in Calls, Writer(c), Handle(c)
  PROVE  Elsewhere(c)
<1>1. PICK e \in Users \X Users : e = Edge(c)
  BY OwnFacts
<1>2. TypeInv /\ e \in Both(e) /\ pc[c] # "idle" /\ Holding(c)
  BY OwnFacts DEF IInv, TypeInv, Both, Writer, Served
<1>3. CASE UpsertFollow(c) \/ Check(c) \/ CreateFriend(c) \/ CreateFriendLost(c)
  BY <1>1, <1>2, <1>3
     DEF UpsertFollow, Check, CreateFriend, CreateFriendLost, Goto, Leave, Elsewhere, tables, TypeInv, TypeOK
<1>4. CASE FindFollow(c) \/ DeleteFollow(c) \/ ReadReverse(c) \/ DeleteFriend(c) \/ Invalidate(c)
  BY <1>1, <1>2, <1>4
     DEF FindFollow, DeleteFollow, ReadReverse, DeleteFriend, Invalidate, Goto, Leave, Elsewhere, tables, TypeInv, TypeOK
<1>5. CASE UpsertBlock(c) \/ FindBlock(c) \/ DropBlock(c)
  BY <1>1, <1>2, <1>5 DEF UpsertBlock, FindBlock, DropBlock, Leave, Elsewhere, tables, TypeInv, TypeOK
<1>6. CASE Sever(c)
  <2>1. PICK q \in todo[c] : follow' = follow \ {<<q[2], q[3]>>}
    BY <1>6 DEF Sever
  <2>2. PICK f \in Both(e) : q = FollowQuery(f)
    BY <1>1, <1>2, <1>6 DEF Sever, Holding
  <2>3. f = <<q[2], q[3]>>
    BY <2>2 DEF FollowQuery, Both, Flip
  <2>. QED  BY <1>1, <1>2, <1>6, <2>1, <2>2, <2>3 DEF Sever, Elsewhere, TypeInv, TypeOK
<1>7. CASE Part(c)
  <2>1. PICK q \in todo[c] : friend' = friend \ {<<q[2], q[3]>>}
    BY <1>7 DEF Part
  <2>2. <<q[2], q[3]>> \in Both(e)
    BY <1>1, <1>7, <2>1, PartFacts DEF Part
  <2>. QED  BY <1>1, <1>2, <1>7, <2>1, <2>2 DEF Part, Leave, Elsewhere, TypeInv, TypeOK
<1>8. CASE Crash(c)
  BY <1>2, <1>8 DEF Crash, Leave, Elsewhere, tables, TypeInv, TypeOK
<1>. QED  BY <1>2, <1>3, <1>4, <1>5, <1>6, <1>7, <1>8
          DEF Handle, Start, Query, Fill, Writer, Writes, TypeInv, InHandler, KindsAt

LEMMA WriterEntries ==
  ASSUME IInv, Entries, NEW c \in Calls, Writer(c), Handle(c)
  PROVE  Entries'
<1>1. TypeInv /\ Elsewhere(c) /\ pc[c] # "idle" /\ call[c].kind \in KindsAt[pc[c]] /\ call[c] \in Call
  BY ElsewhereHolds DEF IInv, TypeInv, Writer, Served, InHandler
<1>2. ASSUME NEW u \in Users \ dirty', u \notin dirty
      PROVE  /\ cached'[u] \in {cached[u], None}
             /\ Touches(c, u) => \/ cached'[u] = None
                                 \/ pc'[c] \notin {"idle", "find", "drop"}
                                 \/ pc[c] \in {"find", "drop"} /\ UNCHANGED <<follow, friend>>
  <2>1. CASE UpsertFollow(c) \/ Check(c) \/ CreateFriend(c) \/ CreateFriendLost(c)
    <3>1. cached' = cached
      BY <2>1 DEF UpsertFollow, Check, CreateFriend, CreateFriendLost, Quiet
    <3>2. CASE UpsertFollow(c) \/ CreateFriend(c)
      BY <1>1, <3>1, <3>2 DEF UpsertFollow, CreateFriend, Goto, TypeInv, TypeOK
    <3>3. CASE Check(c)
      <4>1. pc'[c] \in {"check", "create", "invalidate"}
        BY <1>1, <3>3 DEF Check, AfterCheck, TypeInv, TypeOK
      <4>. QED  BY <3>1, <4>1
    <3>4. CASE CreateFriendLost(c)
      BY <1>2, <3>1, <3>4 DEF CreateFriendLost, Touches
    <3>. QED  BY <2>1, <3>2, <3>3, <3>4
  <2>2. CASE FindFollow(c) \/ DeleteFollow(c) \/ ReadReverse(c) \/ DeleteFriend(c)
    <3>1. cached' = cached
      BY <2>2 DEF FindFollow, DeleteFollow, ReadReverse, DeleteFriend, Quiet
    <3>2. CASE FindFollow(c)
      BY <3>1, <3>2 DEF FindFollow, tables
    <3>3. CASE DeleteFollow(c) \/ ReadReverse(c) \/ DeleteFriend(c)
      BY <1>1, <3>1, <3>3 DEF DeleteFollow, ReadReverse, DeleteFriend, Goto, TypeInv, TypeOK
    <3>. QED  BY <2>2, <3>2, <3>3
  <2>3. CASE Invalidate(c)
    BY <2>3 DEF Invalidate, Invalidated, Touches
  <2>4. CASE UpsertBlock(c) \/ Sever(c)
    BY <1>1, <2>4 DEF UpsertBlock, Sever, Quiet, TypeInv, TypeOK
  <2>5. CASE Part(c)
    <3>1. cached' = cached /\ (Touches(c, u) => cached[u] = None)
      BY <1>1, <1>2, <2>5 DEF Part, KindsAt, Entries, EntryFits
    <3>. QED  BY <3>1
  <2>6. CASE FindBlock(c) \/ DropBlock(c)
    BY <2>6 DEF FindBlock, DropBlock, tables
  <2>7. CASE Crash(c)
    <3>1. cached' = cached /\ dirty' = dirty \cup {call[c].user, call[c].target}
      BY <2>7 DEF Crash, Writer, Writes
    <3>. QED  BY <1>2, <3>1 DEF Touches
  <2>. QED  BY <1>1, <2>1, <2>2, <2>3, <2>4, <2>5, <2>6, <2>7
            DEF Handle, Start, Query, Fill, Writer, Writes, KindsAt
<1>3. ASSUME NEW u \in Users \ dirty', u \notin dirty
      PROVE  EntryFits(u)'
  <2>1. EntryFits(u)
    BY <1>3 DEF Entries
  <2>. QED  BY <1>1, <1>2, <1>3, <2>1, WriterEntry
<1>4. ASSUME NEW u \in Users \ dirty', u \in dirty
      PROVE  EntryFits(u)'
  <2>1. Invalidate(c)
    BY <1>1, <1>4
       DEF Handle, Start, UpsertFollow, Check, CreateFriend, CreateFriendLost, FindFollow, DeleteFollow, ReadReverse,
           DeleteFriend, UpsertBlock, Sever, Part, FindBlock, DropBlock, Query, Fill, Crash, Quiet, history
  <2>2. cached'[u] = None /\ \A d \in Calls : ~ListOf(d, u)
    BY <1>4, <2>1 DEF Invalidate, Invalidated
  <2>3. \A d \in Calls : ~ListOf(d, u)'
    BY <1>1, <2>1, <2>2 DEF Invalidate, Leave, ListOf, TypeInv, TypeOK
  <2>. QED  BY <2>2, <2>3 DEF EntryFits
<1>. QED  BY <1>3, <1>4 DEF Entries

(* Steps that change no table and touch no request that writes. *)
LEMMA AsideEntry ==
  ASSUME TypeInv, NEW u \in Users, EntryFits(u), UNCHANGED <<follow, friend>>,
         \A d \in Calls : Touches(d, u)' => Touches(d, u) /\ call'[d] = call[d],
         \A d \in Calls : Touches(d, u) => Touches(d, u)' /\ pc'[d] = pc[d],
         cached'[u] \in {cached[u], None} \/ (cached'[u] = Snapshot(u) /\ \A d \in Calls : ~Touches(d, u)),
         \A d \in Calls : ListOf(d, u)' => ListOf(d, u) /\ Listing(d, u)'
  PROVE  EntryFits(u)'
<1>1. Snapshot(u)' = Snapshot(u)
  BY DEF Snapshot, Following, Friends, AreFriends
<1>. QED  BY <1>1 DEF EntryFits

LEMMA ListEntries ==
  ASSUME IInv, Entries, NEW c \in Calls, Served(c), ~Writer(c), Query(c) \/ Fill(c) \/ Crash(c)
  PROVE  Entries'
<1>1. call[c].kind = "list" /\ TypeInv /\ call[c].user \in Users
  BY EdgeFacts DEF Writer, Call, IInv, TypeInv
<1>2. /\ UNCHANGED <<tables, dirty>>
      /\ cached' = cached \/ Fill(c)
      /\ pc' = [pc EXCEPT ![c] = pc'[c]] /\ call' = [call EXCEPT ![c] = call'[c]]
      /\ todo' = [todo EXCEPT ![c] = todo'[c]] /\ found' = [found EXCEPT ![c] = found'[c]]
      /\ pc'[c] = "idle" \/ (call'[c] = call[c] /\ Query(c))
  BY <1>1 DEF Query, Fill, Crash, Leave, history, TypeInv, TypeOK
<1>3. \A d \in Calls \ {c} : pc'[d] = pc[d] /\ call'[d] = call[d] /\ todo'[d] = todo[d] /\ found'[d] = found[d]
  BY <1>1, <1>2 DEF TypeInv, TypeOK
<1>4. ASSUME NEW u \in Users \ dirty'
      PROVE  EntryFits(u)'
  <2>1. EntryFits(u)
    BY <1>2, <1>4 DEF Entries
  <2>2. ~Touches(c, u) /\ ~Touches(c, u)'
    BY <1>1, <1>2 DEF Touches, Writer, Served, Writes
  <2>3. \A d \in Calls \ {c} : (Touches(d, u)' <=> Touches(d, u)) /\ (ListOf(d, u)' <=> ListOf(d, u))
    BY <1>3 DEF Touches, Writer, Served, ListOf
  <2>4. ListOf(c, u)' => ListOf(c, u) /\ Query(c)
    BY <1>1, <1>2 DEF ListOf, Served
  <2>5. Following(u)' = Following(u) /\ Friends(u)' = Friends(u)
    BY <1>2 DEF Following, Friends, AreFriends, tables
  <2>6. ASSUME NEW d \in Calls, ListOf(d, u)'
        PROVE  ListOf(d, u) /\ Listing(d, u)'
    <3>1. ListOf(d, u) /\ Listing(d, u)
      BY <2>1, <2>3, <2>4, <2>6 DEF EntryFits
    <3>2. CASE d # c
      BY <1>1, <1>3, <2>5, <3>1, <3>2, ListingSame
    <3>3. CASE d = c
      <4>1. PICK q \in todo[c] :
              /\ found'[c] = found[c] \cup (IF q[1] = "follow" THEN Following(q[2]) ELSE Friends(q[2]))
              /\ todo'[c] = todo[c] \ {q}
              /\ pc'[c] = IF todo[c] = {q} THEN "fill" ELSE "query"
        BY <1>1, <2>4, <2>6, <3>3 DEF Query, TypeInv, TypeOK
      <4>2. q = <<"follow", u, u>> \/ q = <<"friend", u, u>>
        BY <3>1, <3>3 DEF Listing
      <4>3. CASE q = <<"follow", u, u>>
        BY <2>5, <3>1, <3>3, <4>1, <4>3 DEF Listing
      <4>4. CASE q = <<"friend", u, u>>
        BY <2>5, <3>1, <3>3, <4>1, <4>4 DEF Listing
      <4>. QED  BY <3>1, <3>3, <4>2, <4>3, <4>4
    <3>. QED  BY <3>1, <3>2, <3>3
  <2>7. cached'[u] \in {cached[u], None} \/ (cached'[u] = Snapshot(u) /\ \A d \in Calls : ~Touches(d, u))
    <3>1. CASE cached'[u] = cached[u]
      BY <3>1
    <3>2. CASE cached'[u] # cached[u]
      <4>1. Fill(c)
        BY <1>2, <3>2
      <4>2. call[c].user = u /\ cached'[u] = found[c] /\ pc[c] = "fill"
        BY <1>1, <3>2, <4>1 DEF Fill, TypeInv, TypeOK
      <4>3. ListOf(c, u)
        BY <1>1, <4>2 DEF ListOf
      <4>4. Listing(c, u) /\ \A d \in Calls : ~Touches(d, u)
        BY <2>1, <4>3 DEF EntryFits
      <4>5. found[c] = Snapshot(u)
        BY <4>2, <4>4 DEF Listing, Snapshot
      <4>. QED  BY <4>2, <4>4, <4>5
    <3>. QED  BY <3>1, <3>2
  <2>. QED  BY <1>1, <1>2, <1>3, <2>1, <2>2, <2>3, <2>6, <2>7, AsideEntry DEF tables
<1>. QED  BY <1>4 DEF Entries

LEMMA StartEntries ==
  ASSUME IInv, Entries, NEW c \in Calls, Start(c)
  PROVE  Entries'
<1>1. TypeInv /\ pc[c] = "idle" /\ UNCHANGED <<tables, cached, found>> /\ found[c] = {}
  BY IdleFacts DEF Start, IInv, TypeInv
<1>2. PICK r \in Requests :
        /\ r.kind = "list" => r.user = r.target /\ cached[r.user] = None
        /\ call' = [call EXCEPT ![c] = r]
        /\ pc' = [pc EXCEPT ![c] = First[r.kind]]
        /\ todo' = [todo EXCEPT ![c] =
                     IF r.kind = "list" THEN {<<"follow", r.user, r.user>>, <<"friend", r.user, r.user>>}
                                        ELSE {}]
        /\ r.kind = "list" =>
             dirty' = IF \E d \in Calls \ {c} : pc[d] # "idle" /\ call[d].kind \in Writes
                                                  /\ r.user \in {call[d].user, call[d].target}
                      THEN dirty \cup {r.user} ELSE dirty
        /\ r.kind # "list" =>
             dirty' = dirty \cup {u \in {r.user, r.target} :
                                    r.kind = "block" \/ \E d \in Calls \ {c} : ListOf(d, u)}
  BY DEF Start
<1>3. r \in Call /\ r.user \in Users /\ r.target \in Users /\ r.kind \in Writes \cup {"list"}
  BY SocialAssumption DEF Call
<1>4. /\ call'[c] = r /\ pc'[c] = First[r.kind] /\ pc'[c] # "idle"
      /\ \A d \in Calls \ {c} : pc'[d] = pc[d] /\ call'[d] = call[d] /\ todo'[d] = todo[d] /\ found'[d] = found[d]
  BY <1>1, <1>2, <1>3 DEF First, Writes, TypeInv, TypeOK
<1>5. ASSUME NEW u \in Users \ dirty'
      PROVE  EntryFits(u)'
  <2>1. u \notin dirty /\ EntryFits(u)
    BY <1>2, <1>3, <1>5 DEF Entries
  <2>2. \A d \in Calls \ {c} : (Touches(d, u)' <=> Touches(d, u)) /\ (ListOf(d, u)' <=> ListOf(d, u))
    BY <1>4 DEF Touches, Writer, Served, ListOf
  <2>3. ~Touches(c, u) /\ ~ListOf(c, u)
    BY <1>1 DEF Touches, Writer, Served, ListOf
  <2>4. Following(u)' = Following(u) /\ Friends(u)' = Friends(u)
    BY <1>1 DEF Following, Friends, AreFriends, tables
  <2>5. \A d \in Calls \ {c} : ListOf(d, u)' => Listing(d, u)'
    <3>1. ASSUME NEW d \in Calls \ {c}, ListOf(d, u)'
          PROVE  Listing(d, u)'
      <4>1. ListOf(d, u) /\ Listing(d, u)
        BY <2>1, <2>2, <3>1 DEF EntryFits
      <4>. QED  BY <1>1, <1>4, <2>4, <4>1, ListingSame
    <3>. QED  BY <3>1
  <2>6. CASE r.kind = "list"
    <3>1. ~Touches(c, u)'
      BY <1>4, <2>6 DEF Touches, Writer, Writes
    <3>2. CASE r.user # u
      <4>1. ~ListOf(c, u)'
        BY <1>4, <3>2 DEF ListOf
      <4>. QED  BY <1>1, <1>4, <2>1, <2>2, <2>3, <2>5, <3>1, <4>1, AsideEntry DEF tables
    <3>3. CASE r.user = u
      <4>1. \A d \in Calls : ~Touches(d, u)'
        BY <1>2, <1>5, <2>2, <2>6, <3>1, <3>3 DEF Touches, Writer, Served
      <4>2. cached'[u] = None
        BY <1>1, <1>2, <2>6, <3>3
      <4>3. todo'[c] = {<<"follow", u, u>>, <<"friend", u, u>>} /\ pc'[c] = "query" /\ found'[c] = {}
        BY <1>1, <1>2, <1>4, <2>6, <3>3 DEF First, TypeInv, TypeOK
      <4>4. Listing(c, u)'
        BY <4>3 DEF Listing
      <4>. QED  BY <2>5, <4>1, <4>2, <4>4 DEF EntryFits
    <3>. QED  BY <3>2, <3>3
  <2>7. CASE r.kind # "list"
    <3>1. ~ListOf(c, u)'
      BY <1>4, <2>7 DEF ListOf
    <3>2. CASE u \notin {r.user, r.target}
      <4>1. ~Touches(c, u)'
        BY <1>4, <3>2 DEF Touches
      <4>. QED  BY <1>1, <1>4, <2>1, <2>2, <2>3, <2>5, <3>1, <4>1, AsideEntry DEF tables
    <3>3. CASE u \in {r.user, r.target}
      <4>1. r.kind # "block" /\ \A d \in Calls \ {c} : ~ListOf(d, u)
        BY <1>2, <1>5, <2>7, <3>3
      <4>2. \A d \in Calls : ~ListOf(d, u)'
        BY <2>2, <3>1, <4>1
      <4>3. ASSUME \A d \in Calls : Touches(d, u)' => pc'[d] \in {"find", "drop"}
            PROVE  cached'[u] \in {None, Snapshot(u)'}
        <5>1. \A d \in Calls : Touches(d, u) => pc[d] \in {"find", "drop"}
          BY <1>4, <2>2, <2>3, <4>3
        <5>. QED  BY <1>1, <2>1, <2>4, <5>1 DEF EntryFits, Snapshot
      <4>4. ASSUME NEW d \in Calls, Touches(d, u)', call'[d].kind = "block"
            PROVE  cached'[u] = None
        BY <1>1, <1>4, <2>1, <2>2, <4>1, <4>4 DEF EntryFits
      <4>. QED  BY <4>2, <4>3, <4>4 DEF EntryFits
    <3>. QED  BY <3>2, <3>3
  <2>. QED  BY <2>6, <2>7
<1>. QED  BY <1>5 DEF Entries

LEMMA StepEntries == IInv /\ Entries /\ [Next]_vars => Entries'
<1> SUFFICES ASSUME IInv, Entries, [Next]_vars PROVE Entries'
  OBVIOUS
<1>1. TypeInv
  BY DEF IInv, TypeInv
<1>2. ASSUME NEW c \in Calls, Handle(c)
      PROVE  Entries'
  <2>1. CASE Writer(c)
    BY <1>2, <2>1, WriterEntries
  <2>2. CASE Served(c) /\ ~Writer(c)
    <3>1. call[c].kind = "list" /\ call[c].kind \in KindsAt[pc[c]] /\ pc[c] \in Labels \ {"idle"}
      BY <1>1, <2>2, EdgeFacts DEF Writer, Call, TypeInv, TypeOK, InHandler, Served
    <3>2. Query(c) \/ Fill(c) \/ Crash(c)
      BY <1>2, <3>1 DEF Handle, Start, UpsertFollow, Check, CreateFriend, CreateFriendLost, FindFollow,
         DeleteFollow, ReadReverse, DeleteFriend, Invalidate, UpsertBlock, Sever, Part, FindBlock, DropBlock, KindsAt
    <3>. QED  BY <2>2, <3>2, ListEntries
  <2>3. CASE ~Served(c)
    <3>1. Start(c)
      BY <1>2, <2>3 DEF Served, Handle, UpsertFollow, Check, CreateFriend, CreateFriendLost, FindFollow,
         DeleteFollow, ReadReverse, DeleteFriend, Invalidate, UpsertBlock, Sever, Part, FindBlock, DropBlock,
         Query, Fill, Crash
    <3>. QED  BY <3>1, StartEntries
  <2>. QED  BY <2>1, <2>2, <2>3 DEF Writer
<1>3. ASSUME NEW u \in Users, Expire(u)
      PROVE  Entries'
  <2>1. UNCHANGED <<tables, handler>> /\ cached' = [cached EXCEPT ![u] = None]
    BY <1>3 DEF Expire
  <2>2. ASSUME NEW v \in Users \ dirty', v \in dirty
        PROVE  EntryFits(v)'
    <3>1. v = u /\ \A d \in Calls : ~ListOf(d, u)
      BY <1>3, <2>2 DEF Expire
    <3>2. cached'[v] = None
      BY <1>1, <2>1, <3>1 DEF TypeInv, TypeOK
    <3>3. \A d \in Calls : ~ListOf(d, v)'
      BY <2>1, <3>1 DEF ListOf, handler
    <3>. QED  BY <3>2, <3>3 DEF EntryFits
  <2>3. ASSUME NEW v \in Users \ dirty', v \notin dirty
        PROVE  EntryFits(v)'
    <3>1. EntryFits(v) /\ cached'[v] \in {cached[v], None}
      BY <1>1, <2>1, <2>3 DEF Entries, TypeInv, TypeOK
    <3>2. \A d \in Calls : /\ Touches(d, v)' <=> Touches(d, v)
                           /\ ListOf(d, v)' <=> ListOf(d, v)
                           /\ Listing(d, v)' <=> Listing(d, v)
                           /\ call'[d] = call[d] /\ pc'[d] = pc[d]
      BY <2>1 DEF Touches, Writer, Served, ListOf, Listing, Following, Friends, AreFriends, handler, tables
    <3>. QED  BY <1>1, <2>1, <3>1, <3>2, AsideEntry DEF tables, EntryFits
  <2>. QED  BY <2>2, <2>3 DEF Entries
<1>4. CASE UNCHANGED vars
  <2>1. UNCHANGED <<tables, handler, cached, dirty>>
    BY <1>4 DEF vars, history
  <2>2. ASSUME NEW v \in Users \ dirty'
        PROVE  EntryFits(v)'
    <3>1. EntryFits(v)
      BY <2>1, <2>2 DEF Entries
    <3>2. \A d \in Calls : /\ Touches(d, v)' <=> Touches(d, v)
                           /\ ListOf(d, v)' <=> ListOf(d, v)
                           /\ Listing(d, v)' <=> Listing(d, v)
                           /\ call'[d] = call[d] /\ pc'[d] = pc[d]
      BY <2>1 DEF Touches, Writer, Served, ListOf, Listing, Following, Friends, AreFriends, handler, tables
    <3>. QED  BY <1>1, <2>1, <3>1, <3>2, AsideEntry DEF tables, EntryFits
  <2>. QED  BY <2>2 DEF Entries
<1>. QED  BY <1>2, <1>3, <1>4 DEF Next

LEMMA InitEntries == Init => Entries
BY DEF Init, Entries, EntryFits, Touches, Writer, Served, ListOf

(* A connections entry that no list request filled during a write, and that
   no block and no failure left behind, shows what the tables hold. *)
THEOREM EntriesAreCurrent == Spec => []CachedIsCurrent
<1>1. Entries => CachedIsCurrent
  BY DEF Entries, EntryFits, Touches, Writer, Served, CachedIsCurrent
<1>. QED  BY <1>1, InitIInv, StepIInv, InitEntries, StepEntries, PTL DEF Spec

=============================================================================
