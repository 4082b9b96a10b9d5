-------------------------------- MODULE Rooms --------------------------------
(***************************************************************************)
(* One live room: RoomService, RoomMembersService and RoomSettingsService  *)
(* (room/services).  Its participants, its seats and the counter           *)
(* current_participants are written by separate statements, each a step of *)
(* its request.                                                            *)
(***************************************************************************)
EXTENDS Integers, FiniteSets

CONSTANTS Users, Calls, Host,
          Requests,        \* the requests clients make
          MaxParticipants, \* max_participants, and the number of seats
          None             \* no row, an empty seat

SeatIds == 1 .. MaxParticipants
Kinds == {"create", "join", "leave", "kick", "block", "unblock", "close", "sit", "stand", "assign", "lock", "secure"}
Outs == {"leave", "kick", "block"}
OfHost == {"kick", "block", "unblock", "close", "assign", "lock", "secure"}

RoomsAssumption ==
    /\ Host \in Users /\ MaxParticipants \in Nat \ {0} /\ None \notin Users \cup Calls /\ None \notin SeatIds
    /\ None \notin Requests \cup [seat: SeatIds \cup {None}, in: BOOLEAN]
    /\ Requests \subseteq [kind: Kinds, by: Users, who: Users, at: SeatIds]
    /\ \A r \in Requests : r.kind \in {"join", "leave", "sit", "stand"} => r.who = r.by

VARIABLES
    status,  \* "none", "created" (waiting for its password), "active", "closed"
    part,    \* per user, the participant row: seat, and whether left_at is null; or None
    n,       \* current_participants
    seat,    \* per seat, its user or None; no seat before they are made
    locked,  \* seats the host has locked
    black,   \* the blacklist
    call, pc,
    seen,    \* per request, the seat it has read, or None
    raced,   \* history: two requests at once took a user out or entered the host, or one was cut off
    crowded, \* history: two users joined at once
    closed   \* history: the room was closed

room == <<status, part, n, seat, locked, black>>
history == <<raced, crowded, closed>>
vars == <<room, call, pc, seen, history>>

In(u) == part[u] # None /\ part[u].in
Present == {u \in Users : In(u)}
Active(c) == pc[c] \notin {"new", "done"}
Goto(c, to) == pc' = [pc EXCEPT ![c] = to]
Go(c, to) == Goto(c, to) /\ UNCHANGED <<call, seen>>
Reads == UNCHANGED <<room, history>>

First == [k \in Kinds |-> IF k = "create" THEN "insert" ELSE IF k \in {"leave", "sit", "stand"} THEN "find" ELSE "room"]

Start(c) ==
    /\ pc[c] = "new"
    /\ \E r \in Requests :
        LET rivals == {call[d] : d \in {e \in Calls : Active(e)}} IN
        /\ call' = [call EXCEPT ![c] = r] /\ Goto(c, First[r.kind])
        /\ raced' = (raced \/ (r.kind \in Outs /\ \E q \in rivals : q.kind \in Outs /\ q.who = r.who))
        /\ crowded' = (crowded \/ (r.kind = "join" /\ \E q \in rivals : q.kind = "join"))
    /\ UNCHANGED <<room, seen, closed>>

-----------------------------------------------------------------------------
\* createRoom: the room, counting its host; then the seats; then the host.
Insert(c) ==
    /\ pc[c] = "insert"
    /\ IF status = "none" /\ call[c].by = Host
       THEN n' = 1 /\ status' \in {"created", "active"} /\ Go(c, "seats")
       ELSE Go(c, "done") /\ UNCHANGED <<n, status>>
    /\ UNCHANGED <<part, seat, locked, black, history>>

MakeSeats(c) ==
    /\ pc[c] = "seats"
    /\ seat' = [i \in SeatIds |-> None]
    /\ Go(c, "host") /\ UNCHANGED <<status, part, n, locked, black, history>>

\* The host's row names seat 1; the seat does not name the host.
EnterHost(c) ==
    /\ pc[c] = "host"
    /\ IF part[Host] = None THEN part' = [part EXCEPT ![Host] = [seat |-> 1, in |-> TRUE]] /\ UNCHANGED raced
       ELSE UNCHANGED part /\ raced' = TRUE
    /\ Go(c, "done") /\ UNCHANGED <<status, n, seat, locked, black, crowded, closed>>

\* Mutant: one too many.
RoomForPlus == n <= MaxParticipants
RoomFor == n < MaxParticipants

AfterRoom == [join |-> "existing", kick |-> "find", block |-> "find", unblock |-> "forgive", close |-> "shut",
              assign |-> "give", lock |-> "bar", secure |-> "password"]

\* Joining looks at the status and the counter, never at the blacklist; the host's
\* operations only at the host.
Admits(r) == status # "none" /\ (IF r.kind = "join" THEN status # "closed" /\ RoomFor ELSE r.by = Host)

FindRoom(c) ==
    /\ pc[c] = "room"
    /\ Go(c, IF Admits(call[c]) THEN AfterRoom[call[c].kind] ELSE "done")
    /\ Reads

FindExisting(c) ==
    /\ pc[c] = "existing"
    /\ Go(c, IF In(call[c].who) THEN "done" ELSE "empty")
    /\ Reads

\* The lowest empty seat that is not locked, or none.
Empty == {i \in DOMAIN seat : seat[i] = None /\ i \notin locked}

FindSeat(c) ==
    /\ pc[c] = "empty"
    /\ IF Empty = {} THEN Goto(c, IF call[c].kind = "join" THEN "enter" ELSE "done") /\ seen' = [seen EXCEPT ![c] = None]
       ELSE /\ \E i \in Empty : (\A j \in Empty : i <= j) /\ seen' = [seen EXCEPT ![c] = i]
            /\ Goto(c, IF call[c].kind = "join" THEN "enter" ELSE "take")
    /\ UNCHANGED call /\ Reads

\* The unique index refuses a second row: whoever has left cannot come back.
Enter(c) ==
    /\ pc[c] = "enter"
    /\ IF part[call[c].who] = None
       THEN part' = [part EXCEPT ![call[c].who] = [seat |-> seen[c], in |-> TRUE]] /\ Go(c, "increment")
       ELSE UNCHANGED part /\ Go(c, "done")
    /\ UNCHANGED <<status, n, seat, locked, black, history>>

Increment(c) ==
    /\ pc[c] = "increment"
    /\ n' = n + 1
    /\ Go(c, "done") /\ UNCHANGED <<status, part, seat, locked, black, history>>

-----------------------------------------------------------------------------
AfterFind == [leave |-> "out", kick |-> "out", block |-> "out", sit |-> "empty", stand |-> "free"]

\* Mutant: blockUser counts a user out who is not in.
AbsentOut(r) == IF r.kind = "block" THEN "decrement" ELSE "done"
\* A user who is not in the room can only be blacklisted.
Absent(r) == IF r.kind = "block" THEN "ban" ELSE "done"

FindParticipant(c) ==
    /\ pc[c] = "find"
    /\ LET r == call[c] IN
        IF In(r.who) /\ (r.kind = "stand" => part[r.who].seat # None)
        THEN Goto(c, AfterFind[r.kind]) /\ seen' = [seen EXCEPT ![c] = part[r.who].seat]
        ELSE Goto(c, Absent(r)) /\ UNCHANGED seen
    /\ UNCHANGED call /\ Reads

Out(c) ==
    /\ pc[c] = "out"
    /\ part' = [part EXCEPT ![call[c].who].in = FALSE]
    /\ Go(c, "decrement") /\ UNCHANGED <<status, n, seat, locked, black, history>>

\* Only leaving gives the seat back.
AfterOut(c) == CASE call[c].kind = "block" -> "ban"
                 [] call[c].kind = "leave" /\ seen[c] # None -> "free"
                 [] OTHER -> "done"

Decrement(c) ==
    /\ pc[c] = "decrement"
    /\ n' = n - 1
    /\ Go(c, AfterOut(c)) /\ UNCHANGED <<status, part, seat, locked, black, history>>

Ban(c) ==
    /\ pc[c] = "ban"
    /\ black' = black \cup {call[c].who}
    /\ Go(c, "done") /\ UNCHANGED <<status, part, n, seat, locked, history>>

Forgive(c) ==
    /\ pc[c] = "forgive"
    /\ black' = black \ {call[c].who}
    /\ Go(c, "done") /\ UNCHANGED <<status, part, n, seat, locked, history>>

\* closeRoom takes everybody out, and leaves the counter as it is.
Shut(c) ==
    /\ pc[c] = "shut"
    /\ status' = "closed" /\ closed' = TRUE
    /\ Go(c, "empty room") /\ UNCHANGED <<part, n, seat, locked, black, raced, crowded>>

EmptyRoom(c) ==
    /\ pc[c] = "empty room"
    /\ part' = [u \in Users |-> IF In(u) THEN [part[u] EXCEPT !.in = FALSE] ELSE part[u]]
    /\ Go(c, "done") /\ UNCHANGED <<status, n, seat, locked, black, history>>

\* setPassword activates the room, even one that was closed.
Password(c) ==
    /\ pc[c] = "password"
    /\ status' = "active"
    /\ Go(c, "done") /\ UNCHANGED <<part, n, seat, locked, black, history>>

-----------------------------------------------------------------------------
\* joinSeat writes the seat, then the participant.
Take(c) ==
    /\ pc[c] = "take"
    /\ seat' = [seat EXCEPT ![seen[c]] = call[c].who]
    /\ Go(c, "speak") /\ UNCHANGED <<status, part, n, locked, black, history>>

Speak(c) ==
    /\ pc[c] = "speak"
    /\ part' = [part EXCEPT ![call[c].who].seat = seen[c]]
    /\ Go(c, "done") /\ UNCHANGED <<status, n, seat, locked, black, history>>

\* leaveRoom and leaveSeat free the seat of the row, whoever has it by now.
Free(c) ==
    /\ pc[c] = "free"
    /\ seat' = [seat EXCEPT ![seen[c]] = None]
    /\ Go(c, IF call[c].kind = "stand" THEN "listen" ELSE "done")
    /\ UNCHANGED <<status, part, n, locked, black, history>>

Listen(c) ==
    /\ pc[c] = "listen"
    /\ part' = [part EXCEPT ![call[c].who].seat = None]
    /\ Go(c, "done") /\ UNCHANGED <<status, n, seat, locked, black, history>>

\* assignSeat writes the seat only.
Give(c) ==
    /\ pc[c] = "give"
    /\ LET i == call[c].at IN
        IF i \in DOMAIN seat /\ i \notin locked THEN seat' = [seat EXCEPT ![i] = call[c].who] ELSE UNCHANGED seat
    /\ Go(c, "done") /\ UNCHANGED <<status, part, n, locked, black, history>>

Bar(c) ==
    /\ pc[c] = "bar"
    /\ locked' \in {locked \cup ({call[c].at} \cap DOMAIN seat), locked \ {call[c].at}}
    /\ Go(c, "done") /\ UNCHANGED <<status, part, n, seat, black, history>>

\* The process dies between two statements that belong together.
Crash(c) ==
    /\ pc[c] \in {"seats", "host", "increment", "decrement", "empty room", "speak"}
    /\ raced' = TRUE
    /\ Go(c, "done") /\ UNCHANGED <<room, crowded, closed>>

-----------------------------------------------------------------------------
Handle(c) ==
    \/ Start(c) \/ Insert(c) \/ MakeSeats(c) \/ EnterHost(c) \/ FindRoom(c) \/ FindExisting(c) \/ FindSeat(c)
    \/ Enter(c) \/ Increment(c) \/ FindParticipant(c) \/ Out(c) \/ Decrement(c) \/ Ban(c) \/ Forgive(c)
    \/ Shut(c) \/ EmptyRoom(c) \/ Password(c) \/ Take(c) \/ Speak(c) \/ Free(c) \/ Listen(c) \/ Give(c) \/ Bar(c) \/ Crash(c)

\* No room yet, or the room its host has just opened.
Init ==
    /\ \/ status = "none" /\ part = [u \in Users |-> None] /\ n = 0 /\ seat = <<>>
       \/ /\ status = "active" /\ n = 1 /\ seat = [i \in SeatIds |-> None]
          /\ part = [u \in Users |-> IF u = Host THEN [seat |-> 1, in |-> TRUE] ELSE None]
    /\ locked = {} /\ black = {}
    /\ call = [c \in Calls |-> None] /\ pc = [c \in Calls |-> "new"] /\ seen = [c \in Calls |-> None]
    /\ raced = FALSE /\ crowded = FALSE /\ closed = FALSE

Next == \E c \in Calls : Handle(c)
Spec == Init /\ [][Next]_vars

-----------------------------------------------------------------------------
Labels == {"new", "done", "insert", "seats", "host", "room", "existing", "empty", "enter", "increment", "find", "out",
           "decrement", "ban", "forgive", "shut", "empty room", "password", "take", "speak", "free", "listen", "give", "bar"}

\* Rows and seats are those of a room that was made.
TypeOK ==
    /\ status \in {"none", "created", "active", "closed"} /\ n \in Int
    /\ part \in [Users -> [seat: SeatIds \cup {None}, in: BOOLEAN] \cup {None}]
    /\ DOMAIN seat \in {{}, SeatIds} /\ \A i \in DOMAIN seat : seat[i] \in Users \cup {None}
    /\ status = "none" => part = [u \in Users |-> None] /\ seat = <<>> /\ n = 0
    /\ locked \subseteq DOMAIN seat /\ black \subseteq Users
    /\ call \in [Calls -> Requests \cup {None}] /\ pc \in [Calls -> Labels] /\ seen \in [Calls -> SeatIds \cup {None}]

\* The counter says how many are in the room, once every request has done its
\* part: no operation changes one without the other, as long as no two take the
\* same user out at once, the host does not join before he is entered, no request
\* is cut off and the room stays open.
Counting == {"seats", "host", "increment", "decrement"}
CountedRight ==
    ~raced /\ ~closed /\ (\A c \in Calls : pc[c] \notin Counting) => n = Cardinality(Present)

\* The room is never over its limit, unless two users joined at once.
NotOverfull == ~raced /\ ~closed /\ ~crowded => Cardinality(Present) <= MaxParticipants
=============================================================================
