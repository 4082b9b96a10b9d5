------------------------- MODULE VenuesParts_proofs -------------------------
(***************************************************************************)
(* Rooms, events, clans, sockets, belongings, notifications and balances   *)
(* keep their invariants, each from the assumptions on its constants.      *)
(***************************************************************************)
EXTENDS Venues, Integers, FiniteSetTheorems, TLAPS
-----------------------------------------------------------------------------
(* Rooms.  What a request at a statement is, and what it knows: a room that was
   made, and a participant's row, which never goes. *)
RoomAsked(c) ==
  /\ pc[c] # "new" => call[c] \in RoomRequests
  /\ pc[c] \in {"insert", "seats", "host"} => call[c].kind = "create"
  /\ pc[c] \in {"existing", "enter", "increment"} => call[c].kind = "join"
  /\ pc[c] \in {"out", "decrement"} => call[c].kind \in Room!Outs
  /\ pc[c] \in {"take", "speak"} => call[c].kind = "sit"
  /\ pc[c] = "empty" => call[c].kind \in {"join", "sit"}
  /\ pc[c] = "free" => call[c].kind \in {"leave", "stand"}
  /\ pc[c] = "find" => call[c].kind \in {"leave", "kick", "block", "sit", "stand"}
  /\ pc[c] = "room" => call[c].kind \in {"join", "kick", "block", "unblock", "close", "assign", "lock", "secure"}
RoomMade(c) ==
  /\ status = "none" => pc[c] \in {"new", "done", "insert", "room", "find"} /\ (pc[c] = "find" => call[c].kind # "block")
  /\ pc[c] \in {"out", "decrement", "free", "take", "speak", "listen"} \/ (pc[c] = "empty" /\ call[c].kind = "sit")
       => part[call[c].who] # None
  /\ pc[c] = "empty room" => closed
RoomSlots == pc \in [Calls -> Room!Labels] /\ call \in [Calls -> RoomRequests \cup {None}] /\ seen \in [Calls -> Room!SeatIds \cup {None}]
RoomTable ==
  /\ status \in {"none", "created", "active", "closed"} /\ n \in Int
  /\ part \in [RoomUsers -> [seat: Room!SeatIds \cup {None}, in: BOOLEAN] \cup {None}]
RoomSeats ==
  /\ DOMAIN seat \in {{}, Room!SeatIds} /\ \A i \in DOMAIN seat : seat[i] \in RoomUsers \cup {None}
  /\ locked \subseteq DOMAIN seat /\ black \subseteq RoomUsers
RoomNone == status = "none" => part = [u \in RoomUsers |-> None] /\ seat = <<>> /\ n = 0
RoomFits == RoomSlots /\ RoomTable /\ RoomSeats /\ RoomNone /\ (\A c \in Calls : RoomAsked(c) /\ RoomMade(c))

(* The fields of a request. *)
LEMMA RoomRequest ==
  ASSUME Room!RoomsAssumption, NEW r \in RoomRequests
  PROVE  r.kind \in Room!Kinds /\ r.by \in RoomUsers /\ r.who \in RoomUsers /\ r.at \in Room!SeatIds
BY DEF Room!RoomsAssumption

(* Where a request starts. *)
LEMMA RoomFirst ==
  ASSUME Room!RoomsAssumption, NEW r \in RoomRequests
  PROVE  Room!First[r.kind] = IF r.kind = "create" THEN "insert" ELSE IF r.kind \in {"leave", "sit", "stand"} THEN "find" ELSE "room"
BY RoomRequest DEF Room!First

(* Where it goes from the room and from the participant. *)
LEMMA RoomAfter ==
  /\ Room!AfterRoom["join"] = "existing" /\ Room!AfterRoom["kick"] = "find" /\ Room!AfterRoom["block"] = "find"
  /\ Room!AfterRoom["unblock"] = "forgive" /\ Room!AfterRoom["close"] = "shut" /\ Room!AfterRoom["assign"] = "give"
  /\ Room!AfterRoom["lock"] = "bar" /\ Room!AfterRoom["secure"] = "password"
  /\ Room!AfterFind["leave"] = "out" /\ Room!AfterFind["kick"] = "out" /\ Room!AfterFind["block"] = "out"
  /\ Room!AfterFind["sit"] = "empty" /\ Room!AfterFind["stand"] = "free"
BY DEF Room!AfterRoom, Room!AfterFind

(* A request begins, and nothing else changes but what history notices. *)
LEMMA RoomBegins ==
  ASSUME Room!RoomsAssumption, RoomFits, NEW c \in Calls, Room!Start(c)
  PROVE  \E r \in RoomRequests, l \in {"insert", "find", "room"} :
           /\ pc[c] = "new" /\ call' = [call EXCEPT ![c] = r] /\ pc' = [pc EXCEPT ![c] = l]
           /\ l = IF r.kind = "create" THEN "insert" ELSE IF r.kind \in {"leave", "sit", "stand"} THEN "find" ELSE "room"
           /\ r.kind \in Room!Kinds /\ r.by \in RoomUsers /\ r.who \in RoomUsers
           /\ raced' = (raced \/ (r.kind \in Room!Outs /\ \E d \in Calls : Room!Active(d) /\ call[d].kind \in Room!Outs /\ call[d].who = r.who))
           /\ crowded' = (crowded \/ (r.kind = "join" /\ \E d \in Calls : Room!Active(d) /\ call[d].kind = "join"))
           /\ UNCHANGED <<status, part, n, seat, locked, black, seen, closed>>
<1>1. PICK r \in RoomRequests :
        LET rivals == {call[d] : d \in {e \in Calls : Room!Active(e)}} IN
        /\ call' = [call EXCEPT ![c] = r] /\ Room!Goto(c, Room!First[r.kind])
        /\ raced' = (raced \/ (r.kind \in Room!Outs /\ \E q \in rivals : q.kind \in Room!Outs /\ q.who = r.who))
        /\ crowded' = (crowded \/ (r.kind = "join" /\ \E q \in rivals : q.kind = "join"))
  BY DEF Room!Start
<1>2. pc[c] = "new" /\ UNCHANGED <<status, part, n, seat, locked, black, seen, closed>>
  BY DEF Room!Start, Room!room
<1>3. raced' = (raced \/ (r.kind \in Room!Outs /\ \E d \in Calls : Room!Active(d) /\ call[d].kind \in Room!Outs /\ call[d].who = r.who))
  BY <1>1, Zenon
<1>4. crowded' = (crowded \/ (r.kind = "join" /\ \E d \in Calls : Room!Active(d) /\ call[d].kind = "join"))
  BY <1>1, Zenon
<1>5. Room!First[r.kind] \in {"insert", "find", "room"} /\ pc' = [pc EXCEPT ![c] = Room!First[r.kind]]
  BY <1>1, RoomFirst DEF Room!Goto
<1>6. QED
  BY <1>1, <1>2, <1>3, <1>4, <1>5, RoomFirst, RoomRequest

(* A request stays in its slot. *)
LEMMA RoomSlotsKept ==
  ASSUME Room!RoomsAssumption, RoomFits, NEW c \in Calls, Room!Handle(c)
  PROVE  RoomSlots'
<1> USE DEF RoomSlots, RoomFits, RoomAsked
<1>1. ASSUME Room!Start(c) PROVE RoomSlots'
  <2>1. PICK r \in RoomRequests, l \in {"insert", "find", "room"} :
          call' = [call EXCEPT ![c] = r] /\ pc' = [pc EXCEPT ![c] = l] /\ seen' = seen
    BY <1>1, RoomBegins
  <2>2. l \in Room!Labels
    BY DEF Room!Labels
  <2>3. QED
    BY <2>1, <2>2
<1>2. ASSUME Room!Insert(c) PROVE RoomSlots'
  BY <1>2, RoomAfter DEF Room!Insert, Room!Go, Room!Goto, Room!history, Room!Labels
<1>3. ASSUME Room!MakeSeats(c) PROVE RoomSlots'
  BY <1>3, RoomAfter DEF Room!MakeSeats, Room!Go, Room!Goto, Room!history, Room!Labels
<1>4. ASSUME Room!EnterHost(c) PROVE RoomSlots'
  BY <1>4, RoomAfter DEF Room!EnterHost, Room!Go, Room!Goto, Room!Labels
<1>5. ASSUME Room!FindRoom(c) PROVE RoomSlots'
  <2>1. Room!AfterRoom[call[c].kind] \in Room!Labels /\ "done" \in Room!Labels
    BY <1>5, RoomAfter DEF Room!FindRoom, Room!Labels
  <2>2. QED
    BY <1>5, <2>1 DEF Room!FindRoom, Room!Go, Room!Reads, Room!Goto
<1>6. ASSUME Room!FindExisting(c) PROVE RoomSlots'
  BY <1>6, RoomAfter DEF Room!FindExisting, Room!Go, Room!In, Room!Reads, Room!room, Room!history, Room!Goto, Room!Labels
<1>7. ASSUME Room!FindSeat(c) PROVE RoomSlots'
  <2>1. Room!Empty \subseteq Room!SeatIds /\ {"enter", "done", "take"} \subseteq Room!Labels
    BY DEF Room!Empty, Room!Labels, RoomSeats
  <2>2. QED
    BY <1>7, <2>1 DEF Room!FindSeat, Room!Goto
<1>8. ASSUME Room!Enter(c) PROVE RoomSlots'
  BY <1>8, RoomAfter DEF Room!Enter, Room!Go, Room!Goto, Room!history, Room!Labels
<1>9. ASSUME Room!Increment(c) PROVE RoomSlots'
  BY <1>9, RoomAfter DEF Room!Increment, Room!Go, Room!Goto, Room!history, Room!Labels
<1>10. ASSUME Room!FindParticipant(c) PROVE RoomSlots'
  <2>1. Room!AfterFind[call[c].kind] \in Room!Labels /\ Room!Absent(call[c]) \in Room!Labels
    BY <1>10, RoomAfter DEF Room!FindParticipant, Room!Labels, Room!Absent
  <2>2. call[c].who \in RoomUsers /\ (Room!In(call[c].who) => part[call[c].who].seat \in Room!SeatIds \cup {None})
    BY <1>10, RoomRequest DEF Room!FindParticipant, Room!In, RoomTable
  <2>3. QED
    BY <1>10, <2>1, <2>2 DEF Room!FindParticipant, Room!Goto
<1>11. ASSUME Room!Out(c) PROVE RoomSlots'
  BY <1>11, RoomAfter DEF Room!Out, Room!Go, Room!Goto, Room!history, Room!Labels
<1>12. ASSUME Room!Decrement(c) PROVE RoomSlots'
  BY <1>12, RoomAfter DEF Room!Decrement, Room!AfterOut, Room!Go, Room!Goto, Room!history, Room!Labels
<1>13. ASSUME Room!Ban(c) PROVE RoomSlots'
  BY <1>13, RoomAfter DEF Room!Ban, Room!Go, Room!Goto, Room!history, Room!Labels
<1>14. ASSUME Room!Forgive(c) PROVE RoomSlots'
  BY <1>14, RoomAfter DEF Room!Forgive, Room!Go, Room!Goto, Room!history, Room!Labels
<1>15. ASSUME Room!Shut(c) PROVE RoomSlots'
  BY <1>15, RoomAfter DEF Room!Shut, Room!Go, Room!Goto, Room!Labels
<1>16. ASSUME Room!EmptyRoom(c) PROVE RoomSlots'
  BY <1>16, RoomAfter DEF Room!EmptyRoom, Room!In, Room!Go, Room!Goto, Room!history, Room!Labels
<1>17. ASSUME Room!Password(c) PROVE RoomSlots'
  BY <1>17, RoomAfter DEF Room!Password, Room!Go, Room!Goto, Room!history, Room!Labels
<1>18. ASSUME Room!Take(c) PROVE RoomSlots'
  BY <1>18, RoomAfter DEF Room!Take, Room!Go, Room!Goto, Room!history, Room!Labels
<1>19. ASSUME Room!Speak(c) PROVE RoomSlots'
  BY <1>19, RoomAfter DEF Room!Speak, Room!Go, Room!Goto, Room!history, Room!Labels
<1>20. ASSUME Room!Free(c) PROVE RoomSlots'
  BY <1>20, RoomAfter DEF Room!Free, Room!Go, Room!Goto, Room!history, Room!Labels
<1>21. ASSUME Room!Listen(c) PROVE RoomSlots'
  BY <1>21, RoomAfter DEF Room!Listen, Room!Go, Room!Goto, Room!history, Room!Labels
<1>22. ASSUME Room!Give(c) PROVE RoomSlots'
  BY <1>22, RoomAfter DEF Room!Give, Room!Go, Room!Goto, Room!history, Room!Labels
<1>23. ASSUME Room!Bar(c) PROVE RoomSlots'
  BY <1>23, RoomAfter DEF Room!Bar, Room!Go, Room!Goto, Room!history, Room!Labels
<1>24. ASSUME Room!Crash(c) PROVE RoomSlots'
  BY <1>24, RoomAfter DEF Room!Crash, Room!Go, Room!Goto, Room!room, Room!Labels
<1>25. QED
  BY <1>1, <1>2, <1>3, <1>4, <1>5, <1>6, <1>7, <1>8, <1>9, <1>10, <1>11, <1>12, <1>13, <1>14, <1>15, <1>16, <1>17, <1>18, <1>19, <1>20, <1>21, <1>22, <1>23, <1>24 DEF Room!Handle

(* The room and its participants keep their types. *)
LEMMA RoomTableKept ==
  ASSUME Room!RoomsAssumption, RoomFits, NEW c \in Calls, Room!Handle(c)
  PROVE  RoomTable'
<1> USE DEF RoomTable, RoomFits
<1>1. ASSUME Room!Start(c) PROVE RoomTable'
  BY <1>1, RoomBegins
<1>2. ASSUME Room!Insert(c) PROVE RoomTable'
  BY <1>2 DEF Room!Insert, Room!Go, Room!Goto, Room!history
<1>3. ASSUME Room!MakeSeats(c) PROVE RoomTable'
  BY <1>3, RoomRequest DEF Room!MakeSeats, Room!Go, Room!Goto, Room!history
<1>4. ASSUME Room!EnterHost(c) PROVE RoomTable'
  <2>1. [seat |-> 1, in |-> TRUE] \in [seat: Room!SeatIds \cup {None}, in: BOOLEAN] /\ RoomHost \in RoomUsers
    BY DEF Room!SeatIds, Room!RoomsAssumption
  <2>2. QED
    BY <1>4, <2>1 DEF Room!EnterHost, Room!Go, Room!Goto
<1>5. ASSUME Room!FindRoom(c) PROVE RoomTable'
  BY <1>5, RoomRequest DEF Room!FindRoom, Room!Go, Room!Admits, Room!RoomFor, Room!Reads, Room!room, Room!history, Room!Goto
<1>6. ASSUME Room!FindExisting(c) PROVE RoomTable'
  BY <1>6, RoomRequest DEF Room!FindExisting, Room!Go, Room!In, Room!Reads, Room!room, Room!history, Room!Goto
<1>7. ASSUME Room!FindSeat(c) PROVE RoomTable'
  BY <1>7, RoomRequest DEF Room!FindSeat, Room!Empty, Room!Reads, Room!room, Room!history, Room!Goto
<1>8. ASSUME Room!Enter(c) PROVE RoomTable'
  <2>1. [seat |-> seen[c], in |-> TRUE] \in [seat: Room!SeatIds \cup {None}, in: BOOLEAN] /\ call[c].who \in RoomUsers
    BY <1>8, RoomRequest DEF RoomSlots, RoomAsked, Room!Enter
  <2>2. QED
    BY <1>8, <2>1 DEF Room!Enter, Room!Go, Room!Goto, Room!history
<1>9. ASSUME Room!Increment(c) PROVE RoomTable'
  BY <1>9, RoomRequest DEF Room!Increment, Room!Go, Room!Goto, Room!history
<1>10. ASSUME Room!FindParticipant(c) PROVE RoomTable'
  BY <1>10, RoomRequest DEF Room!FindParticipant, Room!Absent, Room!In, Room!Reads, Room!room, Room!history, Room!Goto
<1>11. ASSUME Room!Out(c) PROVE RoomTable'
  <2>1. call[c].who \in RoomUsers /\ part[call[c].who] # None
    BY <1>11, RoomRequest DEF RoomSlots, RoomAsked, RoomMade, Room!Out
  <2>2. [part[call[c].who] EXCEPT !.in = FALSE] \in [seat: Room!SeatIds \cup {None}, in: BOOLEAN]
    BY <2>1
  <2>3. QED
    BY <1>11, <2>1, <2>2 DEF Room!Out, Room!Go, Room!Goto, Room!history
<1>12. ASSUME Room!Decrement(c) PROVE RoomTable'
  BY <1>12, RoomRequest DEF Room!Decrement, Room!AfterOut, Room!Go, Room!Goto, Room!history
<1>13. ASSUME Room!Ban(c) PROVE RoomTable'
  BY <1>13, RoomRequest DEF Room!Ban, Room!Go, Room!Goto, Room!history
<1>14. ASSUME Room!Forgive(c) PROVE RoomTable'
  BY <1>14, RoomRequest DEF Room!Forgive, Room!Go, Room!Goto, Room!history
<1>15. ASSUME Room!Shut(c) PROVE RoomTable'
  BY <1>15, RoomRequest DEF Room!Shut, Room!Go, Room!Goto
<1>16. ASSUME Room!EmptyRoom(c) PROVE RoomTable'
  <2>1. \A u \in RoomUsers : Room!In(u) => [part[u] EXCEPT !.in = FALSE] \in [seat: Room!SeatIds \cup {None}, in: BOOLEAN]
    BY DEF Room!In
  <2>2. QED
    BY <1>16, <2>1 DEF Room!EmptyRoom, Room!Go, Room!Goto, Room!history
<1>17. ASSUME Room!Password(c) PROVE RoomTable'
  BY <1>17, RoomRequest DEF Room!Password, Room!Go, Room!Goto, Room!history
<1>18. ASSUME Room!Take(c) PROVE RoomTable'
  BY <1>18, RoomRequest DEF Room!Take, Room!Go, Room!Goto, Room!history
<1>19. ASSUME Room!Speak(c) PROVE RoomTable'
  <2>1. call[c].who \in RoomUsers /\ part[call[c].who] # None /\ seen[c] \in Room!SeatIds \cup {None}
    BY <1>19, RoomRequest DEF RoomSlots, RoomAsked, RoomMade, Room!Speak
  <2>2. [part[call[c].who] EXCEPT !.seat = seen[c]] \in [seat: Room!SeatIds \cup {None}, in: BOOLEAN]
    BY <2>1
  <2>3. QED
    BY <1>19, <2>1, <2>2 DEF Room!Speak, Room!Go, Room!Goto, Room!history
<1>20. ASSUME Room!Free(c) PROVE RoomTable'
  BY <1>20, RoomRequest DEF Room!Free, Room!Go, Room!Goto, Room!history
<1>21. ASSUME Room!Listen(c) PROVE RoomTable'
  <2>1. call[c].who \in RoomUsers /\ part[call[c].who] # None
    BY <1>21, RoomRequest DEF RoomSlots, RoomAsked, RoomMade, Room!Listen
  <2>2. [part[call[c].who] EXCEPT !.seat = None] \in [seat: Room!SeatIds \cup {None}, in: BOOLEAN]
    BY <2>1
  <2>3. QED
    BY <1>21, <2>1, <2>2 DEF Room!Listen, Room!Go, Room!Goto, Room!history
<1>22. ASSUME Room!Give(c) PROVE RoomTable'
  BY <1>22, RoomRequest DEF Room!Give, Room!Go, Room!Goto, Room!history
<1>23. ASSUME Room!Bar(c) PROVE RoomTable'
  BY <1>23, RoomRequest DEF Room!Bar, Room!Go, Room!Goto, Room!history
<1>24. ASSUME Room!Crash(c) PROVE RoomTable'
  BY <1>24, RoomRequest DEF Room!Crash, Room!Go, Room!Goto, Room!room
<1>25. QED
  BY <1>1, <1>2, <1>3, <1>4, <1>5, <1>6, <1>7, <1>8, <1>9, <1>10, <1>11, <1>12, <1>13, <1>14, <1>15, <1>16, <1>17, <1>18, <1>19, <1>20, <1>21, <1>22, <1>23, <1>24 DEF Room!Handle

(* So do the seats and the blacklist. *)
LEMMA RoomSeatsKept ==
  ASSUME Room!RoomsAssumption, RoomFits, NEW c \in Calls, Room!Handle(c)
  PROVE  RoomSeats'
<1> USE DEF RoomSlots, RoomSeats, RoomFits, RoomAsked
<1>1. ASSUME Room!Start(c) PROVE RoomSeats'
  BY <1>1, RoomRequest DEF Room!Start, Room!room, Room!Goto, Room!First
<1>2. ASSUME Room!Insert(c) PROVE RoomSeats'
  BY <1>2, RoomRequest DEF Room!Insert, Room!Go, Room!Goto, Room!history
<1>3. ASSUME Room!MakeSeats(c) PROVE RoomSeats'
  BY <1>3, RoomRequest DEF Room!MakeSeats, Room!Go, Room!Goto, Room!history
<1>4. ASSUME Room!EnterHost(c) PROVE RoomSeats'
  BY <1>4, RoomRequest DEF Room!EnterHost, Room!Go, Room!Goto
<1>5. ASSUME Room!FindRoom(c) PROVE RoomSeats'
  BY <1>5, RoomRequest DEF Room!FindRoom, Room!Go, Room!Admits, Room!RoomFor, Room!Reads, Room!room, Room!history, Room!Goto
<1>6. ASSUME Room!FindExisting(c) PROVE RoomSeats'
  BY <1>6, RoomRequest DEF Room!FindExisting, Room!Go, Room!In, Room!Reads, Room!room, Room!history, Room!Goto
<1>7. ASSUME Room!FindSeat(c) PROVE RoomSeats'
  BY <1>7, RoomRequest DEF Room!FindSeat, Room!Empty, Room!Reads, Room!room, Room!history, Room!Goto
<1>8. ASSUME Room!Enter(c) PROVE RoomSeats'
  BY <1>8, RoomRequest DEF Room!Enter, Room!Go, Room!Goto, Room!history
<1>9. ASSUME Room!Increment(c) PROVE RoomSeats'
  BY <1>9, RoomRequest DEF Room!Increment, Room!Go, Room!Goto, Room!history
<1>10. ASSUME Room!FindParticipant(c) PROVE RoomSeats'
  BY <1>10, RoomRequest DEF Room!FindParticipant, Room!Absent, Room!In, Room!Reads, Room!room, Room!history, Room!Goto
<1>11. ASSUME Room!Out(c) PROVE RoomSeats'
  BY <1>11, RoomRequest DEF Room!Out, Room!Go, Room!Goto, Room!history
<1>12. ASSUME Room!Decrement(c) PROVE RoomSeats'
  BY <1>12, RoomRequest DEF Room!Decrement, Room!AfterOut, Room!Go, Room!Goto, Room!history
<1>13. ASSUME Room!Ban(c) PROVE RoomSeats'
  BY <1>13, RoomRequest DEF Room!Ban, Room!Go, Room!Goto, Room!history
<1>14. ASSUME Room!Forgive(c) PROVE RoomSeats'
  BY <1>14, RoomRequest DEF Room!Forgive, Room!Go, Room!Goto, Room!history
<1>15. ASSUME Room!Shut(c) PROVE RoomSeats'
  BY <1>15, RoomRequest DEF Room!Shut, Room!Go, Room!Goto
<1>16. ASSUME Room!EmptyRoom(c) PROVE RoomSeats'
  BY <1>16, RoomRequest DEF Room!EmptyRoom, Room!In, Room!Go, Room!Goto, Room!history
<1>17. ASSUME Room!Password(c) PROVE RoomSeats'
  BY <1>17, RoomRequest DEF Room!Password, Room!Go, Room!Goto, Room!history
<1>18. ASSUME Room!Take(c) PROVE RoomSeats'
  BY <1>18, RoomRequest DEF Room!Take, Room!Go, Room!Goto, Room!history
<1>19. ASSUME Room!Speak(c) PROVE RoomSeats'
  BY <1>19, RoomRequest DEF Room!Speak, Room!Go, Room!Goto, Room!history
<1>20. ASSUME Room!Free(c) PROVE RoomSeats'
  BY <1>20, RoomRequest DEF Room!Free, Room!Go, Room!Goto, Room!history
<1>21. ASSUME Room!Listen(c) PROVE RoomSeats'
  BY <1>21, RoomRequest DEF Room!Listen, Room!Go, Room!Goto, Room!history
<1>22. ASSUME Room!Give(c) PROVE RoomSeats'
  BY <1>22, RoomRequest DEF Room!Give, Room!Go, Room!Goto, Room!history
<1>23. ASSUME Room!Bar(c) PROVE RoomSeats'
  BY <1>23, RoomRequest DEF Room!Bar, Room!Go, Room!Goto, Room!history
<1>24. ASSUME Room!Crash(c) PROVE RoomSeats'
  BY <1>24, RoomRequest DEF Room!Crash, Room!Go, Room!Goto, Room!room
<1>25. QED
  BY <1>1, <1>2, <1>3, <1>4, <1>5, <1>6, <1>7, <1>8, <1>9, <1>10, <1>11, <1>12, <1>13, <1>14, <1>15, <1>16, <1>17, <1>18, <1>19, <1>20, <1>21, <1>22, <1>23, <1>24 DEF Room!Handle

(* A statement has the requests it had. *)
LEMMA RoomAskedKept ==
  ASSUME Room!RoomsAssumption, RoomFits, NEW c \in Calls, Room!Handle(c)
  PROVE  \A d \in Calls : RoomAsked(d)'
<1> USE DEF RoomSlots, RoomFits, RoomAsked
<1>1. ASSUME Room!Start(c) PROVE \A d \in Calls : RoomAsked(d)'
  BY <1>1, RoomBegins DEF Room!Kinds
<1>2. ASSUME Room!Insert(c) PROVE \A d \in Calls : RoomAsked(d)'
  BY <1>2, RoomAfter DEF Room!Insert, Room!Go, Room!Goto, Room!history, Room!Outs
<1>3. ASSUME Room!MakeSeats(c) PROVE \A d \in Calls : RoomAsked(d)'
  BY <1>3, RoomAfter DEF Room!MakeSeats, Room!Go, Room!Goto, Room!history, Room!Outs
<1>4. ASSUME Room!EnterHost(c) PROVE \A d \in Calls : RoomAsked(d)'
  BY <1>4, RoomAfter DEF Room!EnterHost, Room!Go, Room!Goto, Room!Outs
<1>5. ASSUME Room!FindRoom(c) PROVE \A d \in Calls : RoomAsked(d)'
  BY <1>5, RoomAfter DEF Room!FindRoom, Room!Go, Room!Admits, Room!RoomFor, Room!Reads, Room!room, Room!history, Room!Goto, Room!Outs
<1>6. ASSUME Room!FindExisting(c) PROVE \A d \in Calls : RoomAsked(d)'
  BY <1>6, RoomAfter DEF Room!FindExisting, Room!Go, Room!In, Room!Reads, Room!room, Room!history, Room!Goto, Room!Outs
<1>7. ASSUME Room!FindSeat(c) PROVE \A d \in Calls : RoomAsked(d)'
  BY <1>7, RoomAfter DEF Room!FindSeat, Room!Empty, Room!Reads, Room!room, Room!history, Room!Goto, Room!Outs
<1>8. ASSUME Room!Enter(c) PROVE \A d \in Calls : RoomAsked(d)'
  BY <1>8, RoomAfter DEF Room!Enter, Room!Go, Room!Goto, Room!history, Room!Outs
<1>9. ASSUME Room!Increment(c) PROVE \A d \in Calls : RoomAsked(d)'
  BY <1>9, RoomAfter DEF Room!Increment, Room!Go, Room!Goto, Room!history, Room!Outs
<1>10. ASSUME Room!FindParticipant(c) PROVE \A d \in Calls : RoomAsked(d)'
  BY <1>10, RoomAfter DEF Room!FindParticipant, Room!Absent, Room!In, Room!Reads, Room!room, Room!history, Room!Goto, Room!Outs
<1>11. ASSUME Room!Out(c) PROVE \A d \in Calls : RoomAsked(d)'
  BY <1>11, RoomAfter DEF Room!Out, Room!Go, Room!Goto, Room!history, Room!Outs
<1>12. ASSUME Room!Decrement(c) PROVE \A d \in Calls : RoomAsked(d)'
  BY <1>12, RoomAfter DEF Room!Decrement, Room!AfterOut, Room!Go, Room!Goto, Room!history, Room!Outs
<1>13. ASSUME Room!Ban(c) PROVE \A d \in Calls : RoomAsked(d)'
  BY <1>13, RoomAfter DEF Room!Ban, Room!Go, Room!Goto, Room!history, Room!Outs
<1>14. ASSUME Room!Forgive(c) PROVE \A d \in Calls : RoomAsked(d)'
  BY <1>14, RoomAfter DEF Room!Forgive, Room!Go, Room!Goto, Room!history, Room!Outs
<1>15. ASSUME Room!Shut(c) PROVE \A d \in Calls : RoomAsked(d)'
  BY <1>15, RoomAfter DEF Room!Shut, Room!Go, Room!Goto, Room!Outs
<1>16. ASSUME Room!EmptyRoom(c) PROVE \A d \in Calls : RoomAsked(d)'
  BY <1>16, RoomAfter DEF Room!EmptyRoom, Room!In, Room!Go, Room!Goto, Room!history, Room!Outs
<1>17. ASSUME Room!Password(c) PROVE \A d \in Calls : RoomAsked(d)'
  BY <1>17, RoomAfter DEF Room!Password, Room!Go, Room!Goto, Room!history, Room!Outs
<1>18. ASSUME Room!Take(c) PROVE \A d \in Calls : RoomAsked(d)'
  BY <1>18, RoomAfter DEF Room!Take, Room!Go, Room!Goto, Room!history, Room!Outs
<1>19. ASSUME Room!Speak(c) PROVE \A d \in Calls : RoomAsked(d)'
  BY <1>19, RoomAfter DEF Room!Speak, Room!Go, Room!Goto, Room!history, Room!Outs
<1>20. ASSUME Room!Free(c) PROVE \A d \in Calls : RoomAsked(d)'
  BY <1>20, RoomAfter DEF Room!Free, Room!Go, Room!Goto, Room!history, Room!Outs
<1>21. ASSUME Room!Listen(c) PROVE \A d \in Calls : RoomAsked(d)'
  BY <1>21, RoomAfter DEF Room!Listen, Room!Go, Room!Goto, Room!history, Room!Outs
<1>22. ASSUME Room!Give(c) PROVE \A d \in Calls : RoomAsked(d)'
  BY <1>22, RoomAfter DEF Room!Give, Room!Go, Room!Goto, Room!history, Room!Outs
<1>23. ASSUME Room!Bar(c) PROVE \A d \in Calls : RoomAsked(d)'
  BY <1>23, RoomAfter DEF Room!Bar, Room!Go, Room!Goto, Room!history, Room!Outs
<1>24. ASSUME Room!Crash(c) PROVE \A d \in Calls : RoomAsked(d)'
  BY <1>24, RoomAfter DEF Room!Crash, Room!Go, Room!Goto, Room!room, Room!Outs
<1>25. QED
  BY <1>1, <1>2, <1>3, <1>4, <1>5, <1>6, <1>7, <1>8, <1>9, <1>10, <1>11, <1>12, <1>13, <1>14, <1>15, <1>16, <1>17, <1>18, <1>19, <1>20, <1>21, <1>22, <1>23, <1>24 DEF Room!Handle

(* What has been made stays, and the other requests are where they were. *)
RoomLasting(c) ==
  /\ status' = "none" => status = "none"
  /\ \A u \in RoomUsers : part[u] # None => part'[u] # None
  /\ closed => closed'
  /\ \A d \in Calls : d # c => pc'[d] = pc[d] /\ call'[d] = call[d]

(* Every step keeps them. *)
LEMMA RoomLasts ==
  ASSUME Room!RoomsAssumption, RoomFits, NEW c \in Calls, Room!Handle(c)
  PROVE  RoomLasting(c)
<1> USE DEF RoomSlots, RoomTable, RoomFits, RoomLasting
<1>1. ASSUME Room!Start(c) PROVE RoomLasting(c)
  BY <1>1, RoomBegins
<1>2. ASSUME Room!Insert(c) PROVE RoomLasting(c)
  BY <1>2 DEF Room!Insert, Room!Go, Room!Goto, Room!history, Room!RoomsAssumption
<1>3. ASSUME Room!MakeSeats(c) PROVE RoomLasting(c)
  BY <1>3 DEF Room!MakeSeats, Room!Go, Room!Goto, Room!history, Room!RoomsAssumption
<1>4. ASSUME Room!EnterHost(c) PROVE RoomLasting(c)
  BY <1>4 DEF Room!EnterHost, Room!Go, Room!Goto, Room!RoomsAssumption
<1>5. ASSUME Room!FindRoom(c) PROVE RoomLasting(c)
  BY <1>5 DEF Room!FindRoom, Room!Go, Room!Admits, Room!RoomFor, Room!Reads, Room!room, Room!history, Room!Goto, Room!RoomsAssumption
<1>6. ASSUME Room!FindExisting(c) PROVE RoomLasting(c)
  BY <1>6 DEF Room!FindExisting, Room!Go, Room!In, Room!Reads, Room!room, Room!history, Room!Goto, Room!RoomsAssumption
<1>7. ASSUME Room!FindSeat(c) PROVE RoomLasting(c)
  BY <1>7 DEF Room!FindSeat, Room!Empty, Room!Reads, Room!room, Room!history, Room!Goto, Room!RoomsAssumption
<1>8. ASSUME Room!Enter(c) PROVE RoomLasting(c)
  BY <1>8 DEF Room!Enter, Room!Go, Room!Goto, Room!history, Room!RoomsAssumption
<1>9. ASSUME Room!Increment(c) PROVE RoomLasting(c)
  BY <1>9 DEF Room!Increment, Room!Go, Room!Goto, Room!history, Room!RoomsAssumption
<1>10. ASSUME Room!FindParticipant(c) PROVE RoomLasting(c)
  BY <1>10 DEF Room!FindParticipant, Room!Absent, Room!In, Room!Reads, Room!room, Room!history, Room!Goto, Room!RoomsAssumption
<1>11. ASSUME Room!Out(c) PROVE RoomLasting(c)
  <2> DEFINE w == call[c].who
  <2>1. pc[c] = "out" /\ call[c] \in RoomRequests /\ part[w] # None
    BY <1>11 DEF Room!Out, RoomAsked, RoomMade
  <2>2. w \in RoomUsers
    BY <2>1, RoomRequest
  <2>3. part' = [part EXCEPT ![w].in = FALSE]
    BY <1>11 DEF Room!Out
  <2>4. part[w] \in [seat: Room!SeatIds \cup {None}, in: BOOLEAN]
    BY <2>1, <2>2
  <2>5. [part[w] EXCEPT !.in = FALSE] \in [seat: Room!SeatIds \cup {None}, in: BOOLEAN]
    BY <2>4
  <2>6. part'[w] # None
    BY <2>2, <2>3, <2>5 DEF Room!RoomsAssumption
  <2>7. \A u \in RoomUsers : u # w => part'[u] = part[u]
    BY <2>2, <2>3
  <2>8. status' = status /\ closed' = closed /\ call' = call /\ (\A d \in Calls : d # c => pc'[d] = pc[d])
    BY <1>11 DEF Room!Out, Room!Go, Room!Goto, Room!history
  <2>9. QED
    BY <2>6, <2>7, <2>8
<1>12. ASSUME Room!Decrement(c) PROVE RoomLasting(c)
  BY <1>12 DEF Room!Decrement, Room!AfterOut, Room!Go, Room!Goto, Room!history, Room!RoomsAssumption
<1>13. ASSUME Room!Ban(c) PROVE RoomLasting(c)
  BY <1>13 DEF Room!Ban, Room!Go, Room!Goto, Room!history, Room!RoomsAssumption
<1>14. ASSUME Room!Forgive(c) PROVE RoomLasting(c)
  BY <1>14 DEF Room!Forgive, Room!Go, Room!Goto, Room!history, Room!RoomsAssumption
<1>15. ASSUME Room!Shut(c) PROVE RoomLasting(c)
  BY <1>15 DEF Room!Shut, Room!Go, Room!Goto, Room!RoomsAssumption
<1>16. ASSUME Room!EmptyRoom(c) PROVE RoomLasting(c)
  BY <1>16 DEF Room!EmptyRoom, Room!In, Room!Go, Room!Goto, Room!history, Room!RoomsAssumption
<1>17. ASSUME Room!Password(c) PROVE RoomLasting(c)
  BY <1>17 DEF Room!Password, Room!Go, Room!Goto, Room!history, Room!RoomsAssumption
<1>18. ASSUME Room!Take(c) PROVE RoomLasting(c)
  BY <1>18 DEF Room!Take, Room!Go, Room!Goto, Room!history, Room!RoomsAssumption
<1>19. ASSUME Room!Speak(c) PROVE RoomLasting(c)
  BY <1>19 DEF Room!Speak, Room!Go, Room!Goto, Room!history, Room!RoomsAssumption
<1>20. ASSUME Room!Free(c) PROVE RoomLasting(c)
  BY <1>20 DEF Room!Free, Room!Go, Room!Goto, Room!history, Room!RoomsAssumption
<1>21. ASSUME Room!Listen(c) PROVE RoomLasting(c)
  BY <1>21 DEF Room!Listen, Room!Go, Room!Goto, Room!history, Room!RoomsAssumption
<1>22. ASSUME Room!Give(c) PROVE RoomLasting(c)
  BY <1>22 DEF Room!Give, Room!Go, Room!Goto, Room!history, Room!RoomsAssumption
<1>23. ASSUME Room!Bar(c) PROVE RoomLasting(c)
  BY <1>23 DEF Room!Bar, Room!Go, Room!Goto, Room!history, Room!RoomsAssumption
<1>24. ASSUME Room!Crash(c) PROVE RoomLasting(c)
  BY <1>24 DEF Room!Crash, Room!Go, Room!Goto, Room!room, Room!RoomsAssumption
<1>25. QED
  BY <1>1, <1>2, <1>3, <1>4, <1>5, <1>6, <1>7, <1>8, <1>9, <1>10, <1>11, <1>12, <1>13, <1>14, <1>15, <1>16, <1>17, <1>18, <1>19, <1>20, <1>21, <1>22, <1>23, <1>24 DEF Room!Handle

(* A request has seen the room, and its participant. *)
LEMMA RoomMadeKept ==
  ASSUME Room!RoomsAssumption, RoomFits, NEW c \in Calls, Room!Handle(c)
  PROVE  RoomMade(c)'
<1> USE DEF RoomSlots, RoomTable, RoomFits, RoomAsked, RoomMade
<1>1. ASSUME Room!Start(c) PROVE RoomMade(c)'
  BY <1>1, RoomBegins
<1>2. ASSUME Room!Insert(c) PROVE RoomMade(c)'
  BY <1>2 DEF Room!Insert, Room!Go, Room!Goto, Room!history
<1>3. ASSUME Room!MakeSeats(c) PROVE RoomMade(c)'
  BY <1>3, RoomAfter, RoomRequest, RoomLasts DEF Room!MakeSeats, Room!Go, Room!Goto, Room!history
<1>4. ASSUME Room!EnterHost(c) PROVE RoomMade(c)'
  BY <1>4, RoomAfter, RoomRequest, RoomLasts DEF Room!EnterHost, Room!Go, Room!Goto
<1>5. ASSUME Room!FindRoom(c) PROVE RoomMade(c)'
  BY <1>5, RoomAfter, RoomRequest, RoomLasts DEF Room!FindRoom, Room!Go, Room!Admits, Room!RoomFor, Room!Reads, Room!room, Room!history, Room!Goto
<1>6. ASSUME Room!FindExisting(c) PROVE RoomMade(c)'
  BY <1>6, RoomAfter, RoomRequest, RoomLasts DEF Room!FindExisting, Room!Go, Room!In, Room!Reads, Room!room, Room!history, Room!Goto
<1>7. ASSUME Room!FindSeat(c) PROVE RoomMade(c)'
  <2>1. pc[c] = "empty" /\ call' = call /\ status' = status /\ part' = part /\ closed' = closed
    BY <1>7 DEF Room!FindSeat, Room!Reads, Room!room, Room!history
  <2>2. pc' = [pc EXCEPT ![c] = pc'[c]] /\ pc'[c] \in {"enter", "done", "take"} /\ (pc'[c] = "take" => call[c].kind # "join")
    BY <1>7 DEF Room!FindSeat, Room!Goto
  <2>3. call[c].kind \in {"join", "sit"} /\ status # "none"
    BY <2>1
  <2>4. call[c].kind = "sit" => part[call[c].who] # None
    BY <2>1
  <2>5. QED
    BY <2>1, <2>2, <2>3, <2>4
<1>8. ASSUME Room!Enter(c) PROVE RoomMade(c)'
  BY <1>8, RoomAfter, RoomRequest, RoomLasts DEF Room!Enter, Room!Go, Room!Goto, Room!history
<1>9. ASSUME Room!Increment(c) PROVE RoomMade(c)'
  BY <1>9, RoomAfter, RoomRequest, RoomLasts DEF Room!Increment, Room!Go, Room!Goto, Room!history
<1>10. ASSUME Room!FindParticipant(c) PROVE RoomMade(c)'
  <2>1. call[c].who \in RoomUsers /\ part' = part /\ status' = status /\ closed' = closed /\ call' = call /\ pc[c] = "find"
    BY <1>10, RoomRequest DEF Room!FindParticipant, Room!Reads, Room!room, Room!history
  <2>2. status # "none" \/ pc'[c] = "done"
    <3>1. CASE Room!In(call[c].who)
      BY <3>1, <2>1 DEF Room!In, RoomNone
    <3>2. CASE ~Room!In(call[c].who)
      BY <1>10, <3>2, <2>1 DEF Room!FindParticipant, Room!Absent, Room!Goto
    <3>3. QED
      BY <3>1, <3>2
  <2>3. pc'[c] \in {"done", "ban"} \/ part[call[c].who] # None
    BY <1>10, <2>1 DEF Room!FindParticipant, Room!Absent, Room!Goto, Room!In
  <2>0. call[c].kind \in {"leave", "kick", "block", "sit", "stand"}
    BY <2>1
  <2>4. pc'[c] \in {"done", "ban", "out", "empty", "free"}
    <3>1. Room!AfterFind[call[c].kind] \in {"out", "empty", "free"} /\ Room!Absent(call[c]) \in {"done", "ban"}
      BY <2>0, RoomAfter DEF Room!Absent
    <3>2. QED
      BY <1>10, <3>1 DEF Room!FindParticipant, Room!Goto
  <2>5. QED
    BY <2>1, <2>2, <2>3, <2>4
<1>11. ASSUME Room!Out(c) PROVE RoomMade(c)'
  BY <1>11, RoomRequest, RoomLasts DEF Room!Out, Room!Go, Room!Goto, Room!history, RoomLasting, Room!Handle
<1>12. ASSUME Room!Decrement(c) PROVE RoomMade(c)'
  BY <1>12, RoomAfter, RoomRequest, RoomLasts DEF Room!Decrement, Room!AfterOut, Room!Go, Room!Goto, Room!history
<1>13. ASSUME Room!Ban(c) PROVE RoomMade(c)'
  BY <1>13, RoomAfter, RoomRequest, RoomLasts DEF Room!Ban, Room!Go, Room!Goto, Room!history
<1>14. ASSUME Room!Forgive(c) PROVE RoomMade(c)'
  BY <1>14, RoomAfter, RoomRequest, RoomLasts DEF Room!Forgive, Room!Go, Room!Goto, Room!history
<1>15. ASSUME Room!Shut(c) PROVE RoomMade(c)'
  BY <1>15, RoomAfter, RoomRequest, RoomLasts DEF Room!Shut, Room!Go, Room!Goto
<1>16. ASSUME Room!EmptyRoom(c) PROVE RoomMade(c)'
  BY <1>16, RoomAfter, RoomRequest, RoomLasts DEF Room!EmptyRoom, Room!In, Room!Go, Room!Goto, Room!history
<1>17. ASSUME Room!Password(c) PROVE RoomMade(c)'
  BY <1>17, RoomAfter, RoomRequest, RoomLasts DEF Room!Password, Room!Go, Room!Goto, Room!history
<1>18. ASSUME Room!Take(c) PROVE RoomMade(c)'
  BY <1>18, RoomAfter, RoomRequest, RoomLasts DEF Room!Take, Room!Go, Room!Goto, Room!history
<1>19. ASSUME Room!Speak(c) PROVE RoomMade(c)'
  BY <1>19, RoomAfter, RoomRequest, RoomLasts DEF Room!Speak, Room!Go, Room!Goto, Room!history
<1>20. ASSUME Room!Free(c) PROVE RoomMade(c)'
  BY <1>20, RoomAfter, RoomRequest, RoomLasts DEF Room!Free, Room!Go, Room!Goto, Room!history
<1>21. ASSUME Room!Listen(c) PROVE RoomMade(c)'
  BY <1>21, RoomAfter, RoomRequest, RoomLasts DEF Room!Listen, Room!Go, Room!Goto, Room!history
<1>22. ASSUME Room!Give(c) PROVE RoomMade(c)'
  BY <1>22, RoomAfter, RoomRequest, RoomLasts DEF Room!Give, Room!Go, Room!Goto, Room!history
<1>23. ASSUME Room!Bar(c) PROVE RoomMade(c)'
  BY <1>23, RoomAfter, RoomRequest, RoomLasts DEF Room!Bar, Room!Go, Room!Goto, Room!history
<1>24. ASSUME Room!Crash(c) PROVE RoomMade(c)'
  BY <1>24, RoomAfter, RoomRequest, RoomLasts DEF Room!Crash, Room!Go, Room!Goto, Room!room
<1>25. QED
  BY <1>1, <1>2, <1>3, <1>4, <1>5, <1>6, <1>7, <1>8, <1>9, <1>10, <1>11, <1>12, <1>13, <1>14, <1>15, <1>16, <1>17, <1>18, <1>19, <1>20, <1>21, <1>22, <1>23, <1>24 DEF Room!Handle

(* Nothing is there before the room. *)
LEMMA RoomNoneKept ==
  ASSUME Room!RoomsAssumption, RoomFits, NEW c \in Calls, Room!Handle(c)
  PROVE  RoomNone'
<1> USE DEF RoomSlots, RoomFits, RoomMade, RoomNone
<1>1. ASSUME Room!Start(c) PROVE RoomNone'
  BY <1>1, RoomBegins
<1>2. ASSUME Room!Insert(c) PROVE RoomNone'
  BY <1>2, RoomAfter DEF Room!Insert, Room!Go, Room!Goto, Room!history
<1>3. ASSUME Room!MakeSeats(c) PROVE RoomNone'
  BY <1>3, RoomAfter DEF Room!MakeSeats, Room!Go, Room!Goto, Room!history
<1>4. ASSUME Room!EnterHost(c) PROVE RoomNone'
  BY <1>4, RoomAfter DEF Room!EnterHost, Room!Go, Room!Goto
<1>5. ASSUME Room!FindRoom(c) PROVE RoomNone'
  BY <1>5, RoomAfter DEF Room!FindRoom, Room!Go, Room!Admits, Room!RoomFor, Room!Reads, Room!room, Room!history, Room!Goto
<1>6. ASSUME Room!FindExisting(c) PROVE RoomNone'
  BY <1>6, RoomAfter DEF Room!FindExisting, Room!Go, Room!In, Room!Reads, Room!room, Room!history, Room!Goto
<1>7. ASSUME Room!FindSeat(c) PROVE RoomNone'
  BY <1>7, RoomAfter DEF Room!FindSeat, Room!Empty, Room!Reads, Room!room, Room!history, Room!Goto
<1>8. ASSUME Room!Enter(c) PROVE RoomNone'
  BY <1>8, RoomAfter DEF Room!Enter, Room!Go, Room!Goto, Room!history
<1>9. ASSUME Room!Increment(c) PROVE RoomNone'
  BY <1>9, RoomAfter DEF Room!Increment, Room!Go, Room!Goto, Room!history
<1>10. ASSUME Room!FindParticipant(c) PROVE RoomNone'
  BY <1>10, RoomAfter DEF Room!FindParticipant, Room!Absent, Room!In, Room!Reads, Room!room, Room!history, Room!Goto
<1>11. ASSUME Room!Out(c) PROVE RoomNone'
  BY <1>11, RoomAfter DEF Room!Out, Room!Go, Room!Goto, Room!history
<1>12. ASSUME Room!Decrement(c) PROVE RoomNone'
  BY <1>12, RoomAfter DEF Room!Decrement, Room!AfterOut, Room!Go, Room!Goto, Room!history
<1>13. ASSUME Room!Ban(c) PROVE RoomNone'
  BY <1>13, RoomAfter DEF Room!Ban, Room!Go, Room!Goto, Room!history
<1>14. ASSUME Room!Forgive(c) PROVE RoomNone'
  BY <1>14, RoomAfter DEF Room!Forgive, Room!Go, Room!Goto, Room!history
<1>15. ASSUME Room!Shut(c) PROVE RoomNone'
  BY <1>15, RoomAfter DEF Room!Shut, Room!Go, Room!Goto
<1>16. ASSUME Room!EmptyRoom(c) PROVE RoomNone'
  BY <1>16, RoomAfter DEF Room!EmptyRoom, Room!In, Room!Go, Room!Goto, Room!history
<1>17. ASSUME Room!Password(c) PROVE RoomNone'
  BY <1>17, RoomAfter DEF Room!Password, Room!Go, Room!Goto, Room!history
<1>18. ASSUME Room!Take(c) PROVE RoomNone'
  BY <1>18, RoomAfter DEF Room!Take, Room!Go, Room!Goto, Room!history
<1>19. ASSUME Room!Speak(c) PROVE RoomNone'
  BY <1>19, RoomAfter DEF Room!Speak, Room!Go, Room!Goto, Room!history
<1>20. ASSUME Room!Free(c) PROVE RoomNone'
  BY <1>20, RoomAfter DEF Room!Free, Room!Go, Room!Goto, Room!history
<1>21. ASSUME Room!Listen(c) PROVE RoomNone'
  BY <1>21, RoomAfter DEF Room!Listen, Room!Go, Room!Goto, Room!history
<1>22. ASSUME Room!Give(c) PROVE RoomNone'
  BY <1>22, RoomAfter DEF Room!Give, Room!Go, Room!Goto, Room!history
<1>23. ASSUME Room!Bar(c) PROVE RoomNone'
  BY <1>23, RoomAfter DEF Room!Bar, Room!Go, Room!Goto, Room!history
<1>24. ASSUME Room!Crash(c) PROVE RoomNone'
  BY <1>24, RoomAfter DEF Room!Crash, Room!Go, Room!Goto, Room!room
<1>25. QED
  BY <1>1, <1>2, <1>3, <1>4, <1>5, <1>6, <1>7, <1>8, <1>9, <1>10, <1>11, <1>12, <1>13, <1>14, <1>15, <1>16, <1>17, <1>18, <1>19, <1>20, <1>21, <1>22, <1>23, <1>24 DEF Room!Handle

-----------------------------------------------------------------------------
(* How many requests are at some statements; what the counter lacks of those in the
   room, or has too many. *)
RoomAt(L) == {c \in Calls : pc[c] \in L}
RoomOne(l, L) == IF l \in L THEN 1 ELSE 0
Entering == RoomAt({"increment"})
Leaving == RoomAt({"decrement"})
Hosting == RoomAt({"seats", "host"})
Inside == {u \in RoomUsers : Room!In(u)}
RoomFinite == IsFiniteSet(Entering) /\ IsFiniteSet(Leaving) /\ IsFiniteSet(Hosting) /\ IsFiniteSet(Inside)
RoomCounts ==
  ~raced /\ ~closed => n + Cardinality(Entering) = Cardinality(Inside) + Cardinality(Leaving) + Cardinality(Hosting)

(* No two requests that take the same user out are under way, and who is to be
   taken out is in. *)
RoomOuts(c) == Room!Active(c) /\ call[c].kind \in Room!Outs
RoomApart ==
  ~raced =>
    /\ \A c, d \in Calls : c # d /\ RoomOuts(c) /\ RoomOuts(d) => call[c].who # call[d].who
    /\ ~closed => \A c \in Calls : pc[c] = "out" => Room!In(call[c].who)

(* One joins at a time, and there is a place for him until he has counted himself. *)
RoomJoins(c) == Room!Active(c) /\ call[c].kind = "join"
RoomEnters(c) == pc[c] \in {"existing", "enter"} \/ (pc[c] = "empty" /\ call[c].kind = "join")
RoomSpace ==
  ~crowded =>
    /\ \A c, d \in Calls : c # d => ~(RoomJoins(c) /\ RoomJoins(d))
    /\ ~raced /\ ~closed =>
         /\ n + Cardinality(Entering) <= MaxParticipants
         /\ (\E c \in Calls : RoomEnters(c)) => n + Cardinality(Entering) < MaxParticipants

RoomInv == RoomFits /\ RoomFinite /\ RoomCounts /\ RoomApart /\ RoomSpace

(* A request that moves on leaves one set of statements and enters another. *)
LEMMA RoomMoves ==
  ASSUME pc \in [Calls -> Room!Labels], NEW c \in Calls, NEW l, pc' = [pc EXCEPT ![c] = l], NEW L, IsFiniteSet(RoomAt(L))
  PROVE  /\ IsFiniteSet(RoomAt(L)') /\ Cardinality(RoomAt(L)) \in Nat /\ Cardinality(RoomAt(L)') \in Nat
         /\ Cardinality(RoomAt(L)') = Cardinality(RoomAt(L)) + RoomOne(l, L) - RoomOne(pc[c], L)
<1>1. Cardinality(RoomAt(L)) \in Nat
  BY FS_CardinalityType
<1>2. \A d \in Calls : pc'[d] = IF d = c THEN l ELSE pc[d]
  OBVIOUS
<1>3. CASE (l \in L) = (pc[c] \in L)
  <2>1. RoomAt(L)' = RoomAt(L)
    BY <1>2, <1>3 DEF RoomAt
  <2>2. QED
    BY <1>1, <1>3, <2>1 DEF RoomOne
<1>4. CASE l \in L /\ pc[c] \notin L
  <2>1. RoomAt(L)' = RoomAt(L) \cup {c} /\ c \notin RoomAt(L)
    BY <1>2, <1>4 DEF RoomAt
  <2>2. IsFiniteSet(RoomAt(L) \cup {c}) /\ Cardinality(RoomAt(L) \cup {c}) = Cardinality(RoomAt(L)) + 1
    BY <2>1, FS_AddElement
  <2>3. QED
    BY <1>1, <1>4, <2>1, <2>2 DEF RoomOne
<1>5. CASE l \notin L /\ pc[c] \in L
  <2>1. RoomAt(L)' = RoomAt(L) \ {c} /\ c \in RoomAt(L)
    BY <1>2, <1>5 DEF RoomAt
  <2>2. IsFiniteSet(RoomAt(L) \ {c}) /\ Cardinality(RoomAt(L) \ {c}) = Cardinality(RoomAt(L)) - 1
    BY <2>1, FS_RemoveElement
  <2>3. Cardinality(RoomAt(L) \ {c}) \in Nat
    BY <2>2, FS_CardinalityType
  <2>4. QED
    BY <1>1, <1>5, <2>1, <2>2, <2>3 DEF RoomOne
<1>6. QED
  BY <1>3, <1>4, <1>5

(* The three sets at once. *)
LEMMA RoomTallies ==
  ASSUME RoomSlots, RoomFinite, NEW c \in Calls, NEW l, pc' = [pc EXCEPT ![c] = l]
  PROVE  /\ IsFiniteSet(Entering') /\ IsFiniteSet(Leaving') /\ IsFiniteSet(Hosting')
         /\ Cardinality(Entering) \in Nat /\ Cardinality(Leaving) \in Nat /\ Cardinality(Hosting) \in Nat
         /\ Cardinality(Entering)' = Cardinality(Entering) + (IF l = "increment" THEN 1 ELSE 0) - (IF pc[c] = "increment" THEN 1 ELSE 0)
         /\ Cardinality(Leaving)' = Cardinality(Leaving) + (IF l = "decrement" THEN 1 ELSE 0) - (IF pc[c] = "decrement" THEN 1 ELSE 0)
         /\ Cardinality(Hosting)' = Cardinality(Hosting) + (IF l \in {"seats", "host"} THEN 1 ELSE 0) - (IF pc[c] \in {"seats", "host"} THEN 1 ELSE 0)
<1>1. /\ IsFiniteSet(Entering') /\ Cardinality(Entering) \in Nat
      /\ Cardinality(Entering)' = Cardinality(Entering) + RoomOne(l, {"increment"}) - RoomOne(pc[c], {"increment"})
  <2>1. IsFiniteSet(RoomAt({"increment"}))
    BY DEF RoomFinite, Entering
  <2>2. QED
    BY <2>1, RoomMoves DEF RoomSlots, Entering
<1>2. /\ IsFiniteSet(Leaving') /\ Cardinality(Leaving) \in Nat
      /\ Cardinality(Leaving)' = Cardinality(Leaving) + RoomOne(l, {"decrement"}) - RoomOne(pc[c], {"decrement"})
  <2>1. IsFiniteSet(RoomAt({"decrement"}))
    BY DEF RoomFinite, Leaving
  <2>2. QED
    BY <2>1, RoomMoves DEF RoomSlots, Leaving
<1>3. /\ IsFiniteSet(Hosting') /\ Cardinality(Hosting) \in Nat
      /\ Cardinality(Hosting)' = Cardinality(Hosting) + RoomOne(l, {"seats", "host"}) - RoomOne(pc[c], {"seats", "host"})
  <2>1. IsFiniteSet(RoomAt({"seats", "host"}))
    BY DEF RoomFinite, Hosting
  <2>2. QED
    BY <2>1, RoomMoves DEF RoomSlots, Hosting
<1>4. QED
  BY <1>1, <1>2, <1>3 DEF RoomOne

(* Who is in stays in, or one comes or goes. *)
LEMMA InsideMoves ==
  ASSUME RoomFinite, NEW u \in RoomUsers, \A v \in RoomUsers \ {u} : Room!In(v)' <=> Room!In(v)
  PROVE  /\ IsFiniteSet(Inside') /\ Cardinality(Inside) \in Nat
         /\ (Room!In(u)' <=> Room!In(u)) => Cardinality(Inside)' = Cardinality(Inside)
         /\ Room!In(u)' /\ ~Room!In(u) => Cardinality(Inside)' = Cardinality(Inside) + 1
         /\ ~Room!In(u)' /\ Room!In(u) => Cardinality(Inside)' = Cardinality(Inside) - 1
<1>1. Cardinality(Inside) \in Nat /\ IsFiniteSet(Inside)
  BY FS_CardinalityType DEF RoomFinite
<1>2. CASE Room!In(u)' <=> Room!In(u)
  <2>1. Inside' = Inside
    BY <1>2 DEF Inside
  <2>2. QED
    BY <1>1, <1>2, <2>1
<1>3. CASE Room!In(u)' /\ ~Room!In(u)
  <2>1. Inside' = Inside \cup {u} /\ u \notin Inside
    BY <1>3 DEF Inside
  <2>2. IsFiniteSet(Inside \cup {u}) /\ Cardinality(Inside \cup {u}) = Cardinality(Inside) + 1
    BY <1>1, <2>1, FS_AddElement
  <2>3. QED
    BY <1>1, <1>3, <2>1, <2>2
<1>4. CASE ~Room!In(u)' /\ Room!In(u)
  <2>1. Inside' = Inside \ {u} /\ u \in Inside
    BY <1>4 DEF Inside
  <2>2. IsFiniteSet(Inside \ {u}) /\ Cardinality(Inside \ {u}) = Cardinality(Inside) - 1
    BY <1>1, <2>1, FS_RemoveElement
  <2>3. QED
    BY <1>1, <1>4, <2>1, <2>2
<1>5. QED
  BY <1>2, <1>3, <1>4

-----------------------------------------------------------------------------
(* Most steps count nobody. *)
RoomCounting == {"increment", "decrement", "seats", "host"}
RoomQuiet(c) ==
  /\ \E l \in Room!Labels : /\ pc' = [pc EXCEPT ![c] = l]
                            /\ (({l, pc[c]} \subseteq {"seats", "host"}) \/ ({l, pc[c]} \cap RoomCounting = {}))
  /\ n' = n /\ \A u \in RoomUsers : Room!In(u)' <=> Room!In(u)
RoomQuietly(c) ==
  \/ Room!Start(c) \/ Room!MakeSeats(c) \/ Room!FindRoom(c) \/ Room!FindExisting(c) \/ Room!FindSeat(c) \/ Room!FindParticipant(c)
  \/ Room!Ban(c) \/ Room!Forgive(c) \/ Room!Shut(c) \/ Room!Password(c) \/ Room!Take(c) \/ Room!Speak(c)
  \/ Room!Free(c) \/ Room!Listen(c) \/ Room!Give(c) \/ Room!Bar(c)

(* These steps do. *)
LEMMA RoomQuiets ==
  ASSUME Room!RoomsAssumption, RoomInv, NEW c \in Calls, RoomQuietly(c)
  PROVE  RoomQuiet(c)
<1> USE DEF RoomInv, RoomFits, RoomSlots, RoomQuiet, RoomCounting
<1>1. ASSUME Room!Start(c) PROVE RoomQuiet(c)
  <2>1. \E l \in {"insert", "find", "room"} : pc' = [pc EXCEPT ![c] = l] /\ pc[c] = "new" /\ n' = n /\ part' = part
    BY <1>1, RoomBegins
  <2>2. {"insert", "find", "room"} \subseteq Room!Labels
    BY DEF Room!Labels
  <2>3. QED
    BY <2>1, <2>2 DEF Room!In
<1>2. ASSUME Room!MakeSeats(c) PROVE RoomQuiet(c)
  BY <1>2 DEF Room!MakeSeats, Room!Go, Room!Goto, Room!history, Room!Labels, Room!In
<1>3. ASSUME Room!FindRoom(c) PROVE RoomQuiet(c)
  <2>1. \E l \in {"existing", "find", "forgive", "shut", "give", "bar", "password", "done"} : pc' = [pc EXCEPT ![c] = l]
    BY <1>3, RoomAfter DEF Room!FindRoom, Room!Go, Room!Goto, RoomAsked
  <2>2. pc[c] = "room" /\ n' = n /\ part' = part
    BY <1>3 DEF Room!FindRoom, Room!Reads, Room!room
  <2>3. {"existing", "find", "forgive", "shut", "give", "bar", "password", "done"} \subseteq Room!Labels
    BY DEF Room!Labels
  <2>4. QED
    BY <2>1, <2>2, <2>3 DEF Room!In
<1>4. ASSUME Room!FindExisting(c) PROVE RoomQuiet(c)
  BY <1>4 DEF Room!FindExisting, Room!Go, Room!In, Room!Reads, Room!room, Room!history, Room!Goto, Room!Labels
<1>5. ASSUME Room!FindSeat(c) PROVE RoomQuiet(c)
  BY <1>5 DEF Room!FindSeat, Room!Empty, Room!Reads, Room!room, Room!history, Room!Goto, Room!Labels, Room!In
<1>6. ASSUME Room!FindParticipant(c) PROVE RoomQuiet(c)
  <2>0. call[c].kind \in {"leave", "kick", "block", "sit", "stand"}
    BY <1>6 DEF Room!FindParticipant, RoomAsked
  <2>1. Room!AfterFind[call[c].kind] \in {"out", "empty", "free"} /\ Room!Absent(call[c]) \in {"done", "ban"}
    BY <2>0, RoomAfter DEF Room!Absent
  <2>2. \E l \in {"out", "empty", "free", "done", "ban"} : pc' = [pc EXCEPT ![c] = l]
    BY <1>6, <2>1 DEF Room!FindParticipant, Room!Goto
  <2>3. pc[c] = "find" /\ n' = n /\ part' = part
    BY <1>6 DEF Room!FindParticipant, Room!Reads, Room!room
  <2>4. {"out", "empty", "free", "done", "ban"} \subseteq Room!Labels
    BY DEF Room!Labels
  <2>5. QED
    BY <2>2, <2>3, <2>4 DEF Room!In
<1>7. ASSUME Room!Ban(c) PROVE RoomQuiet(c)
  BY <1>7 DEF Room!Ban, Room!Go, Room!Goto, Room!history, Room!Labels, Room!In
<1>8. ASSUME Room!Forgive(c) PROVE RoomQuiet(c)
  BY <1>8 DEF Room!Forgive, Room!Go, Room!Goto, Room!history, Room!Labels, Room!In
<1>9. ASSUME Room!Shut(c) PROVE RoomQuiet(c)
  BY <1>9 DEF Room!Shut, Room!Go, Room!Goto, Room!Labels, Room!In
<1>10. ASSUME Room!Password(c) PROVE RoomQuiet(c)
  BY <1>10 DEF Room!Password, Room!Go, Room!Goto, Room!history, Room!Labels, Room!In
<1>11. ASSUME Room!Take(c) PROVE RoomQuiet(c)
  BY <1>11 DEF Room!Take, Room!Go, Room!Goto, Room!history, Room!Labels, Room!In
<1>12. ASSUME Room!Speak(c) PROVE RoomQuiet(c)
  <2>1. pc' = [pc EXCEPT ![c] = "done"] /\ pc[c] = "speak" /\ n' = n /\ "done" \in Room!Labels
    BY <1>12 DEF Room!Speak, Room!Go, Room!Goto, Room!Labels
  <2>2. part' = [part EXCEPT ![call[c].who].seat = seen[c]] /\ call[c].who \in RoomUsers /\ part[call[c].who] # None
    BY <1>12, RoomRequest DEF Room!Speak, RoomAsked, RoomMade
  <2>3. part[call[c].who] \in [seat: Room!SeatIds \cup {None}, in: BOOLEAN]
    BY <2>2 DEF RoomTable
  <2>4. part'[call[c].who].in = part[call[c].who].in /\ part'[call[c].who] # None
    BY <2>2, <2>3, RoomLasts, <1>12 DEF RoomTable, RoomLasting, Room!Handle
  <2>5. \A u \in RoomUsers : u # call[c].who => part'[u] = part[u]
    BY <2>2 DEF RoomTable
  <2>6. QED
    BY <2>1, <2>2, <2>4, <2>5 DEF Room!In
<1>13. ASSUME Room!Free(c) PROVE RoomQuiet(c)
  BY <1>13 DEF Room!Free, Room!Go, Room!Goto, Room!history, Room!Labels, Room!In
<1>14. ASSUME Room!Listen(c) PROVE RoomQuiet(c)
  <2>1. pc' = [pc EXCEPT ![c] = "done"] /\ pc[c] = "listen" /\ n' = n /\ "done" \in Room!Labels
    BY <1>14 DEF Room!Listen, Room!Go, Room!Goto, Room!Labels
  <2>2. part' = [part EXCEPT ![call[c].who].seat = None] /\ call[c].who \in RoomUsers /\ part[call[c].who] # None
    BY <1>14, RoomRequest DEF Room!Listen, RoomAsked, RoomMade
  <2>3. part[call[c].who] \in [seat: Room!SeatIds \cup {None}, in: BOOLEAN]
    BY <2>2 DEF RoomTable
  <2>4. part'[call[c].who].in = part[call[c].who].in /\ part'[call[c].who] # None
    BY <2>2, <2>3, RoomLasts, <1>14 DEF RoomTable, RoomLasting, Room!Handle
  <2>5. \A u \in RoomUsers : u # call[c].who => part'[u] = part[u]
    BY <2>2 DEF RoomTable
  <2>6. QED
    BY <2>1, <2>2, <2>4, <2>5 DEF Room!In
<1>15. ASSUME Room!Give(c) PROVE RoomQuiet(c)
  BY <1>15 DEF Room!Give, Room!Go, Room!Goto, Room!history, Room!Labels, Room!In
<1>16. ASSUME Room!Bar(c) PROVE RoomQuiet(c)
  BY <1>16 DEF Room!Bar, Room!Go, Room!Goto, Room!history, Room!Labels, Room!In
<1>17. QED
  BY <1>1, <1>2, <1>3, <1>4, <1>5, <1>6, <1>7, <1>8, <1>9, <1>10, <1>11, <1>12, <1>13, <1>14, <1>15, <1>16 DEF RoomQuietly

-----------------------------------------------------------------------------
(* A step is one that counts nobody, or one of the others. *)
LEMMA RoomSteps ==
  ASSUME NEW c \in Calls, Room!Handle(c)
  PROVE  \/ RoomQuietly(c)
         \/ Room!Insert(c) \/ Room!EnterHost(c) \/ Room!Enter(c) \/ Room!Increment(c) \/ Room!Out(c)
         \/ Room!Decrement(c) \/ Room!EmptyRoom(c) \/ Room!Crash(c)
BY DEF RoomQuietly, Room!Handle

(* Where the others go. *)
LEMMA RoomGoes ==
  ASSUME Room!RoomsAssumption, RoomInv, NEW c \in Calls
  PROVE  /\ Room!Insert(c) => /\ pc[c] = "insert" /\ part' = part
                               /\ \/ pc' = [pc EXCEPT ![c] = "seats"] /\ status = "none" /\ n' = 1 /\ call[c].kind = "create"
                                  \/ pc' = [pc EXCEPT ![c] = "done"] /\ n' = n
         /\ Room!EnterHost(c) => pc[c] = "host" /\ pc' = [pc EXCEPT ![c] = "done"] /\ n' = n
         /\ Room!Enter(c) => /\ pc[c] = "enter" /\ n' = n
                              /\ \/ /\ pc' = [pc EXCEPT ![c] = "increment"] /\ part[call[c].who] = None
                                    /\ part' = [part EXCEPT ![call[c].who] = [seat |-> seen[c], in |-> TRUE]]
                                 \/ pc' = [pc EXCEPT ![c] = "done"] /\ part' = part
         /\ Room!Increment(c) => pc[c] = "increment" /\ pc' = [pc EXCEPT ![c] = "done"] /\ n' = n + 1 /\ part' = part
         /\ Room!Out(c) => pc[c] = "out" /\ pc' = [pc EXCEPT ![c] = "decrement"] /\ n' = n
                            /\ part' = [part EXCEPT ![call[c].who].in = FALSE]
         /\ Room!Decrement(c) => pc[c] = "decrement" /\ n' = n - 1 /\ part' = part
                                 /\ \E l \in {"ban", "free", "done"} : pc' = [pc EXCEPT ![c] = l]
         /\ Room!EmptyRoom(c) => pc[c] = "empty room" /\ pc' = [pc EXCEPT ![c] = "done"] /\ n' = n /\ closed /\ closed'
         /\ Room!Crash(c) => pc[c] \notin {"new", "done"} /\ pc' = [pc EXCEPT ![c] = "done"] /\ n' = n /\ part' = part /\ raced'
<1>1. RoomAsked(c) /\ RoomMade(c)
  BY DEF RoomInv, RoomFits
<1>2. QED
  BY <1>1 DEF Room!Insert, Room!EnterHost, Room!Enter, Room!Increment, Room!Out, Room!Decrement, Room!AfterOut, Room!EmptyRoom, Room!Crash,
       Room!Go, Room!Goto, Room!history, Room!room, RoomAsked, RoomMade

(* Nobody is in, entering or leaving before the room is made. *)
LEMMA RoomUnmade ==
  ASSUME RoomInv, status = "none"
  PROVE  Inside = {} /\ Entering = {} /\ Leaving = {} /\ Hosting = {} /\ n = 0
<1>1. \A c \in Calls : pc[c] \in {"new", "done", "insert", "room", "find"}
  BY DEF RoomInv, RoomFits, RoomMade
<1>2. part = [u \in RoomUsers |-> None] /\ n = 0
  BY DEF RoomInv, RoomFits, RoomNone
<1>3. Inside = {}
  BY <1>2 DEF Inside, Room!In
<1>4. Entering = {} /\ Leaving = {} /\ Hosting = {}
  BY <1>1 DEF Entering, Leaving, Hosting, RoomAt
<1>5. QED
  BY <1>2, <1>3, <1>4

(* What a request at a statement weighs: the counter lacks whoever enters, and has
   whoever leaves, and the host, too many. *)
RoomWeight(l) == IF l = "increment" THEN 1 ELSE IF l \in {"decrement", "seats", "host"} THEN 0 - 1 ELSE 0

(* The counter and the weights change as the number of those in the room. *)
LEMMA RoomBalances ==
  ASSUME RoomInv, NEW c \in Calls, NEW l, NEW k \in Int, pc' = [pc EXCEPT ![c] = l], n' \in Int, IsFiniteSet(Inside'),
         raced => raced', closed => closed',
         ~raced' /\ ~closed' => Cardinality(Inside)' = Cardinality(Inside) + k /\ n' + RoomWeight(l) = n + RoomWeight(pc[c]) + k
  PROVE  RoomFinite' /\ RoomCounts'
<1>1. RoomSlots /\ RoomFinite /\ RoomCounts /\ n \in Int
  BY DEF RoomInv, RoomFits, RoomTable
<1>2. IsFiniteSet(Entering') /\ IsFiniteSet(Leaving') /\ IsFiniteSet(Hosting')
  BY <1>1, RoomTallies
<1>3. RoomFinite'
  BY <1>2 DEF RoomFinite
<1>4. /\ Cardinality(Inside) \in Nat /\ Cardinality(Inside)' \in Nat
      /\ Cardinality(Entering) \in Nat /\ Cardinality(Leaving) \in Nat /\ Cardinality(Hosting) \in Nat
  BY <1>1, FS_CardinalityType DEF RoomFinite
<1>5. /\ Cardinality(Entering)' = Cardinality(Entering) + (IF l = "increment" THEN 1 ELSE 0) - (IF pc[c] = "increment" THEN 1 ELSE 0)
      /\ Cardinality(Leaving)' = Cardinality(Leaving) + (IF l = "decrement" THEN 1 ELSE 0) - (IF pc[c] = "decrement" THEN 1 ELSE 0)
      /\ Cardinality(Hosting)' = Cardinality(Hosting) + (IF l \in {"seats", "host"} THEN 1 ELSE 0) - (IF pc[c] \in {"seats", "host"} THEN 1 ELSE 0)
  BY <1>1, RoomTallies
<1>6. RoomWeight(l) \in Int /\ RoomWeight(pc[c]) \in Int
      /\ Cardinality(Entering)' - Cardinality(Leaving)' - Cardinality(Hosting)' - RoomWeight(l) =
           Cardinality(Entering) - Cardinality(Leaving) - Cardinality(Hosting) - RoomWeight(pc[c])
  BY <1>4, <1>5 DEF RoomWeight
<1>7. Cardinality(Entering)' \in Int /\ Cardinality(Leaving)' \in Int /\ Cardinality(Hosting)' \in Int
  BY <1>4, <1>5
<1>8. ASSUME Cardinality(Inside)' = Cardinality(Inside) + k, n' + RoomWeight(l) = n + RoomWeight(pc[c]) + k,
             n + Cardinality(Entering) = Cardinality(Inside) + Cardinality(Leaving) + Cardinality(Hosting)
      PROVE  n' + Cardinality(Entering)' = Cardinality(Inside)' + Cardinality(Leaving)' + Cardinality(Hosting)'
  BY <1>1, <1>4, <1>6, <1>7, <1>8
<1>9. RoomCounts'
  BY <1>1, <1>8 DEF RoomCounts
<1>10. QED
  BY <1>3, <1>9

(* The counts stay finite, and the counter lacks those who are entering. *)
LEMMA RoomCountsKept ==
  ASSUME Room!RoomsAssumption, RoomInv, NEW c \in Calls, Room!Handle(c)
  PROVE  RoomFinite' /\ RoomCounts'
<1>0. RoomSlots /\ RoomTable /\ RoomFinite /\ n \in Int /\ RoomHost \in RoomUsers
  BY DEF RoomInv, RoomFits, RoomTable, Room!RoomsAssumption
<1>a. n' \in Int
  BY RoomTableKept DEF RoomInv, RoomTable
<1>b. (raced => raced') /\ (closed => closed')
  <2>1. CASE Room!Start(c)
    <3>1. PICK r \in RoomRequests, l \in {"insert", "find", "room"} :
            /\ raced' = (raced \/ (r.kind \in Room!Outs /\ \E d \in Calls : Room!Active(d) /\ call[d].kind \in Room!Outs /\ call[d].who = r.who))
            /\ closed' = closed
      BY <2>1, RoomBegins, Zenon DEF RoomInv
    <3>2. QED
      BY <3>1, Zenon
  <2>2. CASE Room!EnterHost(c) \/ Room!Shut(c) \/ Room!Crash(c)
    <3>1. Room!EnterHost(c) => (raced' \/ raced' = raced) /\ closed' = closed
      BY Zenon DEF Room!EnterHost
    <3>2. Room!Shut(c) => raced' = raced /\ closed'
      BY DEF Room!Shut
    <3>3. Room!Crash(c) => raced' /\ closed' = closed
      BY DEF Room!Crash
    <3>4. QED
      BY <2>2, <3>1, <3>2, <3>3
  <2>3. CASE ~(Room!Start(c) \/ Room!EnterHost(c) \/ Room!Shut(c) \/ Room!Crash(c))
    <3>1. raced' = raced /\ closed' = closed
      BY <2>3 DEF Room!Handle, Room!Insert, Room!MakeSeats, Room!FindRoom, Room!FindExisting, Room!FindSeat, Room!Enter, Room!Increment, Room!FindParticipant, Room!Out, Room!Decrement, Room!Ban, Room!Forgive, Room!EmptyRoom, Room!Password, Room!Take, Room!Speak, Room!Free, Room!Listen, Room!Give, Room!Bar, Room!Reads, Room!history
    <3>2. QED
      BY <3>1
  <2>4. QED
    BY <2>1, <2>2, <2>3
<1>e. 0 \in Int /\ 1 \in Int
  OBVIOUS
<1>c. /\ RoomWeight("increment") = 1 /\ RoomWeight("decrement") = 0 - 1 /\ RoomWeight("seats") = 0 - 1 /\ RoomWeight("host") = 0 - 1
      /\ \A l \in {"insert", "enter", "out", "ban", "free", "done"} : RoomWeight(l) = 0
  BY DEF RoomWeight
<1>d. part' = part => IsFiniteSet(Inside') /\ Cardinality(Inside)' = Cardinality(Inside) + 0
  <2>1. ASSUME part' = part PROVE Inside' = Inside
    BY <2>1 DEF Inside, Room!In
  <2>2. Cardinality(Inside) \in Nat
    BY <1>0, FS_CardinalityType DEF RoomFinite
  <2>3. QED
    BY <1>0, <2>1, <2>2 DEF RoomFinite
<1>1. CASE RoomQuietly(c)
  <2>1. PICK l \in Room!Labels : /\ pc' = [pc EXCEPT ![c] = l]
                               /\ (({l, pc[c]} \subseteq {"seats", "host"}) \/ ({l, pc[c]} \cap RoomCounting = {}))
    BY <1>1, RoomQuiets DEF RoomQuiet
  <2>2. n' = n /\ \A u \in RoomUsers : Room!In(u)' <=> Room!In(u)
    BY <1>1, RoomQuiets DEF RoomQuiet
  <2>3. Inside' = Inside
    BY <2>2 DEF Inside
  <2>4. IsFiniteSet(Inside') /\ Cardinality(Inside)' = Cardinality(Inside) + 0
    BY <1>0, <2>3, FS_CardinalityType DEF RoomFinite
  <2>5. RoomWeight(l) = RoomWeight(pc[c]) /\ RoomWeight(l) \in Int
    <3>1. CASE {l, pc[c]} \subseteq {"seats", "host"}
      BY <1>c, <3>1
    <3>2. CASE {l, pc[c]} \cap RoomCounting = {}
      <4>1. l \notin {"seats", "host", "increment", "decrement"} /\ pc[c] \notin {"seats", "host", "increment", "decrement"}
        BY <3>2 DEF RoomCounting
      <4>2. QED
        BY <4>1 DEF RoomWeight
    <3>3. QED
      BY <2>1, <3>1, <3>2
  <2>6. n' + RoomWeight(l) = n + RoomWeight(pc[c]) + 0
    BY <1>0, <2>2, <2>5
  <2>7. QED
    BY <1>a, <1>b, <1>e, <2>1, <2>4, <2>6, RoomBalances, Zenon
<1>2. CASE Room!Insert(c)
  <2>1. part' = part /\ pc[c] = "insert"
    BY <1>2, RoomGoes
  <2>2. CASE pc' = [pc EXCEPT ![c] = "seats"] /\ status = "none" /\ n' = 1
    <3>1. n' + RoomWeight("seats") = n + RoomWeight(pc[c]) + 0
      BY <1>c, <2>1, <2>2, RoomUnmade
    <3>2. QED
      BY <1>a, <1>b, <1>e, <1>d, <2>1, <2>2, <3>1, RoomBalances, Zenon
  <2>3. CASE pc' = [pc EXCEPT ![c] = "done"] /\ n' = n
    <3>1. n' + RoomWeight("done") = n + RoomWeight(pc[c]) + 0
      BY <1>0, <1>c, <2>1, <2>3
    <3>2. QED
      BY <1>a, <1>b, <1>e, <1>d, <2>1, <2>3, <3>1, RoomBalances, Zenon
  <2>4. QED
    BY <1>2, <2>2, <2>3, RoomGoes
<1>3. CASE Room!EnterHost(c)
  <2>1. pc[c] = "host" /\ pc' = [pc EXCEPT ![c] = "done"] /\ n' = n
    BY <1>3, RoomGoes
  <2>2. CASE part[RoomHost] = None
    <3>1. part' = [part EXCEPT ![RoomHost] = [seat |-> 1, in |-> TRUE]]
      BY <1>3, <2>2 DEF Room!EnterHost
    <3>2. [seat |-> 1, in |-> TRUE] \in [seat: Room!SeatIds \cup {None}, in: BOOLEAN]
      BY DEF Room!RoomsAssumption, Room!SeatIds
    <3>3. part'[RoomHost] = [seat |-> 1, in |-> TRUE] /\ part'[RoomHost] # None
      BY <1>0, <3>1, <3>2 DEF RoomTable, Room!RoomsAssumption
    <3>4. Room!In(RoomHost)' /\ ~Room!In(RoomHost)
      BY <2>2, <3>3 DEF Room!In
    <3>5. \A u \in RoomUsers \ {RoomHost} : Room!In(u)' <=> Room!In(u)
      BY <1>0, <3>1 DEF Room!In, RoomTable
    <3>6. IsFiniteSet(Inside') /\ Cardinality(Inside)' = Cardinality(Inside) + 1
      BY <1>0, <3>4, <3>5, InsideMoves
    <3>7. n' + RoomWeight("done") = n + RoomWeight(pc[c]) + 1
      BY <1>0, <1>c, <2>1
    <3>8. QED
      BY <1>a, <1>b, <1>e, <2>1, <3>6, <3>7, RoomBalances, Zenon
  <2>3. CASE part[RoomHost] # None
    <3>1. part' = part /\ raced'
      BY <1>3, <2>3 DEF Room!EnterHost
    <3>2. QED
      BY <1>a, <1>b, <1>e, <1>d, <2>1, <3>1, RoomBalances, Zenon
  <2>4. QED
    BY <2>2, <2>3
<1>4. CASE Room!Enter(c)
  <2>1. pc[c] = "enter" /\ n' = n
    BY <1>4, RoomGoes
  <2>2. CASE pc' = [pc EXCEPT ![c] = "done"] /\ part' = part
    <3>1. n' + RoomWeight("done") = n + RoomWeight(pc[c]) + 0
      BY <1>0, <1>c, <2>1
    <3>2. QED
      BY <1>a, <1>b, <1>e, <1>d, <2>2, <3>1, RoomBalances, Zenon
  <2>3. CASE /\ pc' = [pc EXCEPT ![c] = "increment"] /\ part[call[c].who] = None
             /\ part' = [part EXCEPT ![call[c].who] = [seat |-> seen[c], in |-> TRUE]]
    <3>1. call[c].who \in RoomUsers /\ seen[c] \in Room!SeatIds \cup {None}
      BY <2>1, RoomRequest DEF RoomInv, RoomFits, RoomAsked, RoomSlots
    <3>2. PICK u \in RoomUsers : u = call[c].who
      BY <3>1
    <3>3. [seat |-> seen[c], in |-> TRUE] \in [seat: Room!SeatIds \cup {None}, in: BOOLEAN]
      BY <3>1
    <3>4. part' = [part EXCEPT ![u] = [seat |-> seen[c], in |-> TRUE]] /\ part[u] = None
      BY <2>3, <3>2
    <3>5. part'[u] = [seat |-> seen[c], in |-> TRUE] /\ part'[u] # None
      BY <1>0, <3>3, <3>4 DEF RoomTable, Room!RoomsAssumption
    <3>6. Room!In(u)' /\ ~Room!In(u)
      BY <3>4, <3>5 DEF Room!In
    <3>7. \A v \in RoomUsers \ {u} : Room!In(v)' <=> Room!In(v)
      BY <1>0, <3>4 DEF Room!In, RoomTable
    <3>8. IsFiniteSet(Inside') /\ Cardinality(Inside)' = Cardinality(Inside) + 1
      BY <1>0, <3>6, <3>7, InsideMoves
    <3>9. n' + RoomWeight("increment") = n + RoomWeight(pc[c]) + 1
      BY <1>0, <1>c, <2>1
    <3>10. QED
      BY <1>a, <1>b, <1>e, <2>3, <3>8, <3>9, RoomBalances, Zenon
  <2>4. QED
    BY <1>4, <2>2, <2>3, RoomGoes
<1>5. CASE Room!Increment(c)
  <2>1. pc[c] = "increment" /\ pc' = [pc EXCEPT ![c] = "done"] /\ n' = n + 1 /\ part' = part
    BY <1>5, RoomGoes
  <2>2. n' + RoomWeight("done") = n + RoomWeight(pc[c]) + 0
    BY <1>0, <1>c, <2>1
  <2>3. QED
    BY <1>a, <1>b, <1>e, <1>d, <2>1, <2>2, RoomBalances, Zenon
<1>6. CASE Room!Out(c)
  <2>1. /\ pc[c] = "out" /\ pc' = [pc EXCEPT ![c] = "decrement"] /\ n' = n
        /\ part' = [part EXCEPT ![call[c].who].in = FALSE]
    BY <1>6, RoomGoes
  <2>2. call[c].who \in RoomUsers /\ part[call[c].who] # None
    BY <2>1, RoomRequest DEF RoomInv, RoomFits, RoomAsked, RoomMade
  <2>3. PICK u \in RoomUsers : u = call[c].who
    BY <2>2
  <2>4. part[u] \in [seat: Room!SeatIds \cup {None}, in: BOOLEAN]
    BY <1>0, <2>2, <2>3 DEF RoomTable
  <2>5. part' = [part EXCEPT ![u] = [part[u] EXCEPT !.in = FALSE]]
    BY <2>1, <2>3
  <2>6. part'[u].in = FALSE /\ \A v \in RoomUsers \ {u} : part'[v] = part[v]
    BY <1>0, <2>4, <2>5 DEF RoomTable
  <2>7. ~Room!In(u)' /\ \A v \in RoomUsers \ {u} : Room!In(v)' <=> Room!In(v)
    BY <2>6 DEF Room!In
  <2>8. IsFiniteSet(Inside') /\ Cardinality(Inside) \in Nat /\ (Room!In(u) => Cardinality(Inside)' = Cardinality(Inside) - 1)
    BY <1>0, <2>7, InsideMoves
  <2>9. ~raced /\ ~closed => Room!In(u)
    BY <2>1, <2>3 DEF RoomInv, RoomApart
  <2>10. n' + RoomWeight("decrement") = n + RoomWeight(pc[c]) + (0 - 1)
    BY <1>0, <1>c, <2>1
  <2>11. Cardinality(Inside) - 1 = Cardinality(Inside) + (0 - 1)
    BY <2>8
  <2>12. 0 - 1 \in Int
    OBVIOUS
  <2>13. ~raced' /\ ~closed' => Cardinality(Inside)' = Cardinality(Inside) + (0 - 1) /\ n' + RoomWeight("decrement") = n + RoomWeight(pc[c]) + (0 - 1)
    BY <1>b, <2>8, <2>9, <2>10, <2>11
  <2>14. QED
    BY <1>a, <1>b, <1>e, <2>1, <2>8, <2>12, <2>13, RoomBalances, Zenon
<1>7. CASE Room!Decrement(c)
  <2>1. pc[c] = "decrement" /\ n' = n - 1 /\ part' = part
    BY <1>7, RoomGoes
  <2>2. PICK l \in {"ban", "free", "done"} : pc' = [pc EXCEPT ![c] = l]
    BY <1>7, RoomGoes
  <2>3. n' + RoomWeight(l) = n + RoomWeight(pc[c]) + 0
    BY <1>0, <1>c, <2>1, <2>2
  <2>4. QED
    BY <1>a, <1>b, <1>e, <1>d, <2>1, <2>2, <2>3, RoomBalances, Zenon
<1>8. CASE Room!EmptyRoom(c)
  <2>1. pc' = [pc EXCEPT ![c] = "done"] /\ closed'
    BY <1>8, RoomGoes
  <2>2. part' = [u \in RoomUsers |-> IF Room!In(u) THEN [part[u] EXCEPT !.in = FALSE] ELSE part[u]]
    BY <1>8 DEF Room!EmptyRoom
  <2>3. \A u \in RoomUsers : ~Room!In(u)'
    <3>1. TAKE u \in RoomUsers
    <3>2. CASE Room!In(u)
      <4>1. part[u] \in [seat: Room!SeatIds \cup {None}, in: BOOLEAN]
        BY <1>0, <3>2 DEF RoomTable, Room!In
      <4>2. part'[u].in = FALSE
        BY <2>2, <3>2, <4>1
      <4>3. QED
        BY <4>2 DEF Room!In
    <3>3. CASE ~Room!In(u)
      BY <2>2, <3>3 DEF Room!In
    <3>4. QED
      BY <3>2, <3>3
  <2>4. Inside' = {}
    BY <2>3 DEF Inside
  <2>5. IsFiniteSet(Inside')
    BY <2>4, FS_EmptySet
  <2>6. QED
    BY <1>a, <1>b, <1>e, <2>1, <2>5, RoomBalances, Zenon
<1>9. CASE Room!Crash(c)
  <2>1. pc' = [pc EXCEPT ![c] = "done"] /\ part' = part /\ raced'
    BY <1>9, RoomGoes
  <2>2. QED
    BY <1>a, <1>b, <1>e, <1>d, <2>1, RoomBalances, Zenon
<1>10. QED
  BY <1>1, <1>2, <1>3, <1>4, <1>5, <1>6, <1>7, <1>8, <1>9, RoomSteps

-----------------------------------------------------------------------------
(* A request that does not begin was under way, and asks for what it asked. *)
LEMMA RoomContinues ==
  ASSUME NEW c \in Calls, Room!Handle(c), ~Room!Start(c)
  PROVE  Room!Active(c) /\ call' = call
<1>1. ASSUME Room!Insert(c) PROVE Room!Active(c) /\ call' = call
  BY <1>1 DEF Room!Insert, Room!Active, Room!Go, Room!Goto
<1>2. ASSUME Room!MakeSeats(c) PROVE Room!Active(c) /\ call' = call
  BY <1>2 DEF Room!MakeSeats, Room!Active, Room!Go, Room!Goto
<1>3. ASSUME Room!EnterHost(c) PROVE Room!Active(c) /\ call' = call
  BY <1>3 DEF Room!EnterHost, Room!Active, Room!Go, Room!Goto
<1>4. ASSUME Room!FindRoom(c) PROVE Room!Active(c) /\ call' = call
  BY <1>4 DEF Room!FindRoom, Room!Active, Room!Go, Room!Goto
<1>5. ASSUME Room!FindExisting(c) PROVE Room!Active(c) /\ call' = call
  BY <1>5 DEF Room!FindExisting, Room!Active, Room!Go, Room!Goto
<1>6. ASSUME Room!FindSeat(c) PROVE Room!Active(c) /\ call' = call
  BY <1>6 DEF Room!FindSeat, Room!Active, Room!Go, Room!Goto
<1>7. ASSUME Room!Enter(c) PROVE Room!Active(c) /\ call' = call
  BY <1>7 DEF Room!Enter, Room!Active, Room!Go, Room!Goto
<1>8. ASSUME Room!Increment(c) PROVE Room!Active(c) /\ call' = call
  BY <1>8 DEF Room!Increment, Room!Active, Room!Go, Room!Goto
<1>9. ASSUME Room!FindParticipant(c) PROVE Room!Active(c) /\ call' = call
  BY <1>9 DEF Room!FindParticipant, Room!Active, Room!Go, Room!Goto
<1>10. ASSUME Room!Out(c) PROVE Room!Active(c) /\ call' = call
  BY <1>10 DEF Room!Out, Room!Active, Room!Go, Room!Goto
<1>11. ASSUME Room!Decrement(c) PROVE Room!Active(c) /\ call' = call
  BY <1>11 DEF Room!Decrement, Room!Active, Room!Go, Room!Goto
<1>12. ASSUME Room!Ban(c) PROVE Room!Active(c) /\ call' = call
  BY <1>12 DEF Room!Ban, Room!Active, Room!Go, Room!Goto
<1>13. ASSUME Room!Forgive(c) PROVE Room!Active(c) /\ call' = call
  BY <1>13 DEF Room!Forgive, Room!Active, Room!Go, Room!Goto
<1>14. ASSUME Room!Shut(c) PROVE Room!Active(c) /\ call' = call
  BY <1>14 DEF Room!Shut, Room!Active, Room!Go, Room!Goto
<1>15. ASSUME Room!EmptyRoom(c) PROVE Room!Active(c) /\ call' = call
  BY <1>15 DEF Room!EmptyRoom, Room!Active, Room!Go, Room!Goto
<1>16. ASSUME Room!Password(c) PROVE Room!Active(c) /\ call' = call
  BY <1>16 DEF Room!Password, Room!Active, Room!Go, Room!Goto
<1>17. ASSUME Room!Take(c) PROVE Room!Active(c) /\ call' = call
  BY <1>17 DEF Room!Take, Room!Active, Room!Go, Room!Goto
<1>18. ASSUME Room!Speak(c) PROVE Room!Active(c) /\ call' = call
  BY <1>18 DEF Room!Speak, Room!Active, Room!Go, Room!Goto
<1>19. ASSUME Room!Free(c) PROVE Room!Active(c) /\ call' = call
  BY <1>19 DEF Room!Free, Room!Active, Room!Go, Room!Goto
<1>20. ASSUME Room!Listen(c) PROVE Room!Active(c) /\ call' = call
  BY <1>20 DEF Room!Listen, Room!Active, Room!Go, Room!Goto
<1>21. ASSUME Room!Give(c) PROVE Room!Active(c) /\ call' = call
  BY <1>21 DEF Room!Give, Room!Active, Room!Go, Room!Goto
<1>22. ASSUME Room!Bar(c) PROVE Room!Active(c) /\ call' = call
  BY <1>22 DEF Room!Bar, Room!Active, Room!Go, Room!Goto
<1>23. ASSUME Room!Crash(c) PROVE Room!Active(c) /\ call' = call
  BY <1>23 DEF Room!Crash, Room!Active, Room!Go, Room!Goto
<1>24. QED
  BY <1>1, <1>2, <1>3, <1>4, <1>5, <1>6, <1>7, <1>8, <1>9, <1>10, <1>11, <1>12, <1>13, <1>14, <1>15, <1>16, <1>17, <1>18, <1>19, <1>20, <1>21, <1>22, <1>23 DEF Room!Handle

(* History only grows. *)
LEMMA RoomKeepsTrack ==
  ASSUME NEW c \in Calls, Room!Handle(c), ~Room!Start(c)
  PROVE  (raced => raced') /\ (crowded => crowded') /\ (closed => closed')
<1>1. CASE Room!EnterHost(c) \/ Room!Shut(c) \/ Room!Crash(c)
  <2>1. Room!EnterHost(c) => (raced' \/ raced' = raced) /\ closed' = closed /\ crowded' = crowded
    BY Zenon DEF Room!EnterHost
  <2>2. Room!Shut(c) => raced' = raced /\ closed' /\ crowded' = crowded
    BY DEF Room!Shut
  <2>3. Room!Crash(c) => raced' /\ closed' = closed /\ crowded' = crowded
    BY DEF Room!Crash
  <2>4. QED
    BY <1>1, <2>1, <2>2, <2>3
<1>2. CASE ~(Room!EnterHost(c) \/ Room!Shut(c) \/ Room!Crash(c))
  <2>1. raced' = raced /\ closed' = closed /\ crowded' = crowded
    BY <1>2 DEF Room!Handle, Room!Insert, Room!MakeSeats, Room!FindRoom, Room!FindExisting, Room!FindSeat, Room!Enter, Room!Increment, Room!FindParticipant, Room!Out, Room!Decrement, Room!Ban, Room!Forgive, Room!EmptyRoom, Room!Password, Room!Take, Room!Speak, Room!Free, Room!Listen, Room!Give, Room!Bar, Room!Reads, Room!history
  <2>2. QED
    BY <2>1
<1>3. QED
  BY <1>1, <1>2

(* No two requests take the same user out. *)
LEMMA RoomOutsApart ==
  ASSUME Room!RoomsAssumption, RoomInv, NEW c \in Calls, Room!Handle(c), ~raced'
  PROVE  ~raced /\ \A d, e \in Calls : d # e /\ RoomOuts(d)' /\ RoomOuts(e)' => call'[d].who # call'[e].who
<1>1. RoomFits /\ RoomLasting(c) /\ RoomSlots
  BY RoomLasts DEF RoomInv, RoomFits
<1>2. CASE Room!Start(c)
  <2>1. PICK r \in RoomRequests, l \in {"insert", "find", "room"} :
          /\ call' = [call EXCEPT ![c] = r] /\ pc[c] = "new"
          /\ raced' = (raced \/ (r.kind \in Room!Outs /\ \E d \in Calls : Room!Active(d) /\ call[d].kind \in Room!Outs /\ call[d].who = r.who))
    BY <1>1, <1>2, RoomBegins, Zenon
  <2>2. ~raced /\ \A d \in Calls : Room!Active(d) /\ call[d].kind \in Room!Outs /\ call[d].who = r.who => ~(r.kind \in Room!Outs)
    BY <2>1, Zenon
  <2>3. call'[c] = r /\ \A d \in Calls : d # c => call'[d] = call[d] /\ pc'[d] = pc[d]
    BY <1>1, <2>1 DEF RoomSlots, RoomLasting
  <2>4. \A d, e \in Calls : d # e /\ RoomOuts(d) /\ RoomOuts(e) => call[d].who # call[e].who
    BY <2>2 DEF RoomInv, RoomApart
  <2>5. \A d \in Calls : d # c => (RoomOuts(d)' <=> RoomOuts(d))
    BY <2>3 DEF RoomOuts, Room!Active
  <2>6. \A d \in Calls : d # c /\ RoomOuts(c)' /\ RoomOuts(d)' => call'[c].who # call'[d].who /\ call'[d].who # call'[c].who
    BY <2>2, <2>3, <2>5 DEF RoomOuts
  <2>7. QED
    BY <2>2, <2>3, <2>4, <2>5, <2>6
<1>3. CASE ~Room!Start(c)
  <2>1. call' = call /\ Room!Active(c) /\ \A d \in Calls : d # c => pc'[d] = pc[d]
    BY <1>1, <1>3, RoomContinues DEF RoomLasting
  <2>2. ~raced
    BY <1>3, RoomKeepsTrack
  <2>3. \A d \in Calls : RoomOuts(d)' => RoomOuts(d)
    BY <2>1 DEF RoomOuts, Room!Active
  <2>4. \A d, e \in Calls : d # e /\ RoomOuts(d) /\ RoomOuts(e) => call[d].who # call[e].who
    BY <2>2 DEF RoomInv, RoomApart
  <2>5. QED
    BY <2>1, <2>2, <2>3, <2>4
<1>4. QED
  BY <1>2, <1>3

(* Nor do two join. *)
LEMMA RoomJoinsAlone ==
  ASSUME Room!RoomsAssumption, RoomInv, NEW c \in Calls, Room!Handle(c), ~crowded'
  PROVE  ~crowded /\ \A d, e \in Calls : d # e => ~(RoomJoins(d)' /\ RoomJoins(e)')
<1>1. RoomFits /\ RoomLasting(c) /\ RoomSlots
  BY RoomLasts DEF RoomInv, RoomFits
<1>2. CASE Room!Start(c)
  <2>1. PICK r \in RoomRequests, l \in {"insert", "find", "room"} :
          /\ call' = [call EXCEPT ![c] = r] /\ pc[c] = "new"
          /\ crowded' = (crowded \/ (r.kind = "join" /\ \E d \in Calls : Room!Active(d) /\ call[d].kind = "join"))
    BY <1>1, <1>2, RoomBegins, Zenon
  <2>2. ~crowded /\ \A d \in Calls : Room!Active(d) /\ call[d].kind = "join" => ~(r.kind = "join")
    BY <2>1, Zenon
  <2>3. call'[c] = r /\ \A d \in Calls : d # c => call'[d] = call[d] /\ pc'[d] = pc[d]
    BY <1>1, <2>1 DEF RoomSlots, RoomLasting
  <2>4. \A d, e \in Calls : d # e => ~(RoomJoins(d) /\ RoomJoins(e))
    BY <2>2 DEF RoomInv, RoomSpace
  <2>5. \A d \in Calls : d # c => (RoomJoins(d)' <=> RoomJoins(d))
    BY <2>3 DEF RoomJoins, Room!Active
  <2>6. \A d \in Calls : d # c /\ RoomJoins(c)' /\ RoomJoins(d)' => FALSE
    BY <2>2, <2>3, <2>5 DEF RoomJoins
  <2>7. QED
    BY <2>2, <2>3, <2>4, <2>5, <2>6
<1>3. CASE ~Room!Start(c)
  <2>1. call' = call /\ Room!Active(c) /\ \A d \in Calls : d # c => pc'[d] = pc[d]
    BY <1>1, <1>3, RoomContinues DEF RoomLasting
  <2>2. ~crowded
    BY <1>3, RoomKeepsTrack
  <2>3. \A d \in Calls : RoomJoins(d)' => RoomJoins(d)
    BY <2>1 DEF RoomJoins, Room!Active
  <2>4. \A d, e \in Calls : d # e => ~(RoomJoins(d) /\ RoomJoins(e))
    BY <2>2 DEF RoomInv, RoomSpace
  <2>5. QED
    BY <2>1, <2>2, <2>3, <2>4
<1>4. QED
  BY <1>2, <1>3

-----------------------------------------------------------------------------
(* Who is in stays in, but for the one a request takes out. *)
LEMMA RoomStays ==
  ASSUME Room!RoomsAssumption, RoomInv, NEW c \in Calls, Room!Handle(c), ~Room!EmptyRoom(c), NEW u \in RoomUsers, Room!In(u)
  PROVE  Room!In(u)' \/ (Room!Out(c) /\ call[c].who = u)
<1>0. RoomTable /\ RoomSlots /\ part[u] # None
  BY DEF RoomInv, RoomFits, Room!In
<1>1. CASE RoomQuietly(c)
  BY <1>1, RoomQuiets DEF RoomQuiet
<1>2. CASE Room!EnterHost(c)
  <2>1. part'[u] = part[u]
    BY <1>0, <1>2 DEF Room!EnterHost, RoomTable
  <2>2. QED
    BY <2>1 DEF Room!In
<1>3. CASE Room!Enter(c)
  <2>1. part'[u] = part[u]
    BY <1>0, <1>3 DEF Room!Enter, RoomTable
  <2>2. QED
    BY <2>1 DEF Room!In
<1>4. CASE Room!Out(c) /\ call[c].who # u
  <2>1. part' = [part EXCEPT ![call[c].who].in = FALSE]
    BY <1>4, RoomGoes
  <2>2. part'[u] = part[u]
    BY <1>0, <1>4, <2>1 DEF RoomTable
  <2>3. QED
    BY <2>2 DEF Room!In
<1>5. CASE Room!Insert(c) \/ Room!Increment(c) \/ Room!Decrement(c) \/ Room!Crash(c)
  <2>1. part' = part
    BY <1>5, RoomGoes
  <2>2. QED
    BY <2>1 DEF Room!In
<1>6. QED
  BY <1>1, <1>2, <1>3, <1>4, <1>5, RoomSteps

(* Only who was found in the room is to be taken out. *)
LEMMA RoomTakes ==
  ASSUME Room!RoomsAssumption, RoomInv, NEW c \in Calls, Room!Handle(c), pc'[c] = "out"
  PROVE  Room!FindParticipant(c) /\ Room!In(call[c].who) /\ call' = call /\ part' = part
<1>0. RoomSlots /\ RoomAsked(c)
  BY DEF RoomInv, RoomFits
<1>1. CASE Room!Start(c)
  <2>1. \E l \in {"insert", "find", "room"} : pc' = [pc EXCEPT ![c] = l]
    BY <1>1, RoomBegins DEF RoomInv
  <2>2. pc'[c] # "out"
    BY <1>0, <2>1 DEF RoomSlots
  <2>3. QED
    BY <2>2
<1>2. CASE Room!FindRoom(c)
  <2>1. \E l \in {"existing", "find", "forgive", "shut", "give", "bar", "password", "done"} : pc' = [pc EXCEPT ![c] = l]
    BY <1>0, <1>2, RoomAfter DEF Room!FindRoom, Room!Go, Room!Goto, RoomAsked
  <2>2. pc'[c] # "out"
    BY <1>0, <2>1 DEF RoomSlots
  <2>3. QED
    BY <2>2
<1>3. CASE Room!Insert(c) \/ Room!EnterHost(c) \/ Room!Enter(c) \/ Room!Increment(c) \/ Room!Out(c) \/ Room!EmptyRoom(c) \/ Room!Crash(c)
  <2>1. \E l \in {"seats", "done", "increment", "decrement"} : pc' = [pc EXCEPT ![c] = l]
    BY <1>3, RoomGoes
  <2>2. pc'[c] # "out"
    BY <1>0, <2>1 DEF RoomSlots
  <2>3. QED
    BY <2>2
<1>4. CASE Room!Decrement(c)
  <2>1. \E l \in {"ban", "free", "done"} : pc' = [pc EXCEPT ![c] = l]
    BY <1>4, RoomGoes
  <2>2. pc'[c] # "out"
    BY <1>0, <2>1 DEF RoomSlots
  <2>3. QED
    BY <2>2
<1>5. CASE Room!FindParticipant(c)
  <2>1. call' = call /\ part' = part /\ pc[c] = "find"
    BY <1>5 DEF Room!FindParticipant, Room!Reads, Room!room
  <2>2. CASE Room!In(call[c].who)
    BY <1>5, <2>1, <2>2
  <2>3. CASE ~Room!In(call[c].who)
    <3>1. pc' = [pc EXCEPT ![c] = Room!Absent(call[c])]
      BY <1>5, <2>3 DEF Room!FindParticipant, Room!Goto
    <3>2. pc'[c] \in {"ban", "done"}
      BY <1>0, <3>1 DEF RoomSlots, Room!Absent
    <3>3. QED
      BY <3>2
  <2>4. QED
    BY <2>2, <2>3
<1>6. CASE Room!FindSeat(c)
  <2>1. \E l \in {"enter", "done", "take"} : pc' = [pc EXCEPT ![c] = l]
    BY <1>6 DEF Room!FindSeat, Room!Goto
  <2>2. pc'[c] # "out"
    BY <1>0, <2>1 DEF RoomSlots
  <2>3. QED
    BY <2>2
<1>7. CASE ~(Room!Start(c) \/ Room!FindRoom(c) \/ Room!FindParticipant(c) \/ Room!FindSeat(c)) /\ RoomQuietly(c)
  <2>1. \E l \in {"host", "empty", "done", "empty room", "speak", "listen"} : pc' = [pc EXCEPT ![c] = l]
    BY <1>7 DEF RoomQuietly, Room!MakeSeats, Room!FindExisting, Room!Ban, Room!Forgive, Room!Shut, Room!Password, Room!Take, Room!Speak,
         Room!Free, Room!Listen, Room!Give, Room!Bar, Room!Go, Room!Goto
  <2>2. pc'[c] # "out"
    BY <1>0, <2>1 DEF RoomSlots
  <2>3. QED
    BY <2>2
<1>8. QED
  BY <1>1, <1>2, <1>3, <1>4, <1>5, <1>6, <1>7, RoomSteps

(* Requests stay apart. *)
LEMMA RoomApartKept ==
  ASSUME Room!RoomsAssumption, RoomInv, NEW c \in Calls, Room!Handle(c)
  PROVE  RoomApart'
<1>1. SUFFICES ASSUME ~raced' PROVE \/ closed'
                                   \/ \A d \in Calls : pc'[d] = "out" => Room!In(call[d].who)'
  BY RoomOutsApart DEF RoomApart
<1>2. RoomFits /\ RoomLasting(c) /\ RoomSlots /\ ~raced
  BY <1>1, RoomLasts, RoomOutsApart DEF RoomInv, RoomFits
<1>3. SUFFICES ASSUME ~closed', NEW d \in Calls, pc'[d] = "out" PROVE Room!In(call[d].who)'
  OBVIOUS
<1>4. ~closed
  BY <1>2, <1>3 DEF RoomLasting
<1>5. ~Room!EmptyRoom(c)
  BY <1>4, RoomGoes
<1>6. CASE d = c
  BY <1>3, <1>6, RoomTakes DEF Room!In
<1>7. CASE d # c
  <2>1. pc[d] = "out" /\ call'[d] = call[d] /\ Room!In(call[d].who)
    BY <1>2, <1>3, <1>4, <1>7 DEF RoomLasting, RoomInv, RoomApart
  <2>2. call[d].kind \in Room!Outs /\ call[d].who \in RoomUsers
    BY <1>2, <2>1, RoomRequest DEF RoomInv, RoomFits, RoomAsked
  <2>3. RoomOuts(d)
    BY <2>1, <2>2 DEF RoomOuts, Room!Active
  <2>4. CASE Room!Out(c)
    <3>1. pc[c] = "out" /\ call[c].kind \in Room!Outs
      BY <2>4, RoomGoes DEF RoomInv, RoomFits, RoomAsked
    <3>2. RoomOuts(c)
      BY <3>1 DEF RoomOuts, Room!Active
    <3>3. call[c].who # call[d].who
      BY <1>2, <1>7, <2>3, <3>2 DEF RoomInv, RoomApart
    <3>4. PICK u \in RoomUsers : u = call[d].who
      BY <2>2
    <3>5. Room!In(u)'
      BY <1>5, <2>1, <3>3, <3>4, RoomStays
    <3>6. call'[d].who = u
      BY <2>1, <3>4
    <3>7. QED
      BY <3>5, <3>6 DEF Room!In
  <2>5. CASE ~Room!Out(c)
    <3>4. PICK u \in RoomUsers : u = call[d].who
      BY <2>2
    <3>5. Room!In(u)'
      BY <1>5, <2>1, <2>5, <3>4, RoomStays
    <3>6. call'[d].who = u
      BY <2>1, <3>4
    <3>7. QED
      BY <3>5, <3>6 DEF Room!In
  <2>6. QED
    BY <2>4, <2>5
<1>8. QED
  BY <1>6, <1>7

-----------------------------------------------------------------------------
(* Those who are entering, as a request moves on. *)
LEMMA RoomCrosses ==
  ASSUME RoomSlots, RoomFinite, NEW c \in Calls, NEW l, pc' = [pc EXCEPT ![c] = l]
  PROVE  /\ l = "increment" /\ pc[c] # "increment" => Cardinality(Entering)' = Cardinality(Entering) + 1
         /\ l # "increment" /\ pc[c] = "increment" => Cardinality(Entering)' = Cardinality(Entering) - 1
         /\ l # "increment" /\ pc[c] # "increment" => Cardinality(Entering)' = Cardinality(Entering)
<1>1. Cardinality(Entering) \in Nat
        /\ Cardinality(Entering)' = Cardinality(Entering) + (IF l = "increment" THEN 1 ELSE 0) - (IF pc[c] = "increment" THEN 1 ELSE 0)
  BY RoomTallies
<1>2. QED
  BY <1>1

(* A quiet step leaves the counter and those who are entering. *)
LEMMA RoomSame ==
  ASSUME Room!RoomsAssumption, RoomInv, NEW c \in Calls, RoomQuietly(c)
  PROVE  n' = n /\ Cardinality(Entering)' = Cardinality(Entering)
<1>1. PICK l \in Room!Labels : /\ pc' = [pc EXCEPT ![c] = l]
                             /\ (({l, pc[c]} \subseteq {"seats", "host"}) \/ ({l, pc[c]} \cap RoomCounting = {}))
  BY RoomQuiets DEF RoomQuiet
<1>2. l # "increment" /\ pc[c] # "increment"
  BY <1>1 DEF RoomCounting
<1>3. pc' = [pc EXCEPT ![c] = l] /\ RoomSlots /\ RoomFinite
  BY <1>1 DEF RoomInv, RoomFits
<1>4. Cardinality(Entering) \in Nat
        /\ Cardinality(Entering)' = Cardinality(Entering) + (IF l = "increment" THEN 1 ELSE 0) - (IF pc[c] = "increment" THEN 1 ELSE 0)
  BY <1>3, RoomTallies
<1>5. Cardinality(Entering)' = Cardinality(Entering)
  BY <1>2, <1>4
<1>6. QED
  BY <1>5, RoomQuiets DEF RoomQuiet

(* Only from the room does a request start to enter it. *)
LEMMA RoomEntersFrom ==
  ASSUME Room!RoomsAssumption, RoomInv, NEW c \in Calls, Room!Handle(c), RoomEnters(c)'
  PROVE  \/ RoomEnters(c) /\ (Room!FindExisting(c) \/ Room!FindSeat(c))
         \/ Room!FindRoom(c) /\ call[c].kind = "join" /\ Room!RoomFor
<1>0. RoomSlots /\ RoomAsked(c)
  BY DEF RoomInv, RoomFits
<1>1. pc'[c] \in {"existing", "enter", "empty"}
  BY DEF RoomEnters
<1>2. CASE Room!Start(c)
  <2>1. \E l \in {"insert", "find", "room"} : pc' = [pc EXCEPT ![c] = l]
    BY <1>2, RoomBegins DEF RoomInv
  <2>2. QED
    BY <1>0, <1>1, <2>1 DEF RoomSlots
<1>3. CASE Room!FindRoom(c)
  <2>1. pc[c] = "room" /\ pc' = [pc EXCEPT ![c] = IF Room!Admits(call[c]) THEN Room!AfterRoom[call[c].kind] ELSE "done"]
    BY <1>3 DEF Room!FindRoom, Room!Go, Room!Goto
  <2>2. Room!Admits(call[c]) /\ Room!AfterRoom[call[c].kind] \in {"existing", "enter", "empty"}
    BY <1>0, <1>1, <2>1 DEF RoomSlots
  <2>3. call[c].kind = "join"
    BY <1>0, <2>1, <2>2, RoomAfter DEF RoomAsked
  <2>4. QED
    BY <1>3, <2>2, <2>3 DEF Room!Admits
<1>4. CASE Room!Insert(c) \/ Room!EnterHost(c) \/ Room!Enter(c) \/ Room!Increment(c) \/ Room!Out(c) \/ Room!EmptyRoom(c) \/ Room!Crash(c)
  <2>1. \E l \in {"seats", "done", "increment", "decrement"} : pc' = [pc EXCEPT ![c] = l]
    BY <1>4, RoomGoes
  <2>2. QED
    BY <1>0, <1>1, <2>1 DEF RoomSlots
<1>5. CASE Room!Decrement(c)
  <2>1. \E l \in {"ban", "free", "done"} : pc' = [pc EXCEPT ![c] = l]
    BY <1>5, RoomGoes
  <2>2. QED
    BY <1>0, <1>1, <2>1 DEF RoomSlots
<1>6. CASE Room!FindParticipant(c)
  <2>1. call' = call /\ pc[c] = "find"
    BY <1>6 DEF Room!FindParticipant
  <2>2. call[c].kind \in {"leave", "kick", "block", "sit", "stand"}
    BY <1>0, <2>1 DEF RoomAsked
  <2>3. \E l \in {"out", "empty", "free", "done", "ban"} : pc' = [pc EXCEPT ![c] = l]
    <3>1. Room!AfterFind[call[c].kind] \in {"out", "empty", "free"} /\ Room!Absent(call[c]) \in {"done", "ban"}
      BY <2>2, RoomAfter DEF Room!Absent
    <3>2. QED
      BY <1>6, <3>1 DEF Room!FindParticipant, Room!Goto
  <2>4. pc'[c] \in {"out", "empty", "free", "done", "ban"}
    BY <1>0, <2>3 DEF RoomSlots
  <2>5. call'[c].kind # "join" /\ pc'[c] \notin {"existing", "enter"}
    BY <2>1, <2>2, <2>4
  <2>6. QED
    BY <2>5 DEF RoomEnters
<1>7. CASE Room!FindSeat(c)
  <2>1. call' = call /\ pc[c] = "empty"
    BY <1>7 DEF Room!FindSeat
  <2>2. call[c].kind = "join" \/ pc' = [pc EXCEPT ![c] = "done"] \/ pc' = [pc EXCEPT ![c] = "take"]
    BY <1>7 DEF Room!FindSeat, Room!Goto
  <2>3. call[c].kind = "join"
    BY <1>0, <1>1, <2>2 DEF RoomSlots
  <2>4. QED
    BY <1>7, <2>1, <2>3 DEF RoomEnters
<1>8. CASE Room!FindExisting(c)
  BY <1>8 DEF Room!FindExisting, RoomEnters
<1>9. CASE ~(Room!Start(c) \/ Room!FindRoom(c) \/ Room!FindParticipant(c) \/ Room!FindSeat(c) \/ Room!FindExisting(c)) /\ RoomQuietly(c)
  <2>1. \E l \in {"host", "done", "empty room", "speak", "listen"} : pc' = [pc EXCEPT ![c] = l]
    BY <1>9 DEF RoomQuietly, Room!MakeSeats, Room!Ban, Room!Forgive, Room!Shut, Room!Password, Room!Take, Room!Speak,
         Room!Free, Room!Listen, Room!Give, Room!Bar, Room!Go, Room!Goto
  <2>2. QED
    BY <1>0, <1>1, <2>1 DEF RoomSlots
<1>10. QED
  BY <1>2, <1>3, <1>4, <1>5, <1>6, <1>7, <1>8, <1>9, RoomSteps

(* There stays a place for who is about to enter. *)
LEMMA RoomSpaceKept ==
  ASSUME Room!RoomsAssumption, RoomInv, NEW c \in Calls, Room!Handle(c)
  PROVE  RoomSpace'
<1>1. SUFFICES ASSUME ~crowded', ~raced', ~closed'
               PROVE  /\ n' + Cardinality(Entering)' <= MaxParticipants
                      /\ (\E d \in Calls : RoomEnters(d)') => n' + Cardinality(Entering)' < MaxParticipants
  BY RoomJoinsAlone DEF RoomSpace
<1>2. RoomFits /\ RoomLasting(c) /\ RoomSlots /\ RoomFinite /\ ~raced /\ ~crowded
  BY <1>1, RoomLasts, RoomOutsApart, RoomJoinsAlone DEF RoomInv, RoomFits
<1>3. ~closed
  BY <1>1, <1>2 DEF RoomLasting
<1>4. /\ n + Cardinality(Entering) <= MaxParticipants
      /\ (\E d \in Calls : RoomEnters(d)) => n + Cardinality(Entering) < MaxParticipants
      /\ \A d, e \in Calls : d # e => ~(RoomJoins(d) /\ RoomJoins(e))
  BY <1>2, <1>3 DEF RoomInv, RoomSpace
<1>5. n \in Int /\ MaxParticipants \in Nat \ {0} /\ Cardinality(Entering) \in Nat
  BY <1>2, FS_CardinalityType DEF RoomFits, RoomTable, RoomFinite, Room!RoomsAssumption
<1>6. \A d \in Calls : d # c => (RoomEnters(d)' <=> RoomEnters(d))
  BY <1>2 DEF RoomLasting, RoomEnters
<1>7. \A d \in Calls : RoomEnters(d) \/ pc[d] = "increment" => RoomJoins(d)
  <2>1. TAKE d \in Calls
  <2>2. RoomAsked(d)
    BY <1>2 DEF RoomFits
  <2>3. QED
    BY <2>2 DEF RoomAsked, RoomEnters, RoomJoins, Room!Active
<1>8. ASSUME n' = n, Cardinality(Entering)' = Cardinality(Entering), RoomEnters(c)' => RoomEnters(c)
      PROVE  /\ n' + Cardinality(Entering)' <= MaxParticipants
             /\ (\E d \in Calls : RoomEnters(d)') => n' + Cardinality(Entering)' < MaxParticipants
  BY <1>4, <1>6, <1>8
<1>9. CASE Room!FindRoom(c) /\ RoomEnters(c)'
  <2>1. pc[c] = "room" /\ call[c].kind = "join" /\ n < MaxParticipants
    BY <1>9, RoomEntersFrom DEF Room!FindRoom, RoomEnters, Room!RoomFor
  <2>2. RoomJoins(c)
    BY <2>1 DEF RoomJoins, Room!Active
  <2>3. Entering = {}
    BY <1>4, <1>7, <2>1, <2>2 DEF Entering, RoomAt
  <2>4. Cardinality(Entering) = 0
    BY <2>3, FS_EmptySet
  <2>5. n' = n /\ Cardinality(Entering)' = Cardinality(Entering)
    BY <1>9, RoomSame DEF RoomQuietly
  <2>6. QED
    BY <1>5, <2>1, <2>4, <2>5
<1>10. CASE RoomQuietly(c) /\ ~(Room!FindRoom(c) /\ RoomEnters(c)')
  <2>1. RoomEnters(c)' => RoomEnters(c)
    BY <1>10, RoomEntersFrom
  <2>2. n' = n /\ Cardinality(Entering)' = Cardinality(Entering)
    BY <1>10, RoomSame
  <2>3. QED
    BY <1>8, <2>1, <2>2
<1>11. CASE Room!Enter(c) /\ pc' = [pc EXCEPT ![c] = "increment"]
  <2>1. pc[c] = "enter" /\ n' = n
    BY <1>11, RoomGoes
  <2>2. Cardinality(Entering)' = Cardinality(Entering) + 1
    BY <1>2, <1>11, <2>1, RoomCrosses
  <2>3. RoomEnters(c) /\ RoomJoins(c)
    BY <1>7, <2>1 DEF RoomEnters
  <2>4. n + Cardinality(Entering) < MaxParticipants
    BY <1>4, <2>3
  <2>5. pc'[c] = "increment"
    BY <1>2, <1>11 DEF RoomSlots
  <2>6. \A d \in Calls : ~RoomEnters(d)'
    <3>1. TAKE d \in Calls
    <3>2. CASE d = c
      BY <2>5, <3>2 DEF RoomEnters
    <3>3. CASE d # c
      BY <1>4, <1>6, <1>7, <2>3, <3>3
    <3>4. QED
      BY <3>2, <3>3
  <2>7. n' + Cardinality(Entering)' <= MaxParticipants
    BY <1>5, <2>1, <2>2, <2>4
  <2>8. QED
    BY <2>6, <2>7
<1>12. CASE Room!Increment(c)
  <2>1. pc[c] = "increment" /\ n' = n + 1 /\ pc' = [pc EXCEPT ![c] = "done"]
    BY <1>12, RoomGoes
  <2>a. \E l \in {"done"} : pc' = [pc EXCEPT ![c] = l]
    BY <2>1
  <2>2. Cardinality(Entering)' = Cardinality(Entering) - 1
    BY <1>2, <2>1, <2>a, RoomCrosses
  <2>3. n' + Cardinality(Entering)' = n + Cardinality(Entering)
    BY <1>5, <2>1, <2>2
  <2>4. ~RoomEnters(c)'
    BY <1>12, RoomEntersFrom, <2>1 DEF Room!FindRoom, Room!FindExisting, Room!FindSeat
  <2>5. QED
    BY <1>4, <1>6, <2>3, <2>4
<1>13. CASE Room!Decrement(c)
  <2>1. pc[c] = "decrement" /\ n' = n - 1 /\ \E l \in {"ban", "free", "done"} : pc' = [pc EXCEPT ![c] = l]
    BY <1>13, RoomGoes
  <2>2. Cardinality(Entering)' = Cardinality(Entering)
    BY <1>2, <2>1, RoomCrosses
  <2>3. n' + Cardinality(Entering)' < n + Cardinality(Entering)
    BY <1>5, <2>1, <2>2
  <2>4. n' \in Int /\ Cardinality(Entering)' \in Int
    BY <1>5, <2>1, <2>2
  <2>5. QED
    BY <1>4, <1>5, <2>3, <2>4
<1>14. CASE Room!Insert(c)
  <2>1. pc[c] = "insert" /\ ~RoomEnters(c)'
    BY <1>14, RoomGoes, RoomEntersFrom DEF Room!FindRoom, Room!FindExisting, Room!FindSeat
  <2>2. CASE pc' = [pc EXCEPT ![c] = "seats"] /\ status = "none" /\ n' = 1
    <3>1. Cardinality(Entering) = 0
      BY <2>2, RoomUnmade, FS_EmptySet
    <3>a. \E l \in {"seats"} : pc' = [pc EXCEPT ![c] = l]
      BY <2>2
    <3>b. Cardinality(Entering)' = Cardinality(Entering)
      BY <1>2, <2>1, <3>a, RoomCrosses
    <3>2. Cardinality(Entering)' = 0
      BY <3>1, <3>b
    <3>3. \A d \in Calls : ~RoomEnters(d)
      BY <1>2, <2>2 DEF RoomFits, RoomMade, RoomEnters
    <3>4. QED
      BY <1>5, <1>6, <2>1, <2>2, <3>2, <3>3
  <2>3. CASE pc' = [pc EXCEPT ![c] = "done"] /\ n' = n
    <3>a. \E l \in {"done"} : pc' = [pc EXCEPT ![c] = l]
      BY <2>3
    <3>1. Cardinality(Entering)' = Cardinality(Entering)
      BY <1>2, <2>1, <3>a, RoomCrosses
    <3>2. QED
      BY <1>8, <2>1, <2>3, <3>1
  <2>4. QED
    BY <1>14, <2>2, <2>3, RoomGoes
<1>15. CASE Room!EnterHost(c) \/ Room!Out(c) \/ (Room!Enter(c) /\ pc' # [pc EXCEPT ![c] = "increment"])
  <2>1. /\ n' = n /\ pc[c] \in {"host", "out", "enter"}
        /\ \E l \in {"done", "decrement"} : pc' = [pc EXCEPT ![c] = l]
    BY <1>15, RoomGoes
  <2>2. ~RoomEnters(c)'
    BY <1>2, <2>1 DEF RoomSlots, RoomEnters
  <2>3. Cardinality(Entering)' = Cardinality(Entering)
    BY <1>2, <2>1, RoomCrosses
  <2>4. QED
    BY <1>8, <2>1, <2>2, <2>3
<1>16. CASE Room!EmptyRoom(c) \/ Room!Crash(c)
  BY <1>1, <1>3, <1>16, RoomGoes
<1>17. QED
  BY <1>9, <1>10, <1>11, <1>12, <1>13, <1>14, <1>15, <1>16, RoomSteps

(* The invariant holds at first. *)
LEMMA RoomInit ==
  ASSUME Room!RoomsAssumption, Room!Init
  PROVE  RoomInv
<1>1. /\ pc = [d \in Calls |-> "new"] /\ call = [d \in Calls |-> None] /\ seen = [d \in Calls |-> None]
      /\ locked = {} /\ black = {} /\ ~raced /\ ~crowded /\ ~closed
  BY DEF Room!Init
<1>2. /\ RoomSlots /\ \A d \in Calls : RoomAsked(d) /\ RoomMade(d)
  BY <1>1 DEF RoomSlots, RoomAsked, RoomMade, Room!Labels
<1>3. Entering = {} /\ Leaving = {} /\ Hosting = {}
  BY <1>1 DEF Entering, Leaving, Hosting, RoomAt
<1>4. RoomApart
  BY <1>1 DEF RoomApart, RoomOuts, Room!Active
<1>5. IsFiniteSet(Entering) /\ IsFiniteSet(Leaving) /\ IsFiniteSet(Hosting)
      /\ Cardinality(Entering) = 0 /\ Cardinality(Leaving) = 0 /\ Cardinality(Hosting) = 0
  BY <1>3, FS_EmptySet
<1>6. \A d \in Calls : ~RoomEnters(d) /\ ~RoomJoins(d)
  BY <1>1 DEF RoomEnters, RoomJoins, Room!Active
<1>7. RoomTable /\ RoomSeats /\ RoomNone /\ IsFiniteSet(Inside) /\ n = Cardinality(Inside) /\ n \in {0, 1}
  <2>1. CASE status = "none" /\ part = [u \in RoomUsers |-> None] /\ n = 0 /\ seat = <<>>
    <3>1. Inside = {}
      BY <2>1 DEF Inside, Room!In
    <3>2. IsFiniteSet(Inside) /\ Cardinality(Inside) = 0
      BY <3>1, FS_EmptySet
    <3>3. RoomSeats
      BY <1>1, <2>1 DEF RoomSeats
    <3>4. QED
      BY <2>1, <3>2, <3>3 DEF RoomTable, RoomNone
  <2>2. CASE /\ status = "active" /\ n = 1 /\ seat = [i \in Room!SeatIds |-> None]
             /\ part = [u \in RoomUsers |-> IF u = RoomHost THEN [seat |-> 1, in |-> TRUE] ELSE None]
    <3>1. RoomHost \in RoomUsers /\ [seat |-> 1, in |-> TRUE] \in [seat: Room!SeatIds \cup {None}, in: BOOLEAN]
      BY DEF Room!RoomsAssumption, Room!SeatIds
    <3>2. [seat |-> 1, in |-> TRUE] # None
      BY <3>1 DEF Room!RoomsAssumption
    <3>3. Inside = {RoomHost}
      BY <2>2, <3>1, <3>2 DEF Inside, Room!In
    <3>4. IsFiniteSet(Inside) /\ Cardinality(Inside) = 1
      BY <3>3, FS_Singleton
    <3>5. RoomSeats
      BY <1>1, <2>2 DEF RoomSeats
    <3>6. RoomTable
      BY <2>2, <3>1 DEF RoomTable
    <3>7. QED
      BY <2>2, <3>4, <3>5, <3>6 DEF RoomNone
  <2>3. QED
    BY <2>1, <2>2 DEF Room!Init
<1>8. RoomCounts
  BY <1>5, <1>7 DEF RoomCounts
<1>9. RoomSpace
  <2>1. n + Cardinality(Entering) <= MaxParticipants
    BY <1>5, <1>7 DEF Room!RoomsAssumption
  <2>2. QED
    BY <1>6, <2>1 DEF RoomSpace
<1>10. QED
  BY <1>2, <1>4, <1>5, <1>7, <1>8, <1>9 DEF RoomInv, RoomFits, RoomFinite

(* Every step keeps it. *)
LEMMA RoomStep ==
  ASSUME Room!RoomsAssumption, RoomInv, NEW c \in Calls, Room!Handle(c)
  PROVE  RoomInv'
<1>1. RoomSlots' /\ RoomTable' /\ RoomSeats' /\ RoomNone'
  BY RoomSlotsKept, RoomTableKept, RoomSeatsKept, RoomNoneKept DEF RoomInv
<1>2. RoomFits /\ RoomMade(c)' /\ RoomLasting(c) /\ \A d \in Calls : RoomAsked(d)'
  BY RoomMadeKept, RoomAskedKept, RoomLasts DEF RoomInv
<1>3. ASSUME NEW d \in Calls, d # c PROVE RoomMade(d)'
  <2>1. RoomMade(d) /\ RoomAsked(d) /\ pc'[d] = pc[d] /\ call'[d] = call[d]
    BY <1>2, <1>3 DEF RoomFits, RoomLasting
  <2>2. pc[d] # "new" => call[d].who \in RoomUsers
    BY <2>1, RoomRequest DEF RoomAsked
  <2>3. \A u \in RoomUsers : part[u] # None => part'[u] # None
    BY <1>2 DEF RoomLasting
  <2>4. (status' = "none" => status = "none") /\ (closed => closed')
    BY <1>2 DEF RoomLasting
  <2>5. QED
    BY <2>1, <2>2, <2>3, <2>4 DEF RoomMade
<1>4. QED
  BY <1>1, <1>2, <1>3, RoomCountsKept, RoomApartKept, RoomSpaceKept DEF RoomInv, RoomFits

(* What is promised of a room. *)
LEMMA RoomHolds ==
  ASSUME Room!RoomsAssumption, RoomInv
  PROVE  Room!TypeOK /\ Room!CountedRight /\ Room!NotOverfull
<1>0. RoomFits /\ RoomFinite /\ RoomCounts /\ RoomSpace /\ n \in Int /\ MaxParticipants \in Nat
  BY DEF RoomInv, RoomFits, RoomTable, Room!RoomsAssumption
<1>1. Room!TypeOK
  BY <1>0 DEF Room!TypeOK, RoomFits, RoomSlots, RoomTable, RoomSeats, RoomNone
<1>2. Inside = Room!Present /\ Cardinality(Inside) = Room!Cardinality(Room!Present)
  BY Zenon DEF Inside, Room!Present, Room!Cardinality, Cardinality
<1>3. /\ Cardinality(Inside) \in Nat /\ Cardinality(Entering) \in Nat /\ Cardinality(Leaving) \in Nat /\ Cardinality(Hosting) \in Nat
  BY <1>0, FS_CardinalityType DEF RoomFinite
<1>4. Room!CountedRight
  <2>1. SUFFICES ASSUME ~raced, ~closed, \A c \in Calls : pc[c] \notin Room!Counting PROVE n = Cardinality(Inside)
    BY <1>2 DEF Room!CountedRight
  <2>2. Entering = {} /\ Leaving = {} /\ Hosting = {}
    BY <2>1 DEF Room!Counting, Entering, Leaving, Hosting, RoomAt
  <2>3. Cardinality(Entering) = 0 /\ Cardinality(Leaving) = 0 /\ Cardinality(Hosting) = 0
    BY <2>2, FS_EmptySet
  <2>4. QED
    BY <1>0, <1>3, <2>1, <2>3 DEF RoomCounts
<1>5. Room!NotOverfull
  <2>1. SUFFICES ASSUME ~raced, ~closed, ~crowded PROVE Cardinality(Inside) <= MaxParticipants
    BY <1>2 DEF Room!NotOverfull
  <2>2. n + Cardinality(Entering) = Cardinality(Inside) + Cardinality(Leaving) + Cardinality(Hosting)
    BY <1>0, <2>1 DEF RoomCounts
  <2>3. n + Cardinality(Entering) <= MaxParticipants
    BY <1>0, <2>1 DEF RoomSpace
  <2>4. QED
    BY <1>0, <1>3, <2>2, <2>3
<1>6. QED
  BY <1>1, <1>4, <1>5

-----------------------------------------------------------------------------
(* Events.  What a request at a statement asks. *)
EventSlots ==
  /\ event \in [max: Event!Maxima] \cup {None} /\ going \in [EventUsers -> Event!Answers \cup {None}]
  /\ ask \in [Calls -> [kind: Event!Kinds, by: EventUsers, answer: Event!Answers \cup {None}, max: Event!Maxima] \cup {None}]
  /\ at \in [Calls -> {"new", "done", "find", "count", "upsert", "leave", "update", "delete"}]
EventAsked(c) ==
  /\ at[c] # "new" => ask[c] \in [kind: Event!Kinds, by: EventUsers, answer: Event!Answers \cup {None}, max: Event!Maxima]
  /\ at[c] = "find" => /\ ask[c].kind \in {"join", "resize", "cancel"}
                       /\ ask[c].kind = "join" => ask[c].answer # None
  /\ at[c] \in {"count", "upsert"} => ask[c].kind = "join" /\ ask[c].answer # None
  /\ at[c] = "count" => Event!Limited(ask[c].max)
  /\ at[c] = "update" => ask[c].kind = "resize"
  /\ at[c] = "delete" => ask[c].kind = "cancel"
Comers == {u \in EventUsers : going[u] = "going"}
EventComers == IsFiniteSet(Comers) /\ (event = None => Comers = {})

(* Two requests that change who may come are not under way together, a join knows
   the limit, and there is still a place for who has been counted. *)
EventMerges(c) == at[c] \notin {"new", "done"} /\ ask[c].kind \in {"join", "resize"}
EventAlone == \A c, d \in Calls : c # d => ~(EventMerges(c) /\ EventMerges(d))
EventFits == Event!Limited(event.max) /\ Comers # {} => Cardinality(Comers) <= event.max
EventSpare == Event!Limited(event.max) => Cardinality(Comers) < event.max
EventPlaces ==
  event # None =>
    /\ EventFits
    /\ \A c \in Calls : at[c] \in {"count", "upsert"} => ask[c].max = event.max
    /\ \A c \in Calls : at[c] = "upsert" /\ ask[c].answer = "going" => EventSpare
EventInv == EventSlots /\ EventComers /\ (\A c \in Calls : EventAsked(c)) /\ (~rushed => EventAlone /\ EventPlaces)

EventStep(c) ==
  Event!Start(c) \/ Event!FindEvent(c) \/ Event!Count(c) \/ Event!Upsert(c) \/ Event!LeaveEvent(c) \/ Event!Resize(c) \/ Event!Cancel(c)

(* A request begins. *)
LEMMA EventBegins ==
  ASSUME EventInv, NEW c \in Calls, Event!Start(c)
  PROVE  \E r \in [kind: Event!Kinds, by: EventUsers, answer: Event!Answers \cup {None}, max: Event!Maxima] :
           /\ (r.answer # None <=> r.kind = "join")
           /\ at[c] = "new" /\ ask' = [ask EXCEPT ![c] = r]
           /\ at' = [at EXCEPT ![c] = IF r.kind = "leave" THEN "leave" ELSE "find"]
           /\ (rushed => rushed') /\ event' = event /\ going' = going
           /\ ~rushed' /\ r.kind \in {"join", "resize"} => \A d \in Calls : ~EventMerges(d)
<1>1. PICK r \in Event!Request :
        /\ ask' = [ask EXCEPT ![c] = r] /\ at' = [at EXCEPT ![c] = IF r.kind = "leave" THEN "leave" ELSE "find"]
        /\ rushed' = (rushed \/ (r.kind \in {"join", "resize"} /\ \E d \in Calls : Event!Active(d) /\ ask[d].kind \in {"join", "resize"}))
  BY DEF Event!Start
<1>2. r \in [kind: Event!Kinds, by: EventUsers, answer: Event!Answers \cup {None}, max: Event!Maxima]
      /\ (r.answer # None <=> r.kind = "join")
  BY DEF Event!Request
<1>3. /\ rushed => rushed'
      /\ ~rushed' /\ r.kind \in {"join", "resize"} => \A d \in Calls : ~EventMerges(d)
  BY <1>1, Zenon DEF EventMerges, Event!Active
<1>4. at[c] = "new" /\ event' = event /\ going' = going
  BY DEF Event!Start
<1>5. QED
  BY <1>1, <1>2, <1>3, <1>4

(* What the other steps do. *)
LEMMA EventGoes ==
  ASSUME Event!EventsAssumption, EventInv, NEW c \in Calls
  PROVE  /\ Event!FindEvent(c) => /\ at[c] = "find" /\ event' = event /\ going' = going /\ rushed' = rushed
                                  /\ \/ /\ at' = [at EXCEPT ![c] = Event!Joining] /\ ask[c].kind = "join"
                                        /\ ask' = [ask EXCEPT ![c] = [ask[c] EXCEPT !.max = event.max]] /\ event # None
                                     \/ at' = [at EXCEPT ![c] = "update"] /\ ask' = ask /\ ask[c].kind = "resize"
                                     \/ at' = [at EXCEPT ![c] = "delete"] /\ ask' = ask /\ ask[c].kind = "cancel"
                                     \/ at' = [at EXCEPT ![c] = "done"] /\ ask' = ask
         /\ Event!Count(c) => /\ at[c] = "count" /\ ask' = ask /\ event' = event /\ going' = going /\ rushed' = rushed
                              /\ \/ at' = [at EXCEPT ![c] = "upsert"] /\ ~(Event!Full(c) /\ ask[c].answer = "going")
                                 \/ at' = [at EXCEPT ![c] = "done"]
         /\ Event!Upsert(c) => /\ at[c] = "upsert" /\ ask' = ask /\ event' = event /\ rushed' = rushed
                               /\ at' = [at EXCEPT ![c] = "done"]
                               /\ IF event = None THEN going' = going ELSE going' = [going EXCEPT ![ask[c].by] = ask[c].answer]
         /\ Event!LeaveEvent(c) => /\ at[c] = "leave" /\ ask' = ask /\ event' = event /\ rushed' = rushed
                                   /\ at' = [at EXCEPT ![c] = "done"] /\ going' = [going EXCEPT ![ask[c].by] = None]
         /\ Event!Resize(c) => /\ at[c] = "update" /\ ask' = ask /\ going' = going /\ at' = [at EXCEPT ![c] = "done"]
                               /\ IF event = None THEN event' = event /\ rushed' = rushed
                                  ELSE event' = [event EXCEPT !.max = ask[c].max] /\ (rushed => rushed') /\ (~rushed' => ~Event!Over(ask[c].max))
         /\ Event!Cancel(c) => /\ at[c] = "delete" /\ ask' = ask /\ at' = [at EXCEPT ![c] = "done"] /\ rushed' = rushed
                               /\ event' = None /\ going' = [u \in EventUsers |-> None]
<1>1. ASSUME Event!FindEvent(c)
      PROVE  /\ at[c] = "find" /\ event' = event /\ going' = going /\ rushed' = rushed
             /\ \/ /\ at' = [at EXCEPT ![c] = Event!Joining] /\ ask[c].kind = "join"
                   /\ ask' = [ask EXCEPT ![c] = [ask[c] EXCEPT !.max = event.max]] /\ event # None
                \/ at' = [at EXCEPT ![c] = "update"] /\ ask' = ask /\ ask[c].kind = "resize"
                \/ at' = [at EXCEPT ![c] = "delete"] /\ ask' = ask /\ ask[c].kind = "cancel"
                \/ at' = [at EXCEPT ![c] = "done"] /\ ask' = ask
  <2>1. at[c] = "find" /\ event' = event /\ going' = going /\ rushed' = rushed
    BY <1>1 DEF Event!FindEvent
  <2>2. ask[c].kind \in {"join", "resize", "cancel"}
    BY <2>1 DEF EventInv, EventAsked
  <2>3. /\ [join |-> Event!Joining, resize |-> "update", cancel |-> "delete"]["join"] = Event!Joining
        /\ [join |-> Event!Joining, resize |-> "update", cancel |-> "delete"]["resize"] = "update"
        /\ [join |-> Event!Joining, resize |-> "update", cancel |-> "delete"]["cancel"] = "delete"
    OBVIOUS
  <2>4. CASE event # None /\ (ask[c].kind # "join" => ask[c].by = Creator)
    <3>1. /\ at' = [at EXCEPT ![c] = [join |-> Event!Joining, resize |-> "update", cancel |-> "delete"][ask[c].kind]]
          /\ ask' = IF ask[c].kind = "join" THEN [ask EXCEPT ![c].max = event.max] ELSE ask
      BY <1>1, <2>4 DEF Event!FindEvent
    <3>2. CASE ask[c].kind = "join"
      BY <2>1, <2>3, <2>4, <3>1, <3>2
    <3>3. CASE ask[c].kind = "resize"
      BY <2>1, <2>3, <3>1, <3>3
    <3>4. CASE ask[c].kind = "cancel"
      BY <2>1, <2>3, <3>1, <3>4
    <3>5. QED
      BY <2>2, <3>2, <3>3, <3>4
  <2>5. CASE ~(event # None /\ (ask[c].kind # "join" => ask[c].by = Creator))
    BY <1>1, <2>1, <2>5 DEF Event!FindEvent, Event!Go
  <2>6. QED
    BY <2>4, <2>5
<1>2. Event!Count(c) => /\ at[c] = "count" /\ ask' = ask /\ event' = event /\ going' = going /\ rushed' = rushed
                        /\ \/ at' = [at EXCEPT ![c] = "upsert"] /\ ~(Event!Full(c) /\ ask[c].answer = "going")
                           \/ at' = [at EXCEPT ![c] = "done"]
  BY DEF Event!Count, Event!Go
<1>3. Event!Upsert(c) => /\ at[c] = "upsert" /\ ask' = ask /\ event' = event /\ rushed' = rushed
                         /\ at' = [at EXCEPT ![c] = "done"]
                         /\ IF event = None THEN going' = going ELSE going' = [going EXCEPT ![ask[c].by] = ask[c].answer]
  BY DEF Event!Upsert, Event!Go
<1>4. Event!LeaveEvent(c) => /\ at[c] = "leave" /\ ask' = ask /\ event' = event /\ rushed' = rushed
                             /\ at' = [at EXCEPT ![c] = "done"] /\ going' = [going EXCEPT ![ask[c].by] = None]
  BY DEF Event!LeaveEvent, Event!Go
<1>5. Event!Resize(c) => /\ at[c] = "update" /\ ask' = ask /\ going' = going /\ at' = [at EXCEPT ![c] = "done"]
                         /\ IF event = None THEN event' = event /\ rushed' = rushed
                            ELSE event' = [event EXCEPT !.max = ask[c].max] /\ (rushed => rushed') /\ (~rushed' => ~Event!Over(ask[c].max))
  BY Zenon DEF Event!Resize, Event!Go
<1>6. Event!Cancel(c) => /\ at[c] = "delete" /\ ask' = ask /\ at' = [at EXCEPT ![c] = "done"] /\ rushed' = rushed
                         /\ event' = None /\ going' = [u \in EventUsers |-> None]
  BY DEF Event!Cancel, Event!Go
<1>7. QED
  BY <1>1, <1>2, <1>3, <1>4, <1>5, <1>6

(* The fields of a request at a statement. *)
LEMMA EventAsks ==
  ASSUME EventInv, NEW c \in Calls, at[c] # "new"
  PROVE  /\ ask[c].kind \in Event!Kinds /\ ask[c].by \in EventUsers
         /\ ask[c].answer \in Event!Answers \cup {None} /\ ask[c].max \in Event!Maxima
BY DEF EventInv, EventAsked

(* Slots and what they ask are kept. *)
LEMMA EventSlotsKept ==
  ASSUME Event!EventsAssumption, EventInv, NEW c \in Calls, EventStep(c)
  PROVE  EventSlots' /\ \A d \in Calls : EventAsked(d)'
<1> USE DEF EventInv, EventSlots, EventAsked
<1>1. CASE Event!Start(c)
  <2>1. PICK r \in [kind: Event!Kinds, by: EventUsers, answer: Event!Answers \cup {None}, max: Event!Maxima] :
           /\ (r.answer # None <=> r.kind = "join")
           /\ at[c] = "new" /\ ask' = [ask EXCEPT ![c] = r]
           /\ at' = [at EXCEPT ![c] = IF r.kind = "leave" THEN "leave" ELSE "find"]
           /\ event' = event /\ going' = going
    BY <1>1, EventBegins
  <2>2. EventSlots'
    BY <2>1
  <2>3. ask'[c] = r /\ at'[c] = (IF r.kind = "leave" THEN "leave" ELSE "find")
        /\ \A d \in Calls : d # c => ask'[d] = ask[d] /\ at'[d] = at[d]
    BY <2>1
  <2>4. r.kind \in {"join", "leave", "resize", "cancel"}
    BY DEF Event!Kinds
  <2>5. ASSUME NEW d \in Calls PROVE EventAsked(d)'
    BY <2>1, <2>3, <2>4
  <2>6. QED
    BY <2>2, <2>5
<1>2. CASE Event!FindEvent(c)
  <2>1. at[c] = "find" /\ event' = event /\ going' = going /\ rushed' = rushed
    BY <1>2, EventGoes
  <2>2. CASE /\ at' = [at EXCEPT ![c] = Event!Joining] /\ ask[c].kind = "join" /\ event # None
             /\ ask' = [ask EXCEPT ![c] = [ask[c] EXCEPT !.max = event.max]]
    <3>0. event.max \in Event!Maxima /\ Event!Joining \in {"count", "upsert"} /\ (Event!Joining = "count" => Event!Limited(event.max))
      BY <2>2 DEF Event!Joining
    <3>1. [ask[c] EXCEPT !.max = event.max] \in [kind: Event!Kinds, by: EventUsers, answer: Event!Answers \cup {None}, max: Event!Maxima]
      BY <2>1, <3>0
    <3>2. EventSlots'
      BY <2>1, <2>2, <3>0, <3>1
    <3>3. ask'[c] = [ask[c] EXCEPT !.max = event.max] /\ at'[c] = Event!Joining /\ \A d \in Calls : d # c => ask'[d] = ask[d] /\ at'[d] = at[d]
      BY <2>2
    <3>4. ask'[c].kind = ask[c].kind /\ ask'[c].max = event.max /\ ask'[c].answer = ask[c].answer /\ ask'[c] \in [kind: Event!Kinds, by: EventUsers, answer: Event!Answers \cup {None}, max: Event!Maxima]
      BY <2>1, <3>1, <3>3
    <3>5. EventAsked(c)'
      BY <2>1, <2>2, <3>0, <3>3, <3>4
    <3>6. ASSUME NEW d \in Calls, d # c PROVE EventAsked(d)'
      BY <3>3, <3>6
    <3>7. QED
      BY <3>2, <3>5, <3>6
  <2>3. CASE ask' = ask /\ at' = [at EXCEPT ![c] = "update"] /\ ask[c].kind = "resize"
    BY <2>1, <2>3
  <2>4. CASE ask' = ask /\ at' = [at EXCEPT ![c] = "delete"] /\ ask[c].kind = "cancel"
    BY <2>1, <2>4
  <2>5. CASE ask' = ask /\ at' = [at EXCEPT ![c] = "done"]
    BY <2>1, <2>5
  <2>6. QED
    BY <1>2, <2>2, <2>3, <2>4, <2>5, EventGoes
<1>3. CASE Event!Count(c)
  BY <1>3, EventGoes
<1>4. CASE Event!Upsert(c)
  <2>1. ask[c].by \in EventUsers /\ ask[c].answer \in Event!Answers \cup {None}
    BY <1>4, EventGoes
  <2>2. QED
    BY <1>4, <2>1, EventGoes
<1>5. CASE Event!LeaveEvent(c)
  BY <1>5, EventGoes
<1>6. CASE Event!Resize(c)
  <2>1. ask[c].max \in Event!Maxima
    BY <1>6, EventGoes
  <2>2. event' \in [max: Event!Maxima] \cup {None}
    BY <1>6, <2>1, EventGoes
  <2>3. QED
    BY <1>6, <2>2, EventGoes
<1>7. CASE Event!Cancel(c)
  BY <1>7, EventGoes
<1>8. QED
  BY <1>1, <1>2, <1>3, <1>4, <1>5, <1>6, <1>7 DEF EventStep

(* One row changes. *)
LEMMA ComersMove ==
  ASSUME EventInv, NEW u \in EventUsers, NEW a \in Event!Answers \cup {None}, going' = [going EXCEPT ![u] = a]
  PROVE  /\ IsFiniteSet(Comers') /\ Cardinality(Comers) \in Nat /\ Cardinality(Comers)' \in Nat
         /\ a # "going" => Comers' \subseteq Comers /\ Cardinality(Comers)' <= Cardinality(Comers)
         /\ Cardinality(Comers)' <= Cardinality(Comers) + 1
<1>1. IsFiniteSet(Comers) /\ Cardinality(Comers) \in Nat
  BY FS_CardinalityType DEF EventInv, EventComers
<1>2. \A v \in EventUsers : going'[v] = IF v = u THEN a ELSE going[v]
  BY DEF EventInv, EventSlots
<1>3. CASE a = "going"
  <2>1. Comers' = Comers \cup {u}
    BY <1>2, <1>3 DEF Comers
  <2>2. IsFiniteSet(Comers \cup {u}) /\ (Cardinality(Comers \cup {u}) = Cardinality(Comers) \/ Cardinality(Comers \cup {u}) = Cardinality(Comers) + 1)
    BY <1>1, FS_AddElement
  <2>3. QED
    BY <1>1, <1>3, <2>1, <2>2
<1>4. CASE a # "going"
  <2>1. Comers' = Comers \ {u}
    BY <1>2, <1>4 DEF Comers
  <2>2. IsFiniteSet(Comers \ {u}) /\ Cardinality(Comers \ {u}) = IF u \in Comers THEN Cardinality(Comers) - 1 ELSE Cardinality(Comers)
    BY <1>1, FS_RemoveElement
  <2>3. Cardinality(Comers \ {u}) \in Nat
    BY <2>2, FS_CardinalityType
  <2>4. Cardinality(Comers \ {u}) <= Cardinality(Comers)
    BY <1>1, <2>2
  <2>5. QED
    BY <1>1, <1>4, <2>1, <2>2, <2>3, <2>4
<1>5. QED
  BY <1>3, <1>4

(* Nobody comes to an event that is gone. *)
LEMMA EventComersKept ==
  ASSUME Event!EventsAssumption, EventInv, NEW c \in Calls, EventStep(c)
  PROVE  EventComers'
<1>0. EventComers /\ EventSlots
  BY DEF EventInv
<1>1. CASE Event!Start(c) \/ Event!FindEvent(c) \/ Event!Count(c)
  <2>1. event' = event /\ going' = going
    BY <1>1, EventBegins, EventGoes
  <2>2. QED
    BY <1>0, <2>1 DEF EventComers, Comers
<1>2. CASE Event!Upsert(c)
  <2>1. ask[c].by \in EventUsers /\ ask[c].answer \in Event!Answers \cup {None}
    BY <1>2, EventGoes, EventAsks
  <2>2. CASE event = None
    BY <1>0, <1>2, <2>2, EventGoes DEF EventComers, Comers
  <2>3. CASE event # None
    <3>1. going' = [going EXCEPT ![ask[c].by] = ask[c].answer] /\ event' = event
      BY <1>2, <2>3, EventGoes
    <3>2. IsFiniteSet(Comers')
      BY <2>1, <3>1, ComersMove
    <3>3. QED
      BY <2>3, <3>1, <3>2 DEF EventComers
  <2>4. QED
    BY <2>2, <2>3
<1>3. CASE Event!LeaveEvent(c)
  <2>1. ask[c].by \in EventUsers /\ going' = [going EXCEPT ![ask[c].by] = None] /\ event' = event
    BY <1>3, EventGoes, EventAsks
  <2>2. PICK a \in Event!Answers \cup {None} : a = None
    OBVIOUS
  <2>3. IsFiniteSet(Comers') /\ Comers' \subseteq Comers
    BY <2>1, <2>2, ComersMove DEF Event!EventsAssumption, Event!Answers
  <2>4. QED
    BY <1>0, <2>1, <2>3 DEF EventComers
<1>4. CASE Event!Resize(c)
  <2>1. event # None => [event EXCEPT !.max = ask[c].max] \in [max: Event!Maxima]
    BY <1>0, <1>4, EventGoes, EventAsks DEF EventSlots
  <2>2. going' = going /\ (event' = None => event = None)
    BY <1>4, <2>1, EventGoes DEF Event!EventsAssumption
  <2>3. QED
    BY <1>0, <2>2 DEF EventComers, Comers
<1>5. CASE Event!Cancel(c)
  <2>1. going' = [u \in EventUsers |-> None]
    BY <1>5, EventGoes
  <2>2. Comers' = {}
    BY <2>1 DEF Comers, Event!EventsAssumption, Event!Answers
  <2>3. QED
    BY <2>2, FS_EmptySet DEF EventComers
<1>6. QED
  BY <1>1, <1>2, <1>3, <1>4, <1>5 DEF EventStep

(* The place that was counted is still there. *)
LEMMA EventPlacesKept ==
  ASSUME Event!EventsAssumption, EventInv, NEW c \in Calls, EventStep(c), ~rushed'
  PROVE  EventAlone' /\ EventPlaces'
<1>0. ~rushed
  BY EventBegins, EventGoes DEF EventStep
<1>1. EventAlone /\ EventPlaces /\ EventSlots /\ EventComers
  BY <1>0 DEF EventInv
<1>2. \A d \in Calls : d # c => ask'[d] = ask[d] /\ at'[d] = at[d]
  <2>1. TAKE d \in Calls
  <2>2. CASE Event!Start(c)
    BY <1>1, <2>2, EventBegins DEF EventSlots
  <2>3. CASE ~Event!Start(c)
    BY <1>1, <2>3, EventGoes DEF EventSlots, EventStep
  <2>4. QED
    BY <2>2, <2>3
<1>3. Cardinality(Comers) \in Nat /\ Event!Cardinality(Event!Coming) = Cardinality(Comers)
  <2>1. Event!Cardinality(Event!Coming) = Cardinality(Comers)
    BY Zenon DEF Event!Cardinality, Cardinality, Event!Coming, Comers
  <2>2. QED
    BY <1>1, <2>1, FS_CardinalityType DEF EventComers
<1>4. event # None => event \in [max: Event!Maxima] /\ (Event!Limited(event.max) => event.max \in Int)
  BY <1>1 DEF EventSlots, Event!EventsAssumption, Event!Maxima, Event!Limited
<1>5. ASSUME EventMerges(c)' => EventMerges(c) PROVE EventAlone'
  BY <1>1, <1>2, <1>5 DEF EventAlone, EventMerges
<1>6. CASE Event!Start(c)
  <2>1. PICK r \in [kind: Event!Kinds, by: EventUsers, answer: Event!Answers \cup {None}, max: Event!Maxima] :
           /\ at[c] = "new" /\ ask' = [ask EXCEPT ![c] = r]
           /\ at' = [at EXCEPT ![c] = IF r.kind = "leave" THEN "leave" ELSE "find"]
           /\ event' = event /\ going' = going
           /\ r.kind \in {"join", "resize"} => \A d \in Calls : ~EventMerges(d)
    BY <1>6, EventBegins
  <2>2. ask'[c] = r /\ at'[c] \in {"leave", "find"}
    BY <1>1, <2>1 DEF EventSlots
  <2>3. EventAlone'
    BY <1>1, <1>2, <2>1, <2>2 DEF EventAlone, EventMerges
  <2>4. Comers' = Comers
    BY <2>1 DEF Comers
  <2>5. EventPlaces'
    BY <1>1, <1>2, <2>1, <2>2, <2>4 DEF EventPlaces, EventFits, EventSpare
  <2>6. QED
    BY <2>3, <2>5
<1>7. CASE Event!FindEvent(c)
  <2>1. at[c] = "find" /\ event' = event /\ going' = going
    BY <1>7, EventGoes
  <2>2. Comers' = Comers
    BY <2>1 DEF Comers
  <2>3. CASE /\ at' = [at EXCEPT ![c] = Event!Joining] /\ ask[c].kind = "join" /\ event # None
             /\ ask' = [ask EXCEPT ![c] = [ask[c] EXCEPT !.max = event.max]]
    <3>1. ask[c] \in [kind: Event!Kinds, by: EventUsers, answer: Event!Answers \cup {None}, max: Event!Maxima]
      BY <2>1 DEF EventInv, EventAsked
    <3>2. at'[c] = Event!Joining /\ ask'[c].max = event.max /\ ask'[c].kind = ask[c].kind
      BY <1>1, <2>3, <3>1 DEF EventSlots
    <3>a. at'[c] = "upsert" => ~Event!Limited(event.max)
      BY <3>2 DEF Event!Joining
    <3>3. EventMerges(c)
      BY <2>1, <2>3 DEF EventMerges
    <3>4. EventPlaces'
      BY <1>1, <1>2, <2>1, <2>2, <3>2, <3>a DEF EventPlaces, EventFits, EventSpare
    <3>5. QED
      BY <1>5, <3>3, <3>4
  <2>4. CASE ask' = ask /\ \E l \in {"update", "delete", "done"} : at' = [at EXCEPT ![c] = l]
    <3>1. ask'[c] = ask[c] /\ at'[c] \in {"update", "delete", "done"}
      BY <1>1, <2>4 DEF EventSlots
    <3>2. EventMerges(c)' => EventMerges(c)
      BY <2>1, <3>1 DEF EventMerges
    <3>3. EventPlaces'
      BY <1>1, <1>2, <2>1, <2>2, <3>1 DEF EventPlaces, EventFits, EventSpare
    <3>4. QED
      BY <1>5, <3>2, <3>3
  <2>5. QED
    BY <1>7, <2>3, <2>4, EventGoes
<1>8. CASE Event!Count(c)
  <2>1. at[c] = "count" /\ ask' = ask /\ event' = event /\ going' = going
    BY <1>8, EventGoes
  <2>2. Comers' = Comers
    BY <2>1 DEF Comers
  <2>a. \/ at' = [at EXCEPT ![c] = "upsert"] /\ ~(Event!Full(c) /\ ask[c].answer = "going")
        \/ at' = [at EXCEPT ![c] = "done"]
    BY <1>8, EventGoes
  <2>3. at'[c] = "done" \/ (at'[c] = "upsert" /\ ~(Event!Full(c) /\ ask[c].answer = "going"))
    <3>1. at \in [Calls -> {"new", "done", "find", "count", "upsert", "leave", "update", "delete"}]
      BY <1>1 DEF EventSlots
    <3>2. QED
      BY <2>a, <3>1
  <2>4. EventMerges(c)' => EventMerges(c)
    BY <2>1, <2>3 DEF EventMerges
  <2>5. event # None => ask[c].max = event.max
    BY <1>1, <2>1 DEF EventPlaces
  <2>6. event # None /\ at'[c] = "upsert" /\ ask[c].answer = "going" => EventSpare
    BY <1>3, <1>4, <2>3, <2>5 DEF Event!Full, EventSpare
  <2>7. EventPlaces'
    BY <1>1, <1>2, <2>1, <2>2, <2>3, <2>5, <2>6 DEF EventPlaces, EventFits, EventSpare
  <2>8. QED
    BY <1>5, <2>4, <2>7
<1>9. CASE Event!Upsert(c)
  <2>1. at[c] = "upsert" /\ ask' = ask /\ event' = event /\ at'[c] = "done"
    BY <1>1, <1>9, EventGoes DEF EventSlots
  <2>2. EventMerges(c) /\ ~EventMerges(c)'
    BY <2>1 DEF EventMerges, EventInv, EventAsked
  <2>3. \A d \in Calls : at'[d] \notin {"count", "upsert"}
    <3>1. TAKE d \in Calls
    <3>2. CASE d = c
      BY <2>1, <3>2
    <3>3. CASE d # c
      BY <1>1, <1>2, <2>2, <3>3 DEF EventAlone, EventMerges, EventInv, EventAsked
    <3>4. QED
      BY <3>2, <3>3
  <2>4. event # None => EventFits'
    <3>1. SUFFICES ASSUME event # None, Event!Limited(event.max), Comers' # {} PROVE Cardinality(Comers)' <= event.max
      BY <2>1 DEF EventFits
    <3>2. going' = [going EXCEPT ![ask[c].by] = ask[c].answer]
      BY <1>9, <3>1, EventGoes
    <3>3. ask[c].by \in EventUsers /\ ask[c].answer \in Event!Answers \cup {None}
      BY <2>1, EventAsks
    <3>4. /\ Cardinality(Comers)' \in Nat /\ Cardinality(Comers)' <= Cardinality(Comers) + 1
          /\ ask[c].answer # "going" => Cardinality(Comers)' <= Cardinality(Comers) /\ Comers # {}
      BY <3>1, <3>2, <3>3, ComersMove
    <3>5. /\ Comers # {} => Cardinality(Comers) <= event.max
          /\ ask[c].answer = "going" => Cardinality(Comers) < event.max
      BY <1>1, <2>1, <3>1 DEF EventPlaces, EventFits, EventSpare
    <3>6. event.max \in Int
      BY <1>4, <3>1
    <3>7. QED
      BY <1>3, <3>4, <3>5, <3>6
  <2>5. EventPlaces'
    BY <2>1, <2>3, <2>4 DEF EventPlaces
  <2>6. QED
    BY <1>5, <2>2, <2>5
<1>10. CASE Event!LeaveEvent(c)
  <2>1. at[c] = "leave" /\ ask' = ask /\ event' = event /\ at'[c] = "done" /\ going' = [going EXCEPT ![ask[c].by] = None]
    BY <1>1, <1>10, EventGoes DEF EventSlots
  <2>2. ask[c].by \in EventUsers /\ None \in Event!Answers \cup {None} /\ None # "going"
    BY <2>1, EventAsks DEF Event!EventsAssumption, Event!Answers
  <2>a. PICK a \in Event!Answers \cup {None} : a = None
    OBVIOUS
  <2>3. Cardinality(Comers)' \in Nat /\ Cardinality(Comers)' <= Cardinality(Comers) /\ Comers' \subseteq Comers
    BY <2>1, <2>2, <2>a, ComersMove
  <2>4. event # None => EventFits' /\ (EventSpare => EventSpare')
    <3>1. SUFFICES ASSUME event # None, Event!Limited(event.max)
                   PROVE  /\ Comers' # {} => Cardinality(Comers)' <= event.max
                          /\ Cardinality(Comers) < event.max => Cardinality(Comers)' < event.max
      BY <2>1 DEF EventFits, EventSpare
    <3>2. event.max \in Int /\ (Comers # {} => Cardinality(Comers) <= event.max)
      BY <1>1, <1>4, <3>1 DEF EventPlaces, EventFits
    <3>3. QED
      BY <1>3, <2>3, <3>2
  <2>5. EventPlaces'
    BY <1>1, <1>2, <2>1, <2>4 DEF EventPlaces
  <2>6. ~EventMerges(c)'
    BY <2>1 DEF EventMerges
  <2>7. QED
    BY <1>5, <2>5, <2>6
<1>11. CASE Event!Resize(c)
  <2>1. at[c] = "update" /\ ask' = ask /\ going' = going /\ at'[c] = "done"
    BY <1>1, <1>11, EventGoes DEF EventSlots
  <2>2. EventMerges(c) /\ ~EventMerges(c)'
    BY <2>1 DEF EventMerges, EventInv, EventAsked
  <2>3. \A d \in Calls : at'[d] \notin {"count", "upsert"}
    <3>1. TAKE d \in Calls
    <3>2. CASE d = c
      BY <2>1, <3>2
    <3>3. CASE d # c
      BY <1>1, <1>2, <2>2, <3>3 DEF EventAlone, EventMerges, EventInv, EventAsked
    <3>4. QED
      BY <3>2, <3>3
  <2>4. Comers' = Comers
    BY <2>1 DEF Comers
  <2>5. ask[c].max \in Event!Maxima
    BY <2>1, EventAsks
  <2>6. event' # None => EventFits'
    <3>1. CASE event = None
      BY <1>11, <3>1, EventGoes
    <3>2. CASE event # None
      <4>1. event' = [event EXCEPT !.max = ask[c].max] /\ ~Event!Over(ask[c].max)
        BY <1>11, <3>2, EventGoes
      <4>2. event'.max = ask[c].max
        BY <1>4, <3>2, <4>1
      <4>3. Event!Coming = Comers
        BY DEF Event!Coming, Comers
      <4>4. Event!Limited(ask[c].max) /\ Comers # {} => ask[c].max \in Int /\ ~(ask[c].max < Event!Cardinality(Event!Coming))
        BY <2>5, <4>1, <4>3 DEF Event!Over, Event!Limited, Event!Maxima, Event!EventsAssumption
      <4>5. Event!Limited(ask[c].max) /\ Comers # {} => Cardinality(Comers) <= ask[c].max
        BY <1>3, <4>4
      <4>6. QED
        BY <2>4, <4>2, <4>5 DEF EventFits
    <3>3. QED
      BY <3>1, <3>2
  <2>7. EventPlaces'
    BY <2>3, <2>6 DEF EventPlaces
  <2>8. QED
    BY <1>5, <2>2, <2>7
<1>12. CASE Event!Cancel(c)
  <2>1. event' = None /\ at'[c] = "done"
    BY <1>1, <1>12, EventGoes DEF EventSlots
  <2>2. EventPlaces' /\ ~EventMerges(c)'
    BY <2>1 DEF EventPlaces, EventMerges
  <2>3. QED
    BY <1>5, <2>2
<1>13. QED
  BY <1>6, <1>7, <1>8, <1>9, <1>10, <1>11, <1>12 DEF EventStep

(* The invariant holds at first, every step keeps it, and it says what was promised. *)
LEMMA EventInit ==
  ASSUME Event!EventsAssumption, Event!Init
  PROVE  EventInv
<1>1. /\ event \in [max: Event!Maxima] /\ going = [u \in EventUsers |-> None] /\ ~rushed
      /\ ask = [c \in Calls |-> None] /\ at = [c \in Calls |-> "new"]
  BY DEF Event!Init
<1>2. Comers = {}
  BY <1>1 DEF Comers, Event!EventsAssumption, Event!Answers
<1>3. IsFiniteSet(Comers) /\ Cardinality(Comers) = 0
  BY <1>2, FS_EmptySet
<1>4. EventSlots /\ EventComers
  BY <1>1, <1>2, <1>3 DEF EventSlots, EventComers
<1>5. \A c \in Calls : EventAsked(c) /\ ~EventMerges(c)
  BY <1>1 DEF EventAsked, EventMerges
<1>6. EventFits
  BY <1>2 DEF EventFits
<1>7. EventAlone /\ EventPlaces
  BY <1>1, <1>5, <1>6 DEF EventAlone, EventPlaces
<1>8. QED
  BY <1>4, <1>5, <1>7 DEF EventInv

(* Every step keeps it. *)
LEMMA EventKept ==
  ASSUME Event!EventsAssumption, EventInv, Event!Next
  PROVE  EventInv'
<1>1. PICK c \in Calls : EventStep(c)
  BY DEF Event!Next, EventStep
<1>2. QED
  BY <1>1, EventSlotsKept, EventComersKept, EventPlacesKept DEF EventInv

(* And it says what was promised of an event. *)
LEMMA EventHolds ==
  ASSUME Event!EventsAssumption, EventInv
  PROVE  Event!TypeOK /\ Event!EventNotOverfull
<1>1. Comers = Event!Coming /\ Event!Cardinality(Event!Coming) = Cardinality(Comers)
  BY Zenon DEF Event!Cardinality, Cardinality, Event!Coming, Comers
<1>2. Event!TypeOK
  BY <1>1 DEF Event!TypeOK, EventInv, EventSlots, EventComers
<1>3. Event!EventNotOverfull
  <2>1. SUFFICES ASSUME event # None, ~rushed, Event!Over(event.max) PROVE FALSE
    BY DEF Event!EventNotOverfull
  <2>2. Event!Limited(event.max) /\ Comers # {} /\ event.max < Event!Cardinality(Event!Coming)
    BY <1>1, <2>1, Zenon DEF Event!Over
  <2>3. event.max \in Int /\ Cardinality(Comers) \in Nat
    BY <2>1, <2>2, FS_CardinalityType DEF EventInv, EventSlots, EventComers, Event!EventsAssumption, Event!Maxima, Event!Limited
  <2>4. Cardinality(Comers) <= event.max
    BY <2>1, <2>2 DEF EventInv, EventPlaces, EventFits
  <2>5. QED
    BY <1>1, <2>2, <2>3, <2>4
<1>4. QED
  BY <1>2, <1>3

-----------------------------------------------------------------------------
(* Clans.  The tables, the caches and the requests, and what a request asks. *)
ClanLabels == {"new", "done", "create", "lead", "join", "leave", "find", "rank", "flush all", "flush", "flush info", "cache", "load", "store"}
ClanTables ==
  /\ clans \subseteq Clan!ClanIds /\ made \in 0 .. MaxMemberships
  /\ rows \subseteq [id: 1 .. made, user: ClanUsers, clan: clans, rank: Clan!Ranks]
ClanSlots ==
  /\ at \in [Calls -> ClanLabels] /\ DOMAIN ask = Calls /\ DOMAIN got = Calls
  /\ torn \in BOOLEAN /\ cut \in BOOLEAN /\ ranked \in BOOLEAN
  /\ DOMAIN cached = ClanUsers /\ \A u \in ClanUsers : DOMAIN cached[u] = {"mine", "info"}
ClanAsked(c) ==
  /\ at[c] # "new" => ask[c].by \in ClanUsers /\ ask[c].clan \in Clan!ClanIds
  /\ at[c] \in {"cache", "load", "store"} => ask[c].kind \in {"all", "mine", "info"}
  /\ at[c] = "lead" => got[c] \subseteq clans
ClanFits == ClanTables /\ ClanSlots /\ \A c \in Calls : ClanAsked(c)
ClanStep(c) ==
  \/ Clan!Start(c) \/ Clan!Create(c) \/ Clan!Lead(c) \/ Clan!JoinClan(c) \/ Clan!Leave(c) \/ Clan!FindRow(c) \/ Clan!Rank(c)
  \/ Clan!FlushAll(c) \/ Clan!Flush(c) \/ Clan!FlushInfo(c) \/ Clan!Cached(c) \/ Clan!Load(c) \/ Clan!Store(c) \/ Clan!Crash(c)

(* A request begins. *)
LEMMA ClanBegins ==
  ASSUME NEW c \in Calls, Clan!Start(c)
  PROVE  \E r \in [kind : Clan!Writes \cup Clan!Reads, by : ClanUsers, clan : Clan!ClanIds], l \in {"create", "join", "leave", "find", "cache"} :
           /\ at[c] = "new" /\ ask' = [ask EXCEPT ![c] = r] /\ at' = [at EXCEPT ![c] = l] /\ (l = "cache" => r.kind \in {"all", "mine", "info"})
           /\ UNCHANGED <<clans, rows, made, all, cached, got, torn, cut, left, ranked>>
<1>1. PICK k \in Clan!Writes \cup Clan!Reads, u \in ClanUsers, i \in Clan!ClanIds :
        /\ ask' = [ask EXCEPT ![c] = [kind |-> k, by |-> u, clan |-> i]]
        /\ at' = [at EXCEPT ![c] = CASE k \in Clan!Reads -> "cache" [] k = "rank" -> "find" [] OTHER -> k]
  BY DEF Clan!Start
<1>2. at[c] = "new" /\ UNCHANGED <<clans, rows, made, all, cached, got, torn, cut, left, ranked>>
  BY DEF Clan!Start, Clan!tables, Clan!caches, Clan!history
<1>3. [kind |-> k, by |-> u, clan |-> i] \in [kind : Clan!Writes \cup Clan!Reads, by : ClanUsers, clan : Clan!ClanIds]
  OBVIOUS
<1>4. CASE k \in Clan!Reads
  <2>1. at' = [at EXCEPT ![c] = "cache"]
    BY <1>1, <1>4 DEF Clan!Reads
  <2>2. k \in {"all", "mine", "info"}
    BY <1>4 DEF Clan!Reads
  <2>3. QED
    BY <1>1, <1>2, <1>3, <2>1, <2>2
<1>5. CASE k \in Clan!Writes
  <2>1. PICK l \in {"create", "join", "leave", "find"} : at' = [at EXCEPT ![c] = l]
    BY <1>1, <1>5 DEF Clan!Writes, Clan!Reads
  <2>2. QED
    BY <1>1, <1>2, <1>3, <2>1
<1>6. QED
  BY <1>4, <1>5

(* The number of a new clan. *)
LEMMA ClanNumber ==
  ASSUME Clan!ClansAssumption, clans \subseteq Clan!ClanIds, Clan!Cardinality(clans) < MaxClans
  PROVE  Clan!Cardinality(clans) + 1 \in Clan!ClanIds
<1>1. IsFiniteSet(1 .. MaxClans)
  BY FS_Interval DEF Clan!ClansAssumption
<1>2. IsFiniteSet(clans)
  BY <1>1, FS_Subset DEF Clan!ClanIds
<1>3. Clan!Cardinality(clans) = Cardinality(clans)
  BY Zenon DEF Clan!Cardinality, Cardinality
<1>4. Cardinality(clans) \in Nat
  BY <1>2, FS_CardinalityType
<1>5. QED
  BY <1>3, <1>4 DEF Clan!ClansAssumption, Clan!ClanIds

(* A membership more. *)
LEMMA ClanGrows ==
  ASSUME Clan!ClansAssumption, ClanTables, made < MaxMemberships, NEW u \in ClanUsers, NEW k \in clans, NEW rank \in Clan!Ranks,
         clans' = clans, made' = made + 1, rows' = rows \cup {[id |-> made + 1, user |-> u, clan |-> k, rank |-> rank]}
  PROVE  ClanTables'
<1>1. made \in Nat /\ made + 1 \in 0 .. MaxMemberships /\ made + 1 \in 1 .. (made + 1) /\ 1 .. made \subseteq 1 .. (made + 1)
  BY DEF ClanTables, Clan!ClansAssumption
<1>2. rows \subseteq [id : 1 .. (made + 1), user : ClanUsers, clan : clans, rank : Clan!Ranks]
  BY <1>1 DEF ClanTables
<1>3. QED
  BY <1>1, <1>2 DEF ClanTables

(* What a new membership changes. *)
LEMMA ClanInserts ==
  ASSUME NEW c, NEW u, NEW k, NEW rank, Clan!Insert(c, u, k, rank)
  PROVE  /\ made < MaxMemberships /\ made' = made + 1 /\ left' = left \ {<<u, k>>} /\ torn' = (torn \/ Clan!Late(c))
         /\ rows' = rows \cup {[id |-> made + 1, user |-> u, clan |-> k, rank |-> rank]}
BY DEF Clan!Insert

(* A founder's membership. *)
LEMMA ClanLeads ==
  ASSUME NEW c \in Calls, ClanFits, Clan!Lead(c)
  PROVE  \E u \in ClanUsers, k \in clans : /\ u = ask[c].by /\ Clan!Insert(c, u, k, "Leader") /\ at[c] = "lead" /\ at' = [at EXCEPT ![c] = "flush all"] /\ ask' = ask
                                  /\ UNCHANGED <<clans, all, cached, got, cut, ranked>>
<1>1. PICK k \in got[c] : Clan!Insert(c, ask[c].by, k, "Leader")
  BY DEF Clan!Lead
<1>2. at[c] = "lead" /\ at' = [at EXCEPT ![c] = "flush all"] /\ ask' = ask /\ UNCHANGED <<clans, all, cached, got, cut, ranked>>
  BY DEF Clan!Lead, Clan!Go, Clan!caches
<1>3. k \in clans /\ ask[c].by \in ClanUsers
  BY <1>2 DEF ClanFits, ClanAsked
<1>4. QED
  BY <1>1, <1>2, <1>3

(* Another's. *)
LEMMA ClanJoins ==
  ASSUME NEW c \in Calls, ClanFits, Clan!JoinClan(c)
  PROVE  /\ at[c] = "join" /\ ask' = ask /\ UNCHANGED <<clans, all, cached, got, cut, ranked>>
         /\ \/ \E u \in ClanUsers, k \in clans : u = ask[c].by /\ Clan!Insert(c, u, k, "Member") /\ at' = [at EXCEPT ![c] = "flush"]
            \/ at' = [at EXCEPT ![c] = "done"] /\ UNCHANGED <<rows, made, left, torn>>
<1>1. at[c] = "join" /\ ask' = ask /\ UNCHANGED <<clans, all, cached, got, cut, ranked>>
  BY DEF Clan!JoinClan, Clan!Go, Clan!caches
<1>2. CASE ask[c].clan \in clans
  <2>1. Clan!Insert(c, ask[c].by, ask[c].clan, "Member") /\ at' = [at EXCEPT ![c] = "flush"]
    BY <1>2 DEF Clan!JoinClan, Clan!Go
  <2>2. ask[c].by \in ClanUsers
    BY <1>1 DEF ClanFits, ClanAsked
  <2>3. QED
    BY <1>1, <1>2, <2>1, <2>2
<1>3. CASE ask[c].clan \notin clans
  <2>1. at' = [at EXCEPT ![c] = "done"] /\ UNCHANGED <<rows, made, left, torn>>
    BY <1>3 DEF Clan!JoinClan, Clan!Go
  <2>2. QED
    BY <1>1, <2>1
<1>4. QED
  BY <1>2, <1>3

(* A rank changes, and nothing else of its row. *)
LEMMA ClanRanks ==
  ASSUME ClanTables, ClanSlots, NEW c \in Calls, Clan!Rank(c)
  PROVE  /\ at[c] = "rank" /\ at' = [at EXCEPT ![c] = "done"] /\ ask' = ask /\ UNCHANGED <<clans, made, all, cached, got, torn, cut, left>>
         /\ \A r \in rows' : \E s \in rows : s.user = r.user /\ s.clan = r.clan
         /\ rows' \subseteq [id: 1 .. made, user: ClanUsers, clan: clans, rank: Clan!Ranks]
         /\ (ranked' = ranked /\ rows' = rows) \/ ranked' = TRUE
<1> DEFINE mine == {r \in rows : r.id \in got[c]}
<1>1. PICK rank \in Clan!Ranks : rows' = (rows \ mine) \cup {[r EXCEPT !.rank = rank] : r \in mine}
  BY DEF Clan!Rank
<1>2. at[c] = "rank" /\ at' = [at EXCEPT ![c] = "done"] /\ ask' = ask /\ UNCHANGED <<clans, made, all, cached, got, torn, cut, left>>
  BY DEF Clan!Rank, Clan!Go, Clan!caches
<1>3. ranked' = (ranked \/ mine # {})
  BY DEF Clan!Rank
<1>4. \A r \in rows : /\ [r EXCEPT !.rank = rank] \in [id: 1 .. made, user: ClanUsers, clan: clans, rank: Clan!Ranks]
                      /\ [r EXCEPT !.rank = rank].user = r.user /\ [r EXCEPT !.rank = rank].clan = r.clan
  BY DEF ClanTables
<1>5. mine \subseteq rows /\ rows \subseteq [id: 1 .. made, user: ClanUsers, clan: clans, rank: Clan!Ranks]
  BY DEF ClanTables
<1> HIDE DEF mine
<1>6. \A r \in rows' : \E s \in rows : s.user = r.user /\ s.clan = r.clan
  BY <1>1, <1>4, <1>5
<1>7. rows' \subseteq [id: 1 .. made, user: ClanUsers, clan: clans, rank: Clan!Ranks]
  BY <1>1, <1>4, <1>5
<1>8. CASE mine = {}
  <2>1. rows' = rows
    BY <1>1, <1>8
  <2>2. ranked' = ranked \/ ranked' = TRUE
    BY <1>3, <1>8 DEF ClanSlots
  <2>3. QED
    BY <1>2, <1>6, <1>7, <2>1, <2>2
<1>9. CASE mine # {}
  BY <1>2, <1>3, <1>6, <1>7, <1>9
<1>10. QED
  BY <1>8, <1>9

(* The other requests are where they were. *)
LEMMA ClanOthers ==
  ASSUME Clan!ClansAssumption, NEW c \in Calls, ClanFits, ClanStep(c)
  PROVE  \A d \in Calls \ {c} : at'[d] = at[d] /\ ask'[d] = ask[d] /\ got'[d] = got[d]
<1>1. ASSUME Clan!Start(c) PROVE \A d \in Calls \ {c} : at'[d] = at[d] /\ ask'[d] = ask[d] /\ got'[d] = got[d]
  BY <1>1, ClanBegins DEF ClanFits, ClanSlots
<1>2. ASSUME Clan!Create(c) PROVE \A d \in Calls \ {c} : at'[d] = at[d] /\ ask'[d] = ask[d] /\ got'[d] = got[d]
  BY <1>2 DEF Clan!Create, Clan!Go, Clan!tables, Clan!caches, Clan!history, ClanFits, ClanSlots
<1>3. ASSUME Clan!Lead(c) PROVE \A d \in Calls \ {c} : at'[d] = at[d] /\ ask'[d] = ask[d] /\ got'[d] = got[d]
  BY <1>3, ClanLeads DEF ClanFits, ClanSlots
<1>4. ASSUME Clan!JoinClan(c) PROVE \A d \in Calls \ {c} : at'[d] = at[d] /\ ask'[d] = ask[d] /\ got'[d] = got[d]
  BY <1>4, ClanJoins DEF ClanFits, ClanSlots
<1>5. ASSUME Clan!Leave(c) PROVE \A d \in Calls \ {c} : at'[d] = at[d] /\ ask'[d] = ask[d] /\ got'[d] = got[d]
  BY <1>5 DEF Clan!Leave, Clan!Go, Clan!tables, Clan!caches, Clan!history, ClanFits, ClanSlots
<1>6. ASSUME Clan!FindRow(c) PROVE \A d \in Calls \ {c} : at'[d] = at[d] /\ ask'[d] = ask[d] /\ got'[d] = got[d]
  BY <1>6 DEF Clan!FindRow, Clan!Go, Clan!tables, Clan!caches, Clan!history, ClanFits, ClanSlots
<1>7. ASSUME Clan!Rank(c) PROVE \A d \in Calls \ {c} : at'[d] = at[d] /\ ask'[d] = ask[d] /\ got'[d] = got[d]
  BY <1>7, ClanRanks DEF ClanFits, ClanSlots
<1>8. ASSUME Clan!FlushAll(c) PROVE \A d \in Calls \ {c} : at'[d] = at[d] /\ ask'[d] = ask[d] /\ got'[d] = got[d]
  BY <1>8 DEF Clan!FlushAll, Clan!Go, Clan!tables, Clan!caches, Clan!history, ClanFits, ClanSlots
<1>9. ASSUME Clan!Flush(c) PROVE \A d \in Calls \ {c} : at'[d] = at[d] /\ ask'[d] = ask[d] /\ got'[d] = got[d]
  BY <1>9 DEF Clan!Flush, Clan!Go, Clan!Info, Clan!tables, Clan!caches, Clan!history, ClanFits, ClanSlots
<1>10. ASSUME Clan!FlushInfo(c) PROVE \A d \in Calls \ {c} : at'[d] = at[d] /\ ask'[d] = ask[d] /\ got'[d] = got[d]
  BY <1>10 DEF Clan!FlushInfo, Clan!Go, Clan!tables, Clan!caches, Clan!history, ClanFits, ClanSlots
<1>11. ASSUME Clan!Cached(c) PROVE \A d \in Calls \ {c} : at'[d] = at[d] /\ ask'[d] = ask[d] /\ got'[d] = got[d]
  BY <1>11 DEF Clan!Cached, Clan!Go, Clan!tables, Clan!caches, Clan!history, ClanFits, ClanSlots
<1>12. ASSUME Clan!Load(c) PROVE \A d \in Calls \ {c} : at'[d] = at[d] /\ ask'[d] = ask[d] /\ got'[d] = got[d]
  BY <1>12 DEF Clan!Load, Clan!Go, Clan!tables, Clan!caches, Clan!history, ClanFits, ClanSlots
<1>13. ASSUME Clan!Store(c) PROVE \A d \in Calls \ {c} : at'[d] = at[d] /\ ask'[d] = ask[d] /\ got'[d] = got[d]
  BY <1>13 DEF Clan!Store, Clan!Go, Clan!tables, Clan!caches, Clan!history, ClanFits, ClanSlots
<1>14. ASSUME Clan!Crash(c) PROVE \A d \in Calls \ {c} : at'[d] = at[d] /\ ask'[d] = ask[d] /\ got'[d] = got[d]
  BY <1>14 DEF Clan!Crash, Clan!Go, Clan!tables, Clan!caches, Clan!history, ClanFits, ClanSlots
<1>15. QED
  BY <1>1, <1>2, <1>3, <1>4, <1>5, <1>6, <1>7, <1>8, <1>9, <1>10, <1>11, <1>12, <1>13, <1>14 DEF ClanStep

(* The tables keep their shape. *)
LEMMA ClanTablesKept ==
  ASSUME Clan!ClansAssumption, NEW c \in Calls, ClanFits, ClanStep(c)
  PROVE  ClanTables'
<1>1. ASSUME Clan!Start(c) PROVE ClanTables'
  BY <1>1, ClanBegins DEF ClanFits, ClanTables
<1>2. ASSUME Clan!Create(c) PROVE ClanTables'
  <2>1. clans' = clans \cup {Clan!Cardinality(clans) + 1} /\ Clan!Cardinality(clans) < MaxClans /\ rows' = rows /\ made' = made
    BY <1>2 DEF Clan!Create
  <2>2. Clan!Cardinality(clans) + 1 \in Clan!ClanIds
    BY <2>1, ClanNumber DEF ClanFits, ClanTables
  <2>3. QED
    BY <2>1, <2>2 DEF ClanFits, ClanTables
<1>3. ASSUME Clan!Lead(c) PROVE ClanTables'
  <2>1. PICK u \in ClanUsers, k \in clans : Clan!Insert(c, u, k, "Leader")
    BY <1>3, ClanLeads
  <2>2. clans' = clans
    BY <1>3, ClanLeads
  <2>3. "Leader" \in Clan!Ranks
    BY DEF Clan!Ranks
  <2>4. QED
    BY <2>1, <2>2, <2>3, ClanInserts, ClanGrows DEF ClanFits
<1>4. ASSUME Clan!JoinClan(c) PROVE ClanTables'
  <2>1. clans' = clans
    BY <1>4, ClanJoins
  <2>2. ASSUME NEW u \in ClanUsers, NEW k \in clans, Clan!Insert(c, u, k, "Member") PROVE ClanTables'
    <3>1. "Member" \in Clan!Ranks
      BY DEF Clan!Ranks
    <3>2. QED
      BY <2>1, <2>2, <3>1, ClanInserts, ClanGrows DEF ClanFits
  <2>3. CASE UNCHANGED <<rows, made, left, torn>>
    BY <2>1, <2>3 DEF ClanFits, ClanTables
  <2>4. QED
    BY <1>4, <2>2, <2>3, ClanJoins
<1>5. ASSUME Clan!Leave(c) PROVE ClanTables'
  BY <1>5 DEF Clan!Leave, ClanFits, ClanTables
<1>6. ASSUME Clan!FindRow(c) PROVE ClanTables'
  BY <1>6 DEF Clan!FindRow, Clan!Go, Clan!tables, Clan!caches, Clan!history, ClanFits, ClanTables
<1>7. ASSUME Clan!Rank(c) PROVE ClanTables'
  <2>1. ClanTables /\ ClanSlots
    BY DEF ClanFits
  <2>2. QED
    BY <1>7, <2>1, ClanRanks DEF ClanTables
<1>8. ASSUME Clan!FlushAll(c) PROVE ClanTables'
  BY <1>8 DEF Clan!FlushAll, Clan!Go, Clan!tables, Clan!caches, Clan!history, ClanFits, ClanTables
<1>9. ASSUME Clan!Flush(c) PROVE ClanTables'
  BY <1>9 DEF Clan!Flush, Clan!Go, Clan!Info, Clan!tables, Clan!caches, Clan!history, ClanFits, ClanTables
<1>10. ASSUME Clan!FlushInfo(c) PROVE ClanTables'
  BY <1>10 DEF Clan!FlushInfo, Clan!Go, Clan!tables, Clan!caches, Clan!history, ClanFits, ClanTables
<1>11. ASSUME Clan!Cached(c) PROVE ClanTables'
  BY <1>11 DEF Clan!Cached, Clan!Go, Clan!tables, Clan!caches, Clan!history, ClanFits, ClanTables
<1>12. ASSUME Clan!Load(c) PROVE ClanTables'
  BY <1>12 DEF Clan!Load, Clan!Go, Clan!tables, Clan!caches, Clan!history, ClanFits, ClanTables
<1>13. ASSUME Clan!Store(c) PROVE ClanTables'
  BY <1>13 DEF Clan!Store, Clan!Go, Clan!tables, Clan!caches, Clan!history, ClanFits, ClanTables
<1>14. ASSUME Clan!Crash(c) PROVE ClanTables'
  BY <1>14 DEF Clan!Crash, Clan!Go, Clan!tables, Clan!caches, Clan!history, ClanFits, ClanTables
<1>15. QED
  BY <1>1, <1>2, <1>3, <1>4, <1>5, <1>6, <1>7, <1>8, <1>9, <1>10, <1>11, <1>12, <1>13, <1>14 DEF ClanStep

-----------------------------------------------------------------------------
(* A request stays in its slot. *)
LEMMA ClanSlotsKept ==
  ASSUME Clan!ClansAssumption, NEW c \in Calls, ClanFits, ClanStep(c)
  PROVE  ClanSlots'
<1>1. ASSUME Clan!Start(c) PROVE ClanSlots'
  <2>1. PICK l \in {"create", "join", "leave", "find", "cache"} : at' = [at EXCEPT ![c] = l]
    BY <1>1, ClanBegins
  <2>2. DOMAIN ask' = DOMAIN ask /\ UNCHANGED <<cached, got, torn, cut, ranked>>
    BY <1>1, ClanBegins
  <2>3. QED
    BY <2>1, <2>2 DEF ClanFits, ClanSlots, ClanLabels
<1>2. ASSUME Clan!Create(c) PROVE ClanSlots'
  BY <1>2 DEF Clan!Create, Clan!Go, Clan!tables, Clan!caches, Clan!history, ClanFits, ClanSlots, ClanLabels
<1>3. ASSUME Clan!Lead(c) PROVE ClanSlots'
  <2>1. torn' = (torn \/ Clan!Late(c))
    BY <1>3, ClanLeads, ClanInserts
  <2>2. QED
    BY <1>3, <2>1, ClanLeads DEF ClanFits, ClanSlots, ClanLabels
<1>4. ASSUME Clan!JoinClan(c) PROVE ClanSlots'
  <2>1. torn' \in BOOLEAN
    <3>1. (torn' = (torn \/ Clan!Late(c))) \/ torn' = torn
      BY <1>4, ClanJoins, ClanInserts
    <3>2. QED
      BY <3>1 DEF ClanFits, ClanSlots
  <2>2. at' = [at EXCEPT ![c] = "flush"] \/ at' = [at EXCEPT ![c] = "done"]
    BY <1>4, ClanJoins
  <2>3. QED
    BY <1>4, <2>1, <2>2, ClanJoins DEF ClanFits, ClanSlots, ClanLabels
<1>5. ASSUME Clan!Leave(c) PROVE ClanSlots'
  BY <1>5 DEF Clan!Leave, Clan!Go, Clan!tables, Clan!caches, Clan!history, ClanFits, ClanSlots, ClanLabels
<1>6. ASSUME Clan!FindRow(c) PROVE ClanSlots'
  BY <1>6 DEF Clan!FindRow, Clan!Go, Clan!tables, Clan!caches, Clan!history, ClanFits, ClanSlots, ClanLabels
<1>7. ASSUME Clan!Rank(c) PROVE ClanSlots'
  BY <1>7, ClanRanks DEF ClanFits, ClanSlots, ClanLabels
<1>8. ASSUME Clan!FlushAll(c) PROVE ClanSlots'
  BY <1>8 DEF Clan!FlushAll, Clan!Go, Clan!tables, Clan!caches, Clan!history, ClanFits, ClanSlots, ClanLabels
<1>9. ASSUME Clan!Flush(c) PROVE ClanSlots'
  BY <1>9 DEF Clan!Flush, Clan!Go, Clan!Info, Clan!tables, Clan!caches, Clan!history, ClanFits, ClanSlots, ClanLabels
<1>10. ASSUME Clan!FlushInfo(c) PROVE ClanSlots'
  BY <1>10 DEF Clan!FlushInfo, Clan!Go, Clan!tables, Clan!caches, Clan!history, ClanFits, ClanSlots, ClanLabels
<1>11. ASSUME Clan!Cached(c) PROVE ClanSlots'
  BY <1>11 DEF Clan!Cached, Clan!Go, Clan!tables, Clan!caches, Clan!history, ClanFits, ClanSlots, ClanLabels
<1>12. ASSUME Clan!Load(c) PROVE ClanSlots'
  BY <1>12 DEF Clan!Load, Clan!Go, Clan!tables, Clan!caches, Clan!history, ClanFits, ClanSlots, ClanLabels
<1>13. ASSUME Clan!Store(c) PROVE ClanSlots'
  BY <1>13 DEF Clan!Store, Clan!Go, Clan!tables, Clan!caches, Clan!history, ClanFits, ClanSlots, ClanLabels
<1>14. ASSUME Clan!Crash(c) PROVE ClanSlots'
  BY <1>14 DEF Clan!Crash, Clan!Go, Clan!tables, Clan!caches, Clan!history, ClanFits, ClanSlots, ClanLabels
<1>15. QED
  BY <1>1, <1>2, <1>3, <1>4, <1>5, <1>6, <1>7, <1>8, <1>9, <1>10, <1>11, <1>12, <1>13, <1>14 DEF ClanStep

(* It asks what its statement does. *)
LEMMA ClanAskedKept ==
  ASSUME Clan!ClansAssumption, NEW c \in Calls, ClanFits, ClanStep(c)
  PROVE  ClanAsked(c)'
<1>1. ASSUME Clan!Start(c) PROVE ClanAsked(c)'
  <2>1. PICK r \in [kind : Clan!Writes \cup Clan!Reads, by : ClanUsers, clan : Clan!ClanIds], l \in {"create", "join", "leave", "find", "cache"} :
           /\ ask' = [ask EXCEPT ![c] = r] /\ at' = [at EXCEPT ![c] = l] /\ (l = "cache" => r.kind \in {"all", "mine", "info"})
    BY <1>1, ClanBegins
  <2>2. ask'[c] = r /\ at'[c] = l /\ r.by \in ClanUsers /\ r.clan \in Clan!ClanIds
    BY <2>1 DEF ClanFits, ClanSlots
  <2>3. QED
    BY <2>1, <2>2 DEF ClanAsked
<1>2. ASSUME Clan!Create(c) PROVE ClanAsked(c)'
  <2>1. at[c] = "create" /\ at' = [at EXCEPT ![c] = "lead"] /\ ask' = ask /\ got' = [got EXCEPT ![c] = {Clan!Cardinality(clans) + 1}]
        /\ clans' = clans \cup {Clan!Cardinality(clans) + 1}
    BY <1>2 DEF Clan!Create, Clan!Go
  <2>2. QED
    BY <2>1 DEF ClanFits, ClanSlots, ClanAsked
<1>3. ASSUME Clan!Lead(c) PROVE ClanAsked(c)'
  BY <1>3, ClanLeads DEF ClanFits, ClanSlots, ClanAsked
<1>4. ASSUME Clan!JoinClan(c) PROVE ClanAsked(c)'
  BY <1>4, ClanJoins DEF ClanFits, ClanSlots, ClanAsked
<1>5. ASSUME Clan!Leave(c) PROVE ClanAsked(c)'
  BY <1>5 DEF Clan!Leave, Clan!Go, Clan!tables, Clan!caches, Clan!history, ClanFits, ClanSlots, ClanAsked
<1>6. ASSUME Clan!FindRow(c) PROVE ClanAsked(c)'
  BY <1>6 DEF Clan!FindRow, Clan!Go, Clan!tables, Clan!caches, Clan!history, ClanFits, ClanSlots, ClanAsked
<1>7. ASSUME Clan!Rank(c) PROVE ClanAsked(c)'
  BY <1>7, ClanRanks DEF ClanFits, ClanSlots, ClanAsked
<1>8. ASSUME Clan!FlushAll(c) PROVE ClanAsked(c)'
  BY <1>8 DEF Clan!FlushAll, Clan!Go, Clan!tables, Clan!caches, Clan!history, ClanFits, ClanSlots, ClanAsked
<1>9. ASSUME Clan!Flush(c) PROVE ClanAsked(c)'
  BY <1>9 DEF Clan!Flush, Clan!Go, Clan!Info, Clan!tables, Clan!caches, Clan!history, ClanFits, ClanSlots, ClanAsked
<1>10. ASSUME Clan!FlushInfo(c) PROVE ClanAsked(c)'
  BY <1>10 DEF Clan!FlushInfo, Clan!Go, Clan!tables, Clan!caches, Clan!history, ClanFits, ClanSlots, ClanAsked
<1>11. ASSUME Clan!Cached(c) PROVE ClanAsked(c)'
  BY <1>11 DEF Clan!Cached, Clan!Go, Clan!tables, Clan!caches, Clan!history, ClanFits, ClanSlots, ClanAsked
<1>12. ASSUME Clan!Load(c) PROVE ClanAsked(c)'
  BY <1>12 DEF Clan!Load, Clan!Go, Clan!tables, Clan!caches, Clan!history, ClanFits, ClanSlots, ClanAsked
<1>13. ASSUME Clan!Store(c) PROVE ClanAsked(c)'
  BY <1>13 DEF Clan!Store, Clan!Go, Clan!tables, Clan!caches, Clan!history, ClanFits, ClanSlots, ClanAsked
<1>14. ASSUME Clan!Crash(c) PROVE ClanAsked(c)'
  BY <1>14 DEF Clan!Crash, Clan!Go, Clan!tables, Clan!caches, Clan!history, ClanFits, ClanSlots, ClanAsked
<1>15. QED
  BY <1>1, <1>2, <1>3, <1>4, <1>5, <1>6, <1>7, <1>8, <1>9, <1>10, <1>11, <1>12, <1>13, <1>14 DEF ClanStep

(* Those who left a clan have no row of it. *)
ClanLeft == left \subseteq ClanUsers \X Clan!ClanIds /\ \A l \in left : \A r \in rows : ~(r.user = l[1] /\ r.clan = l[2])

(* They keep having none until they join again. *)
LEMMA ClanLeftKept ==
  ASSUME Clan!ClansAssumption, NEW c \in Calls, ClanFits, ClanLeft, ClanStep(c)
  PROVE  ClanLeft'
<1>1. ASSUME Clan!Start(c) PROVE ClanLeft'
  BY <1>1, ClanBegins DEF ClanLeft
<1>2. ASSUME Clan!Create(c) PROVE ClanLeft'
  BY <1>2 DEF Clan!Create, Clan!Go, Clan!tables, Clan!caches, Clan!history, ClanLeft
<1>3. ASSUME Clan!Lead(c) PROVE ClanLeft'
  <2>1. ASSUME NEW u \in ClanUsers, NEW k \in clans, Clan!Insert(c, u, k, "Leader") PROVE ClanLeft'
    <3>1. Clan!Insert(c, u, k, "Leader")
      BY <2>1
    <3>2. \A l \in left' : l \in left /\ l # <<u, k>>
      BY <3>1, ClanInserts
    <3>3. rows' = rows \cup {[id |-> made + 1, user |-> u, clan |-> k, rank |-> "Leader"]}
      BY <3>1, ClanInserts
    <3>4. ASSUME NEW l \in left, l # <<u, k>>, NEW r \in rows' PROVE ~(r.user = l[1] /\ r.clan = l[2])
      <4>1. l = <<l[1], l[2]>>
        BY DEF ClanLeft
      <4>2. QED
        BY <3>3, <3>4, <4>1 DEF ClanLeft
    <3>5. QED
      BY <3>2, <3>4 DEF ClanLeft
  <2>2. QED
    BY <1>3, <2>1, ClanLeads
<1>4. ASSUME Clan!JoinClan(c) PROVE ClanLeft'
  <2>1. ASSUME NEW u \in ClanUsers, NEW k \in clans, Clan!Insert(c, u, k, "Member") PROVE ClanLeft'
    <3>1. Clan!Insert(c, u, k, "Member")
      BY <2>1
    <3>2. \A l \in left' : l \in left /\ l # <<u, k>>
      BY <3>1, ClanInserts
    <3>3. rows' = rows \cup {[id |-> made + 1, user |-> u, clan |-> k, rank |-> "Member"]}
      BY <3>1, ClanInserts
    <3>4. ASSUME NEW l \in left, l # <<u, k>>, NEW r \in rows' PROVE ~(r.user = l[1] /\ r.clan = l[2])
      <4>1. l = <<l[1], l[2]>>
        BY DEF ClanLeft
      <4>2. QED
        BY <3>3, <3>4, <4>1 DEF ClanLeft
    <3>5. QED
      BY <3>2, <3>4 DEF ClanLeft
  <2>2. QED
    BY <1>4, <2>1, ClanJoins DEF ClanLeft
<1>5. ASSUME Clan!Leave(c) PROVE ClanLeft'
  <2>1. rows' = {r \in rows : ~(r.user = ask[c].by /\ r.clan = ask[c].clan)} /\ left' = left \cup {<<ask[c].by, ask[c].clan>>}
    BY <1>5 DEF Clan!Leave, Clan!Leaves, Clan!In, Clan!Of
  <2>2. ask[c].by \in ClanUsers /\ ask[c].clan \in Clan!ClanIds
    BY <1>5 DEF Clan!Leave, ClanFits, ClanAsked
  <2>3. QED
    BY <2>1, <2>2 DEF ClanLeft
<1>6. ASSUME Clan!FindRow(c) PROVE ClanLeft'
  BY <1>6 DEF Clan!FindRow, Clan!Go, Clan!tables, Clan!caches, Clan!history, ClanLeft
<1>7. ASSUME Clan!Rank(c) PROVE ClanLeft'
  <2>1. \A r \in rows' : \E s \in rows : s.user = r.user /\ s.clan = r.clan
    BY <1>7, ClanRanks DEF ClanFits
  <2>2. left' = left
    BY <1>7, ClanRanks DEF ClanFits
  <2>3. QED
    BY <2>1, <2>2 DEF ClanLeft
<1>8. ASSUME Clan!FlushAll(c) PROVE ClanLeft'
  BY <1>8 DEF Clan!FlushAll, Clan!Go, Clan!tables, Clan!caches, Clan!history, ClanLeft
<1>9. ASSUME Clan!Flush(c) PROVE ClanLeft'
  BY <1>9 DEF Clan!Flush, Clan!Go, Clan!Info, Clan!tables, Clan!caches, Clan!history, ClanLeft
<1>10. ASSUME Clan!FlushInfo(c) PROVE ClanLeft'
  BY <1>10 DEF Clan!FlushInfo, Clan!Go, Clan!tables, Clan!caches, Clan!history, ClanLeft
<1>11. ASSUME Clan!Cached(c) PROVE ClanLeft'
  BY <1>11 DEF Clan!Cached, Clan!Go, Clan!tables, Clan!caches, Clan!history, ClanLeft
<1>12. ASSUME Clan!Load(c) PROVE ClanLeft'
  BY <1>12 DEF Clan!Load, Clan!Go, Clan!tables, Clan!caches, Clan!history, ClanLeft
<1>13. ASSUME Clan!Store(c) PROVE ClanLeft'
  BY <1>13 DEF Clan!Store, Clan!Go, Clan!tables, Clan!caches, Clan!history, ClanLeft
<1>14. ASSUME Clan!Crash(c) PROVE ClanLeft'
  BY <1>14 DEF Clan!Crash, Clan!Go, Clan!tables, Clan!caches, Clan!history, ClanLeft
<1>15. QED
  BY <1>1, <1>2, <1>3, <1>4, <1>5, <1>6, <1>7, <1>8, <1>9, <1>10, <1>11, <1>12, <1>13, <1>14 DEF ClanStep

-----------------------------------------------------------------------------
ClanInv == ClanFits /\ ClanLeft

(* Zero counts up to any number. *)
LEMMA Zero ==
  ASSUME NEW k \in Nat
  PROVE  0 \in 0 .. k
OBVIOUS

(* No clan goes. *)
LEMMA ClanGoesOn ==
  ASSUME Clan!ClansAssumption, NEW c \in Calls, ClanFits, ClanStep(c)
  PROVE  clans \subseteq clans'
<1>1. ASSUME Clan!Start(c) PROVE clans \subseteq clans'
  BY <1>1, ClanBegins
<1>2. ASSUME Clan!Create(c) PROVE clans \subseteq clans'
  BY <1>2 DEF Clan!Create, Clan!Go, Clan!tables, Clan!caches, Clan!history
<1>3. ASSUME Clan!Lead(c) PROVE clans \subseteq clans'
  BY <1>3, ClanLeads
<1>4. ASSUME Clan!JoinClan(c) PROVE clans \subseteq clans'
  BY <1>4, ClanJoins
<1>5. ASSUME Clan!Leave(c) PROVE clans \subseteq clans'
  BY <1>5 DEF Clan!Leave, Clan!Go, Clan!tables, Clan!caches, Clan!history
<1>6. ASSUME Clan!FindRow(c) PROVE clans \subseteq clans'
  BY <1>6 DEF Clan!FindRow, Clan!Go, Clan!tables, Clan!caches, Clan!history
<1>7. ASSUME Clan!Rank(c) PROVE clans \subseteq clans'
  BY <1>7, ClanRanks DEF ClanFits
<1>8. ASSUME Clan!FlushAll(c) PROVE clans \subseteq clans'
  BY <1>8 DEF Clan!FlushAll, Clan!Go, Clan!tables, Clan!caches, Clan!history
<1>9. ASSUME Clan!Flush(c) PROVE clans \subseteq clans'
  BY <1>9 DEF Clan!Flush, Clan!Go, Clan!Info, Clan!tables, Clan!caches, Clan!history
<1>10. ASSUME Clan!FlushInfo(c) PROVE clans \subseteq clans'
  BY <1>10 DEF Clan!FlushInfo, Clan!Go, Clan!tables, Clan!caches, Clan!history
<1>11. ASSUME Clan!Cached(c) PROVE clans \subseteq clans'
  BY <1>11 DEF Clan!Cached, Clan!Go, Clan!tables, Clan!caches, Clan!history
<1>12. ASSUME Clan!Load(c) PROVE clans \subseteq clans'
  BY <1>12 DEF Clan!Load, Clan!Go, Clan!tables, Clan!caches, Clan!history
<1>13. ASSUME Clan!Store(c) PROVE clans \subseteq clans'
  BY <1>13 DEF Clan!Store, Clan!Go, Clan!tables, Clan!caches, Clan!history
<1>14. ASSUME Clan!Crash(c) PROVE clans \subseteq clans'
  BY <1>14 DEF Clan!Crash, Clan!Go, Clan!tables, Clan!caches, Clan!history
<1>15. QED
  BY <1>1, <1>2, <1>3, <1>4, <1>5, <1>6, <1>7, <1>8, <1>9, <1>10, <1>11, <1>12, <1>13, <1>14 DEF ClanStep

(* An entry expires, and nothing else. *)
LEMMA ClanExpires ==
  ASSUME ClanFits, Clan!Expire
  PROVE  /\ UNCHANGED <<clans, rows, made, all, ask, at, got, torn, cut, left, ranked>>
         /\ \E u \in ClanUsers, l \in {"mine", "info"} : cached' = [cached EXCEPT ![u][l] = None]
BY DEF Clan!Expire, Clan!tables, Clan!history

(* Every step of the clans keeps the invariant. *)
LEMMA ClanKept ==
  ASSUME Clan!ClansAssumption, ClanInv, Clan!Next
  PROVE  ClanInv'
<1>1. CASE \E c \in Calls : ClanStep(c)
  <2>1. PICK c \in Calls : ClanStep(c)
    BY <1>1
  <2>2. ClanFits /\ ClanLeft
    BY DEF ClanInv
  <2>3. ClanTables' /\ ClanSlots' /\ ClanAsked(c)' /\ ClanLeft'
    BY <2>1, <2>2, ClanTablesKept, ClanSlotsKept, ClanAskedKept, ClanLeftKept
  <2>4. clans \subseteq clans'
    BY <2>1, <2>2, ClanGoesOn
  <2>5. ASSUME NEW d \in Calls \ {c} PROVE ClanAsked(d)'
    <3>1. at'[d] = at[d] /\ ask'[d] = ask[d] /\ got'[d] = got[d]
      BY <2>1, <2>2, ClanOthers
    <3>2. ClanAsked(d)
      BY <2>2 DEF ClanFits
    <3>3. QED
      BY <2>4, <3>1, <3>2 DEF ClanAsked
  <2>6. QED
    BY <2>3, <2>5 DEF ClanInv, ClanFits
<1>2. CASE Clan!Expire
  <2>1. UNCHANGED <<clans, rows, made, all, ask, at, got, torn, cut, left, ranked>>
    BY <1>2, ClanExpires DEF ClanInv
  <2>2. ClanSlots'
    <3>1. PICK u \in ClanUsers, l \in {"mine", "info"} : cached' = [cached EXCEPT ![u][l] = None]
      BY <1>2, ClanExpires DEF ClanInv
    <3>2. QED
      BY <2>1, <3>1 DEF ClanInv, ClanFits, ClanSlots
  <2>3. QED
    BY <2>1, <2>2 DEF ClanInv, ClanFits, ClanTables, ClanAsked, ClanLeft
<1>3. QED
  BY <1>1, <1>2 DEF Clan!Next, ClanStep

(* It holds before any request. *)
LEMMA ClanInit ==
  ASSUME Clan!ClansAssumption, Clan!Init
  PROVE  ClanInv
<1> USE DEF Clan!Init
<1>1. ClanTables
  <2>1. clans = {} /\ rows = {} /\ made = 0 /\ MaxMemberships \in Nat
    BY DEF Clan!ClansAssumption
  <2>2. QED
    BY <2>1, Zero DEF ClanTables
<1>2. ClanSlots
  BY DEF ClanSlots, ClanLabels
<1>3. (\A c \in Calls : ClanAsked(c)) /\ ClanLeft
  BY DEF ClanAsked, ClanLeft
<1>4. QED
  BY <1>1, <1>2, <1>3 DEF ClanInv, ClanFits

(* Who left is out. *)
LEMMA ClanHolds ==
  ASSUME ClanInv
  PROVE  Clan!LeftIsOut /\ Clan!TypeOK
BY DEF ClanInv, ClanFits, ClanTables, ClanSlots, ClanLabels, ClanLeft, Clan!LeftIsOut, Clan!In, Clan!Of, Clan!TypeOK

-----------------------------------------------------------------------------
(* What a reader has read and what is kept is what the tables say, but for those who have
   still to tell. *)
ClanHeld(s, u) == s \subseteq Clan!Of(u) /\ (s = {} => Clan!Of(u) = {})
ClanRead(d) == at[d] = "store" =>
  /\ ask[d].kind = "all" => got[d] = clans
  /\ ask[d].kind = "mine" => got[d] = Clan!Of(ask[d].by)
  /\ ask[d].kind = "info" => ClanHeld(got[d], ask[d].by)
ClanReads == ~torn /\ ~cut /\ ~ranked => \A d \in Calls : ClanRead(d)
ClanOwes(labels, u) == \E c \in Calls : at[c] \in labels /\ ask[c].by = u
ClanAll == (\E c \in Calls : at[c] \in {"lead", "flush all"}) \/ all \in {None, clans}
ClanMine(u) == ClanOwes({"lead", "flush all", "flush"}, u) \/ cached[u]["mine"] \in {None, Clan!Of(u)}
ClanInfo(u) ==
  ClanOwes({"lead", "flush all", "flush", "flush info"}, u) \/ cached[u]["info"] = None \/ ClanHeld(cached[u]["info"], u)
ClanTold == ~torn /\ ~cut /\ ~ranked => ClanAll /\ \A u \in ClanUsers : ClanMine(u) /\ ClanInfo(u)

(* A write changes the rows of its own user, and who is late is noticed. *)
ClanWrites(c) == Clan!Create(c) \/ Clan!Lead(c) \/ Clan!JoinClan(c) \/ Clan!Leave(c)
ClanTouches(c) ==
  /\ UNCHANGED <<all, cached, ask, cut, ranked>> /\ torn' = (torn \/ Clan!Late(c)) /\ ask[c].by \in ClanUsers
  /\ at[c] \in {"create", "lead", "join", "leave"} /\ at'[c] \in {"lead", "flush all", "flush"}
  /\ (clans' = clans \/ at'[c] = "lead") /\ (at[c] = "lead" => at'[c] = "flush all")
  /\ \A v \in ClanUsers : v # ask[c].by => Clan!Of(v)' = Clan!Of(v)
ClanRefused(c) == UNCHANGED <<clans, rows, all, cached, ask, torn, cut, ranked>> /\ at[c] = "join" /\ at'[c] = "done"

(* A membership more is a row of its user. *)
LEMMA ClanInserted ==
  ASSUME ClanFits, NEW c \in Calls, NEW u \in ClanUsers, NEW k \in clans, NEW rank, Clan!Insert(c, u, k, rank)
  PROVE  \A v \in ClanUsers : v # u => Clan!Of(v)' = Clan!Of(v)
<1>1. rows' = rows \cup {[id |-> made + 1, user |-> u, clan |-> k, rank |-> rank]}
  BY ClanInserts
<1>2. [id |-> made + 1, user |-> u, clan |-> k, rank |-> rank].user = u
  OBVIOUS
<1>3. QED
  BY <1>1, <1>2 DEF Clan!Of

(* A write touches, or is refused. *)
LEMMA ClanWriting ==
  ASSUME Clan!ClansAssumption, ClanFits, NEW c \in Calls, ClanWrites(c)
  PROVE  ClanTouches(c) \/ ClanRefused(c)
<1>0. at \in [Calls -> ClanLabels] /\ ClanAsked(c)
  BY DEF ClanFits, ClanSlots
<1>1. CASE Clan!Create(c)
  <2>1. /\ UNCHANGED <<rows, all, cached, ask, cut, ranked>> /\ torn' = (torn \/ Clan!Late(c)) /\ at[c] = "create" /\ at' = [at EXCEPT ![c] = "lead"]
    BY <1>1 DEF Clan!Create, Clan!Go, Clan!caches
  <2>2. ask[c].by \in ClanUsers
    BY <1>0, <2>1 DEF ClanAsked
  <2>3. QED
    BY <1>0, <2>1, <2>2 DEF ClanTouches, Clan!Of
<1>2. CASE Clan!Lead(c)
  <2>1. PICK u \in ClanUsers, k \in clans : /\ u = ask[c].by /\ Clan!Insert(c, u, k, "Leader") /\ at[c] = "lead" /\ at' = [at EXCEPT ![c] = "flush all"] /\ ask' = ask
                                  /\ UNCHANGED <<clans, all, cached, got, cut, ranked>>
    BY <1>2, ClanLeads
  <2>2. torn' = (torn \/ Clan!Late(c)) /\ \A v \in ClanUsers : v # u => Clan!Of(v)' = Clan!Of(v)
    BY <2>1, ClanInserts, ClanInserted
  <2>3. QED
    BY <1>0, <2>1, <2>2 DEF ClanTouches
<1>3. CASE Clan!JoinClan(c)
  <2>0. at[c] = "join" /\ ask' = ask /\ UNCHANGED <<clans, all, cached, got, cut, ranked>>
    BY <1>3, ClanJoins
  <2>1. ASSUME NEW u \in ClanUsers, NEW k \in clans, u = ask[c].by, Clan!Insert(c, u, k, "Member"), at' = [at EXCEPT ![c] = "flush"]
        PROVE  ClanTouches(c)
    <3>1. torn' = (torn \/ Clan!Late(c)) /\ \A v \in ClanUsers : v # u => Clan!Of(v)' = Clan!Of(v)
      BY <2>1, ClanInserts, ClanInserted
    <3>2. QED
      BY <1>0, <2>0, <2>1, <3>1 DEF ClanTouches
  <2>2. CASE at' = [at EXCEPT ![c] = "done"] /\ UNCHANGED <<rows, made, left, torn>>
    BY <1>0, <2>0, <2>2 DEF ClanRefused
  <2>3. QED
    BY <1>3, <2>1, <2>2, ClanJoins
<1>4. CASE Clan!Leave(c)
  <2>1. /\ UNCHANGED <<clans, all, cached, ask, cut, ranked>> /\ torn' = (torn \/ Clan!Late(c)) /\ at[c] = "leave" /\ at' = [at EXCEPT ![c] = "flush"]
        /\ rows' = {r \in rows : ~(r.user = ask[c].by /\ r.clan = ask[c].clan)}
    BY <1>4 DEF Clan!Leave, Clan!Go, Clan!caches, Clan!Leaves, Clan!In, Clan!Of
  <2>2. \A v \in ClanUsers : v # ask[c].by => Clan!Of(v)' = Clan!Of(v)
    BY <2>1 DEF Clan!Of
  <2>3. ask[c].by \in ClanUsers
    BY <1>0, <2>1 DEF ClanAsked
  <2>4. QED
    BY <1>0, <2>1, <2>2, <2>3 DEF ClanTouches
<1>5. QED
  BY <1>1, <1>2, <1>3, <1>4 DEF ClanWrites

(* A step that changes neither the tables nor what is kept, and owes nothing. *)
ClanLooks(c) == Clan!Start(c) \/ Clan!FindRow(c) \/ Clan!Cached(c) \/ Clan!Load(c)

(* It leaves the tables and the caches as they are. *)
LEMMA ClanLooking ==
  ASSUME Clan!ClansAssumption, ClanFits, NEW c \in Calls, ClanLooks(c)
  PROVE  /\ UNCHANGED <<clans, rows, all, cached, torn, cut, ranked>>
         /\ at[c] \in {"new", "find", "cache", "load"} /\ at'[c] \in {"create", "join", "leave", "find", "cache", "done", "rank", "load", "store"}
         /\ (at'[c] = "store" => Clan!Load(c))
<1>0. at \in [Calls -> ClanLabels]
  BY DEF ClanFits, ClanSlots
<1>1. CASE Clan!Start(c)
  BY <1>0, <1>1, ClanBegins
<1>2. CASE Clan!FindRow(c)
  BY <1>0, <1>2 DEF Clan!FindRow, Clan!Go, Clan!tables, Clan!caches, Clan!history
<1>3. CASE Clan!Cached(c)
  BY <1>0, <1>3 DEF Clan!Cached, Clan!Go, Clan!tables, Clan!caches, Clan!history
<1>4. CASE Clan!Load(c)
  BY <1>0, <1>4 DEF Clan!Load, Clan!Go, Clan!tables, Clan!caches, Clan!history
<1>5. QED
  BY <1>1, <1>2, <1>3, <1>4 DEF ClanLooks

(* A step that tells, keeps or dies changes no table. *)
ClanTells(c) == Clan!FlushAll(c) \/ Clan!Flush(c) \/ Clan!FlushInfo(c) \/ Clan!Store(c) \/ Clan!Crash(c)

(* Only one that died changes what is noticed. *)
LEMMA ClanTelling ==
  ASSUME Clan!ClansAssumption, ClanFits, NEW c \in Calls, ClanTells(c)
  PROVE  /\ UNCHANGED <<clans, rows, ask, torn, ranked>> /\ (Clan!Crash(c) \/ cut' = cut) /\ (Clan!Crash(c) => cut')
         /\ at'[c] # "store"
<1>0. at \in [Calls -> ClanLabels]
  BY DEF ClanFits, ClanSlots
<1>1. QED
  BY <1>0 DEF ClanTells, Clan!FlushAll, Clan!Flush, Clan!FlushInfo, Clan!Store, Clan!Crash, Clan!Go, Clan!Info, Clan!tables, Clan!caches, Clan!history

(* What a reader has read is what the tables say, unless a write came between. *)
LEMMA ClanReadsKept ==
  ASSUME Clan!ClansAssumption, ClanFits, ClanReads, NEW c \in Calls, ClanStep(c)
  PROVE  ClanReads'
<1>0. at \in [Calls -> ClanLabels] /\ DOMAIN got = Calls /\ torn \in BOOLEAN /\ cut \in BOOLEAN /\ ranked \in BOOLEAN /\ ClanAsked(c)
  BY DEF ClanFits, ClanSlots
<1>1. SUFFICES ASSUME ~torn', ~cut', ~ranked', NEW d \in Calls, at'[d] = "store" PROVE ClanRead(d)'
  BY DEF ClanReads, ClanRead
<1>2. CASE ClanLooks(c) \/ ClanTells(c)
  <2>1. clans' = clans /\ rows' = rows /\ ~torn /\ ~cut /\ ~ranked
    BY <1>0, <1>1, <1>2, ClanLooking, ClanTelling
  <2>2. CASE d # c
    <3>1. at'[d] = at[d] /\ ask'[d] = ask[d] /\ got'[d] = got[d]
      BY <2>2, ClanOthers
    <3>2. ClanRead(d)
      BY <2>1 DEF ClanReads
    <3>3. QED
      BY <2>1, <3>1, <3>2 DEF ClanRead, ClanHeld, Clan!Of
  <2>3. CASE d = c
    <3>1. Clan!Load(c)
      BY <1>1, <1>2, <2>3, ClanLooking, ClanTelling
    <3>2. ask' = ask /\ at[c] = "load" /\ ask[c].kind \in {"all", "mine", "info"}
      BY <1>0, <3>1 DEF Clan!Load, Clan!Go, ClanAsked
    <3>3. CASE ask[c].kind = "all"
      <4>1. got'[c] = clans
        BY <1>0, <3>1, <3>3 DEF Clan!Load
      <4>2. QED
        BY <2>1, <2>3, <3>2, <3>3, <4>1 DEF ClanRead
    <3>4. CASE ask[c].kind = "mine"
      <4>1. got'[c] = Clan!Of(ask[c].by)
        BY <1>0, <3>1, <3>4 DEF Clan!Load
      <4>2. QED
        BY <2>1, <2>3, <3>2, <3>4, <4>1 DEF ClanRead, Clan!Of
    <3>5. CASE ask[c].kind = "info"
      <4>1. \E s \in IF Clan!Of(ask[c].by) = {} THEN {{}} ELSE {{r} : r \in Clan!Of(ask[c].by)} : got' = [got EXCEPT ![c] = s]
        BY <3>1, <3>5 DEF Clan!Load
      <4>2. got'[c] \in IF Clan!Of(ask[c].by) = {} THEN {{}} ELSE {{r} : r \in Clan!Of(ask[c].by)}
        BY <1>0, <4>1
      <4>3. ClanHeld(got'[c], ask[c].by)
        BY <4>2 DEF ClanHeld
      <4>4. QED
        BY <2>1, <2>3, <3>2, <3>5, <4>3 DEF ClanRead, ClanHeld, Clan!Of
    <3>6. QED
      BY <3>2, <3>3, <3>4, <3>5
  <2>4. QED
    BY <2>2, <2>3
<1>3. CASE ClanWrites(c)
  <2>1. d # c
    BY <1>1, <1>3, ClanWriting DEF ClanTouches, ClanRefused
  <2>2. at'[d] = at[d] /\ ask'[d] = ask[d] /\ got'[d] = got[d]
    BY <2>1, ClanOthers
  <2>3. CASE ClanTouches(c)
    <3>1. ~torn /\ ~cut /\ ~ranked /\ ~Clan!Late(c)
      BY <1>1, <2>3 DEF ClanTouches
    <3>2. ask[d].kind # "all" /\ ask[d].by # ask[c].by /\ ClanRead(d)
      BY <1>1, <2>2, <3>1 DEF Clan!Late, ClanReads
    <3>3. ask[d].by \in ClanUsers
      BY <1>1, <2>2 DEF ClanFits, ClanAsked
    <3>4. Clan!Of(ask[d].by)' = Clan!Of(ask[d].by)
      BY <2>2, <2>3, <3>2, <3>3 DEF ClanTouches
    <3>5. {r \in rows' : r.user = ask[d].by} = {r \in rows : r.user = ask[d].by}
      <4>1. ASSUME NEW u, u = ask[d].by PROVE {r \in rows' : r.user = u} = {r \in rows : r.user = u}
        BY <2>3, <3>2, <3>3, <4>1 DEF ClanTouches, Clan!Of
      <4>2. QED
        BY <4>1
    <3>6. QED
      BY <2>2, <3>2, <3>5 DEF ClanRead, ClanHeld, Clan!Of
  <2>4. CASE ClanRefused(c)
    <3>1. UNCHANGED <<clans, rows>> /\ ~torn /\ ~cut /\ ~ranked
      BY <1>1, <2>4 DEF ClanRefused
    <3>2. ClanRead(d)
      BY <3>1 DEF ClanReads
    <3>3. QED
      BY <2>2, <3>1, <3>2 DEF ClanRead, ClanHeld, Clan!Of
  <2>5. QED
    BY <1>3, <2>3, <2>4, ClanWriting
<1>4. CASE Clan!Rank(c)
  <2>0. ClanTables /\ ClanSlots
    BY DEF ClanFits
  <2>1. at'[c] = "done" /\ UNCHANGED <<clans, torn, cut>> /\ ranked' = ranked /\ rows' = rows
    BY <1>0, <1>1, <1>4, <2>0, ClanRanks
  <2>2. at'[d] = at[d] /\ ask'[d] = ask[d] /\ got'[d] = got[d]
    BY <1>1, <2>1, ClanOthers
  <2>3. ClanRead(d)
    BY <1>1, <2>1 DEF ClanReads
  <2>4. QED
    BY <2>1, <2>2, <2>3 DEF ClanRead, ClanHeld, Clan!Of
<1>5. QED
  BY <1>2, <1>3, <1>4 DEF ClanStep, ClanLooks, ClanTells, ClanWrites

-----------------------------------------------------------------------------
(* Who does not tell any less than before leaves what he owes. *)
LEMMA ClanOwing ==
  ASSUME Clan!ClansAssumption, ClanFits, NEW c \in Calls, ClanStep(c), NEW labels, NEW u,
         ClanOwes(labels, u), at[c] \in labels => at'[c] \in labels /\ ask'[c] = ask[c]
  PROVE  ClanOwes(labels, u)'
<1>1. PICK d \in Calls : at[d] \in labels /\ ask[d].by = u
  BY DEF ClanOwes
<1>2. CASE d = c
  BY <1>1, <1>2 DEF ClanOwes
<1>3. CASE d # c
  BY <1>1, <1>3, ClanOthers DEF ClanOwes
<1>4. QED
  BY <1>2, <1>3

(* What is kept stays true. *)
LEMMA ClanToldKept ==
  ASSUME Clan!ClansAssumption, ClanFits, ClanReads, ClanTold, NEW c \in Calls, ClanStep(c)
  PROVE  ClanTold'
<1>0. /\ at \in [Calls -> ClanLabels] /\ DOMAIN got = Calls /\ torn \in BOOLEAN /\ cut \in BOOLEAN /\ ranked \in BOOLEAN /\ ClanAsked(c)
      /\ DOMAIN cached = ClanUsers /\ \A u \in ClanUsers : DOMAIN cached[u] = {"mine", "info"}
  BY DEF ClanFits, ClanSlots
<1>1. SUFFICES ASSUME ~torn', ~cut', ~ranked' PROVE ClanAll' /\ \A u \in ClanUsers : ClanMine(u)' /\ ClanInfo(u)'
  BY DEF ClanTold
<1>2. ~torn /\ ~cut /\ ~ranked
  BY <1>0, <1>1, ClanLooking, ClanTelling, ClanWriting, ClanRanks DEF ClanStep, ClanLooks, ClanTells, ClanWrites, ClanTouches, ClanRefused, ClanFits
<1>3. ClanAll /\ (\A u \in ClanUsers : ClanMine(u) /\ ClanInfo(u)) /\ ClanReads /\ \A d \in Calls : ClanRead(d)
  BY <1>2 DEF ClanTold, ClanReads
<1>4. ASSUME at[c] \in {"lead", "flush all"} => at'[c] \in {"lead", "flush all"} PROVE
        (\E d \in Calls : at[d] \in {"lead", "flush all"}) => (\E d \in Calls : at'[d] \in {"lead", "flush all"})
  BY <1>4, ClanOthers
<1>5. CASE ClanLooks(c) \/ ClanRefused(c) \/ (Clan!Rank(c) /\ rows' = rows)
  <2>1. UNCHANGED <<clans, rows, all, cached>> /\ at[c] \notin {"lead", "flush all", "flush", "flush info"}
    BY <1>0, <1>5, ClanLooking, ClanRanks DEF ClanRefused, ClanFits
  <2>2. ClanAll'
    BY <1>3, <1>4, <2>1 DEF ClanAll
  <2>3. ASSUME NEW u \in ClanUsers PROVE ClanMine(u)' /\ ClanInfo(u)'
    <3>1. /\ ClanOwes({"lead", "flush all", "flush"}, u) => ClanOwes({"lead", "flush all", "flush"}, u)'
          /\ ClanOwes({"lead", "flush all", "flush", "flush info"}, u) => ClanOwes({"lead", "flush all", "flush", "flush info"}, u)'
      BY <2>1, ClanOwing
    <3>2. QED
      BY <1>3, <2>1, <3>1 DEF ClanMine, ClanInfo, ClanHeld, Clan!Of
  <2>4. QED
    BY <2>2, <2>3
<1>6. CASE ClanTouches(c)
  <2>0. UNCHANGED <<all, cached, ask>> /\ at'[c] \in {"lead", "flush all", "flush"} /\ at[c] \in {"create", "lead", "join", "leave"}
          /\ (clans' = clans \/ at'[c] = "lead") /\ (at[c] = "lead" => at'[c] = "flush all")
          /\ \A v \in ClanUsers : v # ask[c].by => Clan!Of(v)' = Clan!Of(v)
    BY <1>6 DEF ClanTouches
  <2>1. ClanAll'
    BY <1>3, <1>4, <2>0 DEF ClanAll
  <2>2. ASSUME NEW u \in ClanUsers PROVE ClanMine(u)' /\ ClanInfo(u)'
    <3>1. CASE u = ask[c].by
      BY <2>0, <3>1 DEF ClanMine, ClanInfo, ClanOwes
    <3>2. CASE u # ask[c].by
      <4>1. Clan!Of(u)' = Clan!Of(u)
        BY <2>0, <3>2
      <4>2. /\ ClanOwes({"lead", "flush all", "flush"}, u) => ClanOwes({"lead", "flush all", "flush"}, u)'
            /\ ClanOwes({"lead", "flush all", "flush", "flush info"}, u) => ClanOwes({"lead", "flush all", "flush", "flush info"}, u)'
        BY <2>0, ClanOwing
      <4>3. QED
        BY <1>3, <2>0, <4>1, <4>2 DEF ClanMine, ClanInfo, ClanHeld
    <3>3. QED
      BY <3>1, <3>2
  <2>3. QED
    BY <2>1, <2>2
<1>7. CASE Clan!FlushAll(c)
  <2>1. all' = None /\ UNCHANGED <<clans, rows, cached, ask>> /\ at[c] = "flush all" /\ at'[c] = "flush"
    BY <1>0, <1>7 DEF Clan!FlushAll, Clan!Go, Clan!tables
  <2>2. ASSUME NEW u \in ClanUsers PROVE ClanMine(u)' /\ ClanInfo(u)'
    <3>1. /\ ClanOwes({"lead", "flush all", "flush"}, u) => ClanOwes({"lead", "flush all", "flush"}, u)'
          /\ ClanOwes({"lead", "flush all", "flush", "flush info"}, u) => ClanOwes({"lead", "flush all", "flush", "flush info"}, u)'
      BY <2>1, ClanOwing
    <3>2. QED
      BY <1>3, <2>1, <3>1 DEF ClanMine, ClanInfo, ClanHeld, Clan!Of
  <2>3. QED
    BY <2>1, <2>2 DEF ClanAll
<1>8. CASE Clan!Flush(c)
  <2>1. /\ cached' = [cached EXCEPT ![ask[c].by]["mine"] = None] /\ UNCHANGED <<clans, rows, all, ask>> /\ at[c] = "flush"
        /\ at'[c] = "flush info"
    BY <1>0, <1>8 DEF Clan!Flush, Clan!Go, Clan!Info, Clan!tables
  <2>2. ask[c].by \in ClanUsers
    BY <1>0, <2>1 DEF ClanAsked
  <2>3. /\ cached'[ask[c].by]["mine"] = None /\ cached'[ask[c].by]["info"] = cached[ask[c].by]["info"]
        /\ \A v \in ClanUsers : v # ask[c].by => cached'[v] = cached[v]
    BY <1>0, <2>1, <2>2
  <2>4. ClanAll'
    BY <1>3, <1>4, <2>1 DEF ClanAll
  <2>5. ASSUME NEW u \in ClanUsers PROVE ClanMine(u)' /\ ClanInfo(u)'
    <3>1. ClanOwes({"lead", "flush all", "flush", "flush info"}, u) => ClanOwes({"lead", "flush all", "flush", "flush info"}, u)'
      BY <2>1, ClanOwing
    <3>2. ClanInfo(u)'
      <4>1. cached'[u]["info"] = cached[u]["info"]
        BY <2>3
      <4>2. QED
        BY <1>3, <2>1, <3>1, <4>1 DEF ClanInfo, ClanHeld, Clan!Of
    <3>3. CASE u = ask[c].by
      BY <2>3, <3>2, <3>3 DEF ClanMine
    <3>4. CASE u # ask[c].by
      <4>1. ClanOwes({"lead", "flush all", "flush"}, u) => ClanOwes({"lead", "flush all", "flush"}, u)'
        BY <2>1, <3>4, ClanOthers DEF ClanOwes
      <4>2. QED
        BY <1>3, <2>1, <2>3, <3>2, <3>4, <4>1 DEF ClanMine, Clan!Of
    <3>5. QED
      BY <3>3, <3>4
  <2>6. QED
    BY <2>4, <2>5
<1>9. CASE Clan!FlushInfo(c)
  <2>1. /\ cached' = [cached EXCEPT ![ask[c].by]["info"] = None] /\ UNCHANGED <<clans, rows, all, ask>> /\ at[c] = "flush info"
        /\ at'[c] = "done"
    BY <1>0, <1>9 DEF Clan!FlushInfo, Clan!Go, Clan!tables
  <2>2. ask[c].by \in ClanUsers
    BY <1>0, <2>1 DEF ClanAsked
  <2>3. /\ cached'[ask[c].by]["info"] = None /\ cached'[ask[c].by]["mine"] = cached[ask[c].by]["mine"]
        /\ \A v \in ClanUsers : v # ask[c].by => cached'[v] = cached[v]
    BY <1>0, <2>1, <2>2
  <2>4. ClanAll'
    BY <1>3, <1>4, <2>1 DEF ClanAll
  <2>5. ASSUME NEW u \in ClanUsers PROVE ClanMine(u)' /\ ClanInfo(u)'
    <3>1. ClanOwes({"lead", "flush all", "flush"}, u) => ClanOwes({"lead", "flush all", "flush"}, u)'
      BY <2>1, ClanOwing
    <3>2. ClanMine(u)'
      BY <1>3, <2>1, <2>3, <3>1 DEF ClanMine, Clan!Of
    <3>3. CASE u = ask[c].by
      BY <2>3, <3>2, <3>3 DEF ClanInfo
    <3>4. CASE u # ask[c].by
      <4>1. ClanOwes({"lead", "flush all", "flush", "flush info"}, u) => ClanOwes({"lead", "flush all", "flush", "flush info"}, u)'
        BY <2>1, <3>4, ClanOthers DEF ClanOwes
      <4>2. QED
        BY <1>3, <2>1, <2>3, <3>2, <3>4, <4>1 DEF ClanInfo, ClanHeld, Clan!Of
    <3>5. QED
      BY <3>3, <3>4
  <2>6. QED
    BY <2>4, <2>5
<1>10. CASE Clan!Store(c)
  <2>1. UNCHANGED <<clans, rows, ask>> /\ at[c] = "store" /\ at'[c] = "done" /\ ask[c].kind \in {"all", "mine", "info"} /\ ask[c].by \in ClanUsers
    BY <1>0, <1>10 DEF Clan!Store, Clan!Go, Clan!tables, ClanAsked
  <2>2. ClanRead(c)
    BY <1>3
  <2>3. all' = all \/ all' = clans
    BY <1>10, <2>1, <2>2 DEF Clan!Store, ClanRead
  <2>4. ClanAll'
    BY <1>3, <1>4, <2>1, <2>3 DEF ClanAll
  <2>5. ASSUME NEW u \in ClanUsers
        PROVE  /\ cached'[u]["mine"] = cached[u]["mine"] \/ cached'[u]["mine"] = Clan!Of(u)
               /\ cached'[u]["info"] = cached[u]["info"] \/ ClanHeld(cached'[u]["info"], u)
    <3>1. CASE ask[c].kind = "all"
      BY <1>10, <3>1 DEF Clan!Store
    <3>2. CASE ask[c].kind # "all"
      <4>1. cached' = [cached EXCEPT ![ask[c].by][ask[c].kind] = got[c]]
        BY <1>10, <3>2 DEF Clan!Store
      <4>2. CASE u # ask[c].by
        <5>1. cached'[u] = cached[u]
          BY <1>0, <2>1, <4>1, <4>2
        <5>2. QED
          BY <5>1
      <4>3. CASE u = ask[c].by /\ ask[c].kind = "mine"
        <5>1. cached'[u]["mine"] = got[c] /\ cached'[u]["info"] = cached[u]["info"]
          BY <1>0, <2>1, <4>1, <4>3
        <5>2. QED
          BY <2>1, <2>2, <4>3, <5>1 DEF ClanRead
      <4>4. CASE u = ask[c].by /\ ask[c].kind = "info"
        <5>1. cached'[u]["info"] = got[c] /\ cached'[u]["mine"] = cached[u]["mine"]
          BY <1>0, <2>1, <4>1, <4>4
        <5>2. QED
          BY <2>1, <2>2, <4>4, <5>1 DEF ClanRead
      <4>5. QED
        BY <2>1, <3>2, <4>2, <4>3, <4>4
    <3>3. QED
      BY <3>1, <3>2
  <2>6. ASSUME NEW u \in ClanUsers PROVE ClanMine(u)' /\ ClanInfo(u)'
    <3>1. /\ ClanOwes({"lead", "flush all", "flush"}, u) => ClanOwes({"lead", "flush all", "flush"}, u)'
          /\ ClanOwes({"lead", "flush all", "flush", "flush info"}, u) => ClanOwes({"lead", "flush all", "flush", "flush info"}, u)'
      BY <2>1, ClanOwing
    <3>2. QED
      BY <1>3, <2>1, <2>5, <3>1 DEF ClanMine, ClanInfo, ClanHeld, Clan!Of
  <2>7. QED
    BY <2>4, <2>6
<1>11. CASE Clan!Crash(c)
  BY <1>1, <1>11 DEF Clan!Crash
<1>12. Clan!Rank(c) => rows' = rows
  BY <1>1, ClanRanks DEF ClanFits
<1>13. QED
  BY <1>5, <1>6, <1>7, <1>8, <1>9, <1>10, <1>11, <1>12, ClanWriting DEF ClanStep, ClanLooks, ClanWrites

(* What is about to be stored of clans and what is stored are right. *)
ClanSound == ClanReads /\ ClanTold

(* Every step of clans keeps what is read and what is kept right. *)
LEMMA ClanSoundKept ==
  ASSUME Clan!ClansAssumption, ClanInv, ClanSound, Clan!Next
  PROVE  ClanSound'
<1>1. ASSUME NEW c \in Calls, ClanStep(c) PROVE ClanSound'
  BY <1>1, ClanReadsKept, ClanToldKept DEF ClanInv, ClanSound
<1>2. CASE Clan!Expire
  <2>1. UNCHANGED <<clans, rows, made, all, ask, at, got, torn, cut, left, ranked>>
    BY <1>2, ClanExpires DEF ClanInv
  <2>2. PICK u \in ClanUsers, l \in {"mine", "info"} : cached' = [cached EXCEPT ![u][l] = None]
    BY <1>2, ClanExpires DEF ClanInv
  <2>3. \A v \in ClanUsers, k \in {"mine", "info"} : cached'[v][k] \in {cached[v][k], None}
    BY <2>2 DEF ClanInv, ClanFits, ClanSlots
  <2>4. ClanReads'
    BY <2>1 DEF ClanSound, ClanReads, ClanRead, ClanHeld, Clan!Of
  <2>5. ClanAll' = ClanAll /\ \A labels, v : ClanOwes(labels, v)' = ClanOwes(labels, v)
    BY <2>1 DEF ClanAll, ClanOwes
  <2>6. \A v \in ClanUsers : (ClanMine(v) => ClanMine(v)') /\ (ClanInfo(v) => ClanInfo(v)')
    BY <2>1, <2>3, <2>5 DEF ClanMine, ClanInfo, ClanHeld, Clan!Of
  <2>7. QED
    BY <2>1, <2>4, <2>5, <2>6 DEF ClanSound, ClanTold
<1>3. QED
  BY <1>1, <1>2 DEF Clan!Next, ClanStep

(* It holds before any request. *)
LEMMA ClanSoundInit ==
  ASSUME Clan!Init
  PROVE  ClanSound
BY DEF Clan!Init, ClanSound, ClanReads, ClanRead, ClanTold, ClanAll, ClanMine, ClanInfo

(* It gives what is checked of the cached lists. *)
LEMMA ClanSoundHolds ==
  ASSUME ClanSound
  PROVE  Clan!ClansCurrent
BY DEF ClanSound, ClanTold, ClanAll, ClanMine, ClanInfo, ClanOwes, ClanHeld, Clan!ClansCurrent

(* A step that changes nothing of clans. *)
LEMMA ClanSoundStill ==
  ASSUME ClanSound, UNCHANGED <<clans, rows, all, cached, ask, at, got, torn, cut, ranked>>
  PROVE  ClanSound'
<1>1. ClanReads'
  BY DEF ClanSound, ClanReads, ClanRead, ClanHeld, Clan!Of
<1>2. ClanTold'
  BY DEF ClanSound, ClanTold, ClanAll, ClanMine, ClanInfo, ClanOwes, ClanHeld, Clan!Of
<1>3. QED
  BY <1>1, <1>2 DEF ClanSound

-----------------------------------------------------------------------------
(* Sockets.  A user who is not muddled has one live socket at most, and the map
   names it once its token is verified. *)
SocketFits ==
  /\ phase \in [Sockets -> {"idle", "verifying", "lost", "joining", "open", "shut"}]
  /\ online \in [Users -> Sockets \cup {None}] /\ muddled \subseteq Users
  /\ places \in [Sockets -> SUBSET (Users \cup SocketRooms)] /\ heard \in [Sockets -> SUBSET (Users \cup SocketRooms)]
  /\ \A s \in Sockets : places[s] \cap Users \subseteq {OwnerOf[s]} /\ heard[s] \cap Users \subseteq {OwnerOf[s]}
SocketOf(u) ==
  /\ \A s, t \in Sockets : OwnerOf[s] = u /\ OwnerOf[t] = u /\ Socket!Live(s) /\ Socket!Live(t) => s = t
  /\ \A s \in Sockets : OwnerOf[s] = u /\ phase[s] \in {"joining", "open"} => online[u] = s
  /\ online[u] # None => OwnerOf[online[u]] = u /\ phase[online[u]] \in {"joining", "open"}
SocketInv == SocketFits /\ \A u \in Users : u \notin muddled => SocketOf(u)

(* A step of one socket leaves the others, and the other users, where they are. *)
LEMMA SocketMoves ==
  ASSUME Socket!PresenceAssumption, SocketFits, NEW s \in Sockets,
         Socket!Connect(s) \/ Socket!Verified(s) \/ Socket!Join(s) \/ Socket!Disconnect(s)
  PROVE  /\ \A t \in Sockets \ {s} : phase'[t] = phase[t]
         /\ \A u \in Users \ {OwnerOf[s]} : online'[u] = online[u] /\ (u \in muddled' <=> u \in muddled)
<1> USE DEF SocketFits, Socket!PresenceAssumption, Socket!To
<1>1. CASE Socket!Connect(s)
  BY <1>1 DEF Socket!Connect
<1>2. CASE Socket!Verified(s)
  BY <1>2 DEF Socket!Verified
<1>3. CASE Socket!Join(s)
  BY <1>3 DEF Socket!Join
<1>4. CASE Socket!Disconnect(s)
  BY <1>4 DEF Socket!Disconnect, Socket!Leaves
<1>5. QED
  BY <1>1, <1>2, <1>3, <1>4

(* The shape of the state is kept by each of them, *)
LEMMA SocketFitsKept ==
  ASSUME Socket!PresenceAssumption, SocketFits, Socket!Next
  PROVE  SocketFits'
<1> USE DEF Socket!PresenceAssumption, Socket!To
<1>1. ASSUME NEW s \in Sockets, Socket!Connect(s) PROVE SocketFits'
  BY <1>1 DEF SocketFits, Socket!Connect
<1>2. ASSUME NEW s \in Sockets, Socket!Verified(s) PROVE SocketFits'
  <2>1. online' \in [Users -> Sockets \cup {None}]
    BY <1>2 DEF SocketFits, Socket!Verified
  <2>2. phase' \in [Sockets -> {"idle", "verifying", "lost", "joining", "open", "shut"}]
    BY <1>2 DEF SocketFits, Socket!Verified
  <2>3. UNCHANGED <<places, heard>> /\ muddled' \subseteq Users
    BY <1>2 DEF SocketFits, Socket!Verified
  <2>4. QED
    BY <2>1, <2>2, <2>3 DEF SocketFits
<1>3. ASSUME NEW s \in Sockets, Socket!Join(s) PROVE SocketFits'
  BY <1>3 DEF SocketFits, Socket!Join
<1>4. ASSUME NEW s \in Sockets, Socket!Disconnect(s) PROVE SocketFits'
  BY <1>4 DEF SocketFits, Socket!Disconnect, Socket!Leaves
<1>5. ASSUME NEW s \in Sockets, NEW r \in SocketRooms, Socket!Enter(s, r) PROVE SocketFits'
  BY <1>5 DEF SocketFits, Socket!Enter
<1>6. ASSUME NEW s \in Sockets, NEW r \in SocketRooms, Socket!Quit(s, r) PROVE SocketFits'
  BY <1>6 DEF SocketFits, Socket!Quit
<1>7. ASSUME NEW p \in Users \cup SocketRooms, Socket!Emit(p) PROVE SocketFits'
  <2>1. \A s \in Sockets : heard'[s] = IF s \in Socket!Hearers(p) THEN heard[s] \cup {p} ELSE heard[s]
    BY <1>7 DEF Socket!Emit
  <2>2. \A s \in Socket!Hearers(p) : p \in Users => p = OwnerOf[s]
    BY DEF SocketFits, Socket!Hearers
  <2>3. heard' \in [Sockets -> SUBSET (Users \cup SocketRooms)] /\ UNCHANGED <<phase, online, places, muddled>>
    BY <1>7 DEF SocketFits, Socket!Emit
  <2>4. \A s \in Sockets : heard'[s] \cap Users \subseteq {OwnerOf[s]}
    <3>1. ASSUME NEW s \in Sockets PROVE heard'[s] \cap Users \subseteq {OwnerOf[s]}
      <4>1. heard[s] \cap Users \subseteq {OwnerOf[s]}
        BY DEF SocketFits
      <4>2. CASE s \in Socket!Hearers(p)
        <5>1. heard'[s] = heard[s] \cup {p} /\ (p \in Users => p = OwnerOf[s])
          BY <2>1, <2>2, <4>2
        <5>2. QED
          BY <4>1, <5>1
      <4>3. CASE s \notin Socket!Hearers(p)
        BY <2>1, <4>1, <4>3
      <4>4. QED
        BY <4>2, <4>3
    <3>2. QED
      BY <3>1
  <2>5. QED
    BY <2>3, <2>4 DEF SocketFits
<1>8. QED
  BY <1>1, <1>2, <1>3, <1>4, <1>5, <1>6, <1>7 DEF Socket!Next

(* and so is what the map says. *)
LEMMA SocketKept ==
  ASSUME Socket!PresenceAssumption, SocketInv, Socket!Next
  PROVE  SocketInv'
<1>1. SocketFits' /\ SocketFits
  BY SocketFitsKept DEF SocketInv
<1>2. CASE UNCHANGED <<phase, online, muddled>>
  BY <1>1, <1>2 DEF SocketInv, SocketOf, Socket!Live
<1>3. ASSUME NEW s \in Sockets, Socket!Connect(s) \/ Socket!Verified(s) \/ Socket!Join(s) \/ Socket!Disconnect(s),
             NEW u \in Users, u \notin muddled'
      PROVE  SocketOf(u)'
  <2>1. \A t \in Sockets \ {s} : phase'[t] = phase[t]
    BY <1>1, <1>3, SocketMoves
  <2>2. OwnerOf \in [Sockets -> Users] /\ None \notin Sockets /\ online \in [Users -> Sockets \cup {None}]
    BY <1>1 DEF Socket!PresenceAssumption, SocketFits
  <2>3. CASE u # OwnerOf[s]
    <3>1. online'[u] = online[u] /\ SocketOf(u)
      BY <1>1, <1>3, <2>3, SocketMoves DEF SocketInv
    <3>2. online[u] # None => online[u] \in Sockets
      BY <2>2
    <3>3. QED
      BY <2>1, <2>3, <3>1, <3>2 DEF SocketOf, Socket!Live
  <2>4. CASE u = OwnerOf[s]
    <3>1. u \notin muddled => SocketOf(u)
      BY DEF SocketInv
    <3>2. CASE Socket!Connect(s)
      <4>1. phase[s] = "idle" /\ phase'[s] = "verifying" /\ online' = online /\ Socket!Others(s) = {} /\ u \notin muddled
        BY <1>1, <1>3, <2>4, <3>2 DEF Socket!Connect, Socket!To, SocketFits
      <4>2. \A t \in Sockets \ {s} : OwnerOf[t] = u => ~Socket!Live(t)
        BY <2>4, <4>1 DEF Socket!Others
      <4>3. online[u] = None
        BY <2>2, <3>1, <4>1, <4>2 DEF SocketOf, Socket!Live
      <4>4. QED
        BY <2>1, <4>1, <4>2, <4>3 DEF SocketOf, Socket!Live
    <3>3. CASE Socket!Verified(s) /\ phase'[s] = "joining"
      <4>1. phase[s] \in {"verifying", "lost"} /\ phase \in [Sockets -> {"idle", "verifying", "lost", "joining", "open", "shut"}]
        BY <1>1, <3>3 DEF Socket!Verified, SocketFits
      <4>2. phase[s] = "verifying" /\ online' = [online EXCEPT ![u] = s]
        BY <1>3, <2>4, <3>3, <4>1 DEF Socket!Verified, Socket!To
      <4>3. Socket!Others(s) = {} \/ u \notin muddled
        BY <1>3, <2>4, <3>3, <4>1, <4>2 DEF Socket!Verified, Socket!To
      <4>4. \A t \in Sockets \ {s} : OwnerOf[t] = u => ~Socket!Live(t)
        BY <2>4, <3>1, <4>2, <4>3 DEF Socket!Others, SocketOf, Socket!Live
      <4>5. QED
        BY <2>1, <2>2, <2>4, <3>3, <4>2, <4>4 DEF SocketOf, Socket!Live
    <3>4. CASE Socket!Verified(s) /\ phase'[s] # "joining"
      <4>1. u \notin muddled /\ phase[s] \in {"verifying", "lost"} /\ phase'[s] = "shut" /\ online' = online
        BY <1>1, <1>3, <2>4, <3>4 DEF Socket!Verified, Socket!To, SocketFits
      <4>2. \A t \in Sockets \ {s} : OwnerOf[t] = u => ~Socket!Live(t)
        BY <2>4, <3>1, <4>1 DEF SocketOf, Socket!Live
      <4>3. online[u] = None
        BY <2>2, <3>1, <4>1, <4>2 DEF SocketOf, Socket!Live
      <4>4. QED
        BY <2>1, <4>1, <4>2, <4>3 DEF SocketOf, Socket!Live
    <3>5. CASE Socket!Join(s)
      <4>1. phase[s] = "joining" /\ phase'[s] = "open" /\ online' = online /\ u \notin muddled
        BY <1>1, <1>3, <3>5 DEF Socket!Join, Socket!To, SocketFits
      <4>2. QED
        BY <2>1, <2>2, <3>1, <4>1 DEF SocketOf, Socket!Live
    <3>6. CASE Socket!Disconnect(s)
      <4>1. /\ u \notin muddled
            /\ \/ phase[s] = "verifying" /\ phase'[s] = "lost" /\ online' = online
               \/ phase[s] \in {"joining", "open"} /\ phase'[s] = "shut" /\ online' = [online EXCEPT ![u] = None]
        BY <1>1, <1>3, <2>4, <3>6 DEF Socket!Disconnect, Socket!To, Socket!Leaves, SocketFits
      <4>2. \A t \in Sockets \ {s} : OwnerOf[t] = u => ~Socket!Live(t)
        BY <2>4, <3>1, <4>1 DEF SocketOf, Socket!Live
      <4>3. online'[u] = None
        BY <2>2, <3>1, <4>1, <4>2 DEF SocketOf, Socket!Live
      <4>4. QED
        BY <2>1, <4>1, <4>2, <4>3 DEF SocketOf, Socket!Live
    <3>7. QED
      BY <1>3, <3>2, <3>3, <3>4, <3>5, <3>6
  <2>5. QED
    BY <2>3, <2>4
<1>4. UNCHANGED <<phase, online, muddled>> \/ \E s \in Sockets : Socket!Connect(s) \/ Socket!Verified(s) \/ Socket!Join(s) \/ Socket!Disconnect(s)
  BY DEF Socket!Next, Socket!Enter, Socket!Quit, Socket!Emit
<1>5. QED
  BY <1>1, <1>2, <1>3, <1>4 DEF SocketInv

(* It holds before any connection. *)
LEMMA SocketInit ==
  ASSUME Socket!PresenceAssumption, Socket!Init
  PROVE  SocketInv
BY DEF Socket!PresenceAssumption, Socket!Init, SocketInv, SocketFits, SocketOf, Socket!Live

(* A user is online while he has a socket, and hears what is his. *)
LEMMA SocketHolds ==
  ASSUME Socket!PresenceAssumption, SocketInv
  PROVE  Socket!OnlineTrue /\ Socket!TypeOK
<1>1. Socket!TypeOK
  BY DEF SocketInv, SocketFits, Socket!TypeOK
<1>2. ASSUME NEW u \in Users \ muddled PROVE online[u] # None <=> \E s \in Sockets : OwnerOf[s] = u /\ Socket!Named(s)
  <2>1. ASSUME online[u] # None PROVE \E s \in Sockets : OwnerOf[s] = u /\ Socket!Named(s)
    <3>1. online[u] \in Sockets
      BY <2>1 DEF SocketInv, SocketFits
    <3>2. QED
      BY <1>2, <2>1, <3>1 DEF SocketInv, SocketOf, Socket!Named
  <2>2. ASSUME NEW s \in Sockets, OwnerOf[s] = u, Socket!Named(s) PROVE online[u] # None
    BY <1>2, <2>2 DEF SocketInv, SocketOf, Socket!Named, Socket!PresenceAssumption
  <2>3. QED
    BY <2>1, <2>2
<1>3. QED
  BY <1>1, <1>2 DEF Socket!OnlineTrue

-----------------------------------------------------------------------------
(* Belongings.  What a request asks, the rows, and what an update has read. *)
BelongingAsk(r) ==
  /\ r.op \in Belonging!Ops /\ r.by \in Users /\ r.thing \in Belonging!Things
  /\ r.op = "update" => DOMAIN r.gives \subseteq Belonging!Fields[r.thing] /\ \A f \in DOMAIN r.gives : r.gives[f] \in Belonging!Values
BelongingSlots ==
  /\ at \in [FewCalls -> Belonging!Ops \cup {"new", "done", "find", "write own", "write", "album"}]
  /\ DOMAIN ask = FewCalls /\ DOMAIN got = FewCalls /\ mixed \in BOOLEAN
BelongingRows ==
  /\ DOMAIN row = Belonging!Things /\ DOMAIN said = Belonging!AllFields
  /\ \A k \in Belonging!Things : row[k] # None => row[k] \in [owner : Users, fields : [Belonging!Fields[k] -> Belonging!Values]]
BelongingShelf ==
  /\ photo \in [Photos -> {AlbumOf[u] : u \in Users} \cup {None}]
  /\ story \in [Users -> (0 .. (MaxTime + Lifetime)) \cup {None}] /\ clock \in 0 .. MaxTime
BelongingAsked(c) ==
  /\ at[c] # "new" => BelongingAsk(ask[c])
  /\ at[c] \in {"find", "write", "write own"} => ask[c].op = "update"
  /\ at[c] = "write own" => DOMAIN ask[c].gives = Belonging!Fields[ask[c].thing]
  /\ at[c] = "write" => got[c] \in [Belonging!Fields[ask[c].thing] -> Belonging!Values]
BelongingFits == BelongingSlots /\ BelongingRows /\ BelongingShelf /\ \A c \in FewCalls : BelongingAsked(c)
BelongingUpdates(c, k) == Belonging!Active(c) /\ ask[c].op = "update" /\ ask[c].thing = k
BelongingAlone == ~mixed => \A c, d \in FewCalls : \A k \in Belonging!Things : BelongingUpdates(c, k) /\ BelongingUpdates(d, k) => c = d
BelongingRead(c) == ~mixed /\ at[c] = "write" /\ row[ask[c].thing] # None => got[c] = row[ask[c].thing].fields
BelongingInv == BelongingFits /\ BelongingAlone /\ (\A c \in FewCalls : BelongingRead(c)) /\ Belonging!LastGivenKept

(* The fields of the two things are not shared. *)
LEMMA BelongingFields ==
  /\ Belonging!Things = {"store", "task"}
  /\ Belonging!Fields["store"] = {"name", "price"} /\ Belonging!Fields["task"] = {"done"}
  /\ \A k \in Belonging!Things : Belonging!Fields[k] \subseteq Belonging!AllFields
  /\ \A j, k \in Belonging!Things : \A f \in Belonging!Fields[j] : f \in Belonging!Fields[k] => j = k
<1>1. Belonging!Things = {"store", "task"} /\ Belonging!Fields["store"] = {"name", "price"} /\ Belonging!Fields["task"] = {"done"}
  BY DEF Belonging!Things, Belonging!Fields
<1>2. \A k \in Belonging!Things : Belonging!Fields[k] \subseteq Belonging!AllFields
  BY DEF Belonging!AllFields
<1>3. QED
  BY <1>1, <1>2

(* A request begins. *)
LEMMA BelongingBegins ==
  ASSUME Belonging!BelongingsAssumption, NEW c \in FewCalls, Belonging!Start(c)
  PROVE  \E r \in {q \in Belonging!Request : BelongingAsk(q)}, l \in Belonging!Ops \cup {"find", "write own", "album"} :
           /\ at[c] = "new" /\ ask' = [ask EXCEPT ![c] = r] /\ at' = [at EXCEPT ![c] = l]
           /\ l \in {"find", "write own"} => r.op = "update"
           /\ l = "write own" => DOMAIN r.gives = Belonging!Fields[r.thing]
           /\ mixed' = (mixed \/ (r.op = "update" /\ \E d \in FewCalls : Belonging!Active(d) /\ ask[d].op = "update" /\ ask[d].thing = r.thing))
           /\ UNCHANGED <<row, photo, story, clock, got, said>>
<1>1. PICK r \in {q \in Belonging!Request : Belonging!Fits(q)} :
        /\ ask' = [ask EXCEPT ![c] = r] /\ at' = [at EXCEPT ![c] = Belonging!First(r)]
        /\ mixed' = (mixed \/ (r.op = "update" /\ \E d \in FewCalls : Belonging!Active(d) /\ ask[d].op = "update" /\ ask[d].thing = r.thing))
  BY DEF Belonging!Start
<1>2. at[c] = "new" /\ UNCHANGED <<row, photo, story, clock, got, said>>
  BY DEF Belonging!Start, Belonging!mine
<1>3. BelongingAsk(r)
  <2>1. CASE r \in {[op |-> o, by |-> u, thing |-> k, gives |-> g] :
                      o \in {"update"}, u \in Users, k \in Belonging!Things, g \in UNION {[d -> Belonging!Values] : d \in SUBSET Belonging!AllFields}}
    <3>1. PICK u \in Users, k \in Belonging!Things, g \in UNION {[d -> Belonging!Values] : d \in SUBSET Belonging!AllFields} :
             r = [op |-> "update", by |-> u, thing |-> k, gives |-> g]
      BY <2>1
    <3>2. DOMAIN g \subseteq Belonging!Fields[k]
      BY <3>1 DEF Belonging!Fits
    <3>3. \A f \in DOMAIN g : g[f] \in Belonging!Values
      OBVIOUS
    <3>4. QED
      BY <3>1, <3>2, <3>3 DEF BelongingAsk, Belonging!Ops
  <2>2. CASE r \in {[op |-> o, by |-> u, thing |-> k, gives |-> <<>>] : o \in Belonging!Ops \ {"update"}, u \in Users, k \in Belonging!Things}
    BY <2>2 DEF BelongingAsk
  <2>3. QED
    BY <2>1, <2>2 DEF Belonging!Request
<1>4. CASE r.op = "update"
  BY <1>1, <1>2, <1>3, <1>4 DEF Belonging!First, Belonging!Complete
<1>5. CASE r.op # "update"
  <2>1. PICK l \in Belonging!Ops \cup {"album"} : Belonging!First(r) = l /\ l \notin {"find", "write own"}
    <3>1. CASE r.op \in {"photo", "unphoto"}
      <4>1. Belonging!First(r) = "album"
        BY <1>5, <3>1 DEF Belonging!First
      <4>2. QED
        BY <4>1
    <3>2. CASE r.op \in {"delete", "story", "unstory", "cleanup"}
      BY <3>2 DEF Belonging!First, Belonging!Ops
    <3>3. QED
      BY <1>3, <1>5, <3>1, <3>2 DEF BelongingAsk, Belonging!Ops
  <2>2. QED
    BY <1>1, <1>2, <1>3, <2>1
<1>6. QED
  BY <1>4, <1>5

(* An update finds its row, or ends. *)
LEMMA BelongingFinds ==
  ASSUME BelongingFits, NEW c \in FewCalls, Belonging!Find(c)
  PROVE  /\ at[c] = "find" /\ ask' = ask /\ UNCHANGED <<row, photo, story, clock, said, mixed>>
         /\ \/ row[ask[c].thing] # None /\ got' = [got EXCEPT ![c] = row[ask[c].thing].fields] /\ at' = [at EXCEPT ![c] = "write"]
            \/ got' = got /\ at' = [at EXCEPT ![c] = "done"]
BY DEF Belonging!Find, Belonging!Own, Belonging!Go, Belonging!mine

(* What an update writes: the fields given, and of the others what it has read. *)
LEMMA BelongingWrites ==
  ASSUME BelongingFits, NEW c \in FewCalls, Belonging!Write(c), NEW k, k = ask[c].thing
  PROVE  /\ at[c] \in {"write own", "write"} /\ at' = [at EXCEPT ![c] = "done"] /\ UNCHANGED <<ask, photo, story, clock, got, mixed>>
         /\ BelongingAsk(ask[c]) /\ ask[c].op = "update"
         /\ \/ UNCHANGED <<row, said>>
            \/ /\ row[k] # None
               /\ \E w \in [Belonging!Fields[k] -> Belonging!Values] :
                    /\ row' = [row EXCEPT ![k].fields = w]
                    /\ \A f \in Belonging!Fields[k] : IF f \in DOMAIN ask[c].gives THEN w[f] = ask[c].gives[f] ELSE at[c] = "write" /\ w[f] = got[c][f]
               /\ DOMAIN said' = Belonging!AllFields
               /\ \A f \in Belonging!AllFields : said'[f] = IF f \in DOMAIN ask[c].gives THEN ask[c].gives[f] ELSE said[f]
<1>1. at[c] \in {"write own", "write"} /\ at' = [at EXCEPT ![c] = "done"] /\ UNCHANGED <<ask, photo, story, clock, got, mixed>>
  BY DEF Belonging!Write, Belonging!Go, Belonging!mine
<1>2. BelongingAsk(ask[c]) /\ ask[c].op = "update" /\ BelongingAsked(c)
  BY <1>1 DEF BelongingFits, BelongingAsked
<1>3. CASE UNCHANGED <<row, said>>
  BY <1>1, <1>2, <1>3
<1>4. CASE row[k] # None /\ row' = [row EXCEPT ![k].fields = Belonging!Written(c)] /\ said' = Belonging!Note(c)
  <2> DEFINE w == Belonging!Written(c)
  <2>1. w = [f \in Belonging!Fields[k] |-> IF f \in DOMAIN ask[c].gives THEN ask[c].gives[f] ELSE got[c][f]]
    BY DEF Belonging!Written, Belonging!Kept
  <2>2. \A f \in Belonging!Fields[k] : (IF f \in DOMAIN ask[c].gives THEN ask[c].gives[f] ELSE got[c][f]) \in Belonging!Values
    BY <1>1, <1>2 DEF BelongingAsked, BelongingAsk
  <2>3. \A f \in Belonging!Fields[k] : f \notin DOMAIN ask[c].gives => at[c] = "write"
    BY <1>1, <1>2 DEF BelongingAsked
  <2>4. DOMAIN said' = Belonging!AllFields /\ \A f \in Belonging!AllFields : said'[f] = IF f \in DOMAIN ask[c].gives THEN ask[c].gives[f] ELSE said[f]
    BY <1>4 DEF Belonging!Note
  <2> HIDE DEF w
  <2>5. /\ w \in [Belonging!Fields[k] -> Belonging!Values]
        /\ \A f \in Belonging!Fields[k] : IF f \in DOMAIN ask[c].gives THEN w[f] = ask[c].gives[f] ELSE at[c] = "write" /\ w[f] = got[c][f]
    BY <2>1, <2>2, <2>3
  <2>6. row' = [row EXCEPT ![k].fields = w]
    BY <1>4 DEF w
  <2>7. QED
    BY <1>1, <1>2, <1>4, <2>4, <2>5, <2>6
<1>5. QED
  BY <1>3, <1>4 DEF Belonging!Write

-----------------------------------------------------------------------------
(* The requests that are no update take one statement. *)
BelongingElse(c) == Belonging!Delete(c) \/ Belonging!Album(c) \/ Belonging!Tell(c) \/ Belonging!Untell(c) \/ Belonging!Cleanup(c)

(* They may take a row away, and change nothing else of the things. *)
LEMMA BelongingElses ==
  ASSUME BelongingFits, NEW c \in FewCalls, BelongingElse(c)
  PROVE  /\ at[c] \notin {"new", "done"} /\ at' = [at EXCEPT ![c] = "done"] /\ UNCHANGED <<ask, got, said, mixed>>
         /\ row' = row \/ \E k \in Belonging!Things : row' = [row EXCEPT ![k] = None]
<1>1. CASE Belonging!Delete(c)
  <2>1. at[c] = "delete" /\ at' = [at EXCEPT ![c] = "done"] /\ UNCHANGED <<ask, got, said, mixed>>
    BY <1>1 DEF Belonging!Delete, Belonging!Go
  <2>2. ask[c].thing \in Belonging!Things
    BY <2>1 DEF BelongingFits, BelongingAsked, BelongingAsk
  <2>3. row' = row \/ row' = [row EXCEPT ![ask[c].thing] = None]
    BY <1>1 DEF Belonging!Delete
  <2>4. QED
    BY <2>1, <2>2, <2>3
<1>2. CASE Belonging!Album(c)
  BY <1>2 DEF Belonging!Album, Belonging!Go
<1>3. CASE Belonging!Tell(c)
  BY <1>3 DEF Belonging!Tell, Belonging!Go
<1>4. CASE Belonging!Untell(c)
  BY <1>4 DEF Belonging!Untell, Belonging!Go
<1>5. CASE Belonging!Cleanup(c)
  BY <1>5 DEF Belonging!Cleanup, Belonging!Go
<1>6. QED
  BY <1>1, <1>2, <1>3, <1>4, <1>5 DEF BelongingElse

(* When a story expires. *)
LEMMA BelongingExpiry ==
  ASSUME Belonging!BelongingsAssumption, clock \in 0 .. MaxTime
  PROVE  clock + Lifetime \in 0 .. (MaxTime + Lifetime)
BY DEF Belonging!BelongingsAssumption

(* Photos stay in the albums of users, stories within a lifetime of the clock. *)
LEMMA BelongingShelfKept ==
  ASSUME Belonging!BelongingsAssumption, BelongingFits, NEW c \in FewCalls, BelongingElse(c)
  PROVE  BelongingShelf'
<1> USE DEF BelongingShelf
<1>1. BelongingShelf
  BY DEF BelongingFits
<1>2. CASE Belonging!Delete(c)
  BY <1>1, <1>2 DEF Belonging!Delete, Belonging!mine
<1>3. CASE Belonging!Album(c)
  <2>1. ask[c].by \in Users
    BY <1>3 DEF Belonging!Album, BelongingFits, BelongingAsked, BelongingAsk
  <2>2. \E p \in Photos : photo' = [photo EXCEPT ![p] = AlbumOf[ask[c].by]] \/ photo' = [photo EXCEPT ![p] = None]
    BY <1>3 DEF Belonging!Album
  <2>3. UNCHANGED <<story, clock>>
    BY <1>3 DEF Belonging!Album
  <2>4. QED
    BY <1>1, <2>1, <2>2, <2>3
<1>4. CASE Belonging!Tell(c)
  <2>1. story' = [story EXCEPT ![ask[c].by] = clock + Lifetime] /\ UNCHANGED <<photo, clock>>
    BY <1>4 DEF Belonging!Tell
  <2>2. clock + Lifetime \in 0 .. (MaxTime + Lifetime)
    BY <1>1, BelongingExpiry
  <2>3. QED
    BY <1>1, <2>1, <2>2
<1>5. CASE Belonging!Untell(c)
  BY <1>1, <1>5 DEF Belonging!Untell
<1>6. CASE Belonging!Cleanup(c)
  BY <1>1, <1>6 DEF Belonging!Cleanup
<1>7. QED
  BY <1>2, <1>3, <1>4, <1>5, <1>6 DEF BelongingElse

BelongingStep(c) == Belonging!Start(c) \/ Belonging!Find(c) \/ Belonging!Write(c) \/ BelongingElse(c)

(* The other requests are where they were. *)
LEMMA BelongingOthers ==
  ASSUME Belonging!BelongingsAssumption, BelongingFits, NEW c \in FewCalls, BelongingStep(c)
  PROVE  \A d \in FewCalls \ {c} : at'[d] = at[d] /\ ask'[d] = ask[d] /\ got'[d] = got[d]
<1>1. CASE Belonging!Start(c)
  <2>1. PICK r \in {q \in Belonging!Request : BelongingAsk(q)}, l \in Belonging!Ops \cup {"find", "write own", "album"} :
           /\ at[c] = "new" /\ ask' = [ask EXCEPT ![c] = r] /\ at' = [at EXCEPT ![c] = l]
           /\ l \in {"find", "write own"} => r.op = "update"
           /\ l = "write own" => DOMAIN r.gives = Belonging!Fields[r.thing]
           /\ mixed' = (mixed \/ (r.op = "update" /\ \E d \in FewCalls : Belonging!Active(d) /\ ask[d].op = "update" /\ ask[d].thing = r.thing))
           /\ UNCHANGED <<row, photo, story, clock, got, said>>
    BY <1>1, BelongingBegins
  <2>2. QED
    BY <2>1 DEF BelongingFits, BelongingSlots
<1>2. CASE Belonging!Find(c)
  BY <1>2, BelongingFinds DEF BelongingFits, BelongingSlots
<1>3. CASE Belonging!Write(c)
  <2>1. at' = [at EXCEPT ![c] = "done"] /\ UNCHANGED <<ask, got>>
    BY <1>3 DEF Belonging!Write, Belonging!Go
  <2>2. QED
    BY <2>1 DEF BelongingFits, BelongingSlots
<1>4. CASE BelongingElse(c)
  BY <1>4, BelongingElses DEF BelongingFits, BelongingSlots
<1>5. QED
  BY <1>1, <1>2, <1>3, <1>4 DEF BelongingStep

(* A statement keeps the shape of what it touches. *)
LEMMA BelongingShape ==
  ASSUME Belonging!BelongingsAssumption, BelongingFits, NEW c \in FewCalls, BelongingStep(c)
  PROVE  BelongingSlots' /\ BelongingRows' /\ BelongingShelf' /\ BelongingAsked(c)' /\ (mixed => mixed')
<1>1. BelongingSlots /\ BelongingRows /\ BelongingShelf /\ BelongingAsked(c)
  BY DEF BelongingFits
<1>2. CASE Belonging!Start(c)
  <2>1. PICK r \in {q \in Belonging!Request : BelongingAsk(q)}, l \in Belonging!Ops \cup {"find", "write own", "album"} :
           /\ at[c] = "new" /\ ask' = [ask EXCEPT ![c] = r] /\ at' = [at EXCEPT ![c] = l]
           /\ l \in {"find", "write own"} => r.op = "update"
           /\ l = "write own" => DOMAIN r.gives = Belonging!Fields[r.thing]
           /\ mixed' = (mixed \/ (r.op = "update" /\ \E d \in FewCalls : Belonging!Active(d) /\ ask[d].op = "update" /\ ask[d].thing = r.thing))
           /\ UNCHANGED <<row, photo, story, clock, got, said>>
    BY <1>2, BelongingBegins
  <2>2. ask'[c] = r /\ at'[c] = l /\ BelongingAsk(r) /\ l # "write"
    BY <1>1, <2>1 DEF BelongingSlots, Belonging!Ops
  <2>3. BelongingAsked(c)'
    BY <2>1, <2>2 DEF BelongingAsked, BelongingAsk
  <2>4. BelongingSlots' /\ (mixed => mixed')
    BY <1>1, <2>1 DEF BelongingSlots
  <2>5. BelongingRows' /\ BelongingShelf'
    BY <1>1, <2>1 DEF BelongingRows, BelongingShelf
  <2>6. QED
    BY <2>3, <2>4, <2>5
<1>3. CASE Belonging!Find(c)
  <2>1. BelongingSlots' /\ BelongingRows' /\ BelongingShelf' /\ (mixed => mixed')
    BY <1>1, <1>3, BelongingFinds DEF BelongingSlots, BelongingRows, BelongingShelf
  <2>2. CASE row[ask[c].thing] # None /\ got' = [got EXCEPT ![c] = row[ask[c].thing].fields] /\ at' = [at EXCEPT ![c] = "write"]
    <3>1. BelongingAsk(ask[c]) /\ ask' = ask /\ ask[c].op = "update"
      BY <1>1, <1>3, BelongingFinds DEF BelongingAsked
    <3>2. row[ask[c].thing].fields \in [Belonging!Fields[ask[c].thing] -> Belonging!Values]
      BY <1>1, <2>2, <3>1 DEF BelongingRows, BelongingAsk
    <3>3. QED
      BY <1>1, <2>1, <2>2, <3>1, <3>2 DEF BelongingAsked, BelongingSlots, BelongingAsk
  <2>3. CASE at' = [at EXCEPT ![c] = "done"]
    <3>1. BelongingAsk(ask[c]) /\ ask' = ask
      BY <1>1, <1>3, BelongingFinds DEF BelongingAsked
    <3>2. QED
      BY <1>1, <2>1, <2>3, <3>1 DEF BelongingAsked, BelongingSlots, BelongingAsk
  <2>4. QED
    BY <1>3, <2>2, <2>3, BelongingFinds
<1>4. CASE Belonging!Write(c)
  <2> DEFINE k == ask[c].thing
  <2>1. at' = [at EXCEPT ![c] = "done"] /\ UNCHANGED <<ask, photo, story, clock, got, mixed>> /\ BelongingAsk(ask[c])
    BY <1>4, BelongingWrites
  <2>2. BelongingRows'
    <3>1. CASE UNCHANGED <<row, said>>
      BY <1>1, <3>1 DEF BelongingRows
    <3>2. CASE \E w \in [Belonging!Fields[k] -> Belonging!Values] : row[k] # None /\ row' = [row EXCEPT ![k].fields = w] /\ DOMAIN said' = Belonging!AllFields
      <4>1. PICK w \in [Belonging!Fields[k] -> Belonging!Values] : row[k] # None /\ row' = [row EXCEPT ![k].fields = w] /\ DOMAIN said' = Belonging!AllFields
        BY <3>2
      <4>2. k \in Belonging!Things
        BY <2>1 DEF BelongingAsk
      <4>3. row[k] \in [owner : Users, fields : [Belonging!Fields[k] -> Belonging!Values]]
        BY <1>1, <4>1, <4>2 DEF BelongingRows
      <4>4. [row[k] EXCEPT !.fields = w] \in [owner : Users, fields : [Belonging!Fields[k] -> Belonging!Values]]
        BY <4>3
      <4>5. row'[k] = [row[k] EXCEPT !.fields = w] /\ DOMAIN row' = DOMAIN row /\ \A j \in Belonging!Things \ {k} : row'[j] = row[j]
        BY <1>1, <4>1, <4>2 DEF BelongingRows
      <4>6. QED
        BY <1>1, <4>1, <4>4, <4>5 DEF BelongingRows
    <3>3. QED
      BY <1>4, <3>1, <3>2, BelongingWrites
  <2>3. BelongingSlots' /\ BelongingShelf' /\ BelongingAsked(c)'
    BY <1>1, <2>1 DEF BelongingSlots, BelongingShelf, BelongingAsked, BelongingAsk
  <2>4. QED
    BY <2>1, <2>2, <2>3
<1>5. CASE BelongingElse(c)
  <2>1. at[c] # "new" /\ at' = [at EXCEPT ![c] = "done"] /\ UNCHANGED <<ask, got, said, mixed>>
    BY <1>5, BelongingElses
  <2>2. BelongingSlots' /\ BelongingAsked(c)'
    BY <1>1, <2>1 DEF BelongingSlots, BelongingAsked, BelongingAsk
  <2>3. BelongingRows'
    BY <1>1, <1>5, BelongingElses DEF BelongingRows
  <2>4. QED
    BY <1>5, <2>1, <2>2, <2>3, BelongingShelfKept
<1>6. QED
  BY <1>2, <1>3, <1>4, <1>5 DEF BelongingStep

-----------------------------------------------------------------------------
(* While no two updates of a thing overlap, one of them runs at a time. *)
LEMMA BelongingAloneKept ==
  ASSUME Belonging!BelongingsAssumption, BelongingInv, NEW c \in FewCalls, BelongingStep(c)
  PROVE  BelongingAlone'
<1>1. BelongingFits /\ BelongingSlots
  BY DEF BelongingInv, BelongingFits
<1>2. (\A d \in FewCalls \ {c} : at'[d] = at[d] /\ ask'[d] = ask[d]) /\ (mixed => mixed')
  BY <1>1, BelongingOthers, BelongingShape
<1>3. ~mixed => \A d, e \in FewCalls : \A k \in Belonging!Things : BelongingUpdates(d, k) /\ BelongingUpdates(e, k) => d = e
  BY DEF BelongingInv, BelongingAlone
<1>4. \A d \in FewCalls \ {c} : \A k \in Belonging!Things : BelongingUpdates(d, k)' => BelongingUpdates(d, k)
  BY <1>2 DEF BelongingUpdates, Belonging!Active
<1>5. CASE Belonging!Start(c)
  <2>1. PICK r \in {q \in Belonging!Request : BelongingAsk(q)}, l \in Belonging!Ops \cup {"find", "write own", "album"} :
           /\ at[c] = "new" /\ ask' = [ask EXCEPT ![c] = r] /\ at' = [at EXCEPT ![c] = l]
           /\ l \in {"find", "write own"} => r.op = "update"
           /\ l = "write own" => DOMAIN r.gives = Belonging!Fields[r.thing]
           /\ mixed' = (mixed \/ (r.op = "update" /\ \E d \in FewCalls : Belonging!Active(d) /\ ask[d].op = "update" /\ ask[d].thing = r.thing))
           /\ UNCHANGED <<row, photo, story, clock, got, said>>
    BY <1>5, BelongingBegins
  <2>2. ask'[c] = r
    BY <1>1, <2>1 DEF BelongingSlots
  <2>3. ~mixed' => \A d \in FewCalls : \A k \in Belonging!Things : BelongingUpdates(c, k)' => ~BelongingUpdates(d, k)
    BY <2>1, <2>2 DEF BelongingUpdates
  <2>4. QED
    BY <1>2, <1>3, <1>4, <2>3 DEF BelongingAlone
<1>6. CASE ~Belonging!Start(c)
  <2>1. ask' = ask /\ at[c] \notin {"new", "done"}
    <3>1. CASE Belonging!Find(c)
      BY <1>1, <3>1, BelongingFinds
    <3>2. CASE Belonging!Write(c)
      BY <3>2 DEF Belonging!Write, Belonging!Go
    <3>3. CASE BelongingElse(c)
      BY <1>1, <3>3, BelongingElses
    <3>4. QED
      BY <1>6, <3>1, <3>2, <3>3 DEF BelongingStep
  <2>2. \A k \in Belonging!Things : BelongingUpdates(c, k)' => BelongingUpdates(c, k)
    BY <2>1 DEF BelongingUpdates, Belonging!Active
  <2>3. QED
    BY <1>2, <1>3, <1>4, <2>2 DEF BelongingAlone
<1>7. QED
  BY <1>5, <1>6

(* Fields that do not change are read and kept as before. *)
LEMMA BelongingStill ==
  ASSUME Belonging!BelongingsAssumption, BelongingInv, NEW c \in FewCalls, BelongingStep(c), said' = said,
         \A k \in Belonging!Things : row'[k] # None => row[k] # None /\ row'[k] = row[k],
         at'[c] = "write" => ask'[c].thing \in Belonging!Things /\ got'[c] = row[ask'[c].thing].fields
  PROVE  (\A d \in FewCalls : BelongingRead(d)') /\ Belonging!LastGivenKept'
<1>1. BelongingFits
  BY DEF BelongingInv
<1>2. (\A d \in FewCalls \ {c} : at'[d] = at[d] /\ ask'[d] = ask[d] /\ got'[d] = got[d]) /\ (mixed => mixed')
  BY <1>1, BelongingOthers, BelongingShape
<1>3. BelongingRead(c)'
  BY DEF BelongingRead
<1>4. ASSUME NEW d \in FewCalls \ {c} PROVE BelongingRead(d)'
  <2>1. at[d] = "write" => ask[d].thing \in Belonging!Things
    BY <1>1 DEF BelongingFits, BelongingAsked, BelongingAsk
  <2>2. BelongingRead(d)
    BY DEF BelongingInv
  <2>3. QED
    BY <1>2, <2>1, <2>2 DEF BelongingRead
<1>5. Belonging!LastGivenKept'
  <2>1. ~mixed => \A k \in Belonging!Things : row[k] # None => \A f \in Belonging!Fields[k] : row[k].fields[f] = said[f]
    BY DEF BelongingInv, Belonging!LastGivenKept
  <2>2. QED
    BY <1>2, <2>1 DEF Belonging!LastGivenKept
<1>6. QED
  BY <1>3, <1>4, <1>5

(* An update keeps what it does not give. *)
LEMMA BelongingWriteKept ==
  ASSUME Belonging!BelongingsAssumption, BelongingInv, NEW c \in FewCalls, Belonging!Write(c)
  PROVE  (\A d \in FewCalls : BelongingRead(d)') /\ Belonging!LastGivenKept'
<1> DEFINE k == ask[c].thing
<1>1. BelongingFits /\ BelongingSlots /\ BelongingRows /\ BelongingStep(c)
  BY DEF BelongingInv, BelongingFits, BelongingStep
<1>2. /\ at[c] \in {"write own", "write"} /\ at' = [at EXCEPT ![c] = "done"] /\ UNCHANGED <<ask, photo, story, clock, got, mixed>>
      /\ BelongingAsk(ask[c]) /\ ask[c].op = "update"
  BY <1>1, BelongingWrites
<1>3. at'[c] # "write"
  BY <1>1, <1>2 DEF BelongingSlots
<1>4. CASE UNCHANGED <<row, said>>
  BY <1>1, <1>3, <1>4, BelongingStill
<1>5. CASE ~UNCHANGED <<row, said>>
  <2>1. row[k] # None /\ DOMAIN said' = Belonging!AllFields
        /\ \A f \in Belonging!AllFields : said'[f] = IF f \in DOMAIN ask[c].gives THEN ask[c].gives[f] ELSE said[f]
    BY <1>1, <1>5, BelongingWrites
  <2>2. PICK w \in [Belonging!Fields[k] -> Belonging!Values] :
             /\ row' = [row EXCEPT ![k].fields = w]
             /\ \A f \in Belonging!Fields[k] : IF f \in DOMAIN ask[c].gives THEN w[f] = ask[c].gives[f] ELSE at[c] = "write" /\ w[f] = got[c][f]
    BY <1>1, <1>5, BelongingWrites
  <2>3. k \in Belonging!Things /\ DOMAIN ask[c].gives \subseteq Belonging!Fields[k]
    BY <1>2 DEF BelongingAsk
  <2>4. row'[k].fields = w /\ \A j \in Belonging!Things \ {k} : row'[j] = row[j]
    <3>1. row[k] \in [owner : Users, fields : [Belonging!Fields[k] -> Belonging!Values]] /\ DOMAIN row = Belonging!Things
      BY <1>1, <2>1, <2>3 DEF BelongingRows
    <3>2. [row[k] EXCEPT !.fields = w].fields = w
      BY <3>1
    <3>3. row'[k] = [row[k] EXCEPT !.fields = w] /\ \A j \in Belonging!Things \ {k} : row'[j] = row[j]
      BY <2>2, <2>3, <3>1
    <3>4. QED
      BY <3>2, <3>3
  <2>5. ASSUME ~mixed PROVE \A f \in Belonging!Fields[k] : w[f] = said'[f]
    <3>1. \A f \in Belonging!Fields[k] : row[k].fields[f] = said[f]
      BY <2>1, <2>3, <2>5 DEF BelongingInv, Belonging!LastGivenKept
    <3>2. at[c] = "write" => got[c] = row[k].fields
      BY <2>1, <2>5 DEF BelongingInv, BelongingRead
    <3>3. Belonging!Fields[k] \subseteq Belonging!AllFields
      BY <2>3, BelongingFields
    <3>4. QED
      BY <2>1, <2>2, <3>1, <3>2, <3>3
  <2>6. ASSUME NEW j \in Belonging!Things \ {k}, NEW f \in Belonging!Fields[j] PROVE said'[f] = said[f]
    <3>1. f \notin DOMAIN ask[c].gives /\ f \in Belonging!AllFields
      BY <2>3, <2>6, BelongingFields
    <3>2. QED
      BY <2>1, <3>1
  <2>7. Belonging!LastGivenKept'
    <3>1. ASSUME ~mixed, NEW j \in Belonging!Things, row'[j] # None, NEW f \in Belonging!Fields[j] PROVE row'[j].fields[f] = said'[f]
      <4>1. CASE j = k
        BY <2>4, <2>5, <3>1, <4>1
      <4>2. CASE j # k
        <5>1. row'[j] = row[j] /\ said'[f] = said[f]
          BY <2>4, <2>6, <4>2
        <5>2. row[j].fields[f] = said[f]
          BY <3>1, <5>1 DEF BelongingInv, Belonging!LastGivenKept
        <5>3. QED
          BY <5>1, <5>2
      <4>3. QED
        BY <4>1, <4>2
    <3>2. QED
      BY <1>2, <3>1 DEF Belonging!LastGivenKept
  <2>8. ASSUME NEW d \in FewCalls PROVE BelongingRead(d)'
    <3>1. CASE d = c
      BY <1>3, <3>1 DEF BelongingRead
    <3>2. CASE d # c
      <4>1. at'[d] = at[d] /\ ask'[d] = ask[d] /\ got'[d] = got[d] /\ mixed' = mixed
        BY <1>1, <1>2, <3>2, BelongingOthers
      <4>2. ASSUME ~mixed, at[d] = "write" PROVE ask[d].thing \in Belonging!Things \ {k}
        <5>1. BelongingAsk(ask[d]) /\ ask[d].op = "update"
          BY <1>1, <4>2 DEF BelongingFits, BelongingAsked
        <5>2. BelongingUpdates(c, k)
          BY <1>2 DEF BelongingUpdates, Belonging!Active
        <5>3. ask[d].thing = k => BelongingUpdates(d, k)
          BY <4>2, <5>1 DEF BelongingUpdates, Belonging!Active
        <5>4. QED
          BY <2>3, <3>2, <4>2, <5>1, <5>2, <5>3 DEF BelongingInv, BelongingAlone, BelongingAsk
      <4>3. BelongingRead(d)
        BY DEF BelongingInv
      <4>4. QED
        BY <2>4, <4>1, <4>2, <4>3 DEF BelongingRead
    <3>3. QED
      BY <3>1, <3>2
  <2>9. QED
    BY <2>7, <2>8
<1>6. QED
  BY <1>4, <1>5

(* Every step of the belongings keeps the invariant. *)
LEMMA BelongingKept ==
  ASSUME Belonging!BelongingsAssumption, BelongingInv, Belonging!Next
  PROVE  BelongingInv'
<1>1. BelongingFits /\ BelongingSlots /\ BelongingRows
  BY DEF BelongingInv, BelongingFits
<1>2. ASSUME NEW c \in FewCalls, BelongingStep(c) PROVE BelongingInv'
  <2>1. BelongingFits'
    <3>1. BelongingSlots' /\ BelongingRows' /\ BelongingShelf' /\ BelongingAsked(c)'
      BY <1>1, <1>2, BelongingShape
    <3>2. ASSUME NEW d \in FewCalls \ {c} PROVE BelongingAsked(d)'
      <4>1. at'[d] = at[d] /\ ask'[d] = ask[d] /\ got'[d] = got[d]
        BY <1>1, <1>2, BelongingOthers
      <4>2. BelongingAsked(d)
        BY <1>1 DEF BelongingFits
      <4>3. QED
        BY <4>1, <4>2 DEF BelongingAsked
    <3>3. QED
      BY <3>1, <3>2 DEF BelongingFits
  <2>2. BelongingAlone'
    BY <1>2, BelongingAloneKept
  <2>3. (\A d \in FewCalls : BelongingRead(d)') /\ Belonging!LastGivenKept'
    <3>1. CASE Belonging!Start(c)
      <4>1. PICK r \in {q \in Belonging!Request : BelongingAsk(q)}, l \in Belonging!Ops \cup {"find", "write own", "album"} :
           /\ at[c] = "new" /\ ask' = [ask EXCEPT ![c] = r] /\ at' = [at EXCEPT ![c] = l]
           /\ l \in {"find", "write own"} => r.op = "update"
           /\ l = "write own" => DOMAIN r.gives = Belonging!Fields[r.thing]
           /\ mixed' = (mixed \/ (r.op = "update" /\ \E d \in FewCalls : Belonging!Active(d) /\ ask[d].op = "update" /\ ask[d].thing = r.thing))
           /\ UNCHANGED <<row, photo, story, clock, got, said>>
        BY <3>1, BelongingBegins
      <4>2. at'[c] # "write" /\ UNCHANGED <<row, said>>
        BY <1>1, <4>1 DEF BelongingSlots, Belonging!Ops
      <4>3. QED
        BY <1>2, <4>2, BelongingStill
    <3>2. CASE Belonging!Find(c)
      <4>1. ask' = ask /\ UNCHANGED <<row, said>>
        BY <1>1, <3>2, BelongingFinds
      <4>2. at'[c] = "write" => got'[c] = row[ask[c].thing].fields
        BY <1>1, <3>2, BelongingFinds DEF BelongingSlots
      <4>3. ask[c].thing \in Belonging!Things
        BY <1>1, <3>2 DEF Belonging!Find, BelongingFits, BelongingAsked, BelongingAsk
      <4>4. QED
        BY <1>2, <4>1, <4>2, <4>3, BelongingStill
    <3>3. CASE Belonging!Write(c)
      BY <3>3, BelongingWriteKept
    <3>4. CASE BelongingElse(c)
      <4>1. at'[c] # "write" /\ said' = said
        BY <1>1, <3>4, BelongingElses DEF BelongingSlots
      <4>2. \A k \in Belonging!Things : row'[k] # None => row[k] # None /\ row'[k] = row[k]
        BY <1>1, <3>4, BelongingElses DEF BelongingRows
      <4>3. QED
        BY <1>2, <4>1, <4>2, BelongingStill
    <3>5. QED
      BY <1>2, <3>1, <3>2, <3>3, <3>4 DEF BelongingStep
  <2>4. QED
    BY <2>1, <2>2, <2>3 DEF BelongingInv
<1>3. CASE Belonging!Tick
  <2>1. clock < MaxTime /\ clock' = clock + 1 /\ UNCHANGED <<row, photo, story, ask, at, got, said, mixed>>
    BY <1>3 DEF Belonging!Tick
  <2>2. clock \in 0 .. MaxTime /\ MaxTime \in Nat
    BY <1>1 DEF BelongingFits, BelongingShelf, Belonging!BelongingsAssumption
  <2>3. clock' \in 0 .. MaxTime
    BY <2>1, <2>2
  <2>4. UNCHANGED <<row, photo, story, ask, at, got, said, mixed>>
    BY <2>1
  <2>5. QED
    BY <2>3, <2>4 DEF BelongingInv, BelongingFits, BelongingSlots, BelongingRows, BelongingShelf, BelongingAsked,
      BelongingAlone, BelongingUpdates, Belonging!Active, BelongingRead, Belonging!LastGivenKept
<1>4. QED
  BY <1>2, <1>3 DEF Belonging!Next, BelongingStep, BelongingElse

(* It holds before any request. *)
LEMMA BelongingInit ==
  ASSUME Belonging!BelongingsAssumption, Belonging!Init
  PROVE  BelongingInv
<1>1. BelongingSlots
  BY DEF Belonging!Init, BelongingSlots
<1>2. PICK u \in Users : row = [k \in Belonging!Things |-> [owner |-> u, fields |-> [f \in Belonging!Fields[k] |-> 1]]]
  BY DEF Belonging!Init
<1>3. said = [f \in Belonging!AllFields |-> 1] /\ 1 \in Belonging!Values
  BY DEF Belonging!Init, Belonging!Values
<1>4. \A k \in Belonging!Things : row[k] \in [owner : Users, fields : [Belonging!Fields[k] -> Belonging!Values]] /\ \A f \in Belonging!Fields[k] : row[k].fields[f] = said[f]
  BY <1>2, <1>3, BelongingFields
<1>5. BelongingRows /\ Belonging!LastGivenKept
  BY <1>2, <1>3, <1>4 DEF BelongingRows, Belonging!LastGivenKept
<1>6. BelongingShelf
  <2>1. clock = 0 /\ MaxTime \in Nat
    BY DEF Belonging!Init, Belonging!BelongingsAssumption
  <2>2. clock \in 0 .. MaxTime
    BY <2>1
  <2>3. photo = [p \in Photos |-> None] /\ story = [v \in Users |-> None]
    BY DEF Belonging!Init
  <2>4. QED
    BY <2>2, <2>3 DEF BelongingShelf
<1>7. \A c \in FewCalls : BelongingAsked(c) /\ BelongingRead(c) /\ at[c] = "new"
  BY DEF Belonging!Init, BelongingAsked, BelongingRead
<1>8. BelongingAlone
  BY <1>7 DEF BelongingAlone, BelongingUpdates, Belonging!Active
<1>9. QED
  BY <1>1, <1>5, <1>6, <1>7, <1>8 DEF BelongingInv, BelongingFits

(* What was given last is kept. *)
LEMMA BelongingHolds ==
  ASSUME BelongingInv
  PROVE  Belonging!LastGivenKept /\ Belonging!TypeOK
<1>1. \A k \in Belonging!Things : row[k] # None => row[k].owner \in Users /\ row[k].fields \in [Belonging!Fields[k] -> Belonging!Values]
  BY DEF BelongingInv, BelongingFits, BelongingRows
<1>2. QED
  BY <1>1 DEF BelongingInv, BelongingFits, BelongingSlots, BelongingShelf, Belonging!TypeOK

-----------------------------------------------------------------------------
(* Notifications.  The requests, the rows, and what a request at a statement asks: a
   notification that is about to be marked is its user's, if it is still there. *)
NoticeLabels == {"new", "done", "find", "write", "push", "flush", "cache", "load", "store"}
NoticeSlots ==
  /\ at \in [FewCalls -> NoticeLabels] /\ DOMAIN ask = FewCalls /\ DOMAIN got = FewCalls /\ torn \in BOOLEAN
  /\ DOMAIN lists = Users /\ \A u \in Users : DOMAIN lists[u] = Notice!Lists
NoticeRows ==
  /\ last \in 0 .. MaxNotes /\ pushed \subseteq 1 .. last
  /\ notes \subseteq [id: 1 .. last, of: Users, read: BOOLEAN] /\ \A m, k \in notes : m.id = k.id => m = k
NoticeAsked(c) ==
  /\ at[c] # "new" => ask[c] \in [kind: Notice!Writes \cup Notice!Lists, by: Users, id: 1 .. MaxNotes, read: BOOLEAN]
  /\ at[c] \in {"cache", "load", "store"} => ask[c].kind \in Notice!Lists
  /\ at[c] = "push" => got[c] \subseteq 1 .. last
  /\ at[c] = "write" /\ ask[c].kind \in {"setStatus", "markRead"} => ask[c].id \in 1 .. last /\ \A m \in notes : m.id = ask[c].id => m.of = ask[c].by
  /\ at[c] = "find" => ask[c].kind \in {"setStatus", "markRead"}
NoticeFits == NoticeSlots /\ NoticeRows /\ \A c \in FewCalls : NoticeAsked(c)
NoticeRead(c) == ~torn /\ at[c] = "store" => got[c] = Notice!Rows(ask[c].by, ask[c].kind)
NoticeInv == NoticeFits /\ (\A c \in FewCalls : NoticeRead(c)) /\ Notice!NoticesCurrent

(* A request other than a write. *)
NoticeQuietly(c) ==
  \/ Notice!Start(c) \/ Notice!Find(c) \/ Notice!Push(c) \/ Notice!Flush(c) \/ Notice!Cached(c) \/ Notice!Load(c)
  \/ Notice!Store(c) \/ Notice!Crash(c)
NoticeStep(c) == NoticeQuietly(c) \/ Notice!Write(c)

(* A request moves on alone. *)
LEMMA NoticeMoves ==
  ASSUME NoticeSlots, NEW c \in FewCalls, NoticeStep(c)
  PROVE  /\ \E l \in NoticeLabels : at' = [at EXCEPT ![c] = l]
         /\ DOMAIN ask' = FewCalls /\ \A d \in FewCalls \ {c} : ask'[d] = ask[d]
         /\ DOMAIN got' = FewCalls /\ \A d \in FewCalls \ {c} : got'[d] = got[d]
         /\ (at[c] \notin {"new", "find"} => ask' = ask)
<1> USE DEF NoticeSlots, NoticeLabels
<1>1. CASE Notice!Start(c)
  <2>1. \E l \in NoticeLabels : at' = [at EXCEPT ![c] = l]
    BY <1>1 DEF Notice!Start, Notice!Go, Notice!rows
  <2>2. DOMAIN ask' = FewCalls /\ (\A d \in FewCalls \ {c} : ask'[d] = ask[d]) /\ (at[c] \notin {"new", "find"} => ask' = ask)
    BY <1>1 DEF Notice!Start, Notice!Go, Notice!rows
  <2>3. DOMAIN got' = FewCalls /\ \A d \in FewCalls \ {c} : got'[d] = got[d]
    BY <1>1 DEF Notice!Start, Notice!Go, Notice!rows
  <2>4. QED
    BY <2>1, <2>2, <2>3
<1>2. CASE Notice!Find(c)
  <2>1. \E l \in NoticeLabels : at' = [at EXCEPT ![c] = l]
    BY <1>2 DEF Notice!Find, Notice!Go, Notice!rows
  <2>2. DOMAIN ask' = FewCalls /\ (\A d \in FewCalls \ {c} : ask'[d] = ask[d]) /\ (at[c] \notin {"new", "find"} => ask' = ask)
    BY <1>2 DEF Notice!Find, Notice!Go, Notice!rows
  <2>3. DOMAIN got' = FewCalls /\ \A d \in FewCalls \ {c} : got'[d] = got[d]
    BY <1>2 DEF Notice!Find, Notice!Go, Notice!rows
  <2>4. QED
    BY <2>1, <2>2, <2>3
<1>3. CASE Notice!Write(c)
  <2>1. \E l \in NoticeLabels : at' = [at EXCEPT ![c] = l]
    BY <1>3 DEF Notice!Write, Notice!Go, Notice!rows
  <2>2. DOMAIN ask' = FewCalls /\ (\A d \in FewCalls \ {c} : ask'[d] = ask[d]) /\ (at[c] \notin {"new", "find"} => ask' = ask)
    BY <1>3 DEF Notice!Write, Notice!Go, Notice!rows
  <2>3. DOMAIN got' = FewCalls /\ \A d \in FewCalls \ {c} : got'[d] = got[d]
    BY <1>3 DEF Notice!Write, Notice!Go, Notice!rows
  <2>4. QED
    BY <2>1, <2>2, <2>3
<1>4. CASE Notice!Push(c)
  <2>1. \E l \in NoticeLabels : at' = [at EXCEPT ![c] = l]
    BY <1>4 DEF Notice!Push, Notice!Go, Notice!rows
  <2>2. DOMAIN ask' = FewCalls /\ (\A d \in FewCalls \ {c} : ask'[d] = ask[d]) /\ (at[c] \notin {"new", "find"} => ask' = ask)
    BY <1>4 DEF Notice!Push, Notice!Go, Notice!rows
  <2>3. DOMAIN got' = FewCalls /\ \A d \in FewCalls \ {c} : got'[d] = got[d]
    BY <1>4 DEF Notice!Push, Notice!Go, Notice!rows
  <2>4. QED
    BY <2>1, <2>2, <2>3
<1>5. CASE Notice!Flush(c)
  <2>1. \E l \in NoticeLabels : at' = [at EXCEPT ![c] = l]
    BY <1>5 DEF Notice!Flush, Notice!Go, Notice!rows
  <2>2. DOMAIN ask' = FewCalls /\ (\A d \in FewCalls \ {c} : ask'[d] = ask[d]) /\ (at[c] \notin {"new", "find"} => ask' = ask)
    BY <1>5 DEF Notice!Flush, Notice!Go, Notice!rows
  <2>3. DOMAIN got' = FewCalls /\ \A d \in FewCalls \ {c} : got'[d] = got[d]
    BY <1>5 DEF Notice!Flush, Notice!Go, Notice!rows
  <2>4. QED
    BY <2>1, <2>2, <2>3
<1>6. CASE Notice!Cached(c)
  <2>1. \E l \in NoticeLabels : at' = [at EXCEPT ![c] = l]
    BY <1>6 DEF Notice!Cached, Notice!Go, Notice!rows
  <2>2. DOMAIN ask' = FewCalls /\ (\A d \in FewCalls \ {c} : ask'[d] = ask[d]) /\ (at[c] \notin {"new", "find"} => ask' = ask)
    BY <1>6 DEF Notice!Cached, Notice!Go, Notice!rows
  <2>3. DOMAIN got' = FewCalls /\ \A d \in FewCalls \ {c} : got'[d] = got[d]
    BY <1>6 DEF Notice!Cached, Notice!Go, Notice!rows
  <2>4. QED
    BY <2>1, <2>2, <2>3
<1>7. CASE Notice!Load(c)
  <2>1. \E l \in NoticeLabels : at' = [at EXCEPT ![c] = l]
    BY <1>7 DEF Notice!Load, Notice!Go, Notice!rows
  <2>2. DOMAIN ask' = FewCalls /\ (\A d \in FewCalls \ {c} : ask'[d] = ask[d]) /\ (at[c] \notin {"new", "find"} => ask' = ask)
    BY <1>7 DEF Notice!Load, Notice!Go, Notice!rows
  <2>3. DOMAIN got' = FewCalls /\ \A d \in FewCalls \ {c} : got'[d] = got[d]
    BY <1>7 DEF Notice!Load, Notice!Go, Notice!rows
  <2>4. QED
    BY <2>1, <2>2, <2>3
<1>8. CASE Notice!Store(c)
  <2>1. \E l \in NoticeLabels : at' = [at EXCEPT ![c] = l]
    BY <1>8 DEF Notice!Store, Notice!Go, Notice!rows
  <2>2. DOMAIN ask' = FewCalls /\ (\A d \in FewCalls \ {c} : ask'[d] = ask[d]) /\ (at[c] \notin {"new", "find"} => ask' = ask)
    BY <1>8 DEF Notice!Store, Notice!Go, Notice!rows
  <2>3. DOMAIN got' = FewCalls /\ \A d \in FewCalls \ {c} : got'[d] = got[d]
    BY <1>8 DEF Notice!Store, Notice!Go, Notice!rows
  <2>4. QED
    BY <2>1, <2>2, <2>3
<1>9. CASE Notice!Crash(c)
  <2>1. \E l \in NoticeLabels : at' = [at EXCEPT ![c] = l]
    BY <1>9 DEF Notice!Crash, Notice!Go, Notice!rows
  <2>2. DOMAIN ask' = FewCalls /\ (\A d \in FewCalls \ {c} : ask'[d] = ask[d]) /\ (at[c] \notin {"new", "find"} => ask' = ask)
    BY <1>9 DEF Notice!Crash, Notice!Go, Notice!rows
  <2>3. DOMAIN got' = FewCalls /\ \A d \in FewCalls \ {c} : got'[d] = got[d]
    BY <1>9 DEF Notice!Crash, Notice!Go, Notice!rows
  <2>4. QED
    BY <2>1, <2>2, <2>3
<1>10. QED
  BY <1>1, <1>2, <1>3, <1>4, <1>5, <1>6, <1>7, <1>8, <1>9 DEF NoticeStep, NoticeQuietly

(* Only a write changes the rows; other steps may push, read a list, or change a
   cached one. *)
LEMMA NoticeQuiets ==
  ASSUME NoticeFits, NEW c \in FewCalls, NoticeQuietly(c)
  PROVE  /\ notes' = notes /\ last' = last /\ (torn => torn') /\ torn' \in BOOLEAN
         /\ pushed' \subseteq 1 .. last
         /\ DOMAIN lists' = Users /\ \A u \in Users : DOMAIN lists'[u] = Notice!Lists
<1> USE DEF NoticeFits, NoticeSlots, NoticeRows
<1>1. CASE Notice!Start(c)
  BY <1>1 DEF Notice!Start, Notice!Go, Notice!rows
<1>2. CASE Notice!Find(c)
  BY <1>2 DEF Notice!Find, Notice!Go, Notice!rows
<1>3. CASE Notice!Push(c)
  <2>1. notes' = notes /\ last' = last /\ torn' = torn /\ lists' = lists /\ pushed' = pushed \cup got[c] /\ got[c] \subseteq 1 .. last
    BY <1>3 DEF Notice!Push, Notice!Go, Notice!rows, NoticeAsked
  <2>2. QED
    BY <2>1
<1>4. CASE Notice!Flush(c)
  <2>1. notes' = notes /\ last' = last /\ torn' = torn /\ pushed' = pushed
    BY <1>4 DEF Notice!Flush, Notice!Go, Notice!rows
  <2>2. ask[c].by \in Users
    BY <1>4 DEF Notice!Flush, NoticeAsked
  <2>3. DOMAIN lists' = Users /\ \A u \in Users : DOMAIN lists'[u] = Notice!Lists
    BY <1>4, <2>2 DEF Notice!Flush
  <2>4. QED
    BY <2>1, <2>3
<1>5. CASE Notice!Cached(c)
  BY <1>5 DEF Notice!Cached, Notice!Go, Notice!rows
<1>6. CASE Notice!Load(c)
  BY <1>6 DEF Notice!Load, Notice!Go, Notice!rows
<1>7. CASE Notice!Store(c)
  <2>1. notes' = notes /\ last' = last /\ torn' = torn /\ pushed' = pushed
    BY <1>7 DEF Notice!Store, Notice!Go, Notice!rows
  <2>2. ask[c].by \in Users /\ ask[c].kind \in Notice!Lists
    BY <1>7 DEF Notice!Store, NoticeAsked
  <2>3. DOMAIN lists' = Users /\ \A u \in Users : DOMAIN lists'[u] = Notice!Lists
    BY <1>7, <2>2 DEF Notice!Store
  <2>4. QED
    BY <2>1, <2>3
<1>8. CASE Notice!Crash(c)
  BY <1>8 DEF Notice!Crash, Notice!Go, Notice!rows
<1>9. QED
  BY <1>1, <1>2, <1>3, <1>4, <1>5, <1>6, <1>7, <1>8 DEF NoticeQuietly

-----------------------------------------------------------------------------
(* A write touches notifications of its user alone. *)
LEMMA NoticeTouches ==
  ASSUME NoticeFits, NEW c \in FewCalls, Notice!Write(c)
  PROVE  /\ Notice!Touched(ask[c]) \subseteq notes /\ \A m \in Notice!Touched(ask[c]) : m.of = ask[c].by
         /\ ask[c].by \in Users /\ ask[c].read \in BOOLEAN
<1>1. at[c] = "write" /\ NoticeAsked(c)
  BY DEF NoticeFits, Notice!Write
<1>2. ask[c].by \in Users /\ ask[c].read \in BOOLEAN
        /\ (ask[c].kind \in {"setStatus", "markRead"} => \A m \in notes : m.id = ask[c].id => m.of = ask[c].by)
  BY <1>1 DEF NoticeAsked
<1>3. QED
  BY <1>2 DEF Notice!Touched, Notice!Own, Notice!Mine

(* What it makes of the rows: none, fewer, or the same ones read. *)
LEMMA NoticeWrites ==
  ASSUME NoticeFits, NEW c \in FewCalls, Notice!Write(c)
  PROVE  \/ /\ last' = last + 1 /\ last < MaxNotes /\ at'[c] = "push" /\ got'[c] = {last + 1}
            /\ notes' = notes \cup {[id |-> last + 1, of |-> ask[c].by, read |-> FALSE]}
         \/ /\ last' = last /\ at'[c] \in {"flush", "done"} /\ (at'[c] = "done" => Notice!Touched(ask[c]) = {})
            /\ \/ notes' = notes \ Notice!Touched(ask[c])
               \/ notes' = (notes \ Notice!Touched(ask[c])) \cup {[m EXCEPT !.read = ask[c].read] : m \in Notice!Touched(ask[c])}
<1> USE DEF NoticeFits, NoticeSlots
<1>1. CASE ask[c].kind = "create"
  BY <1>1 DEF Notice!Write, Notice!Go
<1>2. CASE ask[c].kind # "create"
  <2>1. last' = last
    BY <1>2 DEF Notice!Write
  <2>2. at'[c] \in {"flush", "done"} /\ (at'[c] = "done" => Notice!Touched(ask[c]) = {})
    BY <1>2 DEF Notice!Write, Notice!Go
  <2>3. \/ notes' = notes \ Notice!Touched(ask[c])
        \/ notes' = (notes \ Notice!Touched(ask[c])) \cup {[m EXCEPT !.read = ask[c].read] : m \in Notice!Touched(ask[c])}
    BY <1>2 DEF Notice!Write
  <2>4. QED
    BY <2>1, <2>2, <2>3
<1>3. QED
  BY <1>1, <1>2

(* A notification read is the same, read. *)
LEMMA NoticeMarks ==
  ASSUME NoticeRows, NEW m \in notes, NEW b \in BOOLEAN
  PROVE  LET k == [m EXCEPT !.read = b] IN
         k \in [id: 1 .. last, of: Users, read: BOOLEAN] /\ k.id = m.id /\ k.of = m.of /\ k.read = b
<1>1. m \in [id: 1 .. last, of: Users, read: BOOLEAN]
  BY DEF NoticeRows
<1>2. QED
  BY <1>1

(* Every row has its owner, and is new or as it was. *)
LEMMA NoticeHeirs ==
  ASSUME NoticeFits, NEW c \in FewCalls, Notice!Write(c)
  PROVE  /\ \A m \in notes' : (\E k \in notes : k.id = m.id /\ k.of = m.of) \/ (m.id = last + 1 /\ m.of = ask[c].by /\ last' = last + 1)
         /\ \A m \in notes' : m.of # ask[c].by => m \in notes
         /\ \A m \in notes : m.of # ask[c].by => m \in notes'
<1>0. /\ NoticeRows /\ Notice!Touched(ask[c]) \subseteq notes /\ \A m \in Notice!Touched(ask[c]) : m.of = ask[c].by
      /\ ask[c].read \in BOOLEAN
  BY NoticeTouches DEF NoticeFits
<1>1. \A m \in notes : LET k == [m EXCEPT !.read = ask[c].read] IN k.id = m.id /\ k.of = m.of
  BY <1>0, NoticeMarks
<1>2. CASE /\ last' = last + 1 /\ notes' = notes \cup {[id |-> last + 1, of |-> ask[c].by, read |-> FALSE]}
  BY <1>2
<1>3. CASE notes' = notes \ Notice!Touched(ask[c])
  BY <1>0, <1>3
<1>4. CASE notes' = (notes \ Notice!Touched(ask[c])) \cup {[m EXCEPT !.read = ask[c].read] : m \in Notice!Touched(ask[c])}
  BY <1>0, <1>1, <1>4
<1>5. QED
  BY <1>2, <1>3, <1>4, NoticeWrites

(* So nobody else's list changes. *)
LEMMA NoticeOthers ==
  ASSUME NoticeFits, NEW c \in FewCalls, Notice!Write(c), NEW u, u # ask[c].by, NEW l
  PROVE  Notice!Rows(u, l)' = Notice!Rows(u, l)
<1>1. \A m : m \in Notice!Mine(u)' <=> m \in Notice!Mine(u)
  BY NoticeHeirs DEF Notice!Mine
<1>2. Notice!Mine(u)' = Notice!Mine(u)
  BY <1>1
<1>3. QED
  BY <1>2 DEF Notice!Rows

(* The rows stay rows. *)
LEMMA NoticeRowsKept ==
  ASSUME NoticeFits, NEW c \in FewCalls, Notice!Write(c), MaxNotes \in Nat
  PROVE  NoticeRows' /\ last' \in {last, last + 1} /\ last \in Nat
<1>0. NoticeRows /\ Notice!Touched(ask[c]) \subseteq notes /\ ask[c].by \in Users /\ pushed' = pushed /\ ask[c].read \in BOOLEAN
  BY NoticeTouches DEF NoticeFits, Notice!Write
<1>1. last \in 0 .. MaxNotes /\ pushed \subseteq 1 .. last /\ (\A m, k \in notes : m.id = k.id => m = k)
        /\ notes \subseteq [id: 1 .. last, of: Users, read: BOOLEAN]
  BY <1>0 DEF NoticeRows
<1>2. CASE last' = last + 1 /\ last < MaxNotes /\ notes' = notes \cup {[id |-> last + 1, of |-> ask[c].by, read |-> FALSE]}
  <2>1. last' \in 0 .. MaxNotes /\ 1 .. last \subseteq 1 .. last' /\ last + 1 \in 1 .. last' /\ last + 1 \notin 1 .. last
    BY <1>1, <1>2
  <2>2. \A m \in notes : m.id \in 1 .. last /\ m.of \in Users /\ m.read \in BOOLEAN /\ m = [id |-> m.id, of |-> m.of, read |-> m.read]
    BY <1>1
  <2>3. notes' \subseteq [id: 1 .. last', of: Users, read: BOOLEAN]
    <3>1. [id |-> last + 1, of |-> ask[c].by, read |-> FALSE] \in [id: 1 .. last', of: Users, read: BOOLEAN]
      BY <1>0, <2>1
    <3>2. ASSUME NEW m \in notes PROVE m \in [id: 1 .. last', of: Users, read: BOOLEAN]
      <4>1. m \in [id: 1 .. last, of: Users, read: BOOLEAN]
        BY <1>1
      <4>2. QED
        BY <2>1, <4>1
    <3>3. QED
      BY <1>2, <3>1, <3>2
  <2>4. \A m, k \in notes' : m.id = k.id => m = k
    <3>1. [id |-> last + 1, of |-> ask[c].by, read |-> FALSE].id = last + 1 /\ \A m \in notes : m.id # last + 1
      BY <2>1, <2>2
    <3>2. QED
      BY <1>1, <1>2, <3>1
  <2>5. pushed' \subseteq 1 .. last'
    BY <1>0, <1>1, <2>1
  <2>6. QED
    BY <1>1, <1>2, <2>1, <2>3, <2>4, <2>5 DEF NoticeRows
<1>3. CASE last' = last /\ notes' = notes \ Notice!Touched(ask[c])
  BY <1>0, <1>1, <1>3 DEF NoticeRows
<1>4. CASE last' = last /\ notes' = (notes \ Notice!Touched(ask[c])) \cup {[m EXCEPT !.read = ask[c].read] : m \in Notice!Touched(ask[c])}
  <2>1. \A m \in notes : LET k == [m EXCEPT !.read = ask[c].read] IN k \in [id: 1 .. last, of: Users, read: BOOLEAN] /\ k.id = m.id
    BY <1>0, NoticeMarks
  <2>2. notes' \subseteq [id: 1 .. last, of: Users, read: BOOLEAN]
    BY <1>0, <1>1, <1>4, <2>1
  <2>3. \A m \in notes' : \E k \in notes : k.id = m.id /\ (IF k \in Notice!Touched(ask[c]) THEN m = [k EXCEPT !.read = ask[c].read] ELSE m = k)
    BY <1>0, <1>4, <2>1
  <2>4. \A m, k \in notes' : m.id = k.id => m = k
    BY <1>1, <2>3
  <2>5. QED
    BY <1>0, <1>1, <1>4, <2>2, <2>4 DEF NoticeRows
<1>5. QED
  BY <1>1, <1>2, <1>3, <1>4, NoticeWrites

-----------------------------------------------------------------------------
(* What a request is asked as it goes on. *)
LEMMA NoticeAskedKept ==
  ASSUME NoticeFits, MaxNotes \in Nat, NEW c \in FewCalls, NoticeStep(c)
  PROVE  \A d \in FewCalls : NoticeAsked(d)'
<1>0. NoticeSlots /\ (\A d \in FewCalls : NoticeAsked(d)) /\ NoticeRows /\ last \in Nat
  BY DEF NoticeFits, NoticeRows
<1>1. /\ \A d \in FewCalls \ {c} : at'[d] = at[d] /\ ask'[d] = ask[d] /\ got'[d] = got[d]
      /\ (at[c] \notin {"new", "find"} => ask' = ask)
  BY <1>0, NoticeMoves DEF NoticeSlots
<1>2. CASE NoticeQuietly(c)
  <2>1. notes' = notes /\ last' = last
    BY <1>2, NoticeQuiets
  <2>2. \A d \in FewCalls \ {c} : NoticeAsked(d)'
    BY <1>0, <1>1, <2>1 DEF NoticeAsked
  <2>3. NoticeAsked(c)'
    <3> USE DEF NoticeSlots
    <3>1. CASE Notice!Start(c)
      <4>1. PICK k \in Notice!Writes \cup Notice!Lists, u \in Users, i \in 1 .. MaxNotes, b \in BOOLEAN :
              /\ ask' = [ask EXCEPT ![c] = [kind |-> k, by |-> u, id |-> i, read |-> b]]
              /\ at' = [at EXCEPT ![c] = IF k \in Notice!Lists THEN "cache" ELSE IF k \in {"setStatus", "markRead"} THEN "find" ELSE "write"]
        BY <3>1 DEF Notice!Start
      <4>2. ask'[c] = [kind |-> k, by |-> u, id |-> i, read |-> b]
              /\ at'[c] = IF k \in Notice!Lists THEN "cache" ELSE IF k \in {"setStatus", "markRead"} THEN "find" ELSE "write"
        BY <1>0, <4>1
      <4>3. ask'[c].by = u /\ ask'[c].kind = k /\ ask'[c].read = b /\ ask'[c].id = i /\ at'[c] \in {"cache", "find", "write"}
        BY <4>2
      <4>4. at'[c] = "cache" => k \in Notice!Lists
        BY <4>2
      <4>5. (at'[c] = "find" => k \in {"setStatus", "markRead"}) /\ (at'[c] = "write" => k \notin {"setStatus", "markRead"})
        BY <4>2
      <4>6. QED
        BY <4>2, <4>3, <4>4, <4>5 DEF NoticeAsked
    <3>2. CASE Notice!Find(c)
      <4>1. CASE at'[c] = "done"
        <5>1. ask'[c] = ask[c]
          BY <1>0, <3>2, <4>1 DEF Notice!Find, Notice!Go
        <5>2. QED
          BY <1>0, <3>2, <4>1, <5>1 DEF NoticeAsked, Notice!Find
      <4>2. CASE at'[c] # "done"
        <5>1. PICK m \in Notice!Found(ask[c]) : ask' = [ask EXCEPT ![c].by = m.of] /\ at' = [at EXCEPT ![c] = "write"]
          BY <1>0, <3>2, <4>2 DEF Notice!Find, Notice!Go
        <5>2. at[c] = "find" /\ m \in notes /\ m.id = ask[c].id
          BY <3>2 DEF Notice!Find, Notice!Found, Notice!Own
        <5>3. ask'[c] = [ask[c] EXCEPT !.by = m.of] /\ at'[c] = "write"
          BY <1>0, <5>1
        <5>4. ask'[c].by = m.of /\ ask'[c].kind = ask[c].kind /\ ask'[c].read = ask[c].read /\ ask'[c].id = ask[c].id
          BY <1>0, <5>2, <5>3 DEF NoticeAsked
        <5>5. m.id \in 1 .. last /\ m.of \in Users /\ \A k \in notes : k.id = m.id => k = m
          BY <1>0, <5>2 DEF NoticeRows
        <5>6. QED
          BY <1>0, <2>1, <5>2, <5>3, <5>4, <5>5 DEF NoticeAsked
      <4>3. QED
        BY <4>1, <4>2
    <3>3. CASE Notice!Push(c)
      BY <1>0, <3>3 DEF Notice!Push, Notice!Go, Notice!rows, NoticeAsked
    <3>4. CASE Notice!Flush(c)
      BY <1>0, <3>4 DEF Notice!Flush, Notice!Go, Notice!rows, NoticeAsked
    <3>5. CASE Notice!Cached(c)
      BY <1>0, <3>5 DEF Notice!Cached, Notice!Go, Notice!rows, NoticeAsked
    <3>6. CASE Notice!Load(c)
      BY <1>0, <3>6 DEF Notice!Load, Notice!Go, Notice!rows, NoticeAsked
    <3>7. CASE Notice!Store(c)
      BY <1>0, <3>7 DEF Notice!Store, Notice!Go, Notice!rows, NoticeAsked
    <3>8. CASE Notice!Crash(c)
      BY <1>0, <3>8 DEF Notice!Crash, Notice!Go, Notice!rows, NoticeAsked
    <3>9. QED
      BY <1>2, <3>1, <3>2, <3>3, <3>4, <3>5, <3>6, <3>7, <3>8 DEF NoticeQuietly
  <2>4. QED
    BY <2>2, <2>3
<1>3. CASE Notice!Write(c)
  <2>1. NoticeRows' /\ last' \in {last, last + 1} /\ 1 .. last \subseteq 1 .. last'
    BY <1>0, <1>3, NoticeRowsKept
  <2>2. \A m \in notes' : (\E k \in notes : k.id = m.id /\ k.of = m.of) \/ m.id = last + 1
    BY <1>3, NoticeHeirs
  <2>3. \A j \in 1 .. last : j # last + 1
    BY <1>0
  <2>4. \A d \in FewCalls \ {c} : NoticeAsked(d)'
    <3>1. ASSUME NEW d \in FewCalls \ {c} PROVE NoticeAsked(d)'
      <4>1. NoticeAsked(d) /\ at'[d] = at[d] /\ ask'[d] = ask[d] /\ got'[d] = got[d]
        BY <1>0, <1>1
      <4>2. ASSUME at[d] = "write", ask[d].kind \in {"setStatus", "markRead"}
            PROVE  ask[d].id \in 1 .. last' /\ \A m \in notes' : m.id = ask[d].id => m.of = ask[d].by
        <5>1. ask[d].id \in 1 .. last /\ \A m \in notes : m.id = ask[d].id => m.of = ask[d].by
          BY <4>1, <4>2 DEF NoticeAsked
        <5>2. QED
          BY <2>1, <2>2, <2>3, <5>1
      <4>3. at[d] = "push" => got[d] \subseteq 1 .. last'
        BY <2>1, <4>1 DEF NoticeAsked
      <4>4. QED
        BY <4>1, <4>2, <4>3 DEF NoticeAsked
    <3>2. QED
      BY <3>1
  <2>5. NoticeAsked(c)'
    <3>1. at[c] = "write" /\ ask' = ask
      BY <1>3 DEF Notice!Write, Notice!Go
    <3>2. (at'[c] = "push" => got'[c] \subseteq 1 .. last') /\ at'[c] \in {"push", "flush", "done"}
      <4>1. CASE last' = last + 1 /\ at'[c] = "push" /\ got'[c] = {last + 1}
        BY <1>0, <4>1
      <4>2. CASE at'[c] \in {"flush", "done"}
        BY <4>2
      <4>3. QED
        BY <1>3, <4>1, <4>2, NoticeWrites
    <3>3. QED
      BY <1>0, <3>1, <3>2 DEF NoticeAsked
  <2>6. QED
    BY <2>4, <2>5
<1>4. QED
  BY <1>2, <1>3 DEF NoticeStep

(* The requests and the rows stay such. *)
LEMMA NoticeFitsKept ==
  ASSUME NoticeFits, MaxNotes \in Nat, NEW c \in FewCalls, NoticeStep(c)
  PROVE  NoticeFits'
<1>1. \A d \in FewCalls : NoticeAsked(d)'
  BY NoticeAskedKept
<1>2. DOMAIN ask' = FewCalls /\ DOMAIN got' = FewCalls /\ at' \in [FewCalls -> NoticeLabels]
  BY NoticeMoves DEF NoticeFits, NoticeSlots
<1>3. CASE NoticeQuietly(c)
  <2>1. NoticeSlots'
    BY <1>2, <1>3, NoticeQuiets DEF NoticeSlots
  <2>2. NoticeRows'
    BY <1>3, NoticeQuiets DEF NoticeFits, NoticeRows
  <2>3. QED
    BY <1>1, <2>1, <2>2 DEF NoticeFits
<1>4. CASE Notice!Write(c)
  <2>1. lists' = lists /\ torn' \in BOOLEAN
    BY <1>4 DEF Notice!Write, NoticeFits, NoticeSlots
  <2>2. QED
    BY <1>1, <1>2, <1>4, <2>1, NoticeRowsKept DEF NoticeFits, NoticeSlots
<1>5. QED
  BY <1>3, <1>4 DEF NoticeStep

(* What a reader has read is what there is, while nothing is torn. *)
LEMMA NoticeReadKept ==
  ASSUME NoticeInv, NEW c \in FewCalls, NoticeStep(c), NEW d \in FewCalls
  PROVE  NoticeRead(d)'
<1>0. NoticeFits /\ NoticeSlots /\ NoticeRead(d)
  BY DEF NoticeInv, NoticeFits
<1>1. /\ \A e \in FewCalls \ {c} : at'[e] = at[e] /\ ask'[e] = ask[e] /\ got'[e] = got[e]
      /\ (at[c] \notin {"new", "find"} => ask' = ask)
  BY <1>0, NoticeMoves DEF NoticeSlots
<1>2. CASE NoticeQuietly(c) /\ d # c
  <2>1. notes' = notes /\ (torn => torn')
    BY <1>0, <1>2, NoticeQuiets
  <2>2. QED
    BY <1>0, <1>1, <1>2, <2>1 DEF NoticeRead, Notice!Rows, Notice!Mine
<1>3. CASE NoticeQuietly(c) /\ d = c
  <2>1. at'[c] = "store" => Notice!Load(c)
    BY <1>0, <1>3 DEF NoticeQuietly, NoticeSlots, Notice!Go, Notice!Start, Notice!Find, Notice!Push, Notice!Flush, Notice!Cached, Notice!Store, Notice!Crash
  <2>2. Notice!Load(c) => ask' = ask /\ notes' = notes /\ got'[c] = Notice!Rows(ask[c].by, ask[c].kind)
    BY <1>0 DEF Notice!Load, Notice!Go, Notice!rows, NoticeSlots
  <2>3. QED
    BY <1>3, <2>1, <2>2 DEF NoticeRead, Notice!Rows, Notice!Mine
<1>4. CASE Notice!Write(c) /\ d # c
  <2>1. torn' = (torn \/ \E e \in FewCalls : at[e] = "store" /\ ask[e].by = ask[c].by)
    BY <1>4 DEF Notice!Write
  <2>2. ASSUME ~torn', at'[d] = "store" PROVE got'[d] = {m \in notes' : m.of = ask'[d].by /\ (ask'[d].kind = "list" \/ ~m.read)}
    <3>1. at[d] = "store" /\ ask'[d] = ask[d] /\ got'[d] = got[d] /\ ~torn /\ ask[d].by # ask[c].by
      BY <1>1, <1>4, <2>1, <2>2
    <3>2. got[d] = Notice!Rows(ask[d].by, ask[d].kind)
      BY <1>0, <3>1 DEF NoticeRead
    <3>3. Notice!Rows(ask[d].by, ask[d].kind) = {m \in notes : m.of = ask[d].by /\ (ask[d].kind = "list" \/ ~m.read)}
      BY DEF Notice!Rows, Notice!Mine
    <3>4. {m \in notes' : m.of = ask[d].by /\ (ask[d].kind = "list" \/ ~m.read)} = {m \in notes : m.of = ask[d].by /\ (ask[d].kind = "list" \/ ~m.read)}
      BY <1>0, <1>4, <3>1, NoticeHeirs
    <3>5. QED
      BY <3>1, <3>2, <3>3, <3>4
  <2>3. QED
    BY <2>2 DEF NoticeRead, Notice!Rows, Notice!Mine
<1>5. CASE Notice!Write(c) /\ d = c
  BY <1>0, <1>5, NoticeWrites DEF NoticeRead
<1>6. QED
  BY <1>2, <1>3, <1>4, <1>5 DEF NoticeStep

-----------------------------------------------------------------------------
(* A list is current, or its user's write has still to delete it. *)
NoticeTrue(u, l) ==
  ~torn /\ (\A c \in FewCalls : at[c] \in {"push", "flush"} => ask[c].by # u) => lists[u][l] \in {None, Notice!Rows(u, l)}

(* A request leaves a list current, or its flush to do. *)
LEMMA NoticeTrueKept ==
  ASSUME NoticeInv, NEW c \in FewCalls, NoticeStep(c), NEW u \in Users, NEW l \in Notice!Lists
  PROVE  NoticeTrue(u, l)'
<1>0. NoticeFits /\ NoticeSlots /\ NoticeTrue(u, l) /\ NoticeAsked(c) /\ NoticeRead(c)
  BY DEF NoticeInv, NoticeFits, NoticeTrue, Notice!NoticesCurrent
<1>1. /\ \A e \in FewCalls \ {c} : at'[e] = at[e] /\ ask'[e] = ask[e] /\ got'[e] = got[e]
      /\ (at[c] \notin {"new", "find"} => ask' = ask)
  BY <1>0, NoticeMoves DEF NoticeSlots
<1>2. SUFFICES ASSUME ~torn', \A e \in FewCalls : at'[e] \in {"push", "flush"} => ask'[e].by # u
               PROVE  lists'[u][l] \in {None, {m \in notes' : m.of = u /\ (l = "list" \/ ~m.read)}}
  BY DEF NoticeTrue, Notice!Rows, Notice!Mine
<1>3. ASSUME ~torn, at[c] \in {"push", "flush"} => ask[c].by # u
      PROVE  lists[u][l] \in {None, {m \in notes : m.of = u /\ (l = "list" \/ ~m.read)}}
  <2>1. \A e \in FewCalls : at[e] \in {"push", "flush"} => ask[e].by # u
    BY <1>1, <1>2, <1>3
  <2>2. QED
    BY <1>0, <1>3, <2>1 DEF NoticeTrue, Notice!Rows, Notice!Mine
<1>4. CASE Notice!Write(c)
  <2>1. at[c] = "write" /\ lists' = lists /\ ~torn /\ ask' = ask
    BY <1>2, <1>4 DEF Notice!Write, Notice!Go
  <2>2. lists[u][l] \in {None, {m \in notes : m.of = u /\ (l = "list" \/ ~m.read)}}
    BY <1>3, <2>1
  <2>3. CASE u # ask[c].by
    <3>1. {m \in notes' : m.of = u /\ (l = "list" \/ ~m.read)} = {m \in notes : m.of = u /\ (l = "list" \/ ~m.read)}
      BY <1>0, <1>4, <2>3, NoticeHeirs
    <3>2. QED
      BY <2>1, <2>2, <3>1
  <2>4. CASE u = ask[c].by
    <3>1. at'[c] \notin {"push", "flush"}
      BY <1>2, <2>1, <2>4
    <3>2. Notice!Touched(ask[c]) = {} /\ (\/ notes' = notes \ Notice!Touched(ask[c])
                                          \/ notes' = (notes \ Notice!Touched(ask[c])) \cup {[m EXCEPT !.read = ask[c].read] : m \in Notice!Touched(ask[c])})
      BY <1>0, <1>4, <3>1, NoticeWrites
    <3>3. notes' = notes
      BY <3>2
    <3>4. QED
      BY <2>1, <2>2, <3>3
  <2>5. QED
    BY <2>3, <2>4
<1>5. CASE NoticeQuietly(c)
  <2>1. notes' = notes /\ ~torn
    BY <1>0, <1>2, <1>5, NoticeQuiets
  <2>2. CASE Notice!Flush(c)
    <3>1. at[c] = "flush" /\ lists' = [lists EXCEPT ![ask[c].by] = [k \in Notice!Lists |-> None]]
      BY <2>2 DEF Notice!Flush
    <3>2. CASE u = ask[c].by
      BY <1>0, <3>1, <3>2 DEF NoticeSlots
    <3>3. CASE u # ask[c].by
      <4>1. lists'[u] = lists[u]
        BY <1>0, <3>1, <3>3 DEF NoticeSlots
      <4>2. QED
        BY <1>3, <2>1, <3>3, <4>1
    <3>4. QED
      BY <3>2, <3>3
  <2>3. CASE Notice!Store(c)
    <3>1. at[c] = "store" /\ lists' = [lists EXCEPT ![ask[c].by][ask[c].kind] = got[c]]
      BY <2>3 DEF Notice!Store
    <3>2. CASE u = ask[c].by /\ l = ask[c].kind
      <4>1. lists'[u][l] = got[c]
        BY <1>0, <3>1, <3>2 DEF NoticeSlots
      <4>2. QED
        BY <1>0, <2>1, <3>1, <3>2, <4>1 DEF NoticeRead, Notice!Rows, Notice!Mine
    <3>3. CASE ~(u = ask[c].by /\ l = ask[c].kind)
      <4>1. lists'[u][l] = lists[u][l]
        BY <1>0, <3>1, <3>3 DEF NoticeSlots
      <4>2. QED
        BY <1>3, <2>1, <3>1, <4>1
    <3>4. QED
      BY <3>2, <3>3
  <2>4. CASE Notice!Push(c)
    <3>1. at[c] = "push" /\ at'[c] = "flush" /\ ask' = ask /\ lists' = lists
      BY <1>0, <2>4 DEF Notice!Push, Notice!Go, NoticeSlots
    <3>2. ask[c].by # u
      BY <1>2, <3>1
    <3>3. QED
      BY <1>3, <2>1, <3>1, <3>2
  <2>5. CASE Notice!Start(c) \/ Notice!Find(c) \/ Notice!Cached(c) \/ Notice!Load(c)
    <3>1. at[c] \notin {"push", "flush"} /\ lists' = lists
      BY <2>5 DEF Notice!Start, Notice!Find, Notice!Cached, Notice!Load
    <3>2. QED
      BY <1>3, <2>1, <3>1
  <2>6. ~Notice!Crash(c)
    BY <1>2 DEF Notice!Crash
  <2>7. QED
    BY <1>5, <2>2, <2>3, <2>4, <2>5, <2>6 DEF NoticeQuietly
<1>6. QED
  BY <1>4, <1>5 DEF NoticeStep

(* The invariant of notifications, kept by every step. *)
LEMMA NoticeKept ==
  ASSUME Notice!NoticesAssumption, NoticeInv, Notice!Next
  PROVE  NoticeInv'
<1>0. MaxNotes \in Nat /\ NoticeFits /\ NoticeSlots
  BY DEF Notice!NoticesAssumption, NoticeInv, NoticeFits
<1>1. ASSUME NEW c \in FewCalls, NoticeStep(c) PROVE NoticeInv'
  <2>1. NoticeFits' /\ \A d \in FewCalls : NoticeRead(d)'
    BY <1>0, <1>1, NoticeFitsKept, NoticeReadKept
  <2>2. \A u \in Users, l \in Notice!Lists : NoticeTrue(u, l)'
    BY <1>1, NoticeTrueKept
  <2>3. QED
    BY <2>1, <2>2 DEF NoticeInv, NoticeTrue, Notice!NoticesCurrent
<1>2. ASSUME NEW u \in Users, NEW l \in Notice!Lists, Notice!Expire(u, l) PROVE NoticeInv'
  <2>1. lists' = [lists EXCEPT ![u][l] = None] /\ UNCHANGED <<notes, last, ask, at, got, pushed, torn>>
    BY <1>2 DEF Notice!Expire, Notice!rows, Notice!requests
  <2>2. /\ DOMAIN lists' = Users /\ \A v \in Users : DOMAIN lists'[v] = Notice!Lists
        /\ \A v \in Users, k \in Notice!Lists : lists'[v][k] \in {lists[v][k], None}
    BY <1>0, <2>1 DEF NoticeSlots
  <2>3. NoticeFits' /\ \A d \in FewCalls : NoticeRead(d)'
    BY <2>1, <2>2 DEF NoticeInv, NoticeFits, NoticeSlots, NoticeRows, NoticeAsked, NoticeRead, Notice!Rows, Notice!Mine
  <2>4. Notice!NoticesCurrent'
    BY <2>1, <2>2 DEF NoticeInv, Notice!NoticesCurrent, Notice!Rows, Notice!Mine
  <2>5. QED
    BY <2>3, <2>4 DEF NoticeInv
<1>3. QED
  BY <1>1, <1>2 DEF Notice!Next, NoticeStep, NoticeQuietly

(* It holds at first. *)
LEMMA NoticeInit ==
  ASSUME Notice!NoticesAssumption, Notice!Init
  PROVE  NoticeInv
<1>1. /\ lists = [u \in Users |-> [l \in Notice!Lists |-> None]] /\ torn = FALSE /\ pushed = {}
      /\ ask = [c \in FewCalls |-> None] /\ at = [c \in FewCalls |-> "new"] /\ got = [c \in FewCalls |-> {}]
  BY DEF Notice!Init
<1>2. CASE notes = {}
  <2>1. last = 0
    BY <1>2, FS_EmptySet, Zenon DEF Notice!Init, Notice!Cardinality, Cardinality
  <2>2. NoticeRows
    BY <1>1, <1>2, <2>1 DEF NoticeRows, Notice!NoticesAssumption
  <2>3. QED
    BY <1>1, <2>2 DEF NoticeInv, NoticeFits, NoticeSlots, NoticeLabels, NoticeAsked, NoticeRead, Notice!NoticesCurrent
<1>3. ASSUME NEW u \in Users, notes = {[id |-> 1, of |-> u, read |-> FALSE]} PROVE NoticeInv
  <2>1. Cardinality({[id |-> 1, of |-> u, read |-> FALSE]}) = 1
    BY FS_Singleton
  <2>2. last = Cardinality(notes)
    BY Zenon DEF Notice!Init, Notice!Cardinality, Cardinality
  <2>3. last = 1
    BY <1>3, <2>1, <2>2
  <2>4. NoticeRows
    BY <1>1, <1>3, <2>3 DEF NoticeRows, Notice!NoticesAssumption
  <2>5. QED
    BY <1>1, <2>4 DEF NoticeInv, NoticeFits, NoticeSlots, NoticeLabels, NoticeAsked, NoticeRead, Notice!NoticesCurrent
<1>4. QED
  BY <1>2, <1>3 DEF Notice!Init

(* It gives what is checked of notifications. *)
LEMMA NoticeHolds ==
  ASSUME NoticeInv
  PROVE  Notice!NoticesCurrent /\ Notice!TypeOK
BY DEF NoticeInv, NoticeFits, NoticeSlots, NoticeLabels, NoticeRows, Notice!TypeOK

(* A step that changes nothing of notifications. *)
LEMMA NoticeStill ==
  ASSUME NoticeInv, UNCHANGED <<notes, last, lists, ask, at, got, pushed, torn>>
  PROVE  NoticeInv'
<1>1. NoticeFits' /\ \A c \in FewCalls : NoticeRead(c)'
  BY DEF NoticeInv, NoticeFits, NoticeSlots, NoticeRows, NoticeAsked, NoticeRead, Notice!Rows, Notice!Mine
<1>2. Notice!NoticesCurrent'
  BY DEF NoticeInv, Notice!NoticesCurrent, Notice!Rows, Notice!Mine
<1>3. QED
  BY <1>1, <1>2 DEF NoticeInv

-----------------------------------------------------------------------------
(* Balances.  The tables, the answers and the requests; a request has read the tables of
   its answer up to one, and the ones after it are to come. *)
BalanceLabels == {"new", "done", "failed", "cache", "read", "make", "store", "move", "tell"}
BalanceSlots ==
  /\ table \in [Balance!Tables -> (0 .. MaxMoneyMoves) \cup {None}]
  /\ ask \in [Balance!Requests -> Balance!Answers \cup DOMAIN Balance!Changes \cup {None}]
  /\ at \in [Balance!Requests -> BalanceLabels] /\ DOMAIN got = Balance!Requests /\ DOMAIN told = Balance!Answers
  /\ torn \in BOOLEAN /\ cut \in BOOLEAN /\ silent \in BOOLEAN /\ met \in BOOLEAN
BalanceSides ==
  /\ \A c \in FewCalls : /\ at[c] \notin {"move", "tell"}
                         /\ at[c] # "new" => ask[c] \in Balance!Answers
                         /\ at[c] \in {"new", "cache"} => got[c] = {}
  /\ \A m \in Moves : /\ at[m] \in {"new", "move", "tell", "done"}
                      /\ at[m] # "new" => ask[m] \in DOMAIN Balance!Changes
BalanceNames(g) == {p[1] : p \in g}
BalanceFirst(a, k) == {Balance!Order[a][i] : i \in 1 .. k}
BalanceUpTo(g, a, k) ==
  k \in 0 .. Len(Balance!Order[a]) /\ IsFiniteSet(g) /\ Cardinality(g) = k /\ BalanceNames(g) = BalanceFirst(a, k)
BalanceRead(c, k) ==
  /\ BalanceUpTo(got[c], ask[c], k)
  /\ at[c] \in {"read", "make"} => k < Len(Balance!Order[ask[c]])
  /\ at[c] = "make" => Balance!Order[ask[c]][k + 1] = "vex"
  /\ at[c] = "store" => k = Len(Balance!Order[ask[c]])
BalanceReads == \A c \in FewCalls : at[c] \in {"read", "make", "store"} => \E k \in Nat : BalanceRead(c, k)
BalanceGood(p) == p[1] \in Balance!Tables /\ (p[2] = table[p[1]] \/ (p[2] = None /\ table[p[1]] = 0))
BalanceTrue == ~torn => \A c \in FewCalls : at[c] \in {"read", "make", "store"} => \A p \in got[c] : BalanceGood(p)
BalanceTold == \A a \in Balance!Answers : told[a] # None => BalanceNames(told[a]) \subseteq Balance!Tables
BalanceMet ==
  /\ \A c \in FewCalls : at[c] = "make" => met \/ table["vex"] = None
  /\ \A c \in FewCalls : at[c] = "failed" => met
BalanceInv ==
  /\ BalanceSlots /\ BalanceSides /\ BalanceReads /\ BalanceTrue /\ BalanceTold /\ BalanceMet /\ Balance!BalancesCurrent

(* The tables of each answer, in their order. *)
LEMMA BalanceOrders ==
  ASSUME NEW a \in Balance!Answers
  PROVE  /\ Len(Balance!Order[a]) \in 1 .. 3 /\ \A i \in 1 .. Len(Balance!Order[a]) : Balance!Order[a][i] \in Balance!Tables
         /\ \A i, j \in 1 .. Len(Balance!Order[a]) : Balance!Order[a][i] = Balance!Order[a][j] => i = j
         /\ Balance!Parts[a] = {Balance!Order[a][i] : i \in 1 .. Len(Balance!Order[a])}
         /\ Balance!Cardinality(Balance!Parts[a]) = Len(Balance!Order[a])
<1>0. ASSUME NEW S PROVE Balance!Cardinality(S) = Cardinality(S)
  BY Zenon DEF Balance!Cardinality, Cardinality
<1>1. CASE a = "summary"
  <2>1. Balance!Order[a] = <<"diamond", "vex", "vip">> /\ Balance!Parts[a] = {"diamond", "vex", "vip"}
    BY <1>1 DEF Balance!Order, Balance!Parts
  <2>2. Cardinality({"diamond", "vex", "vip"}) = 3
    <3>1. IsFiniteSet({"diamond"}) /\ Cardinality({"diamond"}) = 1
      BY FS_Singleton
    <3>2. IsFiniteSet({"diamond"} \cup {"vex"}) /\ Cardinality({"diamond"} \cup {"vex"}) = 2
      <4>1. "vex" \notin {"diamond"}
        OBVIOUS
      <4>2. IsFiniteSet({"diamond"} \cup {"vex"}) /\ Cardinality({"diamond"} \cup {"vex"}) = 1 + 1
        BY <3>1, <4>1, FS_AddElement
      <4>3. QED
        BY <4>2
    <3>3. Cardinality(({"diamond"} \cup {"vex"}) \cup {"vip"}) = 3
      BY <3>2, FS_AddElement
    <3>4. ({"diamond"} \cup {"vex"}) \cup {"vip"} = {"diamond", "vex", "vip"}
      OBVIOUS
    <3>5. QED
      BY <3>3, <3>4
  <2>3. Balance!Cardinality(Balance!Parts[a]) = 3
    BY <1>0, <2>1, <2>2
  <2>4. Len(Balance!Order[a]) = 3 /\ 1 .. 3 = {1, 2, 3}
    BY <2>1
  <2>5. Balance!Order[a][1] = "diamond" /\ Balance!Order[a][2] = "vex" /\ Balance!Order[a][3] = "vip"
    BY <2>1
  <2>6. QED
    BY <2>1, <2>3, <2>4, <2>5 DEF Balance!Tables
<1>2. CASE a = "vex"
  <2>1. Balance!Order[a] = <<"vex", "transactions">> /\ Balance!Parts[a] = {"vex", "transactions"}
    BY <1>2 DEF Balance!Order, Balance!Parts
  <2>2. Cardinality({"vex", "transactions"}) = 2
    <3>1. IsFiniteSet({"vex"}) /\ Cardinality({"vex"}) = 1
      BY FS_Singleton
    <3>2. Cardinality({"vex"} \cup {"transactions"}) = 2
      BY <3>1, FS_AddElement
    <3>3. {"vex"} \cup {"transactions"} = {"vex", "transactions"}
      OBVIOUS
    <3>4. QED
      BY <3>2, <3>3
  <2>3. Balance!Cardinality(Balance!Parts[a]) = 2
    BY <1>0, <2>1, <2>2
  <2>4. Len(Balance!Order[a]) = 2 /\ 1 .. 2 = {1, 2}
    BY <2>1
  <2>5. Balance!Order[a][1] = "vex" /\ Balance!Order[a][2] = "transactions"
    BY <2>1
  <2>6. QED
    BY <2>1, <2>3, <2>4, <2>5 DEF Balance!Tables
<1>3. CASE a \in {"diamond", "history"}
  <2>1. PICK t \in Balance!Tables : Balance!Order[a] = <<t>> /\ Balance!Parts[a] = {t}
    BY <1>3 DEF Balance!Order, Balance!Parts, Balance!Tables
  <2>2. Balance!Cardinality(Balance!Parts[a]) = 1
    BY <1>0, <2>1, FS_Singleton
  <2>3. Len(Balance!Order[a]) = 1 /\ 1 .. 1 = {1} /\ Balance!Order[a][1] = t
    BY <2>1
  <2>4. QED
    BY <2>1, <2>2, <2>3
<1>4. QED
  BY <1>1, <1>2, <1>3 DEF Balance!Answers

(* Reading the next table reads one more. *)
LEMMA BalanceAdds ==
  ASSUME NEW a \in Balance!Answers, NEW g, NEW k \in Nat, BalanceUpTo(g, a, k), k < Len(Balance!Order[a]), NEW v
  PROVE  BalanceUpTo(g \cup {<<Balance!Order[a][k + 1], v>>}, a, k + 1)
<1>0. IsFiniteSet(g) /\ Cardinality(g) = k /\ BalanceNames(g) = BalanceFirst(a, k)
  BY DEF BalanceUpTo
<1>1. Len(Balance!Order[a]) \in 1 .. 3 /\ \A i, j \in 1 .. Len(Balance!Order[a]) : Balance!Order[a][i] = Balance!Order[a][j] => i = j
  BY BalanceOrders
<1>2. k + 1 \in 1 .. Len(Balance!Order[a]) /\ k + 1 \notin 1 .. k /\ 1 .. k \subseteq 1 .. Len(Balance!Order[a]) /\ 1 .. k + 1 = (1 .. k) \cup {k + 1}
        /\ k + 1 \in 0 .. Len(Balance!Order[a])
  BY <1>1
<1>3. Balance!Order[a][k + 1] \notin BalanceNames(g)
  BY <1>0, <1>1, <1>2 DEF BalanceFirst
<1>4. <<Balance!Order[a][k + 1], v>> \notin g
  <2>1. <<Balance!Order[a][k + 1], v>>[1] = Balance!Order[a][k + 1]
    OBVIOUS
  <2>2. QED
    BY <1>3, <2>1 DEF BalanceNames
<1>5. IsFiniteSet(g \cup {<<Balance!Order[a][k + 1], v>>}) /\ Cardinality(g \cup {<<Balance!Order[a][k + 1], v>>}) = k + 1
  BY <1>0, <1>4, FS_AddElement
<1>6. BalanceNames(g \cup {<<Balance!Order[a][k + 1], v>>}) = BalanceNames(g) \cup {Balance!Order[a][k + 1]}
  <2>1. <<Balance!Order[a][k + 1], v>>[1] = Balance!Order[a][k + 1]
    OBVIOUS
  <2>2. QED
    BY <2>1 DEF BalanceNames
<1>7. QED
  <2>1. BalanceNames(g \cup {<<Balance!Order[a][k + 1], v>>}) = BalanceFirst(a, k + 1)
    BY <1>0, <1>2, <1>6 DEF BalanceFirst
  <2>2. QED
    BY <1>2, <1>5, <2>1 DEF BalanceUpTo

-----------------------------------------------------------------------------
BalanceStep(c) ==
  \/ Balance!Start(c) \/ Balance!Cached(c) \/ Balance!Read(c) \/ Balance!Make(c) \/ Balance!Store(c) \/ Balance!Move(c)
  \/ Balance!Tell(c) \/ Balance!Crash(c)

(* A request moves on alone, a reader at the statements of a reader, a mover at those of
   a mover. *)
LEMMA BalanceMoves ==
  ASSUME Balance!BalancesAssumption, BalanceSlots, BalanceSides, NEW c \in Balance!Requests, BalanceStep(c)
  PROVE  /\ at' \in [Balance!Requests -> BalanceLabels] /\ \A d \in Balance!Requests \ {c} : at'[d] = at[d]
         /\ DOMAIN got' = Balance!Requests /\ \A d \in Balance!Requests \ {c} : got'[d] = got[d]
         /\ (at[c] # "new" => ask' = ask)
         /\ (at[c] \in {"cache", "read", "make", "store"} => c \in FewCalls) /\ (at[c] \in {"move", "tell"} => c \in Moves)
<1> USE DEF BalanceSlots, BalanceLabels
<1>1. CASE Balance!Start(c)
  <2>1. at' = [at EXCEPT ![c] = IF c \in FewCalls THEN "cache" ELSE "move"] /\ UNCHANGED got /\ at[c] = "new"
    BY <1>1 DEF Balance!Start
  <2>2. QED
    BY <2>1
<1>2. CASE Balance!Cached(c)
  BY <1>2 DEF Balance!Cached, Balance!Go, BalanceSides, Balance!Requests
<1>3. CASE Balance!Read(c)
  <2>1. at[c] = "read" /\ ask' = ask /\ \E l \in {"make", "store", "read"} : at' = [at EXCEPT ![c] = l]
    BY <1>3 DEF Balance!Read, Balance!Go
  <2>2. DOMAIN got' = Balance!Requests /\ \A d \in Balance!Requests \ {c} : got'[d] = got[d]
    BY <1>3 DEF Balance!Read
  <2>3. QED
    BY <2>1, <2>2 DEF BalanceSides, Balance!Requests
<1>4. CASE Balance!Make(c)
  <2>1. at[c] = "make" /\ ask' = ask /\ \E l \in {"failed", "read"} : at' = [at EXCEPT ![c] = l]
    BY <1>4 DEF Balance!Make, Balance!Go
  <2>2. DOMAIN got' = Balance!Requests /\ \A d \in Balance!Requests \ {c} : got'[d] = got[d]
    BY <1>4 DEF Balance!Make
  <2>3. QED
    BY <2>1, <2>2 DEF BalanceSides, Balance!Requests
<1>5. CASE Balance!Store(c)
  BY <1>5 DEF Balance!Store, Balance!Go, BalanceSides, Balance!Requests
<1>6. CASE Balance!Move(c)
  <2>1. at[c] = "move" /\ ask' = ask /\ UNCHANGED got /\ \E l \in {"tell", "done"} : at' = [at EXCEPT ![c] = l]
    BY <1>6 DEF Balance!Move, Balance!Go
  <2>2. QED
    BY <2>1 DEF BalanceSides, Balance!Requests
<1>7. CASE Balance!Tell(c)
  BY <1>7 DEF Balance!Tell, Balance!Go, BalanceSides, Balance!Requests
<1>8. CASE Balance!Crash(c)
  BY <1>8 DEF Balance!Crash, Balance!Go, BalanceSides, Balance!Requests
<1>9. QED
  BY <1>1, <1>2, <1>3, <1>4, <1>5, <1>6, <1>7, <1>8 DEF BalanceStep

(* The tables, the answers and the requests stay such. *)
LEMMA BalanceSlotsKept ==
  ASSUME Balance!BalancesAssumption, BalanceSlots, BalanceSides, NEW c \in Balance!Requests, BalanceStep(c)
  PROVE  BalanceSlots'
<1>0. at' \in [Balance!Requests -> BalanceLabels] /\ DOMAIN got' = Balance!Requests /\ MaxMoneyMoves \in Nat \ {0}
  BY BalanceMoves DEF Balance!BalancesAssumption
<1> USE DEF BalanceSlots
<1>1. CASE Balance!Start(c)
  <2>1. \E k \in Balance!Answers \cup DOMAIN Balance!Changes : ask' = [ask EXCEPT ![c] = k]
    BY <1>1 DEF Balance!Start
  <2>2. UNCHANGED <<table, told, torn, cut, silent, met>>
    BY <1>1 DEF Balance!Start, Balance!history
  <2>3. QED
    BY <1>0, <2>1, <2>2
<1>2. CASE Balance!Cached(c)
  BY <1>0, <1>2 DEF Balance!Cached, Balance!Go, Balance!history
<1>3. CASE Balance!Read(c)
  <2>1. ask' = ask /\ UNCHANGED <<table, told, torn, cut, silent, met>>
    BY <1>3 DEF Balance!Read, Balance!Go, Balance!history
  <2>2. QED
    BY <1>0, <2>1
<1>4. CASE Balance!Make(c)
  <2>1. ask' = ask /\ UNCHANGED <<told, torn, cut, silent>>
    BY <1>4 DEF Balance!Make, Balance!Go
  <2>2. table' = table \/ table' = [table EXCEPT !["vex"] = 0]
    BY <1>4 DEF Balance!Make
  <2>3. table' \in [Balance!Tables -> (0 .. MaxMoneyMoves) \cup {None}]
    BY <1>0, <2>2
  <2>4. met' \in BOOLEAN
    BY <1>4 DEF Balance!Make
  <2>5. QED
    BY <1>0, <2>1, <2>3, <2>4
<1>5. CASE Balance!Store(c)
  BY <1>0, <1>5 DEF Balance!Store, Balance!Go, Balance!history
<1>6. CASE Balance!Move(c)
  <2>1. ask' = ask /\ UNCHANGED <<told, got, cut>>
    BY <1>6 DEF Balance!Move, Balance!Go
  <2>2. torn' \in BOOLEAN /\ silent' \in BOOLEAN /\ met' \in BOOLEAN
    BY <1>6 DEF Balance!Move
  <2>3. PICK ts : (\A t \in ts : Balance!Value(t) < MaxMoneyMoves)
          /\ table' = [t \in Balance!Tables |-> IF t \in ts THEN Balance!Value(t) + 1 ELSE table[t]]
    BY <1>6 DEF Balance!Move
  <2>4. ASSUME NEW t \in Balance!Tables PROVE table'[t] \in (0 .. MaxMoneyMoves) \cup {None}
    <3>1. CASE t \in ts
      <4>1. Balance!Value(t) \in 0 .. MaxMoneyMoves
        BY <1>0 DEF Balance!Value
      <4>2. Balance!Value(t) < MaxMoneyMoves /\ table'[t] = Balance!Value(t) + 1
        BY <2>3, <3>1
      <4>3. QED
        BY <1>0, <4>1, <4>2
    <3>2. CASE t \notin ts
      BY <2>3, <3>2
    <3>3. QED
      BY <3>1, <3>2
  <2>5. table' \in [Balance!Tables -> (0 .. MaxMoneyMoves) \cup {None}]
    BY <2>3, <2>4
  <2>6. QED
    BY <1>0, <2>1, <2>2, <2>5
<1>7. CASE Balance!Tell(c)
  <2>1. DOMAIN told' = Balance!Answers /\ UNCHANGED <<table, ask, torn, cut, silent, met>>
    BY <1>7 DEF Balance!Tell, Balance!Go, Balance!history
  <2>2. QED
    BY <1>0, <2>1
<1>8. CASE Balance!Crash(c)
  BY <1>0, <1>8 DEF Balance!Crash, Balance!Go
<1>9. QED
  BY <1>1, <1>2, <1>3, <1>4, <1>5, <1>6, <1>7, <1>8 DEF BalanceStep

(* Readers read and movers move. *)
LEMMA BalanceSidesKept ==
  ASSUME Balance!BalancesAssumption, BalanceSlots, BalanceSides, NEW c \in Balance!Requests, BalanceStep(c)
  PROVE  BalanceSides'
<1>0. /\ at' \in [Balance!Requests -> BalanceLabels] /\ \A d \in Balance!Requests \ {c} : at'[d] = at[d]
      /\ \A d \in Balance!Requests \ {c} : got'[d] = got[d]
      /\ (at[c] # "new" => ask' = ask)
      /\ (at[c] \in {"cache", "read", "make", "store"} => c \in FewCalls) /\ (at[c] \in {"move", "tell"} => c \in Moves)
      /\ FewCalls \cap Moves = {} /\ Balance!Requests = FewCalls \cup Moves
  BY BalanceMoves DEF Balance!BalancesAssumption, Balance!Requests
<1>1. \A d \in Balance!Requests \ {c} : ask'[d] = ask[d]
  <2>1. CASE at[c] = "new"
    BY <2>1 DEF BalanceSlots, BalanceStep, Balance!Start, Balance!Cached, Balance!Read, Balance!Make, Balance!Store, Balance!Move, Balance!Tell,
                Balance!Crash
  <2>2. QED
    BY <1>0, <2>1
<1>2. \A d \in FewCalls \ {c} : /\ at'[d] \notin {"move", "tell"} /\ (at'[d] # "new" => ask'[d] \in Balance!Answers)
                                /\ (at'[d] \in {"new", "cache"} => got'[d] = {})
  BY <1>0, <1>1 DEF BalanceSides
<1>3. \A m \in Moves \ {c} : at'[m] \in {"new", "move", "tell", "done"} /\ (at'[m] # "new" => ask'[m] \in DOMAIN Balance!Changes)
  BY <1>0, <1>1 DEF BalanceSides
<1>4. CASE c \in FewCalls
  <2>1. /\ at'[c] \notin {"move", "tell"} /\ (at'[c] # "new" => ask'[c] \in Balance!Answers)
        /\ (at'[c] \in {"new", "cache"} => got'[c] = {})
    <3>1. CASE Balance!Start(c)
      <4>1. \E k \in Balance!Answers : ask' = [ask EXCEPT ![c] = k]
        BY <1>4, <3>1 DEF Balance!Start
      <4>2. at' = [at EXCEPT ![c] = "cache"] /\ at[c] = "new" /\ got' = got
        BY <1>4, <3>1 DEF Balance!Start
      <4>3. QED
        BY <1>4, <4>1, <4>2 DEF BalanceSlots, BalanceSides
    <3>2. CASE Balance!Cached(c)
      BY <1>4, <3>2 DEF Balance!Cached, Balance!Go, BalanceSlots, BalanceSides
    <3>3. CASE Balance!Read(c)
      <4>1. at[c] = "read" /\ \E l \in {"make", "store", "read"} : at' = [at EXCEPT ![c] = l]
        BY <3>3 DEF Balance!Read, Balance!Go
      <4>2. QED
        BY <1>0, <1>4, <4>1 DEF BalanceSlots, BalanceSides
    <3>4. CASE Balance!Make(c)
      <4>1. at[c] = "make" /\ \E l \in {"failed", "read"} : at' = [at EXCEPT ![c] = l]
        BY <3>4 DEF Balance!Make, Balance!Go
      <4>2. QED
        BY <1>0, <1>4, <4>1 DEF BalanceSlots, BalanceSides
    <3>5. CASE Balance!Store(c)
      BY <1>4, <3>5 DEF Balance!Store, Balance!Go, BalanceSlots, BalanceSides
    <3>6. at[c] \notin {"move", "tell"}
      BY <1>4 DEF BalanceSides
    <3>7. QED
      BY <3>1, <3>2, <3>3, <3>4, <3>5, <3>6 DEF BalanceStep, Balance!Move, Balance!Tell, Balance!Crash
  <2>2. QED
    BY <1>0, <1>2, <1>3, <1>4, <2>1 DEF BalanceSides
<1>5. CASE c \in Moves
  <2>1. at'[c] \in {"new", "move", "tell", "done"} /\ (at'[c] # "new" => ask'[c] \in DOMAIN Balance!Changes)
    <3>1. CASE Balance!Start(c)
      <4>1. \E k \in DOMAIN Balance!Changes : ask' = [ask EXCEPT ![c] = k]
        BY <1>0, <1>5, <3>1 DEF Balance!Start
      <4>2. at' = [at EXCEPT ![c] = "move"]
        BY <1>0, <1>5, <3>1 DEF Balance!Start
      <4>3. QED
        BY <1>5, <4>1, <4>2 DEF BalanceSlots
    <3>2. CASE Balance!Move(c)
      <4>1. at[c] = "move" /\ \E l \in {"tell", "done"} : at' = [at EXCEPT ![c] = l]
        BY <3>2 DEF Balance!Move, Balance!Go
      <4>2. QED
        BY <1>0, <1>5, <4>1 DEF BalanceSlots, BalanceSides
    <3>3. CASE Balance!Tell(c) \/ Balance!Crash(c)
      BY <1>5, <3>3 DEF Balance!Tell, Balance!Crash, Balance!Go, BalanceSlots, BalanceSides
    <3>4. at[c] \notin {"cache", "read", "make", "store"}
      BY <1>5 DEF BalanceSides
    <3>5. QED
      BY <3>1, <3>2, <3>3, <3>4 DEF BalanceStep, Balance!Cached, Balance!Read, Balance!Make, Balance!Store
  <2>2. QED
    BY <1>0, <1>2, <1>3, <1>5, <2>1 DEF BalanceSides
<1>6. QED
  BY <1>0, <1>4, <1>5

-----------------------------------------------------------------------------
(* The wallet that may have to be made is not the last table of an answer. *)
LEMMA BalanceLasts ==
  ASSUME NEW a \in Balance!Answers
  PROVE  Balance!Order[a][Len(Balance!Order[a])] # "vex"
<1>1. CASE a = "summary"
  <2>1. Balance!Order[a] = <<"diamond", "vex", "vip">>
    BY <1>1 DEF Balance!Order
  <2>2. QED
    BY <2>1
<1>2. CASE a = "vex"
  <2>1. Balance!Order[a] = <<"vex", "transactions">>
    BY <1>2 DEF Balance!Order
  <2>2. QED
    BY <2>1
<1>3. CASE a = "diamond"
  <2>1. Balance!Order[a] = <<"diamond">>
    BY <1>3 DEF Balance!Order
  <2>2. QED
    BY <2>1
<1>4. CASE a = "history"
  <2>1. Balance!Order[a] = <<"transactions">>
    BY <1>4 DEF Balance!Order
  <2>2. QED
    BY <2>1
<1>5. QED
  BY <1>1, <1>2, <1>3, <1>4 DEF Balance!Answers

(* A statement of a reader reads the next table, finds it has to make the wallet, or
   makes it, unless another did. *)
LEMMA BalanceReader ==
  ASSUME BalanceSlots, BalanceSides, BalanceReads, NEW c \in FewCalls, Balance!Read(c) \/ Balance!Make(c)
  PROVE  \E k \in Nat, a \in Balance!Answers, t \in Balance!Tables :
           /\ a = ask[c] /\ ask' = ask /\ BalanceRead(c, k) /\ k < Len(Balance!Order[a]) /\ t = Balance!Order[a][k + 1]
           /\ at[c] \in {"read", "make"} /\ UNCHANGED <<told, torn, cut, silent>>
           /\ \/ at'[c] = "make" /\ t = "vex" /\ table["vex"] = None /\ got' = got /\ table' = table /\ met' = met
              \/ at'[c] = "failed" /\ at[c] = "make" /\ table["vex"] # None /\ got' = got /\ table' = table /\ met' = met
              \/ /\ got' = [got EXCEPT ![c] = @ \cup {<<t, table'[t]>>}]
                 /\ at'[c] = IF k + 1 = Len(Balance!Order[a]) THEN "store" ELSE "read"
                 /\ \/ table' = table /\ met' = met
                    \/ t = "vex" /\ table["vex"] = None /\ table' = [table EXCEPT !["vex"] = 0]
                       /\ met' = (met \/ \E d \in Balance!Requests \ {c} : Balance!Wait(d))
<1>0. /\ at[c] \in {"read", "make"} /\ ask' = ask /\ UNCHANGED <<told, torn, cut, silent>>
  BY DEF Balance!Read, Balance!Make, Balance!Go, Balance!history
<1>1. ask[c] \in Balance!Answers /\ c \in Balance!Requests
  BY <1>0 DEF BalanceSides, Balance!Requests
<1>2. PICK k \in Nat : BalanceRead(c, k)
  BY <1>0 DEF BalanceReads
<1>3. k < Len(Balance!Order[ask[c]]) /\ Cardinality(got[c]) = k /\ (at[c] = "make" => Balance!Order[ask[c]][k + 1] = "vex")
  BY <1>0, <1>2 DEF BalanceRead, BalanceUpTo
<1>4. Len(Balance!Order[ask[c]]) \in 1 .. 3 /\ k + 1 \in 1 .. Len(Balance!Order[ask[c]]) /\ Balance!Order[ask[c]][k + 1] \in Balance!Tables
        /\ Balance!Cardinality(Balance!Parts[ask[c]]) = Len(Balance!Order[ask[c]])
  <2>1. Len(Balance!Order[ask[c]]) \in 1 .. 3
    BY <1>1, BalanceOrders
  <2>2. k + 1 \in 1 .. Len(Balance!Order[ask[c]])
    BY <1>3, <2>1
  <2>3. QED
    BY <1>1, <2>1, <2>2, BalanceOrders
<1>5. Balance!Cardinality(got[c]) = k
  <2>1. Balance!Cardinality(got[c]) = Cardinality(got[c])
    BY Zenon DEF Balance!Cardinality, Cardinality
  <2>2. QED
    BY <1>3, <2>1
<1>6. CASE Balance!Read(c)
  <2>1. table' = table /\ met' = met
    BY <1>6 DEF Balance!Read, Balance!history
  <2>2. Balance!NextTable(c) = Balance!Order[ask[c]][k + 1]
    BY <1>5 DEF Balance!NextTable
  <2>3. CASE Balance!NextTable(c) = "vex" /\ table["vex"] = None
    <3>1. at' = [at EXCEPT ![c] = "make"] /\ got' = got
      BY <1>6, <2>3 DEF Balance!Read, Balance!Go
    <3>2. at'[c] = "make"
      BY <1>1, <3>1 DEF BalanceSlots
    <3>3. QED
      BY <1>0, <1>1, <1>2, <1>3, <1>4, <2>1, <2>2, <2>3, <3>1, <3>2
  <2>4. CASE ~(Balance!NextTable(c) = "vex" /\ table["vex"] = None)
    <3>1. ~(Balance!NextTable(c) = "vex" /\ table[Balance!NextTable(c)] = None)
      BY <2>4
    <3>2. /\ got' = [got EXCEPT ![c] = @ \cup {<<Balance!NextTable(c), table[Balance!NextTable(c)]>>}]
          /\ at' = [at EXCEPT ![c] = IF Balance!Cardinality(got[c]) + 1 = Balance!Cardinality(Balance!Parts[ask[c]]) THEN "store" ELSE "read"]
      BY <1>6, <3>1 DEF Balance!Read, Balance!Go
    <3>3. at'[c] = IF k + 1 = Len(Balance!Order[ask[c]]) THEN "store" ELSE "read"
      BY <1>1, <1>4, <1>5, <3>2 DEF BalanceSlots
    <3>4. got' = [got EXCEPT ![c] = @ \cup {<<Balance!Order[ask[c]][k + 1], table'[Balance!Order[ask[c]][k + 1]]>>}]
      BY <2>1, <2>2, <3>2
    <3>5. QED
      BY <1>0, <1>1, <1>2, <1>3, <1>4, <2>1, <3>3, <3>4
  <2>5. QED
    BY <2>3, <2>4
<1>7. CASE Balance!Make(c)
  <2>1. at[c] = "make" /\ Balance!Order[ask[c]][k + 1] = "vex"
    BY <1>3, <1>7 DEF Balance!Make
  <2>2. CASE table["vex"] = None
    <3>1. /\ table' = [table EXCEPT !["vex"] = 0] /\ got' = [got EXCEPT ![c] = @ \cup {<<"vex", 0>>}] /\ at' = [at EXCEPT ![c] = "read"]
          /\ met' = (met \/ \E d \in Balance!Requests \ {c} : Balance!Wait(d))
      BY <1>7, <2>2 DEF Balance!Make, Balance!Go
    <3>2. table'["vex"] = 0 /\ at'[c] = "read"
      BY <1>1, <3>1 DEF BalanceSlots, Balance!Tables
    <3>3. k + 1 # Len(Balance!Order[ask[c]])
      BY <1>1, <2>1, BalanceLasts
    <3>4. QED
      BY <1>0, <1>1, <1>2, <1>3, <1>4, <2>1, <2>2, <3>1, <3>2, <3>3
  <2>3. CASE table["vex"] # None
    <3>1. table' = table /\ met' = met /\ got' = got /\ at' = [at EXCEPT ![c] = "failed"]
      BY <1>7, <2>3 DEF Balance!Make, Balance!Go
    <3>2. at'[c] = "failed"
      BY <1>1, <3>1 DEF BalanceSlots
    <3>3. QED
      BY <1>0, <1>1, <1>2, <1>3, <1>4, <2>1, <2>3, <3>1, <3>2
  <2>4. QED
    BY <2>2, <2>3
<1>8. QED
  BY <1>6, <1>7

-----------------------------------------------------------------------------
(* A request that is no reader's statement leaves what the readers have read. *)
LEMMA BalanceElse ==
  ASSUME Balance!BalancesAssumption, BalanceSlots, BalanceSides, NEW c \in Balance!Requests, BalanceStep(c), NEW d \in FewCalls,
         at'[d] \in {"read", "make", "store"}
  PROVE  \/ d = c /\ (Balance!Read(c) \/ Balance!Make(c))
         \/ at'[d] = "read" /\ got'[d] = {} /\ d = c /\ Balance!Cached(c)
         \/ d # c /\ at[d] = at'[d] /\ got'[d] = got[d] /\ ask'[d] = ask[d]
<1>0. /\ \A e \in Balance!Requests \ {c} : at'[e] = at[e] /\ got'[e] = got[e]
      /\ (at[c] # "new" => ask' = ask) /\ d \in Balance!Requests
  BY BalanceMoves DEF Balance!Requests
<1>1. CASE d # c
  <2>1. ask'[d] = ask[d]
    <3>1. CASE Balance!Start(c)
      BY <1>0, <1>1, <3>1 DEF Balance!Start, BalanceSlots
    <3>2. QED
      BY <1>0, <3>1 DEF BalanceStep, Balance!Start, Balance!Cached, Balance!Read, Balance!Make, Balance!Store, Balance!Move, Balance!Tell, Balance!Crash
  <2>2. QED
    BY <1>0, <1>1, <2>1
<1>2. CASE d = c /\ Balance!Cached(c)
  BY <1>2 DEF Balance!Cached, Balance!Go, BalanceSlots, BalanceSides
<1>3. CASE d = c /\ (Balance!Start(c) \/ Balance!Store(c) \/ Balance!Tell(c) \/ Balance!Crash(c))
  BY <1>3 DEF Balance!Start, Balance!Store, Balance!Tell, Balance!Crash, Balance!Go, BalanceSlots
<1>4. CASE d = c /\ Balance!Move(c)
  BY <1>4 DEF Balance!Move, BalanceSides
<1>5. QED
  BY <1>1, <1>2, <1>3, <1>4 DEF BalanceStep

(* An answer has a table to begin with. *)
LEMMA BalanceNone ==
  ASSUME NEW k \in 1 .. 3
  PROVE  0 \in 0 .. k /\ 0 < k
OBVIOUS

(* A reader has read some tables of its answer, in their order. *)
LEMMA BalanceReadsKept ==
  ASSUME Balance!BalancesAssumption, BalanceInv, NEW c \in Balance!Requests, BalanceStep(c)
  PROVE  BalanceReads'
<1>0. BalanceSlots /\ BalanceSides /\ BalanceReads /\ BalanceSides'
  BY BalanceSidesKept DEF BalanceInv
<1>1. ASSUME NEW d \in FewCalls, at'[d] \in {"read", "make", "store"} PROVE \E k \in Nat : BalanceRead(d, k)'
  <2>1. CASE d # c /\ at[d] = at'[d] /\ got'[d] = got[d] /\ ask'[d] = ask[d]
    <3>1. PICK k \in Nat : BalanceRead(d, k)
      BY <1>0, <1>1, <2>1 DEF BalanceReads
    <3>2. BalanceRead(d, k)'
      BY <2>1, <3>1 DEF BalanceRead
    <3>3. QED
      BY <3>2
  <2>2. CASE at'[d] = "read" /\ got'[d] = {} /\ d = c /\ Balance!Cached(c)
    <3>1. ask'[d] \in Balance!Answers
      BY <1>0, <2>2 DEF BalanceSides
    <3>2. Len(Balance!Order[ask'[d]]) \in 1 .. 3
      BY <3>1, BalanceOrders
    <3>3. IsFiniteSet({}) /\ Cardinality({}) = 0 /\ 1 .. 0 = {}
      BY FS_EmptySet
    <3>4. BalanceNames({}) = BalanceFirst(ask'[d], 0)
      BY <3>3 DEF BalanceNames, BalanceFirst
    <3>5. IsFiniteSet(got'[d]) /\ Cardinality(got'[d]) = 0
      BY <2>2, <3>3
    <3>6. BalanceNames(got'[d]) = BalanceFirst(ask'[d], 0)
      BY <2>2, <3>4
    <3>7. 0 \in 0 .. Len(Balance!Order[ask'[d]]) /\ 0 < Len(Balance!Order[ask'[d]])
      BY <3>2, BalanceNone, Zenon
    <3>8. BalanceRead(d, 0)'
      BY <2>2, <3>5, <3>6, <3>7, Zenon DEF BalanceRead, BalanceUpTo
    <3>9. QED
      BY <3>8
  <2>3. CASE d = c /\ (Balance!Read(c) \/ Balance!Make(c))
    <3>1. PICK k \in Nat, a \in Balance!Answers, t \in Balance!Tables :
           /\ a = ask[c] /\ ask' = ask /\ BalanceRead(c, k) /\ k < Len(Balance!Order[a]) /\ t = Balance!Order[a][k + 1]
           /\ at[c] \in {"read", "make"} /\ UNCHANGED <<told, torn, cut, silent>>
           /\ \/ at'[c] = "make" /\ t = "vex" /\ table["vex"] = None /\ got' = got /\ table' = table /\ met' = met
              \/ at'[c] = "failed" /\ at[c] = "make" /\ table["vex"] # None /\ got' = got /\ table' = table /\ met' = met
              \/ /\ got' = [got EXCEPT ![c] = @ \cup {<<t, table'[t]>>}]
                 /\ at'[c] = IF k + 1 = Len(Balance!Order[a]) THEN "store" ELSE "read"
                 /\ \/ table' = table /\ met' = met
                    \/ t = "vex" /\ table["vex"] = None /\ table' = [table EXCEPT !["vex"] = 0]
                       /\ met' = (met \/ \E e \in Balance!Requests \ {c} : Balance!Wait(e))
      BY <1>0, <1>1, <2>3, BalanceReader
    <3>2. CASE at'[c] = "make" /\ t = "vex" /\ got' = got
      <4>1. BalanceRead(c, k)'
        BY <3>1, <3>2 DEF BalanceRead
      <4>2. QED
        BY <2>3, <4>1
    <3>3. CASE /\ got' = [got EXCEPT ![c] = @ \cup {<<t, table'[t]>>}]
               /\ at'[c] = IF k + 1 = Len(Balance!Order[a]) THEN "store" ELSE "read"
      <4>1. got'[c] = got[c] \cup {<<Balance!Order[a][k + 1], table'[t]>>}
        BY <1>0, <3>1, <3>3 DEF BalanceSlots
      <4>2. k \in Nat /\ a \in Balance!Answers /\ BalanceUpTo(got[c], a, k) /\ k < Len(Balance!Order[a])
        BY <3>1 DEF BalanceRead
      <4>3. BalanceUpTo(got'[c], a, k + 1)
        <5>1. BalanceUpTo(got[c] \cup {<<Balance!Order[a][k + 1], table'[t]>>}, a, k + 1)
          BY <4>2, BalanceAdds
        <5>2. QED
          BY <4>1, <5>1
      <4>4. Len(Balance!Order[a]) \in 1 .. 3
        BY BalanceOrders
      <4>5. /\ at'[c] \in {"read", "store"} /\ (at'[c] = "read" => k + 1 < Len(Balance!Order[a]))
            /\ (at'[c] = "store" => k + 1 = Len(Balance!Order[a]))
        BY <3>3, <4>2, <4>4
      <4>6. BalanceRead(c, k + 1)'
        BY <3>1, <4>3, <4>5 DEF BalanceRead
      <4>7. QED
        BY <2>3, <4>6
    <3>4. QED
      BY <1>1, <2>3, <3>1, <3>2, <3>3
  <2>4. QED
    BY <1>0, <1>1, <2>1, <2>2, <2>3, BalanceElse
<1>2. QED
  BY <1>1 DEF BalanceReads

(* What it has read is in the tables, while no money moves under a reader. *)
LEMMA BalanceTrueKept ==
  ASSUME Balance!BalancesAssumption, BalanceInv, NEW c \in Balance!Requests, BalanceStep(c)
  PROVE  BalanceTrue'
<1>0. BalanceSlots /\ BalanceSides /\ BalanceReads /\ BalanceTrue
  BY DEF BalanceInv
<1>1. ASSUME NEW d \in FewCalls, at'[d] \in {"read", "make", "store"}, ~torn', NEW p \in got'[d] PROVE BalanceGood(p)'
  <2>1. ~torn
    BY <1>0, <1>1 DEF BalanceSlots, BalanceStep, Balance!Start, Balance!Cached, Balance!Read, Balance!Make, Balance!Store, Balance!Move, Balance!Tell,
                   Balance!Crash, Balance!history
  <2>2. CASE Balance!Read(c) \/ Balance!Make(c)
    <3>0. at[c] \in {"read", "make"}
      BY <2>2 DEF Balance!Read, Balance!Make
    <3>1. c \in FewCalls
      BY <1>0, <2>2, <3>0, BalanceMoves
    <3>2. PICK k \in Nat, a \in Balance!Answers, t \in Balance!Tables :
           /\ a = ask[c] /\ ask' = ask /\ BalanceRead(c, k) /\ k < Len(Balance!Order[a]) /\ t = Balance!Order[a][k + 1]
           /\ at[c] \in {"read", "make"} /\ UNCHANGED <<told, torn, cut, silent>>
           /\ \/ at'[c] = "make" /\ t = "vex" /\ table["vex"] = None /\ got' = got /\ table' = table /\ met' = met
              \/ at'[c] = "failed" /\ at[c] = "make" /\ table["vex"] # None /\ got' = got /\ table' = table /\ met' = met
              \/ /\ got' = [got EXCEPT ![c] = @ \cup {<<t, table'[t]>>}]
                 /\ at'[c] = IF k + 1 = Len(Balance!Order[a]) THEN "store" ELSE "read"
                 /\ \/ table' = table /\ met' = met
                    \/ t = "vex" /\ table["vex"] = None /\ table' = [table EXCEPT !["vex"] = 0]
                       /\ met' = (met \/ \E e \in Balance!Requests \ {c} : Balance!Wait(e))
      BY <1>0, <2>2, <3>1, BalanceReader
    <3>3. table' = table \/ (table["vex"] = None /\ table' = [table EXCEPT !["vex"] = 0])
      BY <3>2
    <3>4. got' = got \/ got' = [got EXCEPT ![c] = @ \cup {<<t, table'[t]>>}]
      BY <3>2
    <3>5. CASE p \in got[d]
      <4>1. BalanceGood(p)
        <5>1. CASE d = c
          BY <1>0, <2>1, <3>0, <3>5, <5>1, <1>1 DEF BalanceTrue
        <5>2. CASE d # c
          <6>1. at'[d] = at[d]
            BY <1>0, <5>2, BalanceMoves DEF Balance!Requests
          <6>2. QED
            BY <1>0, <1>1, <2>1, <3>5, <6>1 DEF BalanceTrue
        <5>3. QED
          BY <5>1, <5>2
      <4>2. QED
        BY <1>0, <3>3, <4>1 DEF BalanceGood, BalanceSlots
    <3>6. CASE p \notin got[d]
      <4>1. p = <<t, table'[t]>>
        BY <1>0, <1>1, <3>1, <3>4, <3>6 DEF BalanceSlots, Balance!Requests
      <4>2. p[1] = t /\ p[2] = table'[t]
        BY <4>1
      <4>3. p[1] \in Balance!Tables /\ p[2] = table'[p[1]]
        BY <4>2
      <4>4. QED
        BY <4>3 DEF BalanceGood
    <3>7. QED
      BY <3>5, <3>6
  <2>3. CASE ~(Balance!Read(c) \/ Balance!Make(c))
    <3>1. at[d] = at'[d] /\ got'[d] = got[d] /\ d # c
      BY <1>0, <1>1, <2>3, BalanceElse
    <3>2. BalanceGood(p)
      BY <1>0, <1>1, <2>1, <3>1 DEF BalanceTrue
    <3>3. CASE Balance!Move(c)
      <4>1. torn' = (torn \/ Balance!Busy)
        BY <3>3 DEF Balance!Move
      <4>2. at[d] = "read" /\ got[d] = {}
        BY <1>1, <3>1, <4>1 DEF Balance!Busy
      <4>3. QED
        BY <1>1, <3>1, <4>2
    <3>4. CASE ~Balance!Move(c)
      <4>1. table' = table
        BY <2>3, <3>4 DEF BalanceStep, Balance!Start, Balance!Cached, Balance!Store, Balance!Tell, Balance!Crash
      <4>2. QED
        BY <3>2, <4>1 DEF BalanceGood
    <3>5. QED
      BY <3>3, <3>4
  <2>4. QED
    BY <2>2, <2>3
<1>2. QED
  BY <1>1 DEF BalanceTrue

-----------------------------------------------------------------------------
(* Only a request that makes the wallet and one that moves money change the tables; a
   request that may come late to make it is noticed. *)
LEMMA BalanceTables ==
  ASSUME Balance!BalancesAssumption, BalanceSlots, BalanceSides, NEW c \in Balance!Requests, BalanceStep(c)
  PROVE  /\ met => met'
         /\ \/ table' = table
            \/ Balance!Move(c)
            \/ /\ Balance!Make(c) /\ table["vex"] = None /\ table' = [table EXCEPT !["vex"] = 0]
               /\ met' = (met \/ \E e \in Balance!Requests \ {c} : Balance!Wait(e))
<1>1. CASE Balance!Make(c)
  BY <1>1 DEF Balance!Make
<1>2. CASE Balance!Move(c)
  BY <1>2 DEF Balance!Move
<1>3. CASE ~Balance!Make(c) /\ ~Balance!Move(c)
  BY <1>3 DEF BalanceStep, Balance!Start, Balance!Cached, Balance!Read, Balance!Store, Balance!Tell, Balance!Crash, Balance!history
<1>4. QED
  BY <1>1, <1>2, <1>3

(* An answer is made only when another has made the wallet it misses. *)
LEMMA BalanceMetKept ==
  ASSUME Balance!BalancesAssumption, BalanceInv, NEW c \in Balance!Requests, BalanceStep(c)
  PROVE  BalanceMet'
<1>0. BalanceSlots /\ BalanceSides /\ BalanceReads /\ BalanceMet /\ FewCalls \subseteq Balance!Requests
  BY DEF BalanceInv, Balance!Requests
<1>1. ASSUME NEW d \in FewCalls, at'[d] = "make" PROVE met' \/ table'["vex"] = None
  <2>1. CASE d = c /\ (Balance!Read(c) \/ Balance!Make(c))
    <3>1. c \in FewCalls
      BY <2>1
    <3>2. table' = table /\ table["vex"] = None
      BY <1>0, <1>1, <2>1, <3>1, BalanceReader
    <3>3. QED
      BY <3>2
  <2>2. CASE d # c /\ at[d] = at'[d]
    <3>1. at[d] = "make" /\ (met \/ table["vex"] = None)
      BY <1>0, <1>1, <2>2 DEF BalanceMet
    <3>2. CASE table' = table \/ met
      BY <1>0, <3>1, <3>2, BalanceTables
    <3>3. CASE Balance!Move(c) /\ ~met
      <4>1. Balance!Busy
        BY <3>1 DEF Balance!Busy
      <4>2. met' = (met \/ ("vex" \in Balance!Changes[ask[c]] /\ Balance!Busy))
        BY <3>3 DEF Balance!Move
      <4>3. "vex" \notin Balance!Changes[ask[c]] => table'["vex"] = table["vex"]
        BY <3>3 DEF Balance!Move, Balance!Tables
      <4>4. QED
        BY <3>1, <3>3, <4>1, <4>2, <4>3
    <3>4. CASE met' = (met \/ \E e \in Balance!Requests \ {c} : Balance!Wait(e))
      BY <1>0, <2>2, <3>1, <3>4 DEF Balance!Wait
    <3>5. QED
      BY <1>0, <3>2, <3>3, <3>4, BalanceTables
  <2>3. QED
    BY <1>0, <1>1, <2>1, <2>2, BalanceElse
<1>2. ASSUME NEW d \in FewCalls, at'[d] = "failed" PROVE met'
  <2>1. CASE at[d] = "failed"
    BY <1>0, <2>1, BalanceTables DEF BalanceMet
  <2>2. CASE at[d] # "failed"
    <3>1. d = c
      BY <1>0, <1>2, <2>2, BalanceMoves
    <3>2. Balance!Make(c)
      BY <1>0, <1>2, <2>2, <3>1 DEF BalanceStep, BalanceSlots, Balance!Start, Balance!Cached, Balance!Read, Balance!Store, Balance!Move,
         Balance!Tell, Balance!Crash, Balance!Go
    <3>3. at[d] = "make" /\ table["vex"] # None
      BY <1>0, <1>2, <3>1, <3>2 DEF Balance!Make, Balance!Go, BalanceSlots
    <3>4. QED
      BY <1>0, <3>3, BalanceTables DEF BalanceMet
  <2>3. QED
    BY <2>1, <2>2
<1>3. QED
  BY <1>1, <1>2 DEF BalanceMet

(* What is kept is about the tables. *)
LEMMA BalanceToldKept ==
  ASSUME Balance!BalancesAssumption, BalanceInv, NEW c \in Balance!Requests, BalanceStep(c)
  PROVE  BalanceTold'
<1>0. BalanceSlots /\ BalanceSides /\ BalanceReads /\ BalanceTold
  BY DEF BalanceInv
<1>1. CASE Balance!Store(c)
  <2>1. at[c] = "store" /\ told' = [told EXCEPT ![ask[c]] = got[c]] /\ c \in FewCalls
    BY <1>0, <1>1, BalanceMoves DEF Balance!Store
  <2>2. ask[c] \in Balance!Answers
    BY <1>0, <2>1 DEF BalanceSides
  <2>3. PICK k \in Nat : BalanceRead(c, k)
    BY <1>0, <2>1 DEF BalanceReads
  <2>4. BalanceNames(got[c]) = BalanceFirst(ask[c], k) /\ k = Len(Balance!Order[ask[c]])
    BY <2>1, <2>3 DEF BalanceRead, BalanceUpTo
  <2>5. BalanceFirst(ask[c], k) \subseteq Balance!Tables
    BY <2>2, <2>4, BalanceOrders DEF BalanceFirst
  <2>6. BalanceNames(got[c]) \subseteq Balance!Tables
    BY <2>4, <2>5
  <2>7. \A a \in Balance!Answers : told'[a] = IF a = ask[c] THEN got[c] ELSE told[a]
    BY <1>0, <2>1, <2>2 DEF BalanceSlots
  <2>8. ASSUME NEW a \in Balance!Answers, told'[a] # None PROVE BalanceNames(told'[a]) \subseteq Balance!Tables
    <3>1. CASE a = ask[c]
      BY <2>6, <2>7, <3>1
    <3>2. CASE a # ask[c]
      <4>1. told'[a] = told[a]
        BY <2>7, <3>2
      <4>2. BalanceNames(told[a]) \subseteq Balance!Tables
        BY <1>0, <2>8, <4>1 DEF BalanceTold
      <4>3. QED
        BY <4>1, <4>2
    <3>3. QED
      BY <3>1, <3>2
  <2>9. QED
    BY <2>8 DEF BalanceTold, BalanceNames
<1>2. CASE Balance!Tell(c)
  <2>1. \A a \in Balance!Answers : told'[a] = None
    BY <1>2 DEF Balance!Tell, Balance!Told
  <2>2. QED
    BY <2>1 DEF BalanceTold
<1>3. CASE ~Balance!Store(c) /\ ~Balance!Tell(c)
  <2>1. told' = told
    BY <1>3 DEF BalanceStep, Balance!Start, Balance!Cached, Balance!Read, Balance!Make, Balance!Move, Balance!Crash
  <2>2. QED
    BY <1>0, <2>1 DEF BalanceTold, BalanceNames
<1>4. QED
  BY <1>1, <1>2, <1>3

(* An answer kept says what the tables say. *)
LEMMA BalanceCurrentKept ==
  ASSUME Balance!BalancesAssumption, BalanceInv, NEW c \in Balance!Requests, BalanceStep(c)
  PROVE  Balance!BalancesCurrent'
<1>0. BalanceSlots /\ BalanceSides /\ BalanceTrue /\ BalanceTold /\ Balance!BalancesCurrent /\ FewCalls \subseteq Balance!Requests
        /\ Moves \subseteq Balance!Requests /\ FewCalls \cap Moves = {}
  BY DEF BalanceInv, Balance!Requests, Balance!BalancesAssumption
<1>1. SUFFICES ASSUME ~torn', ~cut', ~silent', \A m \in Moves : at'[m] # "tell",
                      NEW a \in Balance!Answers, told'[a] # None, NEW p \in told'[a]
               PROVE  p[2] = table'[p[1]] \/ (p[2] = None /\ table'[p[1]] = 0)
  BY DEF Balance!BalancesCurrent
<1>2. ~torn /\ ~cut /\ ~silent /\ ~Balance!Move(c) /\ ~Balance!Tell(c) /\ ~Balance!Crash(c)
  <2>1. CASE Balance!Move(c)
    <3>1. at' = [at EXCEPT ![c] = IF ask[c] \in Balance!Tells THEN "tell" ELSE "done"] /\ silent' = (silent \/ ask[c] \notin Balance!Tells)
            /\ at[c] = "move"
      BY <2>1 DEF Balance!Move, Balance!Go
    <3>2. at'[c] = "tell" /\ c \in Moves
      BY <1>0, <1>1, <3>1, BalanceMoves DEF BalanceSlots
    <3>3. QED
      BY <1>1, <3>2
  <2>2. CASE Balance!Tell(c)
    <3>1. told'[a] = None
      BY <2>2 DEF Balance!Tell, Balance!Told
    <3>2. QED
      BY <1>1, <3>1
  <2>3. CASE Balance!Crash(c)
    BY <1>1, <2>3 DEF Balance!Crash
  <2>4. ~Balance!Move(c) /\ ~Balance!Tell(c) /\ ~Balance!Crash(c)
    BY <2>1, <2>2, <2>3
  <2>5. torn' = torn /\ cut' = cut /\ silent' = silent
    BY <2>4 DEF BalanceStep, Balance!Start, Balance!Cached, Balance!Read, Balance!Make, Balance!Store, Balance!history
  <2>6. QED
    BY <1>1, <2>4, <2>5
<1>3. \A m \in Moves : at[m] # "tell"
  <2>1. at[c] # "tell"
    BY <1>2 DEF BalanceStep, Balance!Start, Balance!Cached, Balance!Read, Balance!Make, Balance!Store
  <2>2. QED
    BY <1>0, <1>1, <2>1, BalanceMoves
<1>4. \A b \in Balance!Answers : told[b] # None => \A q \in told[b] : q[2] = table[q[1]] \/ (q[2] = None /\ table[q[1]] = 0)
  BY <1>0, <1>2, <1>3 DEF Balance!BalancesCurrent
<1>5. CASE Balance!Store(c)
  <2>1. at[c] = "store" /\ told' = [told EXCEPT ![ask[c]] = got[c]] /\ c \in FewCalls /\ table' = table
    BY <1>0, <1>5, BalanceMoves DEF Balance!Store
  <2>2. ask[c] \in Balance!Answers
    BY <1>0, <2>1 DEF BalanceSides
  <2>3. told'[a] = IF a = ask[c] THEN got[c] ELSE told[a]
    BY <1>0, <2>1, <2>2 DEF BalanceSlots
  <2>4. CASE a = ask[c]
    <3>1. BalanceGood(p)
      BY <1>0, <1>2, <2>1, <2>3, <2>4 DEF BalanceTrue
    <3>2. QED
      BY <2>1, <3>1 DEF BalanceGood
  <2>5. CASE a # ask[c]
    BY <1>1, <1>4, <2>1, <2>3, <2>5
  <2>6. QED
    BY <2>4, <2>5
<1>6. CASE ~Balance!Store(c)
  <2>1. told' = told
    BY <1>2, <1>6 DEF BalanceStep, Balance!Start, Balance!Cached, Balance!Read, Balance!Make
  <2>2. p[2] = table[p[1]] \/ (p[2] = None /\ table[p[1]] = 0)
    BY <1>1, <1>4, <2>1
  <2>3. p[1] \in Balance!Tables
    BY <1>0, <1>1, <2>1 DEF BalanceTold, BalanceNames
  <2>4. table' = table \/ (table["vex"] = None /\ table' = [table EXCEPT !["vex"] = 0])
    BY <1>0, <1>2, BalanceTables
  <2>5. QED
    BY <1>0, <2>2, <2>3, <2>4 DEF BalanceSlots
<1>7. QED
  BY <1>5, <1>6

(* Every step keeps what is kept of balances. *)
LEMMA BalanceKept ==
  ASSUME Balance!BalancesAssumption, BalanceInv, Balance!Next
  PROVE  BalanceInv'
<1>1. ASSUME NEW c \in Balance!Requests, BalanceStep(c) PROVE BalanceInv'
  <2>1. BalanceSlots' /\ BalanceSides'
    BY <1>1, BalanceSlotsKept, BalanceSidesKept DEF BalanceInv
  <2>2. BalanceReads' /\ BalanceTrue' /\ BalanceTold' /\ BalanceMet' /\ Balance!BalancesCurrent'
    BY <1>1, BalanceReadsKept, BalanceTrueKept, BalanceToldKept, BalanceMetKept, BalanceCurrentKept
  <2>3. QED
    BY <2>1, <2>2 DEF BalanceInv
<1>2. ASSUME NEW a \in Balance!Answers, Balance!Expire(a) PROVE BalanceInv'
  <2>1. told' = [told EXCEPT ![a] = None] /\ UNCHANGED <<table, ask, at, got, torn, cut, silent, met>>
    BY <1>2 DEF Balance!Expire, Balance!history
  <2>2. DOMAIN told' = Balance!Answers /\ \A b \in Balance!Answers : told'[b] = None \/ told'[b] = told[b]
    BY <2>1 DEF BalanceInv, BalanceSlots
  <2>3. BalanceSlots' /\ BalanceSides' /\ BalanceMet'
    BY <2>1, <2>2 DEF BalanceInv, BalanceSlots, BalanceSides, BalanceMet
  <2>4. BalanceReads'
    BY <2>1 DEF BalanceInv, BalanceReads, BalanceRead
  <2>5. BalanceTrue'
    BY <2>1 DEF BalanceInv, BalanceTrue, BalanceGood
  <2>6. BalanceTold'
    <3>1. ASSUME NEW b \in Balance!Answers, told'[b] # None PROVE BalanceNames(told'[b]) \subseteq Balance!Tables
      <4>1. told'[b] = told[b]
        BY <2>2, <3>1
      <4>2. BalanceNames(told[b]) \subseteq Balance!Tables
        BY <3>1, <4>1 DEF BalanceInv, BalanceTold
      <4>3. QED
        BY <4>1, <4>2
    <3>2. QED
      BY <3>1 DEF BalanceTold, BalanceNames
  <2>7. Balance!BalancesCurrent'
    BY <2>1, <2>2 DEF BalanceInv, Balance!BalancesCurrent
  <2>8. QED
    BY <2>3, <2>4, <2>5, <2>6, <2>7 DEF BalanceInv
<1>3. QED
  BY <1>1, <1>2 DEF Balance!Next, BalanceStep

(* It holds at first. *)
LEMMA BalanceInit ==
  ASSUME Balance!BalancesAssumption, Balance!Init
  PROVE  BalanceInv
<1>0. FewCalls \subseteq Balance!Requests /\ Moves \subseteq Balance!Requests /\ MaxMoneyMoves \in Nat \ {0} /\ 0 \in 0 .. MaxMoneyMoves
  BY DEF Balance!Requests, Balance!BalancesAssumption
<1>1. /\ told = [a \in Balance!Answers |-> None] /\ ask = [c \in Balance!Requests |-> None] /\ at = [c \in Balance!Requests |-> "new"]
      /\ got = [c \in Balance!Requests |-> {}] /\ torn = FALSE /\ cut = FALSE /\ silent = FALSE /\ met = FALSE
  BY DEF Balance!Init
<1>2. table \in [Balance!Tables -> (0 .. MaxMoneyMoves) \cup {None}]
  BY <1>0 DEF Balance!Init
<1>3. BalanceSlots
  BY <1>1, <1>2 DEF BalanceSlots, BalanceLabels
<1>4. BalanceSides /\ BalanceReads /\ BalanceTrue /\ BalanceTold /\ BalanceMet
  BY <1>0, <1>1 DEF BalanceSides, BalanceReads, BalanceTrue, BalanceTold, BalanceMet
<1>5. Balance!BalancesCurrent
  BY <1>1 DEF Balance!BalancesCurrent
<1>6. QED
  BY <1>3, <1>4, <1>5 DEF BalanceInv

(* It gives what is checked of balances. *)
LEMMA BalanceHolds ==
  ASSUME BalanceInv
  PROVE  Balance!BalancesCurrent /\ Balance!AnswersGiven /\ Balance!TypeOK
<1>1. Balance!BalancesCurrent /\ Balance!AnswersGiven
  BY DEF BalanceInv, BalanceMet, Balance!AnswersGiven
<1>2. ASSUME NEW c \in FewCalls, at[c] = "store" PROVE {p[1] : p \in got[c]} = Balance!Parts[ask[c]]
  <2>1. PICK k \in Nat : BalanceRead(c, k)
    BY <1>2 DEF BalanceInv, BalanceReads
  <2>2. BalanceNames(got[c]) = BalanceFirst(ask[c], k) /\ k = Len(Balance!Order[ask[c]])
    BY <1>2, <2>1 DEF BalanceRead, BalanceUpTo
  <2>3. ask[c] \in Balance!Answers
    BY <1>2 DEF BalanceInv, BalanceSides
  <2>4. Balance!Parts[ask[c]] = BalanceFirst(ask[c], Len(Balance!Order[ask[c]]))
    BY <2>3, BalanceOrders DEF BalanceFirst
  <2>5. QED
    BY <2>2, <2>4 DEF BalanceNames
<1>3. Balance!TypeOK
  BY <1>2 DEF BalanceInv, BalanceSlots, BalanceLabels, Balance!TypeOK
<1>4. QED
  BY <1>1, <1>3

(* A step that changes nothing of balances. *)
LEMMA BalanceStill ==
  ASSUME BalanceInv, UNCHANGED <<table, told, ask, at, got, torn, cut, silent, met>>
  PROVE  BalanceInv'
<1>1. BalanceSlots' /\ BalanceSides' /\ BalanceMet'
  BY DEF BalanceInv, BalanceSlots, BalanceSides, BalanceMet
<1>2. BalanceReads' /\ BalanceTrue' /\ BalanceTold'
  BY DEF BalanceInv, BalanceReads, BalanceRead, BalanceTrue, BalanceGood, BalanceTold, BalanceNames
<1>3. Balance!BalancesCurrent'
  BY DEF BalanceInv, Balance!BalancesCurrent
<1>4. QED
  BY <1>1, <1>2, <1>3 DEF BalanceInv
=============================================================================
