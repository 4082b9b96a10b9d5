-------------------------------- MODULE Events --------------------------------
(***************************************************************************)
(* The participants of one event: EventService (event.service.ts).         *)
(***************************************************************************)
EXTENDS Integers, FiniteSets

CONSTANTS Users, Calls, Creator,
          Limits, \* values of max_participants
          None    \* no row, no limit

Answers == {"going", "maybe"}
Kinds == {"join", "leave", "resize", "cancel"}
Maxima == Limits \cup {None}
Request == {r \in [kind: Kinds, by: Users, answer: Answers \cup {None}, max: Maxima] :
               (r.answer # None <=> r.kind = "join") /\ (r.max # None => r.kind = "resize")}

\* The dto asks for a number: zero and less pass.
EventsAssumption ==
    Creator \in Users /\ Limits \subseteq Int /\ None \notin Answers /\ None \notin Limits /\ None \notin [max: Maxima]

VARIABLES
    event,   \* its max_participants, a limit or None; or None once it is deleted
    going,   \* per user, the status of the participant row, or None
    ask, at, \* per request, what it asks and the statement it awaits
    rushed   \* history: two joins overlapped, or the limit was lowered

vars == <<event, going, ask, at, rushed>>

Coming == {u \in Users : going[u] = "going"}

\* A limit of zero is no limit, and one below zero lets nobody in.
Limited(max) == max \notin {None, 0}
Over(max) == Limited(max) /\ Coming # {} /\ max < Cardinality(Coming)

Active(c) == at[c] \notin {"new", "done"}
Go(c, to) == at' = [at EXCEPT ![c] = to] /\ UNCHANGED ask

Start(c) ==
    /\ at[c] = "new"
    /\ \E r \in Request :
        /\ ask' = [ask EXCEPT ![c] = r] /\ at' = [at EXCEPT ![c] = IF r.kind = "leave" THEN "leave" ELSE "find"]
        /\ rushed' = (rushed \/ (r.kind \in {"join", "resize"} /\ \E d \in Calls : Active(d) /\ ask[d].kind \in {"join", "resize"}))
    /\ UNCHANGED <<event, going>>

\* Joining needs the event, and keeps the limit it has read, if there is one;
\* changing it needs its creator.
Joining == IF Limited(event.max) THEN "count" ELSE "upsert"
FindEvent(c) ==
    /\ at[c] = "find"
    /\ IF event # None /\ (ask[c].kind # "join" => ask[c].by = Creator)
       THEN /\ at' = [at EXCEPT ![c] = [join |-> Joining, resize |-> "update", cancel |-> "delete"][ask[c].kind]]
            /\ ask' = IF ask[c].kind = "join" THEN [ask EXCEPT ![c].max = event.max] ELSE ask
       ELSE Go(c, "done")
    /\ UNCHANGED <<event, going, rushed>>

\* Mutant: the last place is given twice.
FullPlus(c) == Cardinality(Coming) > ask[c].max
Full(c) == Cardinality(Coming) >= ask[c].max

Count(c) ==
    /\ at[c] = "count"
    /\ Go(c, IF Full(c) /\ ask[c].answer = "going" THEN "done" ELSE "upsert")
    /\ UNCHANGED <<event, going, rushed>>

Upsert(c) ==
    /\ at[c] = "upsert"
    /\ going' = IF event = None THEN going ELSE [going EXCEPT ![ask[c].by] = ask[c].answer]
    /\ Go(c, "done") /\ UNCHANGED <<event, rushed>>

LeaveEvent(c) ==
    /\ at[c] = "leave"
    /\ going' = [going EXCEPT ![ask[c].by] = None]
    /\ Go(c, "done") /\ UNCHANGED <<event, rushed>>

Resize(c) ==
    /\ at[c] = "update"
    /\ IF event = None THEN UNCHANGED <<event, rushed>>
       ELSE event' = [event EXCEPT !.max = ask[c].max] /\ rushed' = (rushed \/ Over(ask[c].max))
    /\ Go(c, "done") /\ UNCHANGED going

\* The deletion cascades to the participants.
Cancel(c) ==
    /\ at[c] = "delete"
    /\ event' = None /\ going' = [u \in Users |-> None]
    /\ Go(c, "done") /\ UNCHANGED rushed

Init ==
    /\ event \in [max: Maxima] /\ going = [u \in Users |-> None] /\ rushed = FALSE
    /\ ask = [c \in Calls |-> None] /\ at = [c \in Calls |-> "new"]

Next == \E c \in Calls :
    Start(c) \/ FindEvent(c) \/ Count(c) \/ Upsert(c) \/ LeaveEvent(c) \/ Resize(c) \/ Cancel(c)
Spec == Init /\ [][Next]_vars

-----------------------------------------------------------------------------
TypeOK ==
    /\ event \in [max: Maxima] \cup {None} /\ going \in [Users -> Answers \cup {None}]
    /\ event = None => Coming = {}
    /\ ask \in [Calls -> [kind: Kinds, by: Users, answer: Answers \cup {None}, max: Maxima] \cup {None}]
    /\ at \in [Calls -> {"new", "done", "find", "count", "upsert", "leave", "update", "delete"}]

\* No more people are going than the event has places, if it has a limit other than
\* zero, unless a join or a change of the limit overlapped a join or the creator took
\* places away; nobody is going to one whose limit is below zero.
EventNotOverfull == event # None /\ ~rushed => ~Over(event.max)
===============================================================================
