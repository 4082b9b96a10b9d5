------------------------------ MODULE Messaging -------------------------------
(***************************************************************************)
(* Direct conversations and their messages: ConversationService            *)
(* (conversation.service.ts) and MessageService (message.service.ts), with *)
(* the removal of an account (profile-user.service.ts), whose participant  *)
(* rows the database deletes.                                              *)
(*                                                                         *)
(* A request is one member of Calls and each awaited statement is a step.  *)
(* A row is named by the request that created it and the user it is for.   *)
(* One message stands for the messages a request forwards.                 *)
(***************************************************************************)
EXTENDS FiniteSets

CONSTANTS Users, Calls,
          Requests, \* the requests clients make
          None      \* no row

Kinds == {"open", "close", "send", "sendgift", "unsend", "forward", "read", "quit"}
Request == [kind: Kinds, by: Users, to: SUBSET Users]
Ids == Calls \X Users

MessagingAssumption ==
    /\ Requests \subseteq Request /\ None \notin [Users -> {"none", "in", "left"}] /\ None \notin Ids
    /\ None \notin [conv: Ids, by: Users, to: Users \cup {None}, read: BOOLEAN, deleted: BOOLEAN]
    /\ \A r \in Requests : r.kind = "open" => \E u \in Users : r.to = {u}

VARIABLES
    account, \* users whose res_user row exists
    conv,    \* per id, the participant rows of the direct conversation, or None
    msg,     \* per id, the message: its conversation, sender and flags, or None
    gift,    \* res_gift rows made by gift messages, named by their request
    call, pc,
    todo,    \* per request, the recipients not yet served
    found,   \* per request, the row it has found or was given
    crossed  \* history: pairs of users two requests at once might open a conversation for

rows == <<account, conv, msg, gift>>
handler == <<call, pc, todo, found>>
vars == <<rows, handler, crossed>>

Active(c) == pc[c] \notin {"new", "done"}
Convs == {i \in Ids : conv[i] # None}
Seated(i) == {u \in Users : conv[i][u] # "none"}

Goto(c, to) == pc' = [pc EXCEPT ![c] = to]
Reads == UNCHANGED <<rows, crossed>>
Answer(c) == Goto(c, "done") /\ UNCHANGED <<call, todo, found>>

First == [open |-> "find", close |-> "seat", send |-> "check", sendgift |-> "check", unsend |-> "mine",
          forward |-> "source", read |-> "mark", quit |-> "erase"]

\* The pairs of users a request may create a conversation for.
Pairs(r) == IF r.kind \in {"open", "forward"} THEN {{r.by, u} : u \in r.to} ELSE {}

\* A client names a conversation he has, or had, a seat in, or a message.
Names(r) == IF r.kind \in {"close", "send", "sendgift", "read"} THEN {i \in Convs : r.by \in Seated(i)}
            ELSE IF r.kind \in {"unsend", "forward"} THEN {i \in Ids : msg[i] # None} ELSE {None}

Start(c) ==
    /\ pc[c] = "new"
    /\ \E r \in Requests :
        /\ r.by \in account /\ (r.kind = "open" => r.to # {r.by})
        /\ \E i \in Names(r) : found' = [found EXCEPT ![c] = i]
        /\ call' = [call EXCEPT ![c] = r] /\ todo' = [todo EXCEPT ![c] = r.to]
        /\ Goto(c, First[r.kind])
        /\ crossed' = crossed \cup UNION {Pairs(r) \cap Pairs(call[d]) : d \in {e \in Calls : Active(e)}}
    /\ UNCHANGED rows

-----------------------------------------------------------------------------
\* Mutant: a conversation one of the two has left does not count.
BetweenNow(i, u, v) == Seated(i) = {u, v} /\ conv[i][u] = "in" /\ conv[i][v] = "in"
\* createConversation looks for one in which both have a row and nobody else.
Between(i, u, v) == Seated(i) = {u, v}

\* The one found is returned, or not found if the user has left it.
FindDirect(c) ==
    /\ pc[c] = "find"
    /\ IF \E i \in Convs, v \in todo[c] : Between(i, call[c].by, v) THEN Answer(c)
       ELSE Goto(c, "create") /\ UNCHANGED <<call, todo, found>>
    /\ Reads

\* The conversation with its two participants, one insertion.
NewConv(c, v) ==
    conv' = [conv EXCEPT ![<<c, v>>] = [u \in Users |-> IF u \in {call[c].by, v} THEN "in" ELSE "none"]]

CreateDirect(c) ==
    /\ pc[c] = "create"
    /\ \E v \in todo[c] : IF {call[c].by, v} \subseteq account THEN NewConv(c, v) ELSE UNCHANGED conv
    /\ Answer(c) /\ UNCHANGED <<account, msg, gift, crossed>>

Sits(c) == call[c].by \in Users /\ conv[found[c]][call[c].by] = "in"

\* deleteConversation and sendMessage look for the user's participant.
FindSeat(c) ==
    /\ pc[c] \in {"seat", "check"}
    /\ IF ~Sits(c) THEN Answer(c)
       ELSE /\ Goto(c, CASE call[c].kind = "close" -> "unseat" [] call[c].kind = "sendgift" -> "peer" [] OTHER -> "write")
            /\ UNCHANGED <<call, todo, found>>
    /\ Reads

Unseat(c) ==
    /\ pc[c] = "unseat"
    /\ conv' = [conv EXCEPT ![found[c]][call[c].by] = IF @ = "none" THEN @ ELSE "left"]
    /\ Answer(c) /\ UNCHANGED <<account, msg, gift, crossed>>

-----------------------------------------------------------------------------
\* A gift message first makes the gift, if the other has not left.
FindPeer(c) ==
    /\ pc[c] = "peer"
    /\ Goto(c, IF \E v \in Users \ {call[c].by} : conv[found[c]][v] = "in" THEN "give" ELSE "write")
    /\ UNCHANGED <<call, todo, found>> /\ Reads

Give(c) ==
    /\ pc[c] = "give"
    /\ IF Seated(found[c]) \subseteq {call[c].by} THEN Answer(c) /\ UNCHANGED gift
       ELSE gift' = gift \cup {c} /\ Goto(c, "write") /\ UNCHANGED <<call, todo, found>>
    /\ UNCHANGED <<account, conv, msg, crossed>>

Message(i, by, to) == [conv |-> i, by |-> by, to |-> to, read |-> FALSE, deleted |-> FALSE]

Write(c) ==
    /\ pc[c] = "write"
    /\ msg' = IF call[c].by \in account THEN [msg EXCEPT ![<<c, call[c].by>>] = Message(found[c], call[c].by, None)] ELSE msg
    /\ Answer(c) /\ UNCHANGED <<account, conv, gift, crossed>>

\* deleteMessage: the sender marks his message.
FindMine(c) ==
    /\ pc[c] = "mine"
    /\ IF msg[found[c]].by = call[c].by THEN Goto(c, "retract") /\ UNCHANGED <<call, todo, found>> ELSE Answer(c)
    /\ Reads

Retract(c) ==
    /\ pc[c] = "retract"
    /\ msg' = [msg EXCEPT ![found[c]].deleted = TRUE]
    /\ Answer(c) /\ UNCHANGED <<account, conv, gift, crossed>>

\* markAsRead: every message of others.
MarkRead(c) ==
    /\ pc[c] = "mark"
    /\ msg' = [i \in Ids |-> IF msg[i] # None /\ msg[i].conv = found[c] /\ msg[i].by # call[c].by
                             THEN [msg[i] EXCEPT !.read = TRUE] ELSE msg[i]]
    /\ Answer(c) /\ UNCHANGED <<account, conv, gift, crossed>>

-----------------------------------------------------------------------------
\* forwardMessages reads the messages once, deleted ones excluded ...
FindSource(c) ==
    /\ pc[c] = "source"
    /\ IF msg[found[c]].deleted THEN Answer(c) ELSE Goto(c, "dest") /\ UNCHANGED <<call, todo, found>>
    /\ Reads

\* Mutant: any conversation of the sender will do.
SuitsOwn(i, u, v) == u \in Seated(i)
\* ... and takes for each recipient a conversation nobody else has a seat in;
\* it does not ask that both have one.
Suits(i, u, v) == Seated(i) \subseteq {u, v}

FindDestination(c) ==
    /\ pc[c] = "dest"
    /\ IF todo[c] = {} THEN Answer(c)
       ELSE \E v \in todo[c] :
           /\ \/ \E i \in Convs : Suits(i, call[c].by, v) /\ found' = [found EXCEPT ![c] = <<i, v>>] /\ Goto(c, "copy")
              \/ /\ \A i \in Convs : ~Suits(i, call[c].by, v)
                 /\ found' = [found EXCEPT ![c] = <<None, v>>] /\ Goto(c, "make")
           /\ UNCHANGED <<call, todo>>
    /\ Reads

MakeDestination(c) ==
    /\ pc[c] = "make"
    /\ LET v == found[c][2] IN
        IF {call[c].by, v} \subseteq account /\ v # call[c].by
        THEN NewConv(c, v) /\ found' = [found EXCEPT ![c] = <<<<c, v>>, v>>] /\ Goto(c, "copy") /\ UNCHANGED <<call, todo>>
        ELSE Answer(c) /\ UNCHANGED conv
    /\ UNCHANGED <<account, msg, gift, crossed>>

Copy(c) ==
    /\ pc[c] = "copy"
    /\ LET v == found[c][2] IN
        IF call[c].by \in account
        THEN /\ msg' = [msg EXCEPT ![<<c, v>>] = Message(found[c][1], call[c].by, v)]
             /\ todo' = [todo EXCEPT ![c] = @ \ {v}] /\ Goto(c, "dest") /\ UNCHANGED <<call, found>>
        ELSE Answer(c) /\ UNCHANGED msg
    /\ UNCHANGED <<account, conv, gift, crossed>>

\* Mutant: conversations are deleted with the account that opened them.
BoundWriter(u) == \E i \in Ids : msg[i] # None /\ msg[i].by = u
\* A foreign key refers to the account, and does not cascade.
Bound(u) == (\E i \in Convs : call[i[1]].by = u) \/ (\E i \in Ids : msg[i] # None /\ msg[i].by = u)

\* The account is deleted with its participant rows, and the gifts it sent or
\* received; the database refuses it to who opened a conversation or wrote.
Erase(c) ==
    /\ pc[c] = "erase"
    /\ LET u == call[c].by IN
        IF Bound(u) THEN UNCHANGED <<account, conv, gift>>
        ELSE /\ account' = account \ {u}
             /\ conv' = [i \in Ids |-> IF conv[i] = None THEN None ELSE [conv[i] EXCEPT ![u] = "none"]]
             /\ gift' = {d \in gift : u \notin Seated(found[d])}
    /\ Answer(c) /\ UNCHANGED <<msg, crossed>>

\* The process dies between two statements.
Crash(c) == pc[c] \in {"write", "copy", "dest"} /\ Answer(c) /\ Reads

Handle(c) ==
    \/ Start(c) \/ FindDirect(c) \/ CreateDirect(c) \/ FindSeat(c) \/ Unseat(c) \/ FindPeer(c) \/ Give(c) \/ Write(c)
    \/ FindMine(c) \/ Retract(c) \/ MarkRead(c) \/ FindSource(c) \/ FindDestination(c) \/ MakeDestination(c)
    \/ Copy(c) \/ Erase(c) \/ Crash(c)

Init ==
    /\ account = Users /\ conv = [i \in Ids |-> None] /\ msg = [i \in Ids |-> None] /\ gift = {}
    /\ call = [c \in Calls |-> None] /\ pc = [c \in Calls |-> "new"]
    /\ todo = [c \in Calls |-> {}] /\ found = [c \in Calls |-> None]
    /\ crossed = {}

Next == \E c \in Calls : Handle(c)
Spec == Init /\ [][Next]_vars

-----------------------------------------------------------------------------
Labels == {"new", "done", "find", "create", "seat", "unseat", "check", "peer", "give", "write", "mine", "retract",
           "source", "dest", "make", "copy", "mark", "erase"}

\* Messages lie in conversations; the creator of a conversation, and whoever
\* wrote a message, still has his account.
TypeOK ==
    /\ account \subseteq Users /\ gift \subseteq Calls
    /\ \A i \in Ids : conv[i] # None =>
        /\ conv[i] \in [Users -> {"none", "in", "left"}] /\ Seated(i) \subseteq account
        /\ call[i[1]].by \in Seated(i)
    /\ \A i \in Ids : msg[i] # None => msg[i].conv \in Convs /\ msg[i].by \in account
    /\ call \in [Calls -> Requests \cup {None}] /\ pc \in [Calls -> Labels]
    /\ todo \in [Calls -> SUBSET Users]
    /\ found \in [Calls -> Ids \cup {None} \cup ((Ids \cup {None}) \X Users)]

\* Two users have at most one direct conversation, also after one of them, or
\* both, have left it: messages of a pair are never split over two, unless two
\* requests that might open it overlapped.
OneDirect ==
    \A i, j \in Convs : i # j /\ Seated(i) = Seated(j) /\ Cardinality(Seated(i)) = 2 => Seated(i) \in crossed

\* A forwarded message is in a conversation where the forwarder and the recipient
\* have their seats, unless it has lost a participant with his account.
ForwardsArrive ==
    \A i \in Ids : msg[i] # None /\ msg[i].to # None /\ Cardinality(Seated(msg[i].conv)) = 2
                   => {msg[i].by, msg[i].to} = Seated(msg[i].conv)
=============================================================================
