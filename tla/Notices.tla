------------------------------- MODULE Notices -------------------------------
(***************************************************************************)
(* Notifications: NotificationService (notifications/service).  A write is *)
(* followed by the push to the user's sockets and by the deletion of his   *)
(* cached lists, each a step of its request.                               *)
(***************************************************************************)
EXTENDS Naturals, FiniteSets

CONSTANTS Users, Calls,
          MaxNotes, \* bound on the notifications
          None

Writes == {"create", "setStatus", "markRead", "markAll", "delete", "deleteAll"}
Lists == {"list", "unread list", "unread count"}
NoticesAssumption == MaxNotes \in Nat \ {0}

VARIABLES
    notes,   \* the rows: id, owner, read
    last,    \* the last id given
    lists,   \* per user and list, the cached rows, or None
    ask, at, \* per request, what it asks and the statement it awaits
    got,     \* per request, the rows it has read
    pushed,  \* the notifications pushed
    torn     \* history: a reader read before a write and was to store after it, or a write was cut off

rows == <<notes, last>>
requests == <<ask, at, got>>
vars == <<rows, lists, requests, pushed, torn>>

Go(c, to) == at' = [at EXCEPT ![c] = to] /\ UNCHANGED ask

Start(c) ==
    /\ at[c] = "new"
    /\ \E k \in Writes \cup Lists, u \in Users, i \in 1 .. MaxNotes, b \in BOOLEAN :
        /\ ask' = [ask EXCEPT ![c] = [kind |-> k, by |-> u, id |-> i, read |-> b]]
        /\ at' = [at EXCEPT ![c] = IF k \in Lists THEN "cache" ELSE IF k \in {"setStatus", "markRead"} THEN "find" ELSE "write"]
        /\ k \notin {"setStatus", "markRead", "delete"} => i = 1
        /\ b \/ k = "setStatus"
    /\ UNCHANGED <<rows, lists, got, torn, pushed>>

\* Mutant: anybody's notification.
Any(r) == {n \in notes : n.id = r.id}
Own(r) == {n \in notes : n.id = r.id /\ n.of = r.by}
Mine(u) == {n \in notes : n.of = u}

\* markRead asks for a notification of the caller; setStatus for anybody's, and goes
\* on for its owner.
Found(r) == IF r.kind = "setStatus" THEN {n \in notes : n.id = r.id} ELSE Own(r)

Find(c) ==
    /\ at[c] = "find"
    /\ \/ Found(ask[c]) = {} /\ Go(c, "done")
       \/ \E n \in Found(ask[c]) : ask' = [ask EXCEPT ![c].by = n.of] /\ at' = [at EXCEPT ![c] = "write"]
    /\ UNCHANGED <<rows, lists, got, torn, pushed>>

\* The row a write found may be gone by now: P2025.
Touched(r) ==
    CASE r.kind \in {"setStatus", "markRead"} -> {n \in notes : n.id = r.id}
      [] r.kind = "delete" -> Own(r)
      [] r.kind = "markAll" -> {n \in Mine(r.by) : ~n.read}
      [] r.kind = "deleteAll" -> Mine(r.by)
      [] OTHER -> {}

Write(c) ==
    /\ at[c] = "write"
    /\ LET r == ask[c]
           t == Touched(r) IN
        /\ r.kind = "create" => last < MaxNotes
        /\ notes' = CASE r.kind = "create" -> notes \cup {[id |-> last + 1, of |-> r.by, read |-> FALSE]}
                      [] r.kind \in {"delete", "deleteAll"} -> notes \ t
                      [] OTHER -> (notes \ t) \cup {[n EXCEPT !.read = r.read] : n \in t}
        /\ last' = IF r.kind = "create" THEN last + 1 ELSE last
        /\ got' = [got EXCEPT ![c] = IF r.kind = "create" THEN {last + 1} ELSE {}]
        /\ Go(c, IF r.kind = "create" THEN "push" ELSE IF r.kind \in {"setStatus", "markRead", "delete"} /\ t = {} THEN "done" ELSE "flush")
        /\ torn' = (torn \/ \E d \in Calls : at[d] = "store" /\ ask[d].by = r.by)
    /\ UNCHANGED <<lists, pushed>>

Push(c) ==
    /\ at[c] = "push"
    /\ pushed' = pushed \cup got[c]
    /\ Go(c, "flush") /\ UNCHANGED <<rows, lists, got, torn>>

Flush(c) ==
    /\ at[c] = "flush"
    /\ lists' = [lists EXCEPT ![ask[c].by] = [l \in Lists |-> None]]
    /\ Go(c, "done") /\ UNCHANGED <<rows, got, torn, pushed>>

-----------------------------------------------------------------------------
Cached(c) ==
    /\ at[c] = "cache"
    /\ Go(c, IF lists[ask[c].by][ask[c].kind] # None THEN "done" ELSE "load")
    /\ UNCHANGED <<rows, lists, got, torn, pushed>>

Rows(u, l) == {n \in Mine(u) : l = "list" \/ ~n.read}

Load(c) ==
    /\ at[c] = "load"
    /\ got' = [got EXCEPT ![c] = Rows(ask[c].by, ask[c].kind)]
    /\ Go(c, "store") /\ UNCHANGED <<rows, lists, torn, pushed>>

Store(c) ==
    /\ at[c] = "store"
    /\ lists' = [lists EXCEPT ![ask[c].by][ask[c].kind] = got[c]]
    /\ Go(c, "done") /\ UNCHANGED <<rows, got, torn, pushed>>

Expire(u, l) ==
    /\ lists[u][l] # None
    /\ lists' = [lists EXCEPT ![u][l] = None]
    /\ UNCHANGED <<rows, requests, pushed, torn>>

Crash(c) ==
    /\ at[c] \in {"push", "flush"}
    /\ torn' = TRUE /\ Go(c, "done") /\ UNCHANGED <<rows, lists, got, pushed>>

Init ==
    /\ notes \in {{}} \cup {{[id |-> 1, of |-> u, read |-> FALSE]} : u \in Users} /\ last = Cardinality(notes)
    /\ lists = [u \in Users |-> [l \in Lists |-> None]] /\ torn = FALSE
    /\ ask = [c \in Calls |-> None] /\ at = [c \in Calls |-> "new"] /\ got = [c \in Calls |-> {}]
    /\ pushed = {}

Next ==
    \/ \E c \in Calls : \/ Start(c) \/ Find(c) \/ Write(c) \/ Push(c) \/ Flush(c) \/ Cached(c) \/ Load(c) \/ Store(c) \/ Crash(c)
    \/ \E u \in Users, l \in Lists : Expire(u, l)
Spec == Init /\ [][Next]_vars

-----------------------------------------------------------------------------
\* Ids are given once, and what is pushed was inserted before.
TypeOK ==
    /\ notes \subseteq [id: 1 .. last, of: Users, read: BOOLEAN] /\ last \in 0 .. MaxNotes
    /\ \A n, m \in notes : n.id = m.id => n = m
    /\ at \in [Calls -> {"new", "done", "find", "write", "push", "flush", "cache", "load", "store"}]
    /\ pushed \subseteq 1 .. last

\* A user's cached lists and unread count are those of his rows, between his
\* writes, unless a reader ran across a write or a write was cut off.
NoticesCurrent ==
    ~torn => \A u \in Users, l \in Lists :
        (\A c \in Calls : at[c] \in {"push", "flush"} => ask[c].by # u) => lists[u][l] \in {None, Rows(u, l)}
=============================================================================
