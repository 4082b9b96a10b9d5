----------------------------- MODULE Belongings -----------------------------
(***************************************************************************)
(* What a profile owns: store items (StoreService), tasks (TaskService),   *)
(* albums (UserAlbumsService) and stories (StoryService).  An update that  *)
(* does not give every field reads the row and writes back what it read.   *)
(***************************************************************************)
EXTENDS Naturals, FiniteSets

CONSTANTS Users, Calls, Photos,
          AlbumOf,  \* a user's album
          Lifetime, \* 24 hours
          MaxTime,  \* bound on the clock
          None

Fields == [store |-> {"name", "price"}, task |-> {"done"}]
Things == DOMAIN Fields
AllFields == UNION {Fields[k] : k \in Things}
Values == 0 .. 1
Ops == {"update", "delete", "photo", "unphoto", "story", "unstory", "cleanup"}
BelongingsAssumption ==
    /\ AlbumOf \in [Users -> Nat] /\ \A u, v \in Users : AlbumOf[u] = AlbumOf[v] => u = v
    /\ Lifetime \in Nat \ {0} /\ MaxTime \in Nat /\ None \notin Users

VARIABLES
    row,     \* per thing, its owner and fields, or None
    photo,   \* per photo, its album, or None
    story,   \* per user, when his story expires, or None
    clock,
    ask, at, \* per request, what it asks and the statement it awaits
    got,     \* per request, the fields it has read
    said,    \* history: per field, the value last written by an update that gave it
    mixed    \* history: two updates of one thing overlapped

vars == <<row, photo, story, clock, ask, at, got, said, mixed>>
mine == <<photo, story, clock>>

Go(c, to) == at' = [at EXCEPT ![c] = to] /\ UNCHANGED ask
Active(c) == at[c] \notin {"new", "done"}

\* A thing's update gives some fields, or none.
Request ==
    {[op |-> o, by |-> u, thing |-> k, gives |-> g] :
        o \in {"update"}, u \in Users, k \in Things, g \in UNION {[d -> Values] : d \in SUBSET AllFields}}
    \cup {[op |-> o, by |-> u, thing |-> k, gives |-> <<>>] : o \in Ops \ {"update"}, u \in Users, k \in Things}

Fits(r) == r.op = "update" => DOMAIN r.gives \subseteq Fields[r.thing]
Complete(r) == DOMAIN r.gives = Fields[r.thing]
First(r) == CASE r.op = "update" -> IF Complete(r) THEN "write own" ELSE "find"
              [] r.op \in {"photo", "unphoto"} -> "album"
              [] OTHER -> r.op

Start(c) ==
    /\ at[c] = "new"
    /\ \E r \in {q \in Request : Fits(q)} :
        /\ ask' = [ask EXCEPT ![c] = r] /\ at' = [at EXCEPT ![c] = First(r)]
        /\ mixed' = (mixed \/ (r.op = "update" /\ \E d \in Calls : Active(d) /\ ask[d].op = "update" /\ ask[d].thing = r.thing))
    /\ UNCHANGED <<row, mine, got, said>>

Own(r) == row[r.thing] # None /\ row[r.thing].owner = r.by

Find(c) ==
    /\ at[c] = "find"
    /\ IF Own(ask[c]) THEN got' = [got EXCEPT ![c] = row[ask[c].thing].fields] /\ Go(c, "write")
       ELSE Go(c, "done") /\ UNCHANGED got
    /\ UNCHANGED <<row, mine, said, mixed>>

\* Mutant: a field that is not given is reset.
KeptNot(c, f) == 0
Kept(c, f) == got[c][f]

Written(c) == [f \in Fields[ask[c].thing] |-> IF f \in DOMAIN ask[c].gives THEN ask[c].gives[f] ELSE Kept(c, f)]
Note(c) == [f \in AllFields |-> IF f \in DOMAIN ask[c].gives THEN ask[c].gives[f] ELSE said[f]]

\* A complete update writes the user's row; a partial one the row it has found, by
\* its id.
Write(c) ==
    /\ at[c] \in {"write own", "write"}
    /\ LET k == ask[c].thing IN
        IF row[k] # None /\ (at[c] = "write own" => Own(ask[c]))
        THEN row' = [row EXCEPT ![k].fields = Written(c)] /\ said' = Note(c)
        ELSE UNCHANGED <<row, said>>
    /\ Go(c, "done") /\ UNCHANGED <<mine, got, mixed>>

Delete(c) ==
    /\ at[c] = "delete"
    /\ row' = IF Own(ask[c]) THEN [row EXCEPT ![ask[c].thing] = None] ELSE row
    /\ Go(c, "done") /\ UNCHANGED <<mine, got, said, mixed>>

-----------------------------------------------------------------------------
\* The album must be the user's; the photo deleted may be in any.
Album(c) ==
    /\ at[c] = "album"
    /\ photo' \in IF ask[c].op = "photo" THEN {[photo EXCEPT ![p] = AlbumOf[ask[c].by]] : p \in {q \in Photos : photo[q] = None}}
                  ELSE {[photo EXCEPT ![p] = None] : p \in Photos}
    /\ Go(c, "done") /\ UNCHANGED <<row, story, clock, got, said, mixed>>

Tell(c) ==
    /\ at[c] = "story"
    /\ story' = [story EXCEPT ![ask[c].by] = clock + Lifetime]
    /\ Go(c, "done") /\ UNCHANGED <<row, photo, clock, got, said, mixed>>

Untell(c) ==
    /\ at[c] = "unstory"
    /\ story' = [story EXCEPT ![ask[c].by] = None]
    /\ Go(c, "done") /\ UNCHANGED <<row, photo, clock, got, said, mixed>>

Cleanup(c) ==
    /\ at[c] = "cleanup"
    /\ story' = [u \in Users |-> IF story[u] # None /\ story[u] <= clock THEN None ELSE story[u]]
    /\ Go(c, "done") /\ UNCHANGED <<row, photo, clock, got, said, mixed>>

Tick == clock < MaxTime /\ clock' = clock + 1 /\ UNCHANGED <<row, photo, story, ask, at, got, said, mixed>>

Init ==
    /\ \E u \in Users : row = [k \in Things |-> [owner |-> u, fields |-> [f \in Fields[k] |-> 1]]]
    /\ photo = [p \in Photos |-> None] /\ story = [u \in Users |-> None] /\ clock = 0
    /\ ask = [c \in Calls |-> None] /\ at = [c \in Calls |-> "new"] /\ got = [c \in Calls |-> <<>>]
    /\ said = [f \in AllFields |-> 1] /\ mixed = FALSE

Next ==
    \/ \E c \in Calls : \/ Start(c) \/ Find(c) \/ Write(c) \/ Delete(c) \/ Album(c) \/ Tell(c) \/ Untell(c)
                        \/ Cleanup(c)
    \/ Tick
Spec == Init /\ [][Next]_vars

-----------------------------------------------------------------------------
TypeOK ==
    /\ \A k \in Things : row[k] # None => row[k].owner \in Users /\ row[k].fields \in [Fields[k] -> Values]
    /\ photo \in [Photos -> {AlbumOf[u] : u \in Users} \cup {None}]
    /\ story \in [Users -> (0 .. MaxTime + Lifetime) \cup {None}] /\ clock \in 0 .. MaxTime
    /\ at \in [Calls -> Ops \cup {"new", "done", "find", "write own", "write", "album"}]

\* A field is what the last update that gave it wrote, unless two updates of the
\* thing overlapped.
LastGivenKept ==
    ~mixed => \A k \in Things : row[k] # None => \A f \in Fields[k] : row[k].fields[f] = said[f]
=============================================================================
