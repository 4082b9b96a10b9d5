---------------------------- MODULE MCCommunity ----------------------------
(***************************************************************************)
(* Small instances of the components of Community.                         *)
(***************************************************************************)
EXTENDS Community, TLC

CONSTANTS a, b, dd, t, c1, c2, c3, c4

Pair == {a, b}
MCWriters == {a, b, dd}
MCTwo == {c1, c2}
MCThree == {c1, c2, c3}
MCFour == {c1, c2, c3, c4}
MCTags == {t}
MCSymmetry == Permutations(MCTwo)

\* a is the first manager and may make b another; both may be demoted.
Manages(k, by, to, role) == [kind |-> k, by |-> by, to |-> to, role |-> role]
MCGroupRequests ==
    {Manages(k, a, {}, "member") : k \in {"create", "delete", "leave", "close"}}
    \cup {Manages(k, b, {}, "member") : k \in {"join", "leave", "send"}}
    \cup {Manages("add", a, {a, b}, "member"), Manages("remove", a, {b}, "member"),
          Manages("role", a, {b}, "admin"), Manages("role", a, {a}, "member"), Manages("role", b, {a}, "member")}

\* a and b may meet from either side; dd has a conversation only with b.
Writes(k, by, to) == [kind |-> k, by |-> by, to |-> to]
MCDirectRequests ==
    {Writes(k, a, {}) : k \in {"close", "send", "unsend", "quit"}}
    \cup {Writes(k, b, {}) : k \in {"close", "sendgift", "read", "quit"}}
    \cup {Writes("open", a, {b}), Writes("open", b, {a}), Writes("open", dd, {b}), Writes("send", dd, {})}
    \cup {Writes("forward", a, {b, dd}), Writes("forward", b, {a}), Writes("forward", b, {b})}

\* a is the author of the post; b likes and comments.
Posts(k, by, on, tags) == [kind |-> k, by |-> by, on |-> on, tags |-> tags]
MCPostRequests ==
    {Posts(k, a, "none", {}) : k \in {"erase", "addmedia", "dropmedia"}}
    \cup {Posts(k, a, "none", {t}) : k \in {"post", "edit", "attach", "detach"}}
    \cup {Posts("like", b, on, {}) : on \in {"like", "love"}}
    \cup {Posts("comment", b, on, {}) : on \in {"top", "reply"}}
    \cup {Posts(k, b, "none", {}) : k \in {"unlike", "uncomment"}}
    \cup {Posts("read", b, e, {}) : e \in {"likes", "stats", "comments", "media"}}
=============================================================================
