------------------------------ MODULE Community ------------------------------
(***************************************************************************)
(* What users write to each other, side by side: groups with their chat,   *)
(* direct conversations and posts.  One component runs in each behaviour;  *)
(* the variables that two of them name alike are one.                      *)
(***************************************************************************)
EXTENDS Naturals, Sequences, FiniteSets

CONSTANTS
    Users,   \* of the group and of the post
    Writers, \* users who write to each other
    GroupCalls, DirectCalls, PostCalls,
    GroupRequests, DirectRequests, PostRequests, \* the requests clients make
    MaxMembers, Legacy, Crashes, \* of the group
    Tags, Owner,                 \* of the post
    None

VARIABLES
    mode, \* the component that runs
    group, member, conv, part, posted, call, pc, todo, saw, raced, demoting, account, msg, gift, found, crossed,
    post, like, comment, media, tagged, count, cached, seen, torn, listed, lost

Group == INSTANCE Groups WITH Calls <- GroupCalls, Requests <- GroupRequests
Direct == INSTANCE Messaging WITH Users <- Writers, Calls <- DirectCalls, Requests <- DirectRequests
Post == INSTANCE Posts WITH Calls <- PostCalls, Requests <- PostRequests

OffGroup == <<mode, account, msg, gift, found, crossed, post, like, comment, media, tagged, count, cached, seen, torn,
    listed, lost>>
OffDirect == <<mode, group, member, part, posted, saw, raced, demoting, post, like, comment, media, tagged, count, cached,
    seen, torn, listed, lost>>
OffPost == <<mode, group, member, conv, part, posted, saw, raced, demoting, account, msg, gift, found, crossed>>

Init ==
    \/ /\ mode = "Group" /\ Group!Init
       /\ account = None /\ msg = None /\ gift = None /\ found = None /\ crossed = None /\ post = None /\ like = None /\ comment = None /\ media = None
       /\ tagged = None /\ count = None /\ cached = None /\ seen = None /\ torn = None /\ listed = None /\ lost = None
    \/ /\ mode = "Direct" /\ Direct!Init
       /\ group = None /\ member = None /\ part = None /\ posted = None /\ saw = None /\ raced = None /\ demoting = None /\ post = None /\ like = None
       /\ comment = None /\ media = None /\ tagged = None /\ count = None /\ cached = None /\ seen = None /\ torn = None /\ listed = None /\ lost = None
    \/ /\ mode = "Post" /\ Post!Init
       /\ group = None /\ member = None /\ conv = None /\ part = None /\ posted = None /\ saw = None /\ raced = None /\ demoting = None /\ account = None
       /\ msg = None /\ gift = None /\ found = None /\ crossed = None

Next ==
    \/ mode = "Group" /\ Group!Next /\ UNCHANGED OffGroup
    \/ mode = "Direct" /\ Direct!Next /\ UNCHANGED OffDirect
    \/ mode = "Post" /\ Post!Next /\ UNCHANGED OffPost

vars == <<mode, group, member, conv, part, posted, call, pc, todo, saw, raced, demoting, account, msg, gift, found,
          crossed, post, like, comment, media, tagged, count, cached, seen, torn, listed, lost>>
Spec == Init /\ [][Next]_vars

ASSUME CommunityAssumption == Group!GroupsAssumption /\ Direct!MessagingAssumption /\ Post!PostsAssumption

TypeOK ==
    /\ mode = "Group" => Group!TypeOK
    /\ mode = "Direct" => Direct!TypeOK
    /\ mode = "Post" => Post!TypeOK

\* The two records of membership agree, once nothing is under way, for every
\* user whose requests came one after the other: members sit in the group's
\* conversation, and nobody else does, however the conversation came about
\* (unless he left while it was being filled, or was added after he had left).
MembersParticipate == mode = "Group" => Group!MembersParticipate

\* A group always has somebody in charge of it, unless two managers changed
\* roles at once: nobody can demote himself, so one of two must remain.
SomeoneInCharge == mode = "Group" => Group!SomeoneInCharge

\* Two users have at most one direct conversation, also after one of them, or
\* both, have left it: messages of a pair are never split over two, unless two
\* requests that might open it overlapped.
OneDirect == mode = "Direct" => Direct!OneDirect

\* A forwarded message is in a conversation where the forwarder and the recipient
\* have their seats, unless it has lost a participant with his account.
ForwardsArrive == mode = "Direct" => Direct!ForwardsArrive

\* A cached list shows the rows as they are, unless a request is still to delete
\* it, its reader crossed a write, or a deletion failed.
PostListsCurrent == mode = "Post" => Post!PostListsCurrent

\* post_count counts the posts of a hashtag, as long as hashtags are attached and
\* detached one by one: parallel attachments of one hashtag count once.
TagsCounted == mode = "Post" => Post!TagsCounted
======================================================================
