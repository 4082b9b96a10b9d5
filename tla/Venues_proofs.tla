--------------------------- MODULE Venues_proofs ----------------------------
(***************************************************************************)
(* Settings, answers kept whole and paged lists keep their invariants, and *)
(* the components side by side keep theirs (the others: VenuesParts_proofs).*)
(***************************************************************************)
EXTENDS VenuesParts_proofs
-----------------------------------------------------------------------------
(* Settings.  The statements, and what a request at one of them asks. *)
SettingLabels ==
  {"new", "done", "check", "write card", "find seat", "write seat", "read back", "update room", "write room",
   "get challenge", "create", "add progress", "increment", "get hashtag", "view", "look", "follow", "unfollow", "count"}
SettingSlots ==
  /\ at \in [Calls -> SettingLabels] /\ ask \in [Calls -> SettingRequests \cup {None}]
  /\ answer \in [Calls -> {None, "done", "failed", "forbidden", "not found", "already"}]
  /\ wrote \in [Calls -> SUBSET {"card", "seat", "room"}] /\ DOMAIN got = Calls /\ crossed \in [Calls -> BOOLEAN]
SettingFor(l, r) ==
  /\ r \in SettingRequests
  /\ l \in {"check", "write card"} => r.op \in {"update group", "update card", "update settings"}
  /\ l \in {"find seat", "write seat"} => r.op \in {"update settings", "update seat"}
  /\ l = "read back" => r.op = "update settings"
  /\ l \in {"update room", "write room"} => r.op = "update room"
  /\ l \in {"get challenge", "create"} => r.op = "get challenge"
  /\ l \in {"add progress", "increment"} => r.op = "add progress"
  /\ l \in {"get hashtag", "view", "look"} => r.op = "get hashtag"
  /\ l = "follow" => r.op = "follow"
  /\ l = "unfollow" => r.op = "unfollow"
  /\ l = "count" => r.op = "get summary"
SettingAsked(c) == at[c] # "new" => SettingFor(at[c], ask[c])
SettingTables ==
  /\ subject \in Setting!Subjects /\ role \in [Users -> Setting!Roles \cup {None}] /\ active \cup sits \subseteq Users
  /\ alive \in BOOLEAN /\ moves \in 0 .. MaxMemberMoves /\ (\A u \in active : role[u] # None)
  /\ set \in [Setting!Fields -> Setting!Values] /\ said \in [Setting!Fields -> Setting!Values]
  /\ seat \in [Users -> [Setting!SeatFields -> Setting!Values]]
  /\ views \in Nat /\ follows \subseteq Users
SettingPoints ==
  /\ challenge \in Nat \cup {None} /\ granted \in Nat
  /\ \A c \in Calls : at[c] = "increment" => challenge # None
  /\ IF challenge = None THEN granted = 0 ELSE challenge = granted
(* What a room's update has read of the flags. *)
SettingFlags(c) == at[c] = "write room" => got[c] \in [Setting!Flags -> Setting!Values]
SettingFits == SettingSlots /\ SettingTables /\ SettingPoints /\ \A c \in Calls : SettingAsked(c)

(* The fields of a request. *)
LEMMA SettingRequest ==
  ASSUME Setting!SettingsAssumption, NEW r \in SettingRequests
  PROVE  /\ r.by \in Users /\ (\A f \in DOMAIN r.gives : r.gives[f] \in Setting!Values) /\ DOMAIN r.gives \subseteq Setting!Fields
         /\ (\A f \in DOMAIN r.seat : r.seat[f] \in Setting!Values) /\ DOMAIN r.seat \subseteq Setting!SeatFields
         /\ r.op \in {"update group", "update card", "update settings", "update seat", "get summary",
                      "update room", "get challenge", "add progress", "get hashtag", "follow", "unfollow"}
<1>1. r \in [op : Setting!Ops, by : Users, gives : Setting!Given, seat : Setting!GivenSeat]
  BY DEF Setting!SettingsAssumption, Setting!Request
<1>2. r.by \in Users /\ r.gives \in Setting!Given /\ r.seat \in Setting!GivenSeat /\ r.op \in Setting!Ops
  BY <1>1
<1>3. PICK d \in SUBSET Setting!Fields : r.gives \in [d -> Setting!Values]
  BY <1>2 DEF Setting!Given
<1>4. PICK e \in SUBSET Setting!SeatFields : r.seat \in [e -> Setting!Values]
  BY <1>2 DEF Setting!GivenSeat
<1>5. /\ DOMAIN Setting!OpsOf = {"group", "room", "hashtag"}
      /\ Setting!OpsOf["group"] = {"update group", "update card", "update settings", "update seat", "get summary"}
      /\ Setting!OpsOf["room"] = {"update room", "get challenge", "add progress"}
      /\ Setting!OpsOf["hashtag"] = {"get hashtag", "follow", "unfollow"}
  BY DEF Setting!OpsOf
<1>6. PICK s \in {"group", "room", "hashtag"} : r.op \in Setting!OpsOf[s]
  BY <1>2, <1>5 DEF Setting!Ops, Setting!Subjects
<1>7. r.op \in {"update group", "update card", "update settings", "update seat", "get summary",
                "update room", "get challenge", "add progress", "get hashtag", "follow", "unfollow"}
  BY <1>5, <1>6
<1>8. QED
  BY <1>2, <1>3, <1>4, <1>7

(* Where a request starts. *)
LEMMA SettingFirst ==
  ASSUME Setting!SettingsAssumption, NEW r \in SettingRequests
  PROVE  /\ SettingFor(Setting!First(r), r) /\ Setting!First(r) \in SettingLabels
         /\ Setting!First(r) \notin {"new", "done", "write card", "write seat", "read back", "write room", "create", "increment", "view", "look"}
<1>1. r.op \in {"update group", "update card", "update settings", "update seat", "get summary",
                "update room", "get challenge", "add progress", "get hashtag", "follow", "unfollow"}
  BY SettingRequest
<1>2. CASE r.op \in {"update group", "update card"}
  BY <1>2 DEF Setting!First, SettingFor, SettingLabels
<1>3. CASE r.op = "update settings"
  <2>1. Setting!First(r) \in {"check", "find seat"}
    BY <1>3 DEF Setting!First
  <2>2. QED
    BY <1>3, <2>1 DEF SettingFor, SettingLabels
<1>4. CASE r.op = "update seat"
  BY <1>4 DEF Setting!First, SettingFor, SettingLabels
<1>5. CASE r.op = "get summary"
  BY <1>5 DEF Setting!First, SettingFor, SettingLabels
<1>6. CASE r.op \in {"update room", "get challenge", "add progress", "get hashtag", "follow", "unfollow"}
  <2>1. Setting!First(r) = r.op
    BY <1>6 DEF Setting!First
  <2>2. QED
    BY <1>6, <2>1 DEF SettingFor, SettingLabels
<1>7. QED
  BY <1>1, <1>2, <1>3, <1>4, <1>5, <1>6

(* A request begins, and nothing else changes but what history notices. *)
LEMMA SettingBegins ==
  ASSUME Setting!SettingsAssumption, NEW c \in Calls, Setting!Start(c)
  PROVE  \E r \in SettingRequests, l \in SettingLabels :
           /\ at[c] = "new" /\ ask' = [ask EXCEPT ![c] = r] /\ at' = [at EXCEPT ![c] = l] /\ SettingFor(l, r)
           /\ l \notin {"new", "done", "write card", "write seat", "read back", "write room", "create", "increment", "view", "look"}
           /\ (mixed => mixed') /\ (~mixed' /\ Setting!Merges(r) => \A d \in Calls : ~(Setting!Active(d) /\ Setting!Merges(ask[d])))
           /\ UNCHANGED <<subject, role, active, sits, alive, moves, set, seat, challenge, views, follows, got, answer, said, granted, crossed, wrote>>
<1>1. PICK r \in {q \in SettingRequests : q.op \in Setting!OpsOf[subject]} :
        /\ ask' = [ask EXCEPT ![c] = r] /\ at' = [at EXCEPT ![c] = Setting!First(r)]
        /\ mixed' = (mixed \/ (Setting!Merges(r) /\ \E d \in Calls : Setting!Active(d) /\ Setting!Merges(ask[d])))
  BY DEF Setting!Start
<1>2. /\ mixed => mixed'
      /\ ~mixed' /\ Setting!Merges(r) => \A d \in Calls : ~(Setting!Active(d) /\ Setting!Merges(ask[d]))
  BY <1>1, Zenon
<1>3. at[c] = "new" /\ UNCHANGED <<subject, role, active, sits, alive, moves, set, seat, challenge, views, follows, got, answer, said, granted, crossed, wrote>>
  BY DEF Setting!Start, Setting!group, Setting!tables
<1>4. r \in SettingRequests
  OBVIOUS
<1>5. QED
  BY <1>1, <1>2, <1>3, <1>4, SettingFirst

SettingStep(c) ==
  \/ Setting!Start(c) \/ Setting!Check(c) \/ Setting!WriteCard(c) \/ Setting!FindSeat(c) \/ Setting!WriteSeat(c) \/ Setting!ReadBack(c) \/ Setting!FindRoom(c) \/ Setting!WriteRoom(c) \/ Setting!FindChallenge(c)
  \/ Setting!Create(c) \/ Setting!FindProgress(c) \/ Setting!Increment(c) \/ Setting!FindHashtag(c) \/ Setting!View(c) \/ Setting!LookFollow(c) \/ Setting!Follow(c) \/ Setting!Unfollow(c)
  \/ \E kind \in Setting!Counts : Setting!Count(c, kind)

(* One more. *)
LEMMA Onward ==
  ASSUME NEW k \in Nat
  PROVE  k + 1 \in Nat
OBVIOUS

(* What a count adds. *)
LEMMA SettingCounts ==
  ASSUME NEW c \in Calls, NEW kind \in Setting!Counts, Setting!Count(c, kind)
  PROVE  \E v : /\ at[c] = "count" /\ ask' = ask /\ got' = [got EXCEPT ![c] = v]
                /\ v = [k \in DOMAIN got[c] \cup {kind} |-> IF k = kind THEN Setting!Cardinality(Setting!Of(k)) ELSE got[c][k]]
                /\ \/ at' = [at EXCEPT ![c] = "done"] /\ answer' = [answer EXCEPT ![c] = "done"] /\ DOMAIN v = Setting!Counts
                   \/ at' = [at EXCEPT ![c] = "count"] /\ answer' = answer
                /\ UNCHANGED <<subject, role, active, sits, alive, moves, set, seat, challenge, views, follows, said, granted, mixed, crossed, wrote>>
<1> DEFINE v == [k \in DOMAIN got[c] \cup {kind} |-> IF k = kind THEN Setting!Cardinality(Setting!Of(k)) ELSE got[c][k]]
<1>1. at[c] = "count" /\ got' = [got EXCEPT ![c] = v] /\ IF DOMAIN v = Setting!Counts THEN Setting!Answer(c, "done") ELSE Setting!Go(c, "count")
  BY DEF Setting!Count
<1>2. UNCHANGED <<subject, role, active, sits, alive, moves, set, seat, challenge, views, follows, said, granted, mixed, crossed, wrote>>
  BY DEF Setting!Count, Setting!group, Setting!tables, Setting!history
<1>3. ask' = ask /\ \/ at' = [at EXCEPT ![c] = "done"] /\ answer' = [answer EXCEPT ![c] = "done"] /\ DOMAIN v = Setting!Counts
                    \/ at' = [at EXCEPT ![c] = "count"] /\ answer' = answer
  <2> HIDE DEF v
  <2>1. QED
    BY <1>1 DEF Setting!Answer, Setting!Go
<1>4. QED
  BY <1>1, <1>2, <1>3

(* What writing the card does. *)
LEMMA SettingCards ==
  ASSUME NEW c \in Calls, Setting!WriteCard(c)
  PROVE  /\ at[c] = "write card" /\ ask' = ask
         /\ UNCHANGED <<subject, role, active, sits, alive, moves, seat, challenge, views, follows, got, granted, mixed, crossed>>
         /\ \/ /\ alive /\ set' = Setting!Over(set, ask[c].gives) /\ said' = Setting!Over(said, ask[c].gives)
               /\ wrote' = [wrote EXCEPT ![c] = wrote[c] \cup {"card"}]
               /\ \/ at' = [at EXCEPT ![c] = "done"] /\ answer' = [answer EXCEPT ![c] = "done"] /\ ask[c].op # "update settings"
                  \/ at' = [at EXCEPT ![c] = "find seat"] /\ answer' = answer /\ ask[c].op = "update settings" /\ DOMAIN ask[c].seat # {}
                  \/ at' = [at EXCEPT ![c] = "read back"] /\ answer' = answer /\ ask[c].op = "update settings"
            \/ /\ ~alive /\ set' = set /\ said' = said /\ wrote' = wrote /\ at' = [at EXCEPT ![c] = "done"]
               /\ \E w \in {"not found", "failed"} : answer' = [answer EXCEPT ![c] = w]
<1>1. /\ at[c] = "write card" /\ UNCHANGED <<subject, role, active, sits, alive, moves, seat, challenge, views, follows, got, granted, mixed, crossed>>
  BY DEF Setting!WriteCard, Setting!group
<1>2. CASE alive
  <2>1. /\ set' = Setting!Over(set, ask[c].gives) /\ said' = Setting!Over(said, ask[c].gives)
        /\ wrote' = [wrote EXCEPT ![c] = wrote[c] \cup {"card"}]
    BY <1>2 DEF Setting!WriteCard
  <2>2. CASE ask[c].op # "update settings"
    <3>1. Setting!Answer(c, "done")
      BY <1>2, <2>2 DEF Setting!WriteCard
    <3>2. QED
      BY <1>1, <1>2, <2>1, <2>2, <3>1 DEF Setting!Answer
  <2>3. CASE ask[c].op = "update settings" /\ DOMAIN ask[c].seat # {}
    BY <1>1, <1>2, <2>1, <2>3 DEF Setting!WriteCard, Setting!Go
  <2>4. CASE ask[c].op = "update settings" /\ DOMAIN ask[c].seat = {}
    BY <1>1, <1>2, <2>1, <2>4 DEF Setting!WriteCard, Setting!Go
  <2>5. QED
    BY <2>2, <2>3, <2>4
<1>3. CASE ~alive
  <2>1. Setting!Answer(c, IF ask[c].op = "update group" THEN "not found" ELSE "failed") /\ UNCHANGED <<set, said, wrote>>
    BY <1>3 DEF Setting!WriteCard
  <2>2. QED
    BY <1>1, <1>3, <2>1 DEF Setting!Answer
<1>4. QED
  BY <1>2, <1>3

(* What writing a seat does. *)
LEMMA SettingSeats ==
  ASSUME NEW c \in Calls, Setting!WriteSeat(c)
  PROVE  /\ at[c] = "write seat" /\ ask' = ask
         /\ UNCHANGED <<subject, role, active, sits, alive, moves, set, challenge, views, follows, got, said, granted, mixed, crossed>>
         /\ \/ /\ alive /\ seat' = [seat EXCEPT ![ask[c].by] = Setting!Over(seat[ask[c].by], ask[c].seat)]
               /\ wrote' = [wrote EXCEPT ![c] = wrote[c] \cup {"seat"}]
               /\ \/ at' = [at EXCEPT ![c] = "done"] /\ answer' = [answer EXCEPT ![c] = "done"]
                  \/ at' = [at EXCEPT ![c] = "read back"] /\ answer' = answer /\ ask[c].op = "update settings"
            \/ /\ ~alive /\ seat' = seat /\ wrote' = wrote /\ at' = [at EXCEPT ![c] = "done"]
               /\ answer' = [answer EXCEPT ![c] = "failed"]
<1>1. /\ at[c] = "write seat"
      /\ UNCHANGED <<subject, role, active, sits, alive, moves, set, challenge, views, follows, got, said, granted, mixed, crossed>>
  BY DEF Setting!WriteSeat, Setting!group
<1>2. CASE alive
  BY <1>1, <1>2 DEF Setting!WriteSeat, Setting!Answer, Setting!Go
<1>3. CASE ~alive
  BY <1>1, <1>3 DEF Setting!WriteSeat, Setting!Answer
<1>4. QED
  BY <1>2, <1>3
(* Where each of them leads. *)
LEMMA SettingCardMoves ==
  ASSUME NEW c \in Calls, Setting!WriteCard(c)
  PROVE  /\ at[c] = "write card" /\ ask' = ask
         /\ UNCHANGED <<subject, role, active, sits, alive, moves, seat, challenge, views, follows, got, granted, mixed, crossed>>
         /\ \E l \in {"done", "find seat", "read back"} : at' = [at EXCEPT ![c] = l] /\ (l # "done" => ask[c].op = "update settings")
         /\ answer' = answer \/ \E w \in {"done", "not found", "failed"} : answer' = [answer EXCEPT ![c] = w]
         /\ wrote' = wrote \/ wrote' = [wrote EXCEPT ![c] = wrote[c] \cup {"card"}]
BY SettingCards

(* And writing a seat. *)
LEMMA SettingSeatMoves ==
  ASSUME NEW c \in Calls, Setting!WriteSeat(c)
  PROVE  /\ at[c] = "write seat" /\ ask' = ask
         /\ UNCHANGED <<subject, role, active, sits, alive, moves, set, challenge, views, follows, got, said, granted, mixed, crossed>>
         /\ \E l \in {"done", "read back"} : at' = [at EXCEPT ![c] = l] /\ (l # "done" => ask[c].op = "update settings")
         /\ answer' = answer \/ \E w \in {"done", "failed"} : answer' = [answer EXCEPT ![c] = w]
         /\ wrote' = wrote \/ wrote' = [wrote EXCEPT ![c] = wrote[c] \cup {"seat"}]
BY SettingSeats

(* The other requests are where they were. *)
LEMMA SettingOthers ==
  ASSUME Setting!SettingsAssumption, NEW c \in Calls, SettingFits, SettingStep(c)
  PROVE  \A d \in Calls \ {c} : at'[d] = at[d] /\ ask'[d] = ask[d] /\ answer'[d] = answer[d] /\ got'[d] = got[d] /\ wrote'[d] = wrote[d]
<1> USE DEF SettingFits, SettingSlots
<1>1. ASSUME Setting!Start(c) PROVE \A d \in Calls \ {c} : at'[d] = at[d] /\ ask'[d] = ask[d] /\ answer'[d] = answer[d] /\ got'[d] = got[d] /\ wrote'[d] = wrote[d]
  <2>1. PICK r \in SettingRequests, l \in SettingLabels :
           /\ at[c] = "new" /\ ask' = [ask EXCEPT ![c] = r] /\ at' = [at EXCEPT ![c] = l] /\ SettingFor(l, r)
           /\ l \notin {"new", "done", "write card", "write seat", "read back", "write room", "create", "increment", "view", "look"}
           /\ UNCHANGED <<subject, role, active, sits, alive, moves, set, seat, challenge, views, follows, got, answer, said, granted, crossed, wrote>>
    BY <1>1, SettingBegins
  <2>9. QED
    BY <2>1
<1>2. ASSUME Setting!Check(c) PROVE \A d \in Calls \ {c} : at'[d] = at[d] /\ ask'[d] = ask[d] /\ answer'[d] = answer[d] /\ got'[d] = got[d] /\ wrote'[d] = wrote[d]
  BY <1>2 DEF Setting!Check, Setting!Go, Setting!Answer, Setting!group, Setting!tables, Setting!history
<1>3. ASSUME Setting!WriteCard(c) PROVE \A d \in Calls \ {c} : at'[d] = at[d] /\ ask'[d] = ask[d] /\ answer'[d] = answer[d] /\ got'[d] = got[d] /\ wrote'[d] = wrote[d]
  <2>1. PICK l \in {"done", "find seat", "read back"} : at' = [at EXCEPT ![c] = l]
    BY <1>3, SettingCardMoves
  <2>2. ask' = ask /\ got' = got
    BY <1>3, SettingCardMoves
  <2>3. answer' = answer \/ \E w \in {"done", "not found", "failed"} : answer' = [answer EXCEPT ![c] = w]
    BY <1>3, SettingCardMoves
  <2>4. wrote' = wrote \/ wrote' = [wrote EXCEPT ![c] = wrote[c] \cup {"card"}]
    BY <1>3, SettingCardMoves
  <2>5. \A d \in Calls \ {c} : answer'[d] = answer[d]
    BY <2>3
  <2>6. \A d \in Calls \ {c} : wrote'[d] = wrote[d]
    BY <2>4
  <2>7. QED
    BY <2>1, <2>2, <2>5, <2>6
<1>4. ASSUME Setting!FindSeat(c) PROVE \A d \in Calls \ {c} : at'[d] = at[d] /\ ask'[d] = ask[d] /\ answer'[d] = answer[d] /\ got'[d] = got[d] /\ wrote'[d] = wrote[d]
  BY <1>4 DEF Setting!FindSeat, Setting!Go, Setting!Answer, Setting!group, Setting!tables, Setting!history
<1>5. ASSUME Setting!WriteSeat(c) PROVE \A d \in Calls \ {c} : at'[d] = at[d] /\ ask'[d] = ask[d] /\ answer'[d] = answer[d] /\ got'[d] = got[d] /\ wrote'[d] = wrote[d]
  <2>1. PICK l \in {"done", "read back"} : at' = [at EXCEPT ![c] = l]
    BY <1>5, SettingSeatMoves
  <2>2. ask' = ask /\ got' = got
    BY <1>5, SettingSeatMoves
  <2>3. answer' = answer \/ \E w \in {"done", "failed"} : answer' = [answer EXCEPT ![c] = w]
    BY <1>5, SettingSeatMoves
  <2>4. wrote' = wrote \/ wrote' = [wrote EXCEPT ![c] = wrote[c] \cup {"seat"}]
    BY <1>5, SettingSeatMoves
  <2>5. \A d \in Calls \ {c} : answer'[d] = answer[d]
    BY <2>3
  <2>6. \A d \in Calls \ {c} : wrote'[d] = wrote[d]
    BY <2>4
  <2>7. QED
    BY <2>1, <2>2, <2>5, <2>6
<1>6. ASSUME Setting!ReadBack(c) PROVE \A d \in Calls \ {c} : at'[d] = at[d] /\ ask'[d] = ask[d] /\ answer'[d] = answer[d] /\ got'[d] = got[d] /\ wrote'[d] = wrote[d]
  BY <1>6 DEF Setting!ReadBack, Setting!Answer, Setting!group, Setting!tables, Setting!history
<1>7. ASSUME Setting!FindRoom(c) PROVE \A d \in Calls \ {c} : at'[d] = at[d] /\ ask'[d] = ask[d] /\ answer'[d] = answer[d] /\ got'[d] = got[d] /\ wrote'[d] = wrote[d]
  BY <1>7 DEF Setting!FindRoom, Setting!Go, Setting!Answer, Setting!group, Setting!tables, Setting!history
<1>8. ASSUME Setting!WriteRoom(c) PROVE \A d \in Calls \ {c} : at'[d] = at[d] /\ ask'[d] = ask[d] /\ answer'[d] = answer[d] /\ got'[d] = got[d] /\ wrote'[d] = wrote[d]
  BY <1>8 DEF Setting!WriteRoom, Setting!Answer, Setting!group, Setting!tables, Setting!history
<1>9. ASSUME Setting!FindChallenge(c) PROVE \A d \in Calls \ {c} : at'[d] = at[d] /\ ask'[d] = ask[d] /\ answer'[d] = answer[d] /\ got'[d] = got[d] /\ wrote'[d] = wrote[d]
  BY <1>9 DEF Setting!FindChallenge, Setting!Go, Setting!Answer, Setting!group, Setting!tables, Setting!history
<1>10. ASSUME Setting!Create(c) PROVE \A d \in Calls \ {c} : at'[d] = at[d] /\ ask'[d] = ask[d] /\ answer'[d] = answer[d] /\ got'[d] = got[d] /\ wrote'[d] = wrote[d]
  BY <1>10 DEF Setting!Create, Setting!Answer, Setting!group, Setting!tables, Setting!history
<1>11. ASSUME Setting!FindProgress(c) PROVE \A d \in Calls \ {c} : at'[d] = at[d] /\ ask'[d] = ask[d] /\ answer'[d] = answer[d] /\ got'[d] = got[d] /\ wrote'[d] = wrote[d]
  BY <1>11 DEF Setting!FindProgress, Setting!Go, Setting!Answer, Setting!group, Setting!tables, Setting!history
<1>12. ASSUME Setting!Increment(c) PROVE \A d \in Calls \ {c} : at'[d] = at[d] /\ ask'[d] = ask[d] /\ answer'[d] = answer[d] /\ got'[d] = got[d] /\ wrote'[d] = wrote[d]
  BY <1>12 DEF Setting!Increment, Setting!Answer, Setting!group, Setting!tables, Setting!history
<1>13. ASSUME Setting!FindHashtag(c) PROVE \A d \in Calls \ {c} : at'[d] = at[d] /\ ask'[d] = ask[d] /\ answer'[d] = answer[d] /\ got'[d] = got[d] /\ wrote'[d] = wrote[d]
  BY <1>13 DEF Setting!FindHashtag, Setting!Go, Setting!group, Setting!tables, Setting!history
<1>14. ASSUME Setting!View(c) PROVE \A d \in Calls \ {c} : at'[d] = at[d] /\ ask'[d] = ask[d] /\ answer'[d] = answer[d] /\ got'[d] = got[d] /\ wrote'[d] = wrote[d]
  BY <1>14 DEF Setting!View, Setting!Go, Setting!group, Setting!tables, Setting!history
<1>15. ASSUME Setting!LookFollow(c) PROVE \A d \in Calls \ {c} : at'[d] = at[d] /\ ask'[d] = ask[d] /\ answer'[d] = answer[d] /\ got'[d] = got[d] /\ wrote'[d] = wrote[d]
  BY <1>15 DEF Setting!LookFollow, Setting!Answer, Setting!group, Setting!tables, Setting!history
<1>16. ASSUME Setting!Follow(c) PROVE \A d \in Calls \ {c} : at'[d] = at[d] /\ ask'[d] = ask[d] /\ answer'[d] = answer[d] /\ got'[d] = got[d] /\ wrote'[d] = wrote[d]
  BY <1>16 DEF Setting!Follow, Setting!Answer, Setting!group, Setting!tables, Setting!history
<1>17. ASSUME Setting!Unfollow(c) PROVE \A d \in Calls \ {c} : at'[d] = at[d] /\ ask'[d] = ask[d] /\ answer'[d] = answer[d] /\ got'[d] = got[d] /\ wrote'[d] = wrote[d]
  BY <1>17 DEF Setting!Unfollow, Setting!Answer, Setting!group, Setting!tables, Setting!history
<1>18. ASSUME \E kind \in Setting!Counts : Setting!Count(c, kind) PROVE \A d \in Calls \ {c} : at'[d] = at[d] /\ ask'[d] = ask[d] /\ answer'[d] = answer[d] /\ got'[d] = got[d] /\ wrote'[d] = wrote[d]
  <2>1. PICK kind \in Setting!Counts : Setting!Count(c, kind)
    BY <1>18
  <2>2. PICK v : /\ at[c] = "count" /\ ask' = ask /\ got' = [got EXCEPT ![c] = v]
                 /\ \/ at' = [at EXCEPT ![c] = "done"] /\ answer' = [answer EXCEPT ![c] = "done"]
                    \/ at' = [at EXCEPT ![c] = "count"] /\ answer' = answer
                 /\ UNCHANGED <<subject, role, active, sits, alive, moves, set, seat, challenge, views, follows, said, granted, mixed, crossed, wrote>>
    BY <2>1, SettingCounts
  <2>3. QED
    BY <2>2
<1>19. QED
  BY <1>1, <1>2, <1>3, <1>4, <1>5, <1>6, <1>7, <1>8, <1>9, <1>10, <1>11, <1>12, <1>13, <1>14, <1>15, <1>16, <1>17, <1>18 DEF SettingStep

(* A request stays in its slot. *)
LEMMA SettingSlotsKept ==
  ASSUME Setting!SettingsAssumption, NEW c \in Calls, SettingFits, SettingStep(c)
  PROVE  SettingSlots'
<1> USE DEF SettingFits, SettingSlots
<1>1. ASSUME Setting!Start(c) PROVE SettingSlots'
  <2>1. PICK r \in SettingRequests, l \in SettingLabels :
           /\ at[c] = "new" /\ ask' = [ask EXCEPT ![c] = r] /\ at' = [at EXCEPT ![c] = l] /\ SettingFor(l, r)
           /\ l \notin {"new", "done", "write card", "write seat", "read back", "write room", "create", "increment", "view", "look"}
           /\ UNCHANGED <<subject, role, active, sits, alive, moves, set, seat, challenge, views, follows, got, answer, said, granted, crossed, wrote>>
    BY <1>1, SettingBegins
  <2>9. QED
    BY <2>1
<1>2. ASSUME Setting!Check(c) PROVE SettingSlots'
  BY <1>2 DEF Setting!Check, Setting!Go, Setting!Answer, Setting!group, Setting!tables, Setting!history, SettingLabels
<1>3. ASSUME Setting!WriteCard(c) PROVE SettingSlots'
  <2>1. PICK l \in {"done", "find seat", "read back"} : at' = [at EXCEPT ![c] = l]
    BY <1>3, SettingCardMoves
  <2>2. ask' = ask /\ got' = got
    BY <1>3, SettingCardMoves
  <2>3. answer' = answer \/ \E w \in {"done", "not found", "failed"} : answer' = [answer EXCEPT ![c] = w]
    BY <1>3, SettingCardMoves
  <2>4. wrote' = wrote \/ wrote' = [wrote EXCEPT ![c] = wrote[c] \cup {"card"}]
    BY <1>3, SettingCardMoves
  <2>5. answer' \in [Calls -> {None, "done", "failed", "forbidden", "not found", "already"}]
    BY <2>3
  <2>a. wrote \in [Calls -> SUBSET {"card", "seat", "room"}] /\ wrote[c] \cup {"card"} \in SUBSET {"card", "seat", "room"}
    OBVIOUS
  <2>6. wrote' \in [Calls -> SUBSET {"card", "seat", "room"}]
    BY <2>4, <2>a
  <2>7. at' \in [Calls -> SettingLabels]
    BY <2>1 DEF SettingLabels
  <2>8. crossed' = crossed
    BY <1>3, SettingCardMoves
  <2>9. QED
    BY <2>2, <2>5, <2>6, <2>7, <2>8
<1>4. ASSUME Setting!FindSeat(c) PROVE SettingSlots'
  BY <1>4 DEF Setting!FindSeat, Setting!Go, Setting!Answer, Setting!group, Setting!tables, Setting!history, SettingLabels
<1>5. ASSUME Setting!WriteSeat(c) PROVE SettingSlots'
  <2>1. PICK l \in {"done", "read back"} : at' = [at EXCEPT ![c] = l]
    BY <1>5, SettingSeatMoves
  <2>2. ask' = ask /\ got' = got
    BY <1>5, SettingSeatMoves
  <2>3. answer' = answer \/ \E w \in {"done", "failed"} : answer' = [answer EXCEPT ![c] = w]
    BY <1>5, SettingSeatMoves
  <2>4. wrote' = wrote \/ wrote' = [wrote EXCEPT ![c] = wrote[c] \cup {"seat"}]
    BY <1>5, SettingSeatMoves
  <2>5. answer' \in [Calls -> {None, "done", "failed", "forbidden", "not found", "already"}]
    BY <2>3
  <2>a. wrote \in [Calls -> SUBSET {"card", "seat", "room"}] /\ wrote[c] \cup {"seat"} \in SUBSET {"card", "seat", "room"}
    OBVIOUS
  <2>6. wrote' \in [Calls -> SUBSET {"card", "seat", "room"}]
    BY <2>4, <2>a
  <2>7. at' \in [Calls -> SettingLabels]
    BY <2>1 DEF SettingLabels
  <2>8. crossed' = crossed
    BY <1>5, SettingSeatMoves
  <2>9. QED
    BY <2>2, <2>5, <2>6, <2>7, <2>8
<1>6. ASSUME Setting!ReadBack(c) PROVE SettingSlots'
  BY <1>6 DEF Setting!ReadBack, Setting!Answer, Setting!group, Setting!tables, Setting!history, SettingLabels
<1>7. ASSUME Setting!FindRoom(c) PROVE SettingSlots'
  BY <1>7 DEF Setting!FindRoom, Setting!Go, Setting!Answer, Setting!group, Setting!tables, Setting!history, SettingLabels
<1>8. ASSUME Setting!WriteRoom(c) PROVE SettingSlots'
  BY <1>8 DEF Setting!WriteRoom, Setting!Answer, Setting!group, Setting!tables, Setting!history, SettingLabels
<1>9. ASSUME Setting!FindChallenge(c) PROVE SettingSlots'
  BY <1>9 DEF Setting!FindChallenge, Setting!Go, Setting!Answer, Setting!group, Setting!tables, Setting!history, SettingLabels
<1>10. ASSUME Setting!Create(c) PROVE SettingSlots'
  BY <1>10 DEF Setting!Create, Setting!Answer, Setting!group, Setting!tables, Setting!history, SettingLabels
<1>11. ASSUME Setting!FindProgress(c) PROVE SettingSlots'
  BY <1>11 DEF Setting!FindProgress, Setting!Go, Setting!Answer, Setting!group, Setting!tables, Setting!history, SettingLabels
<1>12. ASSUME Setting!Increment(c) PROVE SettingSlots'
  BY <1>12 DEF Setting!Increment, Setting!Answer, Setting!group, Setting!tables, Setting!history, SettingLabels
<1>13. ASSUME Setting!FindHashtag(c) PROVE SettingSlots'
  BY <1>13 DEF Setting!FindHashtag, Setting!Go, Setting!group, Setting!tables, Setting!history, SettingLabels
<1>14. ASSUME Setting!View(c) PROVE SettingSlots'
  BY <1>14 DEF Setting!View, Setting!Go, Setting!group, Setting!tables, Setting!history, SettingLabels
<1>15. ASSUME Setting!LookFollow(c) PROVE SettingSlots'
  BY <1>15 DEF Setting!LookFollow, Setting!Answer, Setting!group, Setting!tables, Setting!history, SettingLabels
<1>16. ASSUME Setting!Follow(c) PROVE SettingSlots'
  BY <1>16 DEF Setting!Follow, Setting!Answer, Setting!group, Setting!tables, Setting!history, SettingLabels
<1>17. ASSUME Setting!Unfollow(c) PROVE SettingSlots'
  BY <1>17 DEF Setting!Unfollow, Setting!Answer, Setting!group, Setting!tables, Setting!history, SettingLabels
<1>18. ASSUME \E kind \in Setting!Counts : Setting!Count(c, kind) PROVE SettingSlots'
  <2>1. PICK kind \in Setting!Counts : Setting!Count(c, kind)
    BY <1>18
  <2>2. PICK v : /\ at[c] = "count" /\ ask' = ask /\ got' = [got EXCEPT ![c] = v]
                 /\ \/ at' = [at EXCEPT ![c] = "done"] /\ answer' = [answer EXCEPT ![c] = "done"]
                    \/ at' = [at EXCEPT ![c] = "count"] /\ answer' = answer
                 /\ UNCHANGED <<subject, role, active, sits, alive, moves, set, seat, challenge, views, follows, said, granted, mixed, crossed, wrote>>
    BY <2>1, SettingCounts
  <2>3. QED
    BY <2>2 DEF SettingLabels
<1>19. QED
  BY <1>1, <1>2, <1>3, <1>4, <1>5, <1>6, <1>7, <1>8, <1>9, <1>10, <1>11, <1>12, <1>13, <1>14, <1>15, <1>16, <1>17, <1>18 DEF SettingStep

(* It asks for what its statement does. *)
LEMMA SettingAskedKept ==
  ASSUME Setting!SettingsAssumption, NEW c \in Calls, SettingFits, SettingStep(c)
  PROVE  SettingAsked(c)'
<1> USE DEF SettingFits, SettingSlots, SettingAsked
<1>1. ASSUME Setting!Start(c) PROVE SettingAsked(c)'
  <2>1. PICK r \in SettingRequests, l \in SettingLabels :
           /\ at[c] = "new" /\ ask' = [ask EXCEPT ![c] = r] /\ at' = [at EXCEPT ![c] = l] /\ SettingFor(l, r)
           /\ l \notin {"new", "done", "write card", "write seat", "read back", "write room", "create", "increment", "view", "look"}
           /\ UNCHANGED <<subject, role, active, sits, alive, moves, set, seat, challenge, views, follows, got, answer, said, granted, crossed, wrote>>
    BY <1>1, SettingBegins
  <2>9. QED
    BY <2>1
<1>2. ASSUME Setting!Check(c) PROVE SettingAsked(c)'
  BY <1>2 DEF Setting!Check, Setting!Go, Setting!Answer, Setting!group, Setting!tables, Setting!history, SettingFor
<1>3. ASSUME Setting!WriteCard(c) PROVE SettingAsked(c)'
  BY <1>3, SettingCardMoves DEF SettingFor
<1>4. ASSUME Setting!FindSeat(c) PROVE SettingAsked(c)'
  BY <1>4 DEF Setting!FindSeat, Setting!Go, Setting!Answer, Setting!group, Setting!tables, Setting!history, SettingFor
<1>5. ASSUME Setting!WriteSeat(c) PROVE SettingAsked(c)'
  BY <1>5, SettingSeatMoves DEF SettingFor
<1>6. ASSUME Setting!ReadBack(c) PROVE SettingAsked(c)'
  BY <1>6 DEF Setting!ReadBack, Setting!Answer, Setting!group, Setting!tables, Setting!history, SettingFor
<1>7. ASSUME Setting!FindRoom(c) PROVE SettingAsked(c)'
  BY <1>7 DEF Setting!FindRoom, Setting!Go, Setting!Answer, Setting!group, Setting!tables, Setting!history, SettingFor
<1>8. ASSUME Setting!WriteRoom(c) PROVE SettingAsked(c)'
  <2>1. at[c] = "write room" /\ at' = [at EXCEPT ![c] = "done"] /\ ask' = ask
    BY <1>8 DEF Setting!WriteRoom, Setting!Answer
  <2>2. SettingFor("done", ask[c])
    BY <2>1 DEF SettingFor
  <2>3. QED
    BY <2>1, <2>2
<1>9. ASSUME Setting!FindChallenge(c) PROVE SettingAsked(c)'
  BY <1>9 DEF Setting!FindChallenge, Setting!Go, Setting!Answer, Setting!group, Setting!tables, Setting!history, SettingFor
<1>10. ASSUME Setting!Create(c) PROVE SettingAsked(c)'
  BY <1>10 DEF Setting!Create, Setting!Answer, Setting!group, Setting!tables, Setting!history, SettingFor
<1>11. ASSUME Setting!FindProgress(c) PROVE SettingAsked(c)'
  BY <1>11 DEF Setting!FindProgress, Setting!Go, Setting!Answer, Setting!group, Setting!tables, Setting!history, SettingFor
<1>12. ASSUME Setting!Increment(c) PROVE SettingAsked(c)'
  BY <1>12 DEF Setting!Increment, Setting!Answer, Setting!group, Setting!tables, Setting!history, SettingFor
<1>13. ASSUME Setting!FindHashtag(c) PROVE SettingAsked(c)'
  BY <1>13 DEF Setting!FindHashtag, Setting!Go, Setting!group, Setting!tables, Setting!history, SettingFor
<1>14. ASSUME Setting!View(c) PROVE SettingAsked(c)'
  BY <1>14 DEF Setting!View, Setting!Go, Setting!group, Setting!tables, Setting!history, SettingFor
<1>15. ASSUME Setting!LookFollow(c) PROVE SettingAsked(c)'
  BY <1>15 DEF Setting!LookFollow, Setting!Answer, Setting!group, Setting!tables, Setting!history, SettingFor
<1>16. ASSUME Setting!Follow(c) PROVE SettingAsked(c)'
  BY <1>16 DEF Setting!Follow, Setting!Answer, Setting!group, Setting!tables, Setting!history, SettingFor
<1>17. ASSUME Setting!Unfollow(c) PROVE SettingAsked(c)'
  BY <1>17 DEF Setting!Unfollow, Setting!Answer, Setting!group, Setting!tables, Setting!history, SettingFor
<1>18. ASSUME \E kind \in Setting!Counts : Setting!Count(c, kind) PROVE SettingAsked(c)'
  <2>1. PICK kind \in Setting!Counts : Setting!Count(c, kind)
    BY <1>18
  <2>2. PICK v : /\ at[c] = "count" /\ ask' = ask /\ got' = [got EXCEPT ![c] = v]
                 /\ \/ at' = [at EXCEPT ![c] = "done"] /\ answer' = [answer EXCEPT ![c] = "done"]
                    \/ at' = [at EXCEPT ![c] = "count"] /\ answer' = answer
                 /\ UNCHANGED <<subject, role, active, sits, alive, moves, set, seat, challenge, views, follows, said, granted, mixed, crossed, wrote>>
    BY <2>1, SettingCounts
  <2>3. QED
    BY <2>2 DEF SettingFor
<1>19. QED
  BY <1>1, <1>2, <1>3, <1>4, <1>5, <1>6, <1>7, <1>8, <1>9, <1>10, <1>11, <1>12, <1>13, <1>14, <1>15, <1>16, <1>17, <1>18 DEF SettingStep

(* The points are those granted. *)
LEMMA SettingPointsKept ==
  ASSUME Setting!SettingsAssumption, NEW c \in Calls, SettingFits, SettingStep(c)
  PROVE  SettingPoints'
<1> USE DEF SettingFits, SettingSlots, SettingPoints
<1>1. ASSUME Setting!Start(c) PROVE SettingPoints'
  <2>1. PICK r \in SettingRequests, l \in SettingLabels :
           /\ at[c] = "new" /\ ask' = [ask EXCEPT ![c] = r] /\ at' = [at EXCEPT ![c] = l] /\ SettingFor(l, r)
           /\ l \notin {"new", "done", "write card", "write seat", "read back", "write room", "create", "increment", "view", "look"}
           /\ UNCHANGED <<subject, role, active, sits, alive, moves, set, seat, challenge, views, follows, got, answer, said, granted, crossed, wrote>>
    BY <1>1, SettingBegins
  <2>9. QED
    BY <2>1
<1>2. ASSUME Setting!Check(c) PROVE SettingPoints'
  BY <1>2 DEF Setting!Check, Setting!Go, Setting!Answer, Setting!group, Setting!tables, Setting!history, Setting!Makes, Setting!SettingsAssumption
<1>3. ASSUME Setting!WriteCard(c) PROVE SettingPoints'
  BY <1>3, SettingCardMoves DEF Setting!Makes, Setting!SettingsAssumption
<1>4. ASSUME Setting!FindSeat(c) PROVE SettingPoints'
  BY <1>4 DEF Setting!FindSeat, Setting!Go, Setting!Answer, Setting!group, Setting!tables, Setting!history, Setting!Makes, Setting!SettingsAssumption
<1>5. ASSUME Setting!WriteSeat(c) PROVE SettingPoints'
  BY <1>5, SettingSeatMoves DEF Setting!Makes, Setting!SettingsAssumption
<1>6. ASSUME Setting!ReadBack(c) PROVE SettingPoints'
  BY <1>6 DEF Setting!ReadBack, Setting!Answer, Setting!group, Setting!tables, Setting!history, Setting!Makes, Setting!SettingsAssumption
<1>7. ASSUME Setting!FindRoom(c) PROVE SettingPoints'
  BY <1>7 DEF Setting!FindRoom, Setting!Go, Setting!Answer, Setting!group, Setting!tables, Setting!history, Setting!Makes, Setting!SettingsAssumption
<1>8. ASSUME Setting!WriteRoom(c) PROVE SettingPoints'
  BY <1>8 DEF Setting!WriteRoom, Setting!Answer, Setting!group, Setting!tables, Setting!history, Setting!Makes, Setting!SettingsAssumption
<1>9. ASSUME Setting!FindChallenge(c) PROVE SettingPoints'
  BY <1>9 DEF Setting!FindChallenge, Setting!Go, Setting!Answer, Setting!group, Setting!tables, Setting!history, Setting!Makes, Setting!SettingsAssumption
<1>10. ASSUME Setting!Create(c) PROVE SettingPoints'
  BY <1>10 DEF Setting!Create, Setting!Answer, Setting!group, Setting!tables, Setting!history, Setting!Makes, Setting!SettingsAssumption
<1>11. ASSUME Setting!FindProgress(c) PROVE SettingPoints'
  BY <1>11 DEF Setting!FindProgress, Setting!Go, Setting!Answer, Setting!group, Setting!tables, Setting!history, Setting!Makes, Setting!SettingsAssumption
<1>12. ASSUME Setting!Increment(c) PROVE SettingPoints'
  <2>0. challenge \in Nat /\ granted = challenge
    BY <1>12 DEF Setting!Increment
  <2>1. challenge \in Nat /\ granted = challenge /\ challenge' = challenge + 1 /\ granted' = granted + 1 /\ at' = [at EXCEPT ![c] = "done"]
    BY <1>12, <2>0 DEF Setting!Increment, Setting!Answer
  <2>2. challenge' \in Nat /\ granted' \in Nat /\ challenge' = granted'
    <3>1. challenge + 1 \in Nat
      BY <2>0, Onward
    <3>2. QED
      BY <2>1, <3>1
  <2>3. challenge' # None
    BY <2>2 DEF Setting!SettingsAssumption
  <2>4. QED
    BY <2>2, <2>3
<1>13. ASSUME Setting!FindHashtag(c) PROVE SettingPoints'
  BY <1>13 DEF Setting!FindHashtag, Setting!Go, Setting!group, Setting!tables, Setting!history, Setting!Makes, Setting!SettingsAssumption
<1>14. ASSUME Setting!View(c) PROVE SettingPoints'
  BY <1>14 DEF Setting!View, Setting!Go, Setting!group, Setting!tables, Setting!history, Setting!Makes, Setting!SettingsAssumption
<1>15. ASSUME Setting!LookFollow(c) PROVE SettingPoints'
  BY <1>15 DEF Setting!LookFollow, Setting!Answer, Setting!group, Setting!tables, Setting!history, Setting!Makes, Setting!SettingsAssumption
<1>16. ASSUME Setting!Follow(c) PROVE SettingPoints'
  BY <1>16 DEF Setting!Follow, Setting!Answer, Setting!group, Setting!tables, Setting!history, Setting!Makes, Setting!SettingsAssumption
<1>17. ASSUME Setting!Unfollow(c) PROVE SettingPoints'
  BY <1>17 DEF Setting!Unfollow, Setting!Answer, Setting!group, Setting!tables, Setting!history, Setting!Makes, Setting!SettingsAssumption
<1>18. ASSUME \E kind \in Setting!Counts : Setting!Count(c, kind) PROVE SettingPoints'
  <2>1. PICK kind \in Setting!Counts : Setting!Count(c, kind)
    BY <1>18
  <2>2. PICK v : /\ at[c] = "count" /\ ask' = ask /\ got' = [got EXCEPT ![c] = v]
                 /\ \/ at' = [at EXCEPT ![c] = "done"] /\ answer' = [answer EXCEPT ![c] = "done"]
                    \/ at' = [at EXCEPT ![c] = "count"] /\ answer' = answer
                 /\ UNCHANGED <<subject, role, active, sits, alive, moves, set, seat, challenge, views, follows, said, granted, mixed, crossed, wrote>>
    BY <2>1, SettingCounts
  <2>3. QED
    BY <2>2 DEF Setting!Makes, Setting!SettingsAssumption
<1>19. QED
  BY <1>1, <1>2, <1>3, <1>4, <1>5, <1>6, <1>7, <1>8, <1>9, <1>10, <1>11, <1>12, <1>13, <1>14, <1>15, <1>16, <1>17, <1>18 DEF SettingStep

(* The tables keep their shape. *)
LEMMA SettingTablesKept ==
  ASSUME Setting!SettingsAssumption, NEW c \in Calls, SettingFits, SettingFlags(c), SettingStep(c)
  PROVE  SettingTables'
<1> USE DEF SettingFits, SettingSlots, SettingTables
<1>1. ASSUME Setting!Start(c) PROVE SettingTables'
  <2>1. PICK r \in SettingRequests, l \in SettingLabels :
           /\ at[c] = "new" /\ ask' = [ask EXCEPT ![c] = r] /\ at' = [at EXCEPT ![c] = l] /\ SettingFor(l, r)
           /\ l \notin {"new", "done", "write card", "write seat", "read back", "write room", "create", "increment", "view", "look"}
           /\ UNCHANGED <<subject, role, active, sits, alive, moves, set, seat, challenge, views, follows, got, answer, said, granted, crossed, wrote>>
    BY <1>1, SettingBegins
  <2>9. QED
    BY <2>1
<1>2. ASSUME Setting!Check(c) PROVE SettingTables'
  BY <1>2 DEF Setting!Check, Setting!Go, Setting!Answer, Setting!group, Setting!tables, Setting!history
<1>3. ASSUME Setting!WriteCard(c) PROVE SettingTables'
  <2>1. ask[c] \in SettingRequests
    BY <1>3 DEF Setting!WriteCard, SettingAsked, SettingFor
  <2>a. \A f \in DOMAIN ask[c].gives : ask[c].gives[f] \in Setting!Values
    BY <2>1, SettingRequest
  <2>2. Setting!Over(set, ask[c].gives) \in [Setting!Fields -> Setting!Values] /\ Setting!Over(said, ask[c].gives) \in [Setting!Fields -> Setting!Values]
    BY <2>a DEF Setting!Over
  <2>3. QED
    BY <1>3, <2>2 DEF Setting!WriteCard, Setting!group, Setting!tables
<1>4. ASSUME Setting!FindSeat(c) PROVE SettingTables'
  BY <1>4 DEF Setting!FindSeat, Setting!Go, Setting!Answer, Setting!group, Setting!tables, Setting!history
<1>5. ASSUME Setting!WriteSeat(c) PROVE SettingTables'
  <2>1. ask[c] \in SettingRequests
    BY <1>5 DEF Setting!WriteSeat, SettingAsked, SettingFor
  <2>2. ask[c].by \in Users /\ seat[ask[c].by] \in [Setting!SeatFields -> Setting!Values]
    BY <2>1, SettingRequest
  <2>a. \A f \in DOMAIN ask[c].seat : ask[c].seat[f] \in Setting!Values
    BY <2>1, SettingRequest
  <2>3. Setting!Over(seat[ask[c].by], ask[c].seat) \in [Setting!SeatFields -> Setting!Values]
    BY <2>2, <2>a DEF Setting!Over
  <2>4. seat' = seat \/ seat' = [seat EXCEPT ![ask[c].by] = Setting!Over(seat[ask[c].by], ask[c].seat)]
    BY <1>5 DEF Setting!WriteSeat
  <2>5. seat' \in [Users -> [Setting!SeatFields -> Setting!Values]]
    BY <2>2, <2>3, <2>4
  <2>6. UNCHANGED <<subject, role, active, sits, alive, moves, set, said, views, follows>>
    BY <1>5 DEF Setting!WriteSeat, Setting!group
  <2>7. QED
    BY <2>5, <2>6
<1>6. ASSUME Setting!ReadBack(c) PROVE SettingTables'
  BY <1>6 DEF Setting!ReadBack, Setting!Answer, Setting!group, Setting!tables, Setting!history
<1>7. ASSUME Setting!FindRoom(c) PROVE SettingTables'
  BY <1>7 DEF Setting!FindRoom, Setting!Go, Setting!Answer, Setting!group, Setting!tables, Setting!history
<1>8. ASSUME Setting!WriteRoom(c) PROVE SettingTables'
  <2>1. ask[c] \in SettingRequests
    BY <1>8 DEF Setting!WriteRoom, SettingAsked, SettingFor
  <2>a. \A f \in DOMAIN ask[c].gives : ask[c].gives[f] \in Setting!Values
    BY <2>1, SettingRequest
  <2>2. Setting!Over(set, ask[c].gives) \in [Setting!Fields -> Setting!Values] /\ Setting!Over(said, ask[c].gives) \in [Setting!Fields -> Setting!Values]
    BY <2>a DEF Setting!Over
  <2>3. got[c] \in [Setting!Flags -> Setting!Values]
    BY <1>8 DEF Setting!WriteRoom, SettingFlags
  <2>4. Setting!Merged(c) \in [Setting!Flags -> Setting!Values]
    BY <2>a, <2>3 DEF Setting!Merged, Setting!Over
  <2>5. \A f \in DOMAIN Setting!Merged(c) : Setting!Merged(c)[f] \in Setting!Values
    BY <2>4
  <2>6. Setting!Over(Setting!Over(set, ask[c].gives), Setting!Merged(c)) \in [Setting!Fields -> Setting!Values]
    BY <2>2, <2>5 DEF Setting!Over
  <2>7. set' \in [Setting!Fields -> Setting!Values] /\ said' \in [Setting!Fields -> Setting!Values]
    BY <1>8, <2>2, <2>6 DEF Setting!WriteRoom
  <2>8. QED
    BY <1>8, <2>7 DEF Setting!WriteRoom, Setting!group, Setting!tables
<1>9. ASSUME Setting!FindChallenge(c) PROVE SettingTables'
  BY <1>9 DEF Setting!FindChallenge, Setting!Go, Setting!Answer, Setting!group, Setting!tables, Setting!history
<1>10. ASSUME Setting!Create(c) PROVE SettingTables'
  BY <1>10 DEF Setting!Create, Setting!Answer, Setting!group, Setting!tables, Setting!history
<1>11. ASSUME Setting!FindProgress(c) PROVE SettingTables'
  BY <1>11 DEF Setting!FindProgress, Setting!Go, Setting!Answer, Setting!group, Setting!tables, Setting!history
<1>12. ASSUME Setting!Increment(c) PROVE SettingTables'
  BY <1>12 DEF Setting!Increment, Setting!Answer, Setting!group, Setting!tables, Setting!history
<1>13. ASSUME Setting!FindHashtag(c) PROVE SettingTables'
  BY <1>13 DEF Setting!FindHashtag, Setting!Go, Setting!group, Setting!tables, Setting!history
<1>14. ASSUME Setting!View(c) PROVE SettingTables'
  <2>1. views' = views + 1 /\ UNCHANGED <<subject, role, active, sits, alive, moves, set, said, seat, follows>>
    BY <1>14 DEF Setting!View, Setting!group
  <2>a. views \in Nat
    OBVIOUS
  <2>b. views + 1 \in Nat
    BY <2>a, Onward
  <2>2. views' \in Nat
    BY <2>1, <2>b
  <2>3. QED
    BY <2>1, <2>2
<1>15. ASSUME Setting!LookFollow(c) PROVE SettingTables'
  BY <1>15 DEF Setting!LookFollow, Setting!Answer, Setting!group, Setting!tables, Setting!history
<1>16. ASSUME Setting!Follow(c) PROVE SettingTables'
  <2>1. ask[c].by \in Users
    BY <1>16, SettingRequest DEF Setting!Follow, SettingAsked, SettingFor
  <2>2. QED
    BY <1>16, <2>1 DEF Setting!Follow, Setting!group, Setting!history
<1>17. ASSUME Setting!Unfollow(c) PROVE SettingTables'
  BY <1>17 DEF Setting!Unfollow, Setting!Answer, Setting!group, Setting!tables, Setting!history
<1>18. ASSUME \E kind \in Setting!Counts : Setting!Count(c, kind) PROVE SettingTables'
  <2>1. PICK kind \in Setting!Counts : Setting!Count(c, kind)
    BY <1>18
  <2>2. PICK v : /\ at[c] = "count" /\ ask' = ask /\ got' = [got EXCEPT ![c] = v]
                 /\ \/ at' = [at EXCEPT ![c] = "done"] /\ answer' = [answer EXCEPT ![c] = "done"]
                    \/ at' = [at EXCEPT ![c] = "count"] /\ answer' = answer
                 /\ UNCHANGED <<subject, role, active, sits, alive, moves, set, seat, challenge, views, follows, said, granted, mixed, crossed, wrote>>
    BY <2>1, SettingCounts
  <2>3. QED
    BY <2>2
<1>19. QED
  BY <1>1, <1>2, <1>3, <1>4, <1>5, <1>6, <1>7, <1>8, <1>9, <1>10, <1>11, <1>12, <1>13, <1>14, <1>15, <1>16, <1>17, <1>18 DEF SettingStep

-----------------------------------------------------------------------------
(* The flags a room update has read are flags. *)
LEMMA SettingFlagsKept ==
  ASSUME Setting!SettingsAssumption, NEW c \in Calls, SettingFits, SettingStep(c)
  PROVE  SettingFlags(c)'
<1> USE DEF SettingFits, SettingSlots, SettingFlags
<1>1. ASSUME Setting!Start(c) PROVE SettingFlags(c)'
  <2>1. PICK r \in SettingRequests, l \in SettingLabels :
           /\ at[c] = "new" /\ ask' = [ask EXCEPT ![c] = r] /\ at' = [at EXCEPT ![c] = l] /\ SettingFor(l, r)
           /\ l \notin {"new", "done", "write card", "write seat", "read back", "write room", "create", "increment", "view", "look"}
           /\ UNCHANGED <<subject, role, active, sits, alive, moves, set, seat, challenge, views, follows, got, answer, said, granted, crossed, wrote>>
    BY <1>1, SettingBegins
  <2>9. QED
    BY <2>1
<1>2. ASSUME Setting!Check(c) PROVE SettingFlags(c)'
  BY <1>2 DEF Setting!Check, Setting!Go, Setting!Answer, Setting!group, Setting!tables, Setting!history
<1>3. ASSUME Setting!WriteCard(c) PROVE SettingFlags(c)'
  BY <1>3, SettingCardMoves
<1>4. ASSUME Setting!FindSeat(c) PROVE SettingFlags(c)'
  BY <1>4 DEF Setting!FindSeat, Setting!Go, Setting!Answer, Setting!group, Setting!tables, Setting!history
<1>5. ASSUME Setting!WriteSeat(c) PROVE SettingFlags(c)'
  BY <1>5, SettingSeatMoves
<1>6. ASSUME Setting!ReadBack(c) PROVE SettingFlags(c)'
  BY <1>6 DEF Setting!ReadBack, Setting!Answer, Setting!group, Setting!tables, Setting!history
<1>7. ASSUME Setting!FindRoom(c) PROVE SettingFlags(c)'
  <2>1. at' = [at EXCEPT ![c] = "done"] \/ got' = [got EXCEPT ![c] = [f \in Setting!Flags |-> set[f]]]
    BY <1>7 DEF Setting!FindRoom, Setting!Go, Setting!Answer
  <2>2. [f \in Setting!Flags |-> set[f]] \in [Setting!Flags -> Setting!Values]
    BY DEF SettingTables, Setting!Fields
  <2>3. QED
    BY <2>1, <2>2
<1>8. ASSUME Setting!WriteRoom(c) PROVE SettingFlags(c)'
  BY <1>8 DEF Setting!WriteRoom, Setting!Answer, Setting!group, Setting!tables, Setting!history
<1>9. ASSUME Setting!FindChallenge(c) PROVE SettingFlags(c)'
  BY <1>9 DEF Setting!FindChallenge, Setting!Go, Setting!Answer, Setting!group, Setting!tables, Setting!history
<1>10. ASSUME Setting!Create(c) PROVE SettingFlags(c)'
  BY <1>10 DEF Setting!Create, Setting!Answer, Setting!group, Setting!tables, Setting!history
<1>11. ASSUME Setting!FindProgress(c) PROVE SettingFlags(c)'
  BY <1>11 DEF Setting!FindProgress, Setting!Go, Setting!Answer, Setting!group, Setting!tables, Setting!history
<1>12. ASSUME Setting!Increment(c) PROVE SettingFlags(c)'
  BY <1>12 DEF Setting!Increment, Setting!Answer, Setting!group, Setting!tables, Setting!history
<1>13. ASSUME Setting!FindHashtag(c) PROVE SettingFlags(c)'
  BY <1>13 DEF Setting!FindHashtag, Setting!Go, Setting!group, Setting!tables, Setting!history
<1>14. ASSUME Setting!View(c) PROVE SettingFlags(c)'
  BY <1>14 DEF Setting!View, Setting!Go, Setting!group, Setting!tables, Setting!history
<1>15. ASSUME Setting!LookFollow(c) PROVE SettingFlags(c)'
  BY <1>15 DEF Setting!LookFollow, Setting!Answer, Setting!group, Setting!tables, Setting!history
<1>16. ASSUME Setting!Follow(c) PROVE SettingFlags(c)'
  BY <1>16 DEF Setting!Follow, Setting!Answer, Setting!group, Setting!tables, Setting!history
<1>17. ASSUME Setting!Unfollow(c) PROVE SettingFlags(c)'
  BY <1>17 DEF Setting!Unfollow, Setting!Answer, Setting!group, Setting!tables, Setting!history
<1>18. ASSUME \E kind \in Setting!Counts : Setting!Count(c, kind) PROVE SettingFlags(c)'
  <2>1. PICK kind \in Setting!Counts : Setting!Count(c, kind)
    BY <1>18
  <2>2. PICK v : /\ at[c] = "count" /\ ask' = ask /\ got' = [got EXCEPT ![c] = v]
                 /\ \/ at' = [at EXCEPT ![c] = "done"] /\ answer' = [answer EXCEPT ![c] = "done"]
                    \/ at' = [at EXCEPT ![c] = "count"] /\ answer' = answer
                 /\ UNCHANGED <<subject, role, active, sits, alive, moves, set, seat, challenge, views, follows, said, granted, mixed, crossed, wrote>>
    BY <2>1, SettingCounts
  <2>3. QED
    BY <2>2
<1>19. QED
  BY <1>1, <1>2, <1>3, <1>4, <1>5, <1>6, <1>7, <1>8, <1>9, <1>10, <1>11, <1>12, <1>13, <1>14, <1>15, <1>16, <1>17, <1>18 DEF SettingStep

SettingKeeps == SettingFits /\ \A c \in Calls : SettingFlags(c)

(* A statement keeps what is known of every request. *)
LEMMA SettingStepKeeps ==
  ASSUME Setting!SettingsAssumption, NEW c \in Calls, SettingKeeps, SettingStep(c)
  PROVE  SettingKeeps'
<1>1. SettingFits /\ SettingFlags(c)
  BY DEF SettingKeeps
<1>2. SettingSlots' /\ SettingTables' /\ SettingPoints'
  BY <1>1, SettingSlotsKept, SettingTablesKept, SettingPointsKept
<1>3. SettingAsked(c)' /\ SettingFlags(c)'
  BY <1>1, SettingAskedKept, SettingFlagsKept
<1>4. ASSUME NEW d \in Calls \ {c} PROVE SettingAsked(d)' /\ SettingFlags(d)'
  <2>1. at'[d] = at[d] /\ ask'[d] = ask[d] /\ got'[d] = got[d]
    BY <1>1, SettingOthers
  <2>2. SettingAsked(d) /\ SettingFlags(d)
    BY DEF SettingKeeps, SettingFits
  <2>3. QED
    BY <2>1, <2>2 DEF SettingAsked, SettingFlags
<1>5. QED
  BY <1>2, <1>3, <1>4 DEF SettingKeeps, SettingFits

(* What the members' changes leave alone. *)
LEMMA SettingMoves ==
  ASSUME Setting!Move
  PROVE  /\ UNCHANGED <<subject, set, seat, challenge, views, follows, ask, at, got, answer, said, granted, mixed, wrote>>
         /\ moves' = moves + 1 /\ moves < MaxMemberMoves
         /\ crossed' = [c \in Calls |-> crossed[c] \/ at[c] = "count"]
         /\ (alive' = alive \/ alive' = FALSE)
BY DEF Setting!Move, Setting!tables, Setting!ChangeRole, Setting!Depart, Setting!Rejoin, Setting!Erase, Setting!Reseat

(* The members stay users with roles. *)
LEMMA SettingMembers ==
  ASSUME Setting!SettingsAssumption, SettingTables, Setting!Move
  PROVE  role' \in [Users -> Setting!Roles \cup {None}] /\ active' \cup sits' \subseteq Users /\ \A u \in active' : role'[u] # None
<1> USE DEF SettingTables
<1>1. CASE Setting!ChangeRole
  <2>1. PICK u \in Users, r \in Setting!Roles : role[u] # None /\ role' = [role EXCEPT ![u] = r]
    BY <1>1 DEF Setting!ChangeRole
  <2>2. active' = active /\ sits' = sits
    BY <1>1 DEF Setting!ChangeRole
  <2>3. r # None
    BY <2>1 DEF Setting!SettingsAssumption
  <2>4. QED
    BY <2>1, <2>2, <2>3
<1>2. CASE Setting!Depart
  BY <1>2 DEF Setting!Depart
<1>3. CASE Setting!Rejoin
  BY <1>3 DEF Setting!Rejoin
<1>4. CASE Setting!Erase
  BY <1>4 DEF Setting!Erase
<1>5. CASE Setting!Reseat
  BY <1>5 DEF Setting!Reseat
<1>6. QED
  BY <1>1, <1>2, <1>3, <1>4, <1>5 DEF Setting!Move

(* They disturb nothing known of the requests. *)
LEMMA SettingMoveKeeps ==
  ASSUME Setting!SettingsAssumption, SettingKeeps, Setting!Move
  PROVE  SettingKeeps'
<1> USE DEF SettingKeeps, SettingFits
<1>1. SettingSlots'
  BY SettingMoves DEF SettingSlots
<1>2. SettingTables'
  <2>1. moves' \in 0 .. MaxMemberMoves
    <3>1. moves \in 0 .. MaxMemberMoves /\ MaxMemberMoves \in Nat /\ moves' = moves + 1 /\ moves < MaxMemberMoves
      BY SettingMoves DEF SettingTables, Setting!SettingsAssumption
    <3>2. QED
      BY <3>1
  <2>2. alive' \in BOOLEAN /\ UNCHANGED <<subject, set, seat, views, follows, said>>
    BY SettingMoves DEF SettingTables
  <2>3. QED
    BY <2>1, <2>2, SettingMembers DEF SettingTables
<1>3. SettingPoints'
  BY SettingMoves DEF SettingPoints
<1>4. \A c \in Calls : SettingAsked(c)' /\ SettingFlags(c)'
  BY SettingMoves DEF SettingAsked, SettingFlags
<1>5. QED
  BY <1>1, <1>2, <1>3, <1>4

(* Before any request. *)
LEMMA SettingStarts ==
  ASSUME Setting!SettingsAssumption, Setting!Init
  PROVE  SettingKeeps
<1> USE DEF Setting!Init
<1>1. SettingSlots
  BY DEF SettingSlots, SettingLabels
<1>2. SettingTables
  <2>1. role \in [Users -> Setting!Roles \cup {None}]
    BY DEF Setting!Roles
  <2>2. moves \in 0 .. MaxMemberMoves
    <3>1. moves = 0 /\ MaxMemberMoves \in Nat
      BY DEF Setting!SettingsAssumption
    <3> HIDE DEF Setting!Init
    <3>2. QED
      BY <3>1
  <2>3. set \in [Setting!Fields -> Setting!Values] /\ said \in [Setting!Fields -> Setting!Values]
        /\ seat \in [Users -> [Setting!SeatFields -> Setting!Values]]
    BY DEF Setting!Values
  <2>4. views \in Nat /\ follows \subseteq Users /\ alive \in BOOLEAN /\ subject \in Setting!Subjects
    OBVIOUS
  <2>5. active \cup sits \subseteq Users /\ \A u \in active : role[u] # None
    OBVIOUS
  <2>6. QED
    BY <2>1, <2>2, <2>3, <2>4, <2>5 DEF SettingTables
<1>3. SettingPoints
  BY DEF SettingPoints
<1>4. \A c \in Calls : SettingAsked(c) /\ SettingFlags(c)
  BY DEF SettingAsked, SettingFlags
<1>5. QED
  BY <1>1, <1>2, <1>3, <1>4 DEF SettingKeeps, SettingFits

(* Settings takes a statement or changes the members. *)
LEMMA SettingNexts ==
  ASSUME Setting!Next
  PROVE  (\E c \in Calls : SettingStep(c)) \/ Setting!Move
BY DEF Setting!Next, SettingStep

-----------------------------------------------------------------------------
(* While no two updates of the flags have overlapped, at most one of them runs, and *)
(* what it has read of the flags is what they are. *)
SettingMerging(c) == Setting!Active(c) /\ Setting!Merges(ask[c])
SettingAlone == ~mixed => \A c, d \in Calls : SettingMerging(c) /\ SettingMerging(d) => c = d
SettingRead(c) == ~mixed /\ at[c] = "write room" /\ Setting!Merges(ask[c]) => \A f \in Setting!Flags : got[c][f] = set[f]
SettingInv == SettingKeeps /\ mixed \in BOOLEAN /\ SettingAlone /\ (\A c \in Calls : SettingRead(c)) /\ Setting!SettingsHold

SettingQuietly(c) ==
  set' = set /\ said' = said /\ mixed' = mixed /\ ask' = ask /\ at[c] \notin {"new", "done"} /\ at'[c] # "write room" /\ at'[c] # "new"

(* All but four of the statements leave the fields, and begin no write of a room. *)
LEMMA SettingQuiet ==
  ASSUME Setting!SettingsAssumption, NEW c \in Calls, SettingFits, SettingStep(c)
  PROVE  SettingQuietly(c) \/ Setting!Start(c) \/ Setting!WriteCard(c) \/ Setting!WriteRoom(c) \/ Setting!FindRoom(c)
<1> USE DEF SettingFits, SettingSlots, SettingQuietly
<1>1. ASSUME Setting!Start(c) PROVE SettingQuietly(c) \/ Setting!Start(c) \/ Setting!WriteCard(c) \/ Setting!WriteRoom(c) \/ Setting!FindRoom(c)
  BY <1>1
<1>2. ASSUME Setting!Check(c) PROVE SettingQuietly(c) \/ Setting!Start(c) \/ Setting!WriteCard(c) \/ Setting!WriteRoom(c) \/ Setting!FindRoom(c)
  BY <1>2 DEF Setting!Check, Setting!Go, Setting!Answer, Setting!group, Setting!tables, Setting!history
<1>3. ASSUME Setting!WriteCard(c) PROVE SettingQuietly(c) \/ Setting!Start(c) \/ Setting!WriteCard(c) \/ Setting!WriteRoom(c) \/ Setting!FindRoom(c)
  BY <1>3
<1>4. ASSUME Setting!FindSeat(c) PROVE SettingQuietly(c) \/ Setting!Start(c) \/ Setting!WriteCard(c) \/ Setting!WriteRoom(c) \/ Setting!FindRoom(c)
  BY <1>4 DEF Setting!FindSeat, Setting!Go, Setting!Answer, Setting!group, Setting!tables, Setting!history
<1>5. ASSUME Setting!WriteSeat(c) PROVE SettingQuietly(c) \/ Setting!Start(c) \/ Setting!WriteCard(c) \/ Setting!WriteRoom(c) \/ Setting!FindRoom(c)
  BY <1>5, SettingSeatMoves
<1>6. ASSUME Setting!ReadBack(c) PROVE SettingQuietly(c) \/ Setting!Start(c) \/ Setting!WriteCard(c) \/ Setting!WriteRoom(c) \/ Setting!FindRoom(c)
  BY <1>6 DEF Setting!ReadBack, Setting!Answer, Setting!group, Setting!tables, Setting!history
<1>7. ASSUME Setting!FindRoom(c) PROVE SettingQuietly(c) \/ Setting!Start(c) \/ Setting!WriteCard(c) \/ Setting!WriteRoom(c) \/ Setting!FindRoom(c)
  BY <1>7
<1>8. ASSUME Setting!WriteRoom(c) PROVE SettingQuietly(c) \/ Setting!Start(c) \/ Setting!WriteCard(c) \/ Setting!WriteRoom(c) \/ Setting!FindRoom(c)
  BY <1>8
<1>9. ASSUME Setting!FindChallenge(c) PROVE SettingQuietly(c) \/ Setting!Start(c) \/ Setting!WriteCard(c) \/ Setting!WriteRoom(c) \/ Setting!FindRoom(c)
  BY <1>9 DEF Setting!FindChallenge, Setting!Go, Setting!Answer, Setting!group, Setting!tables, Setting!history
<1>10. ASSUME Setting!Create(c) PROVE SettingQuietly(c) \/ Setting!Start(c) \/ Setting!WriteCard(c) \/ Setting!WriteRoom(c) \/ Setting!FindRoom(c)
  BY <1>10 DEF Setting!Create, Setting!Answer, Setting!group, Setting!tables, Setting!history
<1>11. ASSUME Setting!FindProgress(c) PROVE SettingQuietly(c) \/ Setting!Start(c) \/ Setting!WriteCard(c) \/ Setting!WriteRoom(c) \/ Setting!FindRoom(c)
  BY <1>11 DEF Setting!FindProgress, Setting!Go, Setting!Answer, Setting!group, Setting!tables, Setting!history
<1>12. ASSUME Setting!Increment(c) PROVE SettingQuietly(c) \/ Setting!Start(c) \/ Setting!WriteCard(c) \/ Setting!WriteRoom(c) \/ Setting!FindRoom(c)
  BY <1>12 DEF Setting!Increment, Setting!Answer, Setting!group, Setting!tables, Setting!history
<1>13. ASSUME Setting!FindHashtag(c) PROVE SettingQuietly(c) \/ Setting!Start(c) \/ Setting!WriteCard(c) \/ Setting!WriteRoom(c) \/ Setting!FindRoom(c)
  BY <1>13 DEF Setting!FindHashtag, Setting!Go, Setting!group, Setting!tables, Setting!history
<1>14. ASSUME Setting!View(c) PROVE SettingQuietly(c) \/ Setting!Start(c) \/ Setting!WriteCard(c) \/ Setting!WriteRoom(c) \/ Setting!FindRoom(c)
  BY <1>14 DEF Setting!View, Setting!Go, Setting!group, Setting!tables, Setting!history
<1>15. ASSUME Setting!LookFollow(c) PROVE SettingQuietly(c) \/ Setting!Start(c) \/ Setting!WriteCard(c) \/ Setting!WriteRoom(c) \/ Setting!FindRoom(c)
  BY <1>15 DEF Setting!LookFollow, Setting!Answer, Setting!group, Setting!tables, Setting!history
<1>16. ASSUME Setting!Follow(c) PROVE SettingQuietly(c) \/ Setting!Start(c) \/ Setting!WriteCard(c) \/ Setting!WriteRoom(c) \/ Setting!FindRoom(c)
  BY <1>16 DEF Setting!Follow, Setting!Answer, Setting!group, Setting!tables, Setting!history
<1>17. ASSUME Setting!Unfollow(c) PROVE SettingQuietly(c) \/ Setting!Start(c) \/ Setting!WriteCard(c) \/ Setting!WriteRoom(c) \/ Setting!FindRoom(c)
  BY <1>17 DEF Setting!Unfollow, Setting!Answer, Setting!group, Setting!tables, Setting!history
<1>18. ASSUME \E kind \in Setting!Counts : Setting!Count(c, kind) PROVE SettingQuietly(c) \/ Setting!Start(c) \/ Setting!WriteCard(c) \/ Setting!WriteRoom(c) \/ Setting!FindRoom(c)
  <2>1. PICK kind \in Setting!Counts : Setting!Count(c, kind)
    BY <1>18
  <2>2. PICK v : /\ at[c] = "count" /\ ask' = ask /\ got' = [got EXCEPT ![c] = v]
                 /\ \/ at' = [at EXCEPT ![c] = "done"] /\ answer' = [answer EXCEPT ![c] = "done"]
                    \/ at' = [at EXCEPT ![c] = "count"] /\ answer' = answer
                 /\ UNCHANGED <<subject, role, active, sits, alive, moves, set, seat, challenge, views, follows, said, granted, mixed, crossed, wrote>>
    BY <2>1, SettingCounts
  <2>3. QED
    BY <2>2
<1>19. QED
  BY <1>1, <1>2, <1>3, <1>4, <1>5, <1>6, <1>7, <1>8, <1>9, <1>10, <1>11, <1>12, <1>13, <1>14, <1>15, <1>16, <1>17, <1>18 DEF SettingStep

(* A merge runs on, and no other takes its place. *)
LEMMA SettingAloneKept ==
  ASSUME Setting!SettingsAssumption, NEW c \in Calls, SettingInv, SettingStep(c)
  PROVE  mixed' \in BOOLEAN /\ SettingAlone' /\ (mixed => mixed')
<1>1. SettingFits
  BY DEF SettingInv, SettingKeeps
<1>2. \A d \in Calls \ {c} : at'[d] = at[d] /\ ask'[d] = ask[d]
  BY <1>1, SettingOthers
<1>3. CASE Setting!Start(c)
  <2>1. PICK r \in SettingRequests, l \in SettingLabels :
           /\ ask' = [ask EXCEPT ![c] = r] /\ at' = [at EXCEPT ![c] = l]
           /\ (mixed => mixed') /\ (~mixed' /\ Setting!Merges(r) => \A d \in Calls : ~(Setting!Active(d) /\ Setting!Merges(ask[d])))
    BY <1>3, SettingBegins
  <2>2. ask'[c] = r
    BY <1>1, <2>1 DEF SettingFits, SettingSlots
  <2>3. ASSUME ~mixed' PROVE \A d, e \in Calls : SettingMerging(d)' /\ SettingMerging(e)' => d = e
    <3>1. \A d \in Calls \ {c} : SettingMerging(d)' => SettingMerging(d)
      BY <1>2 DEF SettingMerging, Setting!Active
    <3>2. SettingMerging(c)' => \A d \in Calls : ~SettingMerging(d)
      BY <2>1, <2>2, <2>3 DEF SettingMerging
    <3>3. \A d, e \in Calls : SettingMerging(d) /\ SettingMerging(e) => d = e
      BY <2>1, <2>3 DEF SettingInv, SettingAlone
    <3>4. QED
      BY <3>1, <3>2, <3>3
  <2>4. mixed' \in BOOLEAN
    BY <1>3 DEF Setting!Start, SettingInv
  <2>5. QED
    BY <2>1, <2>3, <2>4 DEF SettingAlone
<1>4. CASE SettingQuietly(c) \/ Setting!WriteCard(c) \/ Setting!WriteRoom(c) \/ Setting!FindRoom(c)
  <2>1. mixed' = mixed /\ ask' = ask /\ at[c] \notin {"new", "done"}
    <3>1. CASE SettingQuietly(c)
      BY <3>1 DEF SettingQuietly
    <3>2. CASE Setting!WriteCard(c)
      BY <3>2, SettingCardMoves
    <3>3. CASE Setting!WriteRoom(c)
      BY <3>3 DEF Setting!WriteRoom, Setting!Answer
    <3>4. CASE Setting!FindRoom(c)
      BY <3>4 DEF Setting!FindRoom, Setting!Answer, Setting!Go, Setting!history
    <3>5. QED
      BY <1>4, <3>1, <3>2, <3>3, <3>4
  <2>2. \A d \in Calls : SettingMerging(d)' => SettingMerging(d)
    BY <1>2, <2>1 DEF SettingMerging, Setting!Active
  <2>3. QED
    BY <2>1, <2>2 DEF SettingInv, SettingAlone
<1>5. QED
  BY <1>1, <1>3, <1>4, SettingQuiet

(* Which fields a request gives. *)
LEMMA SettingGives ==
  ASSUME Setting!SettingsAssumption, NEW r \in SettingRequests
  PROVE  /\ r.op \in {"update group", "update card", "update settings"} => \A f \in Setting!Flags : f \notin DOMAIN r.gives
         /\ r.op = "update room" => DOMAIN r.gives \subseteq Setting!RoomFields \cup Setting!Flags
BY DEF Setting!SettingsAssumption, Setting!CardFields, Setting!Flags

(* A card holds what was given, and the flags are as they were. *)
LEMMA SettingCardHolds ==
  ASSUME Setting!SettingsAssumption, NEW c \in Calls, SettingInv, Setting!WriteCard(c)
  PROVE  Setting!SettingsHold' /\ \A f \in Setting!Flags : set'[f] = set[f]
<1>1. SettingFits
  BY DEF SettingInv, SettingKeeps
<1>2. ask[c] \in SettingRequests /\ ask[c].op \in {"update group", "update card", "update settings"}
  BY <1>1, SettingCardMoves DEF SettingFits, SettingAsked, SettingFor
<1>3. mixed' = mixed
  BY SettingCardMoves
<1>4. DOMAIN set = Setting!Fields /\ DOMAIN said = Setting!Fields /\ Setting!Flags \subseteq Setting!Fields
  BY <1>1 DEF SettingFits, SettingTables, Setting!Fields
<1>5. CASE set' = set /\ said' = said
  BY <1>3, <1>5 DEF SettingInv, Setting!SettingsHold
<1>6. CASE set' = Setting!Over(set, ask[c].gives) /\ said' = Setting!Over(said, ask[c].gives)
  <2>1. \A f \in Setting!Fields : IF f \in DOMAIN ask[c].gives THEN set'[f] = ask[c].gives[f] /\ said'[f] = ask[c].gives[f]
                                                              ELSE set'[f] = set[f] /\ said'[f] = said[f]
    BY <1>4, <1>6 DEF Setting!Over
  <2>2. \A f \in Setting!Flags : set'[f] = set[f]
    BY <1>2, <1>4, <2>1, SettingGives
  <2>3. QED
    BY <1>3, <2>1, <2>2 DEF SettingInv, Setting!SettingsHold
<1>7. QED
  BY <1>5, <1>6, SettingCards

(* A room holds what was given; an update that gives no flag leaves the flags, one *)
(* that does and has read them as they are leaves those it does not give. *)
LEMMA SettingRoomHolds ==
  ASSUME Setting!SettingsAssumption, NEW c \in Calls, SettingInv, Setting!WriteRoom(c)
  PROVE  /\ Setting!SettingsHold' /\ mixed' = mixed /\ at'[c] = "done" /\ got' = got /\ ask' = ask
         /\ ~Setting!Merges(ask[c]) => \A f \in Setting!Flags : set'[f] = set[f]
<1>1. SettingFits
  BY DEF SettingInv, SettingKeeps
<1>2. ask[c] \in SettingRequests /\ ask[c].op = "update room"
  BY <1>1 DEF Setting!WriteRoom, SettingFits, SettingAsked, SettingFor
<1>3. mixed' = mixed /\ at'[c] = "done" /\ got' = got /\ ask' = ask
  BY <1>1 DEF Setting!WriteRoom, Setting!Answer, SettingFits, SettingSlots
<1>4. DOMAIN set = Setting!Fields /\ DOMAIN said = Setting!Fields /\ Setting!Flags \subseteq Setting!Fields
  BY <1>1 DEF SettingFits, SettingTables, Setting!Fields
<1>5. \A f \in Setting!Fields : said'[f] = IF f \in DOMAIN ask[c].gives THEN ask[c].gives[f] ELSE said[f]
  BY <1>4 DEF Setting!WriteRoom, Setting!Over
<1>6. \A f \in Setting!Fields : (f \in Setting!Flags /\ mixed) \/ set[f] = said[f]
  BY DEF SettingInv, Setting!SettingsHold
<1>7. CASE ~Setting!Merges(ask[c])
  <2>1. \A f \in Setting!Fields : set'[f] = IF f \in DOMAIN ask[c].gives THEN ask[c].gives[f] ELSE set[f]
    BY <1>4, <1>7 DEF Setting!WriteRoom, Setting!Over
  <2>2. \A f \in Setting!Flags : f \notin DOMAIN ask[c].gives
    BY <1>2, <1>7 DEF Setting!Merges
  <2>3. \A f \in Setting!Flags : set'[f] = set[f]
    BY <1>4, <2>1, <2>2
  <2>4. Setting!SettingsHold'
    BY <1>3, <1>5, <1>6, <2>1 DEF Setting!SettingsHold
  <2>5. QED
    BY <1>3, <2>3, <2>4
<1>8. CASE Setting!Merges(ask[c])
  <2>1. set' = Setting!Over(Setting!Over(set, ask[c].gives), Setting!Merged(c))
    BY <1>8 DEF Setting!WriteRoom
  <2>2. DOMAIN got[c] = Setting!Flags
    <3>1. at[c] = "write room" /\ SettingFlags(c)
      BY DEF Setting!WriteRoom, SettingInv, SettingKeeps
    <3>2. QED
      BY <3>1 DEF SettingFlags
  <2>3. DOMAIN Setting!Merged(c) = Setting!Flags
        /\ \A f \in Setting!Flags : Setting!Merged(c)[f] = IF f \in DOMAIN ask[c].gives THEN ask[c].gives[f] ELSE got[c][f]
    BY <2>2 DEF Setting!Merged, Setting!Over
  <2>4. \A f \in Setting!Fields \ Setting!Flags : set'[f] = IF f \in DOMAIN ask[c].gives THEN ask[c].gives[f] ELSE set[f]
    BY <1>4, <2>1, <2>3 DEF Setting!Over
  <2>5. \A f \in Setting!Flags : set'[f] = IF f \in DOMAIN ask[c].gives THEN ask[c].gives[f] ELSE got[c][f]
    BY <1>4, <2>1, <2>3 DEF Setting!Over
  <2>6. ~mixed => \A f \in Setting!Flags : got[c][f] = set[f]
    BY <1>8 DEF Setting!WriteRoom, SettingInv, SettingRead
  <2>7. \A f \in Setting!Fields : (f \in Setting!Flags /\ mixed) \/ set'[f] = said'[f]
    <3>1. ASSUME NEW f \in Setting!Fields \ Setting!Flags PROVE set'[f] = said'[f]
      BY <1>5, <1>6, <2>4
    <3>2. ASSUME NEW f \in Setting!Flags, ~mixed PROVE set'[f] = said'[f]
      BY <1>4, <1>5, <1>6, <2>5, <2>6, <3>2
    <3>3. QED
      BY <3>1, <3>2
  <2>8. QED
    BY <1>3, <1>8, <2>7 DEF Setting!SettingsHold
<1>9. QED
  BY <1>7, <1>8

(* A statement keeps the fields as they were given. *)
LEMMA SettingStepKept ==
  ASSUME Setting!SettingsAssumption, NEW c \in Calls, SettingInv, SettingStep(c)
  PROVE  SettingInv'
<1>1. SettingFits /\ SettingKeeps /\ SettingKeeps'
  BY SettingStepKeeps DEF SettingInv, SettingKeeps
<1>2. mixed' \in BOOLEAN /\ SettingAlone' /\ (mixed => mixed')
  BY SettingAloneKept
<1>3. \A d \in Calls \ {c} : at'[d] = at[d] /\ ask'[d] = ask[d] /\ got'[d] = got[d]
  BY <1>1, SettingOthers
<1>4. \A d \in Calls : SettingRead(d)
  BY DEF SettingInv
<1>5. CASE Setting!Start(c)
  <2>1. PICK r \in SettingRequests, l \in SettingLabels :
           /\ at' = [at EXCEPT ![c] = l] /\ l # "write room" /\ UNCHANGED <<set, said>>
    BY <1>5, SettingBegins
  <2>2. at'[c] # "write room"
    BY <1>1, <2>1 DEF SettingFits, SettingSlots
  <2>a. ASSUME NEW d \in Calls, ~mixed', at'[d] = "write room", Setting!Merges(ask'[d])
        PROVE  \A f \in Setting!Flags : got'[d][f] = set'[f]
    <3>1. d # c /\ at'[d] = at[d] /\ ask'[d] = ask[d] /\ got'[d] = got[d]
      BY <1>3, <2>2, <2>a
    <3>2. ~mixed /\ set' = set
      BY <1>2, <2>1, <2>a
    <3>3. QED
      BY <1>4, <2>a, <3>1, <3>2 DEF SettingRead
  <2>3. \A d \in Calls : SettingRead(d)'
    BY <2>a DEF SettingRead
  <2>4. Setting!SettingsHold'
    BY <1>2, <2>1 DEF SettingInv, Setting!SettingsHold
  <2>5. QED
    BY <1>1, <1>2, <2>3, <2>4 DEF SettingInv
<1>6. CASE SettingQuietly(c)
  <2>1. set' = set /\ said' = said /\ mixed' = mixed /\ at'[c] # "write room"
    BY <1>6 DEF SettingQuietly
  <2>2. \A d \in Calls : SettingRead(d)'
    BY <1>3, <1>4, <2>1 DEF SettingRead
  <2>3. Setting!SettingsHold'
    BY <2>1 DEF SettingInv, Setting!SettingsHold
  <2>4. QED
    BY <1>1, <1>2, <2>2, <2>3 DEF SettingInv
<1>7. CASE Setting!WriteCard(c)
  <2>1. mixed' = mixed /\ at'[c] # "write room"
    <3>1. PICK l \in {"done", "find seat", "read back"} : at' = [at EXCEPT ![c] = l]
      BY <1>7, SettingCardMoves
    <3>2. QED
      BY <1>1, <1>7, <3>1, SettingCardMoves DEF SettingFits, SettingSlots
  <2>2. Setting!SettingsHold' /\ \A f \in Setting!Flags : set'[f] = set[f]
    BY <1>7, SettingCardHolds
  <2>3. \A d \in Calls : SettingRead(d)'
    BY <1>3, <1>4, <2>1, <2>2 DEF SettingRead
  <2>4. QED
    BY <1>1, <1>2, <2>2, <2>3 DEF SettingInv
<1>8. CASE Setting!WriteRoom(c)
  <2>1. /\ Setting!SettingsHold' /\ mixed' = mixed /\ at'[c] = "done"
        /\ ~Setting!Merges(ask[c]) => \A f \in Setting!Flags : set'[f] = set[f]
    BY <1>8, SettingRoomHolds
  <2>2. ASSUME NEW d \in Calls, ~mixed', at'[d] = "write room", Setting!Merges(ask'[d])
        PROVE  \A f \in Setting!Flags : got'[d][f] = set'[f]
    <3>1. d # c /\ at'[d] = at[d] /\ ask'[d] = ask[d] /\ got'[d] = got[d]
      BY <1>3, <2>1, <2>2
    <3>2. SettingMerging(d) /\ ~mixed
      BY <2>1, <2>2, <3>1 DEF SettingMerging, Setting!Active
    <3>3. ~Setting!Merges(ask[c])
      <4>1. Setting!Active(c)
        BY <1>8 DEF Setting!WriteRoom, Setting!Active
      <4>2. QED
        BY <3>1, <3>2, <4>1 DEF SettingInv, SettingAlone, SettingMerging
    <3>4. QED
      BY <1>4, <2>1, <2>2, <3>1, <3>2, <3>3 DEF SettingRead
  <2>3. \A d \in Calls : SettingRead(d)'
    BY <2>2 DEF SettingRead
  <2>4. QED
    BY <1>1, <1>2, <2>1, <2>3 DEF SettingInv
<1>9. CASE Setting!FindRoom(c)
  <2>1. set' = set /\ said' = said /\ mixed' = mixed
    BY <1>9 DEF Setting!FindRoom, Setting!tables, Setting!history
  <2>2. at'[c] = "write room" => got'[c] = [f \in Setting!Flags |-> set[f]]
    BY <1>1, <1>9 DEF Setting!FindRoom, Setting!Go, Setting!Answer, SettingFits, SettingSlots
  <2>3. at'[c] = "write room" => \A f \in Setting!Flags : got'[c][f] = set[f]
    BY <2>2
  <2>4. \A d \in Calls : SettingRead(d)'
    BY <1>3, <1>4, <2>1, <2>3 DEF SettingRead
  <2>5. Setting!SettingsHold'
    BY <2>1 DEF SettingInv, Setting!SettingsHold
  <2>6. QED
    BY <1>1, <1>2, <2>4, <2>5 DEF SettingInv
<1>10. QED
  BY <1>1, <1>5, <1>6, <1>7, <1>8, <1>9, SettingQuiet

-----------------------------------------------------------------------------
(* What a request has written before it is answered: a settings request may have *)
(* written the card when it comes to a seat. *)
SettingCarded(c) == wrote[c] = {} \/ (ask[c].op = "update settings" /\ DOMAIN ask[c].seat # {} /\ wrote[c] = {"card"})
SettingPaper(c) ==
  /\ answer[c] # None => at[c] = "done"
  /\ at[c] \in {"find seat", "write seat"} => SettingCarded(c)
  /\ at[c] \notin {"find seat", "write seat", "read back", "done"} => wrote[c] = {}
  /\ alive /\ answer[c] \in {"forbidden", "not found"} => SettingCarded(c)

(* A request that is answered has written what it may. *)
LEMMA SettingPaperKept ==
  ASSUME Setting!SettingsAssumption, NEW c \in Calls, SettingFits, SettingPaper(c), SettingStep(c)
  PROVE  SettingPaper(c)'
<1> USE DEF SettingFits, SettingSlots, SettingPaper, SettingCarded
<1>1. ASSUME Setting!Start(c) PROVE SettingPaper(c)'
  <2>1. PICK r \in SettingRequests, l \in SettingLabels :
           /\ at[c] = "new" /\ ask' = [ask EXCEPT ![c] = r] /\ at' = [at EXCEPT ![c] = l] /\ SettingFor(l, r)
           /\ l \notin {"new", "done", "write card", "write seat", "read back", "write room", "create", "increment", "view", "look"}
           /\ UNCHANGED <<subject, role, active, sits, alive, moves, set, seat, challenge, views, follows, got, answer, said, granted, crossed, wrote>>
    BY <1>1, SettingBegins
  <2>2. answer'[c] = None /\ wrote'[c] = {}
    BY <2>1
  <2>3. QED
    BY <2>2 DEF SettingSlots, Setting!SettingsAssumption
<1>2. ASSUME Setting!Check(c) PROVE SettingPaper(c)'
  BY <1>2 DEF Setting!Check, Setting!Go, Setting!Answer, Setting!group, Setting!tables, Setting!history
<1>3. ASSUME Setting!WriteCard(c) PROVE SettingPaper(c)'
  <2>1. at[c] = "write card" /\ ask' = ask /\ alive' = alive /\ wrote[c] = {} /\ answer[c] = None
    BY <1>3, SettingCards
  <2>2. CASE alive /\ wrote' = [wrote EXCEPT ![c] = wrote[c] \cup {"card"}]
    <3>1. wrote'[c] = {"card"}
      BY <2>1, <2>2
    <3>2. \/ at' = [at EXCEPT ![c] = "done"] /\ answer' = [answer EXCEPT ![c] = "done"]
          \/ at' = [at EXCEPT ![c] = "find seat"] /\ answer' = answer /\ ask[c].op = "update settings" /\ DOMAIN ask[c].seat # {}
          \/ at' = [at EXCEPT ![c] = "read back"] /\ answer' = answer
      BY <1>3, <2>2, SettingCards
    <3>3. CASE at' = [at EXCEPT ![c] = "done"] /\ answer' = [answer EXCEPT ![c] = "done"]
      BY <3>3
    <3>4. CASE at' = [at EXCEPT ![c] = "find seat"] /\ answer' = answer /\ ask[c].op = "update settings" /\ DOMAIN ask[c].seat # {}
      BY <2>1, <3>1, <3>4
    <3>5. CASE at' = [at EXCEPT ![c] = "read back"] /\ answer' = answer
      BY <2>1, <3>5 DEF Setting!SettingsAssumption
    <3>6. QED
      BY <3>2, <3>3, <3>4, <3>5
  <2>3. CASE ~alive /\ at' = [at EXCEPT ![c] = "done"]
    BY <2>1, <2>3
  <2>4. QED
    BY <1>3, <2>2, <2>3, SettingCards
<1>4. ASSUME Setting!FindSeat(c) PROVE SettingPaper(c)'
  BY <1>4 DEF Setting!FindSeat, Setting!Go, Setting!Answer, Setting!group, Setting!tables, Setting!history
<1>5. ASSUME Setting!WriteSeat(c) PROVE SettingPaper(c)'
  <2>1. at[c] = "write seat" /\ ask' = ask /\ alive' = alive /\ answer[c] = None
    BY <1>5, SettingSeats
  <2>2. CASE at' = [at EXCEPT ![c] = "done"] /\ \E w \in {"done", "failed"} : answer' = [answer EXCEPT ![c] = w]
    BY <2>2
  <2>3. CASE at' = [at EXCEPT ![c] = "read back"] /\ answer' = answer
    BY <2>1, <2>3 DEF Setting!SettingsAssumption
  <2>4. QED
    BY <1>5, <2>2, <2>3, SettingSeats
<1>6. ASSUME Setting!ReadBack(c) PROVE SettingPaper(c)'
  BY <1>6 DEF Setting!ReadBack, Setting!Answer, Setting!group, Setting!tables, Setting!history
<1>7. ASSUME Setting!FindRoom(c) PROVE SettingPaper(c)'
  BY <1>7 DEF Setting!FindRoom, Setting!Go, Setting!Answer, Setting!group, Setting!tables, Setting!history
<1>8. ASSUME Setting!WriteRoom(c) PROVE SettingPaper(c)'
  BY <1>8 DEF Setting!WriteRoom, Setting!Answer, Setting!group, Setting!tables, Setting!history
<1>9. ASSUME Setting!FindChallenge(c) PROVE SettingPaper(c)'
  BY <1>9 DEF Setting!FindChallenge, Setting!Go, Setting!Answer, Setting!group, Setting!tables, Setting!history
<1>10. ASSUME Setting!Create(c) PROVE SettingPaper(c)'
  BY <1>10 DEF Setting!Create, Setting!Answer, Setting!group, Setting!tables, Setting!history
<1>11. ASSUME Setting!FindProgress(c) PROVE SettingPaper(c)'
  BY <1>11 DEF Setting!FindProgress, Setting!Go, Setting!Answer, Setting!group, Setting!tables, Setting!history
<1>12. ASSUME Setting!Increment(c) PROVE SettingPaper(c)'
  BY <1>12 DEF Setting!Increment, Setting!Answer, Setting!group, Setting!tables, Setting!history
<1>13. ASSUME Setting!FindHashtag(c) PROVE SettingPaper(c)'
  BY <1>13 DEF Setting!FindHashtag, Setting!Go, Setting!group, Setting!tables, Setting!history
<1>14. ASSUME Setting!View(c) PROVE SettingPaper(c)'
  BY <1>14 DEF Setting!View, Setting!Go, Setting!group, Setting!tables, Setting!history
<1>15. ASSUME Setting!LookFollow(c) PROVE SettingPaper(c)'
  BY <1>15 DEF Setting!LookFollow, Setting!Answer, Setting!group, Setting!tables, Setting!history
<1>16. ASSUME Setting!Follow(c) PROVE SettingPaper(c)'
  BY <1>16 DEF Setting!Follow, Setting!Answer, Setting!group, Setting!tables, Setting!history
<1>17. ASSUME Setting!Unfollow(c) PROVE SettingPaper(c)'
  BY <1>17 DEF Setting!Unfollow, Setting!Answer, Setting!group, Setting!tables, Setting!history
<1>18. ASSUME \E kind \in Setting!Counts : Setting!Count(c, kind) PROVE SettingPaper(c)'
  <2>1. PICK kind \in Setting!Counts : Setting!Count(c, kind)
    BY <1>18
  <2>2. PICK v : /\ at[c] = "count" /\ ask' = ask /\ got' = [got EXCEPT ![c] = v]
                 /\ \/ at' = [at EXCEPT ![c] = "done"] /\ answer' = [answer EXCEPT ![c] = "done"]
                    \/ at' = [at EXCEPT ![c] = "count"] /\ answer' = answer
                 /\ UNCHANGED <<subject, role, active, sits, alive, moves, set, seat, challenge, views, follows, said, granted, mixed, crossed, wrote>>
    BY <2>1, SettingCounts
  <2>3. QED
    BY <2>2
<1>19. QED
  BY <1>1, <1>2, <1>3, <1>4, <1>5, <1>6, <1>7, <1>8, <1>9, <1>10, <1>11, <1>12, <1>13, <1>14, <1>15, <1>16, <1>17, <1>18 DEF SettingStep

(* No request brings a group back. *)
LEMMA SettingAliveKept ==
  ASSUME Setting!SettingsAssumption, NEW c \in Calls, SettingFits, SettingStep(c)
  PROVE  alive' = alive
<1> USE DEF SettingFits, SettingSlots
<1>1. ASSUME Setting!Start(c) PROVE alive' = alive
  <2>1. PICK r \in SettingRequests, l \in SettingLabels :
           /\ at[c] = "new" /\ ask' = [ask EXCEPT ![c] = r] /\ at' = [at EXCEPT ![c] = l] /\ SettingFor(l, r)
           /\ l \notin {"new", "done", "write card", "write seat", "read back", "write room", "create", "increment", "view", "look"}
           /\ UNCHANGED <<subject, role, active, sits, alive, moves, set, seat, challenge, views, follows, got, answer, said, granted, crossed, wrote>>
    BY <1>1, SettingBegins
  <2>9. QED
    BY <2>1
<1>2. ASSUME Setting!Check(c) PROVE alive' = alive
  BY <1>2 DEF Setting!Check, Setting!Go, Setting!Answer, Setting!group, Setting!tables, Setting!history
<1>3. ASSUME Setting!WriteCard(c) PROVE alive' = alive
  BY <1>3, SettingCardMoves
<1>4. ASSUME Setting!FindSeat(c) PROVE alive' = alive
  BY <1>4 DEF Setting!FindSeat, Setting!Go, Setting!Answer, Setting!group, Setting!tables, Setting!history
<1>5. ASSUME Setting!WriteSeat(c) PROVE alive' = alive
  BY <1>5, SettingSeatMoves
<1>6. ASSUME Setting!ReadBack(c) PROVE alive' = alive
  BY <1>6 DEF Setting!ReadBack, Setting!Answer, Setting!group, Setting!tables, Setting!history
<1>7. ASSUME Setting!FindRoom(c) PROVE alive' = alive
  BY <1>7 DEF Setting!FindRoom, Setting!Go, Setting!Answer, Setting!group, Setting!tables, Setting!history
<1>8. ASSUME Setting!WriteRoom(c) PROVE alive' = alive
  BY <1>8 DEF Setting!WriteRoom, Setting!Answer, Setting!group, Setting!tables, Setting!history
<1>9. ASSUME Setting!FindChallenge(c) PROVE alive' = alive
  BY <1>9 DEF Setting!FindChallenge, Setting!Go, Setting!Answer, Setting!group, Setting!tables, Setting!history
<1>10. ASSUME Setting!Create(c) PROVE alive' = alive
  BY <1>10 DEF Setting!Create, Setting!Answer, Setting!group, Setting!tables, Setting!history
<1>11. ASSUME Setting!FindProgress(c) PROVE alive' = alive
  BY <1>11 DEF Setting!FindProgress, Setting!Go, Setting!Answer, Setting!group, Setting!tables, Setting!history
<1>12. ASSUME Setting!Increment(c) PROVE alive' = alive
  BY <1>12 DEF Setting!Increment, Setting!Answer, Setting!group, Setting!tables, Setting!history
<1>13. ASSUME Setting!FindHashtag(c) PROVE alive' = alive
  BY <1>13 DEF Setting!FindHashtag, Setting!Go, Setting!group, Setting!tables, Setting!history
<1>14. ASSUME Setting!View(c) PROVE alive' = alive
  BY <1>14 DEF Setting!View, Setting!Go, Setting!group, Setting!tables, Setting!history
<1>15. ASSUME Setting!LookFollow(c) PROVE alive' = alive
  BY <1>15 DEF Setting!LookFollow, Setting!Answer, Setting!group, Setting!tables, Setting!history
<1>16. ASSUME Setting!Follow(c) PROVE alive' = alive
  BY <1>16 DEF Setting!Follow, Setting!Answer, Setting!group, Setting!tables, Setting!history
<1>17. ASSUME Setting!Unfollow(c) PROVE alive' = alive
  BY <1>17 DEF Setting!Unfollow, Setting!Answer, Setting!group, Setting!tables, Setting!history
<1>18. ASSUME \E kind \in Setting!Counts : Setting!Count(c, kind) PROVE alive' = alive
  <2>1. PICK kind \in Setting!Counts : Setting!Count(c, kind)
    BY <1>18
  <2>2. PICK v : /\ at[c] = "count" /\ ask' = ask /\ got' = [got EXCEPT ![c] = v]
                 /\ \/ at' = [at EXCEPT ![c] = "done"] /\ answer' = [answer EXCEPT ![c] = "done"]
                    \/ at' = [at EXCEPT ![c] = "count"] /\ answer' = answer
                 /\ UNCHANGED <<subject, role, active, sits, alive, moves, set, seat, challenge, views, follows, said, granted, mixed, crossed, wrote>>
    BY <2>1, SettingCounts
  <2>3. QED
    BY <2>2
<1>19. QED
  BY <1>1, <1>2, <1>3, <1>4, <1>5, <1>6, <1>7, <1>8, <1>9, <1>10, <1>11, <1>12, <1>13, <1>14, <1>15, <1>16, <1>17, <1>18 DEF SettingStep

SettingSound == SettingInv /\ \A c \in Calls : SettingPaper(c)

(* The invariant of settings, kept by each statement of each request. *)
LEMMA SettingStepSound ==
  ASSUME Setting!SettingsAssumption, NEW c \in Calls, SettingSound, SettingStep(c)
  PROVE  SettingSound'
<1>1. SettingInv /\ SettingFits /\ SettingPaper(c)
  BY DEF SettingSound, SettingInv, SettingKeeps
<1>2. SettingInv' /\ SettingPaper(c)' /\ alive' = alive
  BY <1>1, SettingStepKept, SettingPaperKept, SettingAliveKept
<1>3. ASSUME NEW d \in Calls \ {c} PROVE SettingPaper(d)'
  <2>1. at'[d] = at[d] /\ ask'[d] = ask[d] /\ answer'[d] = answer[d] /\ wrote'[d] = wrote[d]
    BY <1>1, SettingOthers
  <2>2. SettingPaper(d)
    BY DEF SettingSound
  <2>3. QED
    BY <1>2, <2>1, <2>2 DEF SettingPaper, SettingCarded
<1>4. QED
  BY <1>2, <1>3 DEF SettingSound

(* And by the changes of the members. *)
LEMMA SettingMoveSound ==
  ASSUME Setting!SettingsAssumption, SettingSound, Setting!Move
  PROVE  SettingSound'
<1>1. /\ UNCHANGED <<set, ask, at, got, answer, said, mixed, wrote>>
      /\ (alive' = alive \/ alive' = FALSE)
  BY SettingMoves
<1>2. SettingKeeps'
  BY SettingMoveKeeps DEF SettingSound, SettingInv
<1>3. SettingAlone' /\ (\A c \in Calls : SettingRead(c)') /\ Setting!SettingsHold' /\ mixed' \in BOOLEAN
  BY <1>1 DEF SettingSound, SettingInv, SettingAlone, SettingMerging, Setting!Active, SettingRead, Setting!SettingsHold
<1>4. \A c \in Calls : SettingPaper(c)'
  BY <1>1 DEF SettingSound, SettingPaper, SettingCarded
<1>5. QED
  BY <1>2, <1>3, <1>4 DEF SettingSound, SettingInv

(* It holds before any request. *)
LEMMA SettingInit ==
  ASSUME Setting!SettingsAssumption, Setting!Init
  PROVE  SettingSound
<1>1. SettingKeeps
  BY SettingStarts
<1>2. \A c \in Calls : at[c] = "new" /\ answer[c] = None /\ wrote[c] = {}
  BY DEF Setting!Init
<1>3. mixed \in BOOLEAN /\ set = said
  BY DEF Setting!Init
<1>4. SettingAlone /\ (\A c \in Calls : SettingRead(c)) /\ Setting!SettingsHold
  BY <1>2, <1>3 DEF SettingAlone, SettingMerging, Setting!Active, SettingRead, Setting!SettingsHold
<1>5. \A c \in Calls : SettingPaper(c)
  BY <1>2 DEF SettingPaper, Setting!SettingsAssumption
<1>6. QED
  BY <1>1, <1>3, <1>4, <1>5 DEF SettingSound, SettingInv

(* Every step of settings keeps it. *)
LEMMA SettingKept ==
  ASSUME Setting!SettingsAssumption, SettingSound, Setting!Next
  PROVE  SettingSound'
BY SettingNexts, SettingStepSound, SettingMoveSound

(* From it follow the points, the fields and the refusals. *)
LEMMA SettingHolds ==
  ASSUME SettingSound
  PROVE  Setting!PointsKept /\ Setting!SettingsHold /\ Setting!RefusedWroteNothing
<1>1. Setting!PointsKept
  BY DEF SettingSound, SettingInv, SettingKeeps, SettingFits, SettingPoints, Setting!PointsKept
<1>2. Setting!RefusedWroteNothing
  BY DEF SettingSound, SettingPaper, SettingCarded, Setting!RefusedWroteNothing
<1>3. QED
  BY <1>1, <1>2 DEF SettingSound, SettingInv

-----------------------------------------------------------------------------
(* What a summary has counted, and what those who saw a hashtag were told of it. *)
SettingCounting(c) ==
  /\ at[c] = "new" => DOMAIN got[c] = {}
  /\ at[c] = "count" /\ ~crossed[c] => \A k \in DOMAIN got[c] : got[c][k] = Setting!Cardinality(Setting!Of(k))
SettingSummed(c) ==
  at[c] = "done" /\ ~crossed[c] /\ ask[c].op = "get summary" =>
    got[c]["total"] = got[c]["owner"] + got[c]["admin"] + got[c]["member"]
SettingSeen(c) == at[c] \in {"look", "done"} /\ ask[c].op = "get hashtag" /\ ~crossed[c]
SettingViewed(c) ==
  /\ at[c] = "view" /\ ~crossed[c] => got[c].views = views + 1
  /\ SettingSeen(c) => got[c].views \in Nat /\ got[c].views <= views
SettingApart == \A c, d \in Calls : c # d /\ SettingSeen(c) /\ SettingSeen(d) => got[c].views # got[d].views
SettingTold == (\A c \in Calls : SettingCounting(c) /\ SettingSummed(c) /\ SettingViewed(c)) /\ SettingApart

(* The members of each role are all the members. *)
LEMMA SettingSum ==
  ASSUME Setting!SettingsAssumption, SettingTables
  PROVE  Setting!Cardinality(Setting!Of("total")) =
           Setting!Cardinality(Setting!Of("owner")) + Setting!Cardinality(Setting!Of("admin")) + Setting!Cardinality(Setting!Of("member"))
<1> DEFINE O == Setting!Of("owner")
           A == Setting!Of("admin")
           M == Setting!Of("member")
<1>1. Setting!Of("total") = active
  BY DEF Setting!Of
<1>2. O = {u \in active : role[u] = "owner"} /\ A = {u \in active : role[u] = "admin"} /\ M = {u \in active : role[u] = "member"}
  BY DEF Setting!Of
<1>3. \A u \in active : role[u] \in {"owner", "admin", "member"}
  BY DEF SettingTables, Setting!Roles
<1>4. active = (O \cup A) \cup M /\ O \cap A = {} /\ (O \cup A) \cap M = {}
  BY <1>2, <1>3
<1>5. IsFiniteSet(Users) /\ active \subseteq Users
  <2>1. IsFiniteSet(Users)
    BY Zenon DEF Setting!SettingsAssumption, Setting!IsFiniteSet, IsFiniteSet
  <2>2. QED
    BY <2>1 DEF SettingTables
<1>6. IsFiniteSet(active)
  BY <1>5, FS_Subset
<1>7. IsFiniteSet(O) /\ IsFiniteSet(A) /\ IsFiniteSet(M)
  <2>1. O \subseteq active /\ A \subseteq active /\ M \subseteq active
    BY <1>2
  <2> HIDE DEF O, A, M
  <2>2. QED
    BY <1>6, <2>1, FS_Subset
<1> HIDE DEF O, A, M
<1>8. Cardinality(O) \in Nat /\ Cardinality(A) \in Nat /\ Cardinality(M) \in Nat
  BY <1>7, FS_CardinalityType
<1>9. Cardinality({}) = 0
  BY FS_EmptySet
<1>10. IsFiniteSet(O \cup A) /\ Cardinality(O \cup A) = Cardinality(O) + Cardinality(A) - Cardinality(O \cap A)
  BY <1>7, FS_Union
<1>11. Cardinality(O \cup A) = Cardinality(O) + Cardinality(A)
  <2>1. Cardinality(O \cap A) = 0
    BY <1>4, <1>9, Zenon
  <2>2. Cardinality(O \cup A) = Cardinality(O) + Cardinality(A) - 0
    BY <1>10, <2>1, Zenon
  <2>3. QED
    BY <1>8, <2>2
<1>12. Cardinality((O \cup A) \cup M) = Cardinality(O \cup A) + Cardinality(M) - Cardinality((O \cup A) \cap M)
  BY <1>7, <1>10, FS_Union
<1>13. Cardinality(active) = Cardinality(O) + Cardinality(A) + Cardinality(M)
  <2>1. Cardinality((O \cup A) \cap M) = 0
    BY <1>4, <1>9, Zenon
  <2>2. Cardinality(active) = (Cardinality(O) + Cardinality(A)) + Cardinality(M) - 0
    BY <1>4, <1>11, <1>12, <2>1, Zenon
  <2>3. QED
    BY <1>8, <2>2
<1>14. \A S : Setting!Cardinality(S) = Cardinality(S)
  BY Zenon DEF Setting!Cardinality, Cardinality
<1>15. QED
  BY <1>1, <1>13, <1>14 DEF O, A, M

(* Only who sees a hashtag changes its views; no request changes the members. *)
LEMMA SettingUnseen ==
  ASSUME NEW c \in Calls, SettingStep(c)
  PROVE  UNCHANGED <<role, active>> /\ (UNCHANGED <<views, crossed>> \/ Setting!FindHashtag(c) \/ Setting!View(c))
<1> USE DEF Setting!Go, Setting!Answer, Setting!group, Setting!tables, Setting!history
<1>1. ASSUME Setting!Start(c) PROVE UNCHANGED <<role, active, views, crossed>>
  BY <1>1 DEF Setting!Start
<1>2. ASSUME Setting!Check(c) PROVE UNCHANGED <<role, active, views, crossed>>
  BY <1>2 DEF Setting!Check
<1>3. ASSUME Setting!WriteCard(c) PROVE UNCHANGED <<role, active, views, crossed>>
  BY <1>3, SettingCardMoves
<1>4. ASSUME Setting!FindSeat(c) PROVE UNCHANGED <<role, active, views, crossed>>
  BY <1>4 DEF Setting!FindSeat
<1>5. ASSUME Setting!WriteSeat(c) PROVE UNCHANGED <<role, active, views, crossed>>
  BY <1>5, SettingSeatMoves
<1>6. ASSUME Setting!ReadBack(c) PROVE UNCHANGED <<role, active, views, crossed>>
  BY <1>6 DEF Setting!ReadBack
<1>7. ASSUME Setting!FindRoom(c) PROVE UNCHANGED <<role, active, views, crossed>>
  BY <1>7 DEF Setting!FindRoom
<1>8. ASSUME Setting!WriteRoom(c) PROVE UNCHANGED <<role, active, views, crossed>>
  BY <1>8 DEF Setting!WriteRoom
<1>9. ASSUME Setting!FindChallenge(c) PROVE UNCHANGED <<role, active, views, crossed>>
  BY <1>9 DEF Setting!FindChallenge
<1>10. ASSUME Setting!Create(c) PROVE UNCHANGED <<role, active, views, crossed>>
  BY <1>10 DEF Setting!Create
<1>11. ASSUME Setting!FindProgress(c) PROVE UNCHANGED <<role, active, views, crossed>>
  BY <1>11 DEF Setting!FindProgress
<1>12. ASSUME Setting!Increment(c) PROVE UNCHANGED <<role, active, views, crossed>>
  BY <1>12 DEF Setting!Increment
<1>13. ASSUME Setting!FindHashtag(c) PROVE UNCHANGED <<role, active>>
  BY <1>13 DEF Setting!FindHashtag
<1>14. ASSUME Setting!View(c) PROVE UNCHANGED <<role, active>>
  BY <1>14 DEF Setting!View
<1>15. ASSUME Setting!LookFollow(c) PROVE UNCHANGED <<role, active, views, crossed>>
  BY <1>15 DEF Setting!LookFollow
<1>16. ASSUME Setting!Follow(c) PROVE UNCHANGED <<role, active, views, crossed>>
  BY <1>16 DEF Setting!Follow
<1>17. ASSUME Setting!Unfollow(c) PROVE UNCHANGED <<role, active, views, crossed>>
  BY <1>17 DEF Setting!Unfollow
<1>18. ASSUME NEW kind \in Setting!Counts, Setting!Count(c, kind) PROVE UNCHANGED <<role, active, views, crossed>>
  BY <1>18, SettingCounts
<1>19. QED
  BY <1>1, <1>2, <1>3, <1>4, <1>5, <1>6, <1>7, <1>8, <1>9, <1>10, <1>11, <1>12, <1>13, <1>14, <1>15, <1>16, <1>17, <1>18 DEF SettingStep

(* What a request is left with, when it neither counts nor sees a hashtag. *)
SettingElse(c) ==
  /\ at'[c] \notin {"new", "count", "view", "look"}
  /\ at'[c] = "done" => ask'[c].op \notin {"get summary", "get hashtag"}

-----------------------------------------------------------------------------
(* What a request is left with, whatever it does. *)
LEMMA SettingElsewhere ==
  ASSUME Setting!SettingsAssumption, NEW c \in Calls, SettingFits, SettingStep(c)
  PROVE  \/ SettingElse(c)
         \/ Setting!Start(c) \/ Setting!FindHashtag(c) \/ Setting!View(c) \/ Setting!LookFollow(c)
         \/ \E kind \in Setting!Counts : Setting!Count(c, kind)
<1> USE DEF SettingFits, SettingSlots, SettingElse, Setting!Go, Setting!Answer
<1>0. at[c] # "new" => SettingFor(at[c], ask[c])
  BY DEF SettingAsked
<1>15. DOMAIN at = Calls
  OBVIOUS
<1>1. ASSUME Setting!Check(c) PROVE SettingElse(c)
  BY <1>0, <1>1 DEF Setting!Check, SettingFor
<1>2. ASSUME Setting!WriteCard(c) PROVE SettingElse(c)
  <2>1. at[c] = "write card" /\ ask' = ask /\ at'[c] \in {"done", "find seat", "read back"}
    <3>1. at[c] = "write card" /\ ask' = ask /\ \E l \in {"done", "find seat", "read back"} : at' = [at EXCEPT ![c] = l]
      BY <1>2, SettingCardMoves
    <3>2. QED
      BY <1>15, <3>1
  <2>2. QED
    BY <1>0, <2>1 DEF SettingFor
<1>3. ASSUME Setting!FindSeat(c) PROVE SettingElse(c)
  BY <1>0, <1>3 DEF Setting!FindSeat, SettingFor
<1>4. ASSUME Setting!WriteSeat(c) PROVE SettingElse(c)
  <2>1. at[c] = "write seat" /\ ask' = ask /\ at'[c] \in {"done", "read back"}
    <3>1. at[c] = "write seat" /\ ask' = ask /\ \E l \in {"done", "read back"} : at' = [at EXCEPT ![c] = l]
      BY <1>4, SettingSeatMoves
    <3>2. QED
      BY <1>15, <3>1
  <2>2. QED
    BY <1>0, <2>1 DEF SettingFor
<1>5. ASSUME Setting!ReadBack(c) PROVE SettingElse(c)
  BY <1>0, <1>5 DEF Setting!ReadBack, SettingFor
<1>6. ASSUME Setting!FindRoom(c) PROVE SettingElse(c)
  BY <1>0, <1>6 DEF Setting!FindRoom, SettingFor
<1>7. ASSUME Setting!WriteRoom(c) PROVE SettingElse(c)
  BY <1>0, <1>7 DEF Setting!WriteRoom, SettingFor
<1>8. ASSUME Setting!FindChallenge(c) PROVE SettingElse(c)
  BY <1>0, <1>8 DEF Setting!FindChallenge, SettingFor
<1>9. ASSUME Setting!Create(c) PROVE SettingElse(c)
  BY <1>0, <1>9 DEF Setting!Create, SettingFor
<1>10. ASSUME Setting!FindProgress(c) PROVE SettingElse(c)
  BY <1>0, <1>10 DEF Setting!FindProgress, SettingFor
<1>11. ASSUME Setting!Increment(c) PROVE SettingElse(c)
  BY <1>0, <1>11 DEF Setting!Increment, SettingFor
<1>12. ASSUME Setting!Follow(c) PROVE SettingElse(c)
  BY <1>0, <1>12 DEF Setting!Follow, SettingFor
<1>13. ASSUME Setting!Unfollow(c) PROVE SettingElse(c)
  BY <1>0, <1>13 DEF Setting!Unfollow, SettingFor
<1>14. QED
  BY <1>1, <1>2, <1>3, <1>4, <1>5, <1>6, <1>7, <1>8, <1>9, <1>10, <1>11, <1>12, <1>13 DEF SettingStep

(* What is told of a request that does not move holds as long as no member moves and *)
(* nobody counts a view, *)
LEMMA SettingOtherTold ==
  ASSUME NEW d, UNCHANGED <<role, active, views>>, UNCHANGED <<at[d], ask[d], got[d], crossed[d]>>,
         SettingCounting(d), SettingSummed(d), SettingViewed(d)
  PROVE  SettingCounting(d)' /\ SettingSummed(d)' /\ SettingViewed(d)' /\ (SettingSeen(d)' <=> SettingSeen(d))
<1>1. \A k : (Setting!Cardinality(Setting!Of(k)))' = Setting!Cardinality(Setting!Of(k))
  BY DEF Setting!Of, Setting!Cardinality
<1>2. SettingCounting(d)'
  BY <1>1 DEF SettingCounting
<1>3. SettingSummed(d)' /\ (SettingSeen(d)' <=> SettingSeen(d))
  BY DEF SettingSummed, SettingSeen
<1>4. SettingViewed(d)'
  BY <1>3 DEF SettingViewed
<1>5. QED
  BY <1>2, <1>3, <1>4

(* and if one counts a view, for those who have not read them yet or have counted theirs. *)
LEMMA SettingViewTold ==
  ASSUME NEW d \in Calls, views \in Nat, UNCHANGED <<role, active>>, views' = views + 1, UNCHANGED <<at[d], ask[d], got[d]>>,
         crossed'[d] = (crossed[d] \/ at[d] = "view"), SettingCounting(d), SettingSummed(d), SettingViewed(d)
  PROVE  SettingCounting(d)' /\ SettingSummed(d)' /\ SettingViewed(d)' /\ (SettingSeen(d)' => SettingSeen(d))
<1>1. \A k : (Setting!Cardinality(Setting!Of(k)))' = Setting!Cardinality(Setting!Of(k))
  BY DEF Setting!Of, Setting!Cardinality
<1>2. SettingCounting(d)'
  BY <1>1 DEF SettingCounting
<1>3. SettingSummed(d)' /\ (SettingSeen(d)' => SettingSeen(d))
  BY DEF SettingSummed, SettingSeen
<1>4. at'[d] = "view" => crossed'[d]
  OBVIOUS
<1>5. SettingSeen(d)' => got'[d].views \in Nat /\ got'[d].views <= views'
  <2>1. SettingSeen(d) => got[d].views \in Nat /\ got[d].views <= views
    BY DEF SettingViewed
  <2>2. got[d].views \in Nat /\ got[d].views <= views => got[d].views <= views + 1
    OBVIOUS
  <2>3. QED
    BY <1>3, <2>1, <2>2
<1>6. SettingViewed(d)'
  BY <1>4, <1>5 DEF SettingViewed
<1>7. QED
  BY <1>2, <1>3, <1>6

-----------------------------------------------------------------------------
(* The request that moves. *)
LEMMA SettingOwnTold ==
  ASSUME Setting!SettingsAssumption, NEW c \in Calls, SettingFits, SettingStep(c), ~Setting!View(c),
         SettingCounting(c), SettingSummed(c), SettingViewed(c)
  PROVE  /\ SettingCounting(c)' /\ SettingSummed(c)' /\ SettingViewed(c)'
         /\ SettingSeen(c)' => SettingSeen(c) /\ got'[c].views = got[c].views
<1>0. /\ DOMAIN at = Calls /\ DOMAIN ask = Calls /\ DOMAIN got = Calls /\ DOMAIN crossed = Calls
      /\ (at[c] # "new" => SettingFor(at[c], ask[c])) /\ views \in Nat /\ SettingTables
  BY DEF SettingFits, SettingSlots, SettingAsked, SettingTables
<1>1. CASE SettingElse(c)
  BY <1>1 DEF SettingElse, SettingCounting, SettingSummed, SettingViewed, SettingSeen
<1>2. CASE Setting!Start(c)
  <2>1. PICK r \in SettingRequests, l \in SettingLabels :
           /\ at[c] = "new" /\ ask' = [ask EXCEPT ![c] = r] /\ at' = [at EXCEPT ![c] = l] /\ SettingFor(l, r)
           /\ l \notin {"new", "done", "write card", "write seat", "read back", "write room", "create", "increment", "view", "look"}
           /\ UNCHANGED <<subject, role, active, sits, alive, moves, set, seat, challenge, views, follows, got, answer, said, granted, crossed, wrote>>
    BY <1>2, SettingBegins
  <2>2. at'[c] \notin {"new", "done", "view", "look"} /\ got' = got /\ DOMAIN got[c] = {}
    BY <1>0, <2>1 DEF SettingCounting
  <2>3. QED
    BY <2>2 DEF SettingCounting, SettingSummed, SettingViewed, SettingSeen
<1>3. CASE Setting!FindHashtag(c)
  <2>1. /\ at'[c] = "view" /\ got'[c] = [views |-> views + 1] /\ views' = views
    BY <1>0, <1>3 DEF Setting!FindHashtag, Setting!Go, Setting!group, Setting!tables
  <2>2. got'[c].views = views' + 1
    BY <2>1
  <2>3. QED
    BY <2>1, <2>2 DEF SettingCounting, SettingSummed, SettingViewed, SettingSeen
<1>4. CASE Setting!LookFollow(c)
  <2>1. /\ at[c] = "look" /\ at'[c] = "done" /\ got'[c] = [views |-> got[c].views, is_following |-> ask[c].by \in follows]
        /\ UNCHANGED <<views, crossed, ask>>
    BY <1>0, <1>4 DEF Setting!LookFollow, Setting!Answer, Setting!group, Setting!tables, Setting!history
  <2>2. got'[c].views = got[c].views /\ ask[c].op = "get hashtag"
    <3>1. \E y : got'[c] = [views |-> got[c].views, is_following |-> y]
      BY <2>1, Zenon
    <3>2. got'[c].views = got[c].views
      BY <3>1
    <3>3. ask[c].op = "get hashtag"
      BY <1>0, <2>1 DEF SettingFor
    <3>4. QED
      BY <3>2, <3>3
  <2>3. QED
    BY <2>1, <2>2 DEF SettingCounting, SettingSummed, SettingViewed, SettingSeen
<1>5. CASE \E kind \in Setting!Counts : Setting!Count(c, kind)
  <2>1. PICK kind \in Setting!Counts : Setting!Count(c, kind)
    BY <1>5
  <2>2. PICK v : /\ at[c] = "count" /\ ask' = ask /\ got' = [got EXCEPT ![c] = v]
                 /\ v = [k \in DOMAIN got[c] \cup {kind} |-> IF k = kind THEN Setting!Cardinality(Setting!Of(k)) ELSE got[c][k]]
                 /\ \/ at' = [at EXCEPT ![c] = "done"] /\ answer' = [answer EXCEPT ![c] = "done"] /\ DOMAIN v = Setting!Counts
                    \/ at' = [at EXCEPT ![c] = "count"] /\ answer' = answer
                 /\ UNCHANGED <<subject, role, active, sits, alive, moves, set, seat, challenge, views, follows, said, granted, mixed, crossed, wrote>>
    BY <2>1, SettingCounts
  <2>3. ~crossed[c] => \A k \in DOMAIN v : v[k] = Setting!Cardinality(Setting!Of(k))
    BY <2>2 DEF SettingCounting
  <2>4. \A k : (Setting!Cardinality(Setting!Of(k)))' = Setting!Cardinality(Setting!Of(k))
    BY <2>2 DEF Setting!Of, Setting!Cardinality
  <2>5. got'[c] = v /\ ask[c].op = "get summary" /\ at'[c] \in {"done", "count"} /\ (at'[c] = "done" => DOMAIN v = Setting!Counts)
    BY <1>0, <2>2 DEF SettingFor
  <2>6. SettingCounting(c)'
    BY <2>2, <2>3, <2>4, <2>5 DEF SettingCounting
  <2>7. SettingSummed(c)'
    <3>1. ~crossed[c] /\ DOMAIN v = Setting!Counts => v["total"] = v["owner"] + v["admin"] + v["member"]
      <4>1. Setting!Counts = {"owner", "admin", "member", "total"}
        BY DEF Setting!Counts, Setting!Roles
      <4>2. QED
        BY <1>0, <2>3, <4>1, SettingSum
    <3>2. QED
      BY <2>2, <2>5, <3>1 DEF SettingSummed
  <2>8. QED
    BY <2>2, <2>5, <2>6, <2>7 DEF SettingViewed, SettingSeen
<1>6. QED
  BY <1>1, <1>2, <1>3, <1>4, <1>5, SettingElsewhere

(* A view is counted: who counts it was told the next number. *)
LEMMA SettingCounted ==
  ASSUME NEW c \in Calls, SettingFits, SettingTold, Setting!View(c)
  PROVE  SettingTold'
<1>0. /\ DOMAIN at = Calls /\ DOMAIN crossed = Calls /\ views \in Nat /\ (at[c] # "new" => SettingFor(at[c], ask[c]))
  BY DEF SettingFits, SettingSlots, SettingAsked, SettingTables
<1>1. /\ at[c] = "view" /\ at' = [at EXCEPT ![c] = "look"] /\ views' = views + 1
      /\ crossed' = [d \in Calls |-> crossed[d] \/ (d # c /\ at[d] = "view")] /\ UNCHANGED <<role, active, ask, got>>
  BY DEF Setting!View, Setting!Go, Setting!group
<1>2. ASSUME NEW d \in Calls, d # c
      PROVE  SettingCounting(d)' /\ SettingSummed(d)' /\ SettingViewed(d)' /\ (SettingSeen(d)' => SettingSeen(d))
  <2>1. UNCHANGED <<at[d], ask[d], got[d]>> /\ crossed'[d] = (crossed[d] \/ at[d] = "view")
    BY <1>0, <1>1, <1>2
  <2>2. QED
    BY <1>0, <1>1, <2>1, SettingViewTold DEF SettingTold
<1>3. /\ SettingCounting(c)' /\ SettingSummed(c)' /\ SettingViewed(c)'
      /\ SettingSeen(c)' => got'[c].views = views + 1
  <2>1. at'[c] = "look" /\ crossed'[c] = crossed[c] /\ got'[c] = got[c]
    <3>1. crossed \in [Calls -> BOOLEAN]
      BY DEF SettingFits, SettingSlots
    <3>2. at'[c] = "look" /\ got'[c] = got[c]
      BY <1>0, <1>1
    <3>3. crossed'[c] = (crossed[c] \/ (c # c /\ at[c] = "view"))
      BY <1>1, Zenon
    <3>4. crossed'[c] = crossed[c]
      BY <3>1, <3>3
    <3>5. QED
      BY <3>2, <3>4
  <2>2. ~crossed[c] => got[c].views = views + 1
    BY <1>1 DEF SettingTold, SettingViewed
  <2>3. SettingSeen(c)' => got'[c].views = views + 1
    BY <2>1, <2>2 DEF SettingSeen
  <2>4. SettingCounting(c)' /\ SettingSummed(c)'
    BY <2>1 DEF SettingCounting, SettingSummed
  <2>5. SettingViewed(c)'
    <3>1. views + 1 \in Nat /\ views + 1 <= views'
      BY <1>0, <1>1
    <3>2. QED
      BY <2>1, <2>3, <3>1 DEF SettingViewed
  <2>6. QED
    BY <2>3, <2>4, <2>5
<1>4. SettingApart'
  <2>1. ASSUME NEW d \in Calls, d # c, SettingSeen(c)', SettingSeen(d)' PROVE got'[c].views # got'[d].views
    <3>1. got[d].views \in Nat /\ got[d].views <= views
      BY <1>2, <2>1 DEF SettingTold, SettingViewed
    <3>2. got'[c].views = views + 1 /\ got'[d].views = got[d].views
      BY <1>1, <1>3, <2>1
    <3>3. QED
      BY <1>0, <3>1, <3>2
  <2>2. ASSUME NEW d \in Calls, NEW e \in Calls, d # c, e # c, d # e, SettingSeen(d)', SettingSeen(e)' PROVE got'[d].views # got'[e].views
    BY <1>1, <1>2, <2>2 DEF SettingTold, SettingApart
  <2>3. QED
    BY <2>1, <2>2 DEF SettingApart
<1>5. QED
  BY <1>2, <1>3, <1>4 DEF SettingTold

(* Every step of a request tells right, *)
LEMMA SettingStepTells ==
  ASSUME Setting!SettingsAssumption, NEW c \in Calls, SettingFits, SettingTold, SettingStep(c)
  PROVE  SettingTold'
<1>1. CASE Setting!View(c)
  BY <1>1, SettingCounted
<1>2. CASE ~Setting!View(c)
  <2>1. UNCHANGED <<role, active, views>> /\ \A d \in Calls : d # c => crossed'[d] = crossed[d]
    <3>1. CASE UNCHANGED <<views, crossed>>
      BY <3>1, SettingUnseen
    <3>2. CASE Setting!FindHashtag(c)
      BY <3>2 DEF Setting!FindHashtag, Setting!group, Setting!tables, SettingFits, SettingSlots
    <3>3. QED
      BY <1>2, <3>1, <3>2, SettingUnseen
  <2>2. \A d \in Calls \ {c} : at'[d] = at[d] /\ ask'[d] = ask[d] /\ answer'[d] = answer[d] /\ got'[d] = got[d] /\ wrote'[d] = wrote[d]
    BY SettingOthers
  <2>3. ASSUME NEW d \in Calls
        PROVE  /\ SettingCounting(d)' /\ SettingSummed(d)' /\ SettingViewed(d)'
               /\ SettingSeen(d)' => SettingSeen(d) /\ got'[d].views = got[d].views
    <3>1. CASE d = c
      BY <1>2, <3>1, SettingOwnTold DEF SettingTold
    <3>2. CASE d # c
      <4>1. UNCHANGED <<at[d], ask[d], got[d], crossed[d]>>
        BY <2>1, <2>2, <3>2
      <4>2. QED
        BY <2>1, <4>1, SettingOtherTold DEF SettingTold
    <3>3. QED
      BY <3>1, <3>2
  <2>4. SettingApart'
    BY <2>3 DEF SettingTold, SettingApart
  <2>5. QED
    BY <2>3, <2>4 DEF SettingTold
<1>3. QED
  BY <1>1, <1>2

(* and so does a change of the members, *)
LEMMA SettingMoveTells ==
  ASSUME SettingFits, SettingTold, Setting!Move
  PROVE  SettingTold'
<1>1. UNCHANGED <<ask, at, got, views>> /\ \A c \in Calls : crossed'[c] = (crossed[c] \/ at[c] = "count")
  BY SettingMoves
<1>2. ASSUME NEW c \in Calls
      PROVE  SettingCounting(c)' /\ SettingSummed(c)' /\ SettingViewed(c)' /\ (SettingSeen(c)' <=> SettingSeen(c))
  <2>1. SettingCounting(c) /\ SettingSummed(c) /\ SettingViewed(c)
    BY DEF SettingTold
  <2>2. crossed'[c] = (crossed[c] \/ at[c] = "count")
    BY <1>1
  <2>3. SettingCounting(c)' /\ SettingSummed(c)' /\ (SettingSeen(c)' <=> SettingSeen(c))
    BY <1>1, <2>1, <2>2 DEF SettingCounting, SettingSummed, SettingSeen
  <2>4. SettingViewed(c)'
    BY <1>1, <2>1, <2>2, <2>3 DEF SettingViewed
  <2>5. QED
    BY <2>3, <2>4
<1>3. SettingApart'
  BY <1>1, <1>2 DEF SettingTold, SettingApart
<1>4. QED
  BY <1>2, <1>3 DEF SettingTold

(* and so does the beginning. *)
LEMMA SettingTellsFirst ==
  ASSUME Setting!Init
  PROVE  SettingTold
<1>1. \A c \in Calls : at[c] = "new" /\ got[c] = <<>>
  BY DEF Setting!Init
<1>2. DOMAIN <<>> = {}
  OBVIOUS
<1>3. QED
  BY <1>1, <1>2 DEF SettingTold, SettingCounting, SettingSummed, SettingViewed, SettingSeen, SettingApart

(* Every step of settings tells right. *)
LEMMA SettingTells ==
  ASSUME Setting!SettingsAssumption, SettingSound, SettingTold, Setting!Next
  PROVE  SettingTold'
<1>1. SettingFits
  BY DEF SettingSound, SettingInv, SettingKeeps
<1>2. QED
  BY <1>1, SettingNexts, SettingStepTells, SettingMoveTells

(* From it follow the sums and the views. *)
LEMMA SettingTellsRight ==
  ASSUME SettingTold
  PROVE  Setting!CountsAdd /\ Setting!ViewsDiffer
<1>1. Setting!CountsAdd
  BY DEF SettingTold, SettingSummed, Setting!CountsAdd
<1>2. Setting!ViewsDiffer
  BY DEF SettingTold, SettingApart, SettingSeen, Setting!ViewsDiffer
<1>3. QED
  BY <1>1, <1>2

-----------------------------------------------------------------------------
(* The answers kept whole.  The calls and what is kept; a clean call has read what the
   tables say, and nobody has still to tell what he wrote. *)
ShownLabels == {"new", "route", "look", "read", "nest", "keep", "twice", "respond", "tell", "flush", "again", "set", "done"}
ShownSlots ==
  /\ pc \in [FewCalls -> ShownLabels] /\ part \in [FewCalls -> Shown!Parts] /\ got \in [FewCalls -> Shown!Entries]
  /\ clean \in [FewCalls -> BOOLEAN] /\ sure \subseteq {"entry", "front", Shown!Nested[1], Shown!Nested[2]}
ShownLayers ==
  /\ view \in Shown!Kinds /\ now \in [Shown!Parts -> Shown!Versions] /\ writes \in 0 .. MaxWrites
  /\ entry \in Shown!Entries \cup {None} /\ front \in Shown!Entries \cup {None} /\ inner \in Shown!Entries
  /\ \A p \in Shown!Parts : now[p] <= writes
ShownPlace(c) ==
  /\ pc[c] = "nest" => part[c] \in Shown!Needed \cap view.nested
  /\ pc[c] \in {"again", "set"} => view.through
  /\ pc[c] \in {"new", "route", "look"} => got[c] = Shown!Blank
ShownGot(c) == clean[c] =>
  /\ pc[c] \in {"read", "nest"} => \A p \in Shown!Needed : got[c][p] \in {None, now[p]}
  /\ pc[c] \in {"keep", "twice", "respond", "set"} => \A p \in Shown!Needed : got[c][p] = now[p]
  /\ pc[c] \in {"set", "done"} \/ ~Shown!Owing
ShownOwes == \E c \in FewCalls : pc[c] \in {"flush", "again", "set"} \/ (pc[c] = "tell" /\ part[c] \in view.told)
ShownTells(p) == \E c \in FewCalls : pc[c] = "tell" /\ part[c] = p
ShownTrue ==
  /\ "entry" \in sure /\ entry # None => ShownOwes \/ \A p \in Shown!Needed : entry[p] = now[p]
  /\ "front" \in sure /\ front # None => \A p \in Shown!Needed : front[p] = now[p]
  /\ \A p \in Shown!Parts : Shown!Nested[p] \in sure /\ inner[p] # None => ShownTells(p) \/ inner[p] = now[p]
  /\ \A p \in Shown!Parts \ view.nested : inner[p] = None
ShownInv == ShownSlots /\ ShownLayers /\ (\A c \in FewCalls : ShownPlace(c) /\ ShownGot(c)) /\ ShownTrue

(* What is kept of each view. *)
ShownSome == {{}, {1}, {2}, {1, 2}}
ShownForm ==
  [reads: {"one", "turns", "abreast"}, told: ShownSome, untold: ShownSome, nested: ShownSome, through: BOOLEAN, routed: BOOLEAN,
   joint: BOOLEAN, warmed: {"no", "also", "only"}]
ShownFits(v) ==
  v \in ShownForm /\ (v.through => v.reads = "one" /\ v.nested = {}) /\ (v.joint => v.nested = {})

(* A view as it is made. *)
LEMMA ShownMakes ==
  ASSUME NEW reads \in {"one", "turns", "abreast"}, NEW was \in ShownSome, NEW untold \in ShownSome
  PROVE  ShownFits(Shown!View(reads, was, untold))
<1>1. {} \in ShownSome
  BY DEF ShownSome
<1>2. Shown!View(reads, was, untold) \in ShownForm
  BY <1>1, Zenon DEF Shown!View, ShownForm
<1>3. QED
  BY <1>2 DEF ShownFits, Shown!View

(* The same, kept by its route or warmed. *)
LEMMA ShownTurns ==
  ASSUME NEW v, ShownFits(v)
  PROVE  /\ ShownFits(Shown!Routed(v))
         /\ \A by \in {"also", "only"} : ShownFits(Shown!Warmed(v, by))
BY DEF ShownFits, ShownForm, Shown!Routed, Shown!Warmed

(* Every view that is followed. *)
LEMMA ShownKind ==
  ASSUME NEW v \in Shown!Kinds
  PROVE  ShownFits(v)
<1>0. {} \in ShownSome /\ {1} \in ShownSome /\ {2} \in ShownSome /\ {1, 2} \in ShownSome
  BY DEF ShownSome
<1>1. ShownFits(Shown!GiftWall)
  BY <1>0, ShownMakes, ShownTurns DEF Shown!GiftWall
<1>2. ShownFits(Shown!GiftsCount)
  BY <1>0, ShownMakes DEF Shown!GiftsCount
<1>3. ShownFits(Shown!GiftsOverview)
  <2>1. ShownFits(Shown!View("abreast", {2}, {1}))
    BY <1>0, ShownMakes
  <2>2. Shown!View("abreast", {2}, {1}).reads = "abreast" /\ Shown!View("abreast", {2}, {1}).joint = FALSE /\ Shown!View("abreast", {2}, {1}).through = FALSE /\ Shown!View("abreast", {2}, {1}).nested = {}
    BY DEF Shown!View
  <2>3. QED
    BY <1>0, <2>1, <2>2 DEF Shown!GiftsOverview, ShownFits, ShownForm
<1>4. ShownFits(Shown!TopSupporters)
  BY <1>0, ShownMakes, ShownTurns DEF Shown!TopSupporters
<1>5. ShownFits(Shown!GiftItemsSample)
  BY <1>0, ShownMakes DEF Shown!GiftItemsSample
<1>6. ShownFits(Shown!UserBalance)
  BY <1>0, ShownMakes, ShownTurns DEF Shown!UserBalance
<1>7. ShownFits(Shown!Profile)
  BY <1>0, ShownMakes DEF Shown!Profile
<1>8. ShownFits(Shown!ProfileStats)
  BY <1>0, ShownMakes DEF Shown!ProfileStats
<1>9. ShownFits(Shown!UserDetail)
  BY <1>0, ShownMakes, ShownTurns DEF Shown!UserDetail
<1>10. ShownFits(Shown!UserInfo)
  <2>1. ShownFits(Shown!View("one", {1}, {1}))
    BY <1>0, ShownMakes
  <2>2. Shown!View("one", {1}, {1}).reads = "one" /\ Shown!View("one", {1}, {1}).joint = FALSE /\ Shown!View("one", {1}, {1}).through = FALSE /\ Shown!View("one", {1}, {1}).nested = {}
    BY DEF Shown!View
  <2>3. QED
    BY <1>0, <2>1, <2>2 DEF Shown!UserInfo, ShownFits, ShownForm
<1>11. ShownFits(Shown!ProfileViews)
  BY <1>0, ShownMakes DEF Shown!ProfileViews
<1>12. ShownFits(Shown!ConnectionStats)
  BY <1>0, ShownMakes, ShownTurns DEF Shown!ConnectionStats
<1>13. ShownFits(Shown!BlockLists)
  BY <1>0, ShownMakes DEF Shown!BlockLists
<1>14. ShownFits(Shown!TrendingHashtags)
  BY <1>0, ShownMakes DEF Shown!TrendingHashtags
<1>15. ShownFits(Shown!Categories)
  BY <1>0, ShownMakes DEF Shown!Categories
<1>16. ShownFits(Shown!LikeStats)
  <2>1. ShownFits(Shown!View("turns", {1}, {}))
    BY <1>0, ShownMakes
  <2>2. Shown!View("turns", {1}, {}).reads = "turns" /\ Shown!View("turns", {1}, {}).joint = FALSE /\ Shown!View("turns", {1}, {}).through = FALSE /\ Shown!View("turns", {1}, {}).nested = {}
    BY DEF Shown!View
  <2>3. QED
    BY <1>0, <2>1, <2>2 DEF Shown!LikeStats, ShownFits, ShownForm
<1>17. ShownFits(Shown!PostMedia)
  BY <1>0, ShownMakes DEF Shown!PostMedia
<1>18. ShownFits(Shown!TrendingPosts)
  BY <1>0, ShownMakes DEF Shown!TrendingPosts
<1>19. ShownFits(Shown!TrendingUsers)
  BY <1>0, ShownMakes DEF Shown!TrendingUsers
<1>20. ShownFits(Shown!RecommendedUsers)
  BY <1>0, ShownMakes DEF Shown!RecommendedUsers
<1>21. ShownFits(Shown!RecommendedPosts)
  BY <1>0, ShownMakes DEF Shown!RecommendedPosts
<1>22. ShownFits(Shown!PaymentMethods)
  BY <1>0, ShownMakes DEF Shown!PaymentMethods
<1>23. ShownFits(Shown!RechargePackages)
  BY <1>0, ShownMakes DEF Shown!RechargePackages
<1>24. ShownFits(Shown!UserInteractions)
  <2>1. Shown!Parts \in ShownSome
    BY DEF Shown!Parts, ShownSome
  <2>2. QED
    BY <1>0, <2>1, ShownMakes DEF Shown!UserInteractions
<1>25. ShownFits(Shown!WarmedUser)
  BY <1>0, ShownMakes, ShownTurns DEF Shown!WarmedUser
<1>26. ShownFits(Shown!WarmedUserStats)
  BY <1>0, ShownMakes, ShownTurns DEF Shown!WarmedUserStats
<1>27. ShownFits(Shown!WarmedPost)
  BY <1>0, ShownMakes, ShownTurns DEF Shown!WarmedPost
<1>28. ShownFits(Shown!WarmedPostStats)
  BY <1>0, ShownMakes, ShownTurns DEF Shown!WarmedPostStats
<1>29. ShownFits(Shown!WarmedFeed)
  BY <1>0, ShownMakes, ShownTurns DEF Shown!WarmedFeed
<1>30. ShownFits(Shown!WarmedSearch)
  BY <1>0, ShownMakes, ShownTurns DEF Shown!WarmedSearch
<1>31. QED
  BY <1>1, <1>2, <1>3, <1>4, <1>5, <1>6, <1>7, <1>8, <1>9, <1>10, <1>11, <1>12, <1>13, <1>14, <1>15, <1>16, <1>17, <1>18, <1>19, <1>20, <1>21, <1>22, <1>23, <1>24, <1>25, <1>26, <1>27, <1>28, <1>29, <1>30 DEF Shown!Kinds

(* The names of the entries. *)
LEMMA ShownNames ==
  /\ Shown!Nested[1] = "entry of 1" /\ Shown!Nested[2] = "entry of 2" /\ Shown!Parts = {1, 2}
  /\ \A p, q \in Shown!Parts : Shown!Nested[p] = Shown!Nested[q] => p = q
  /\ \A p \in Shown!Parts : Shown!Nested[p] \notin {"entry", "front"}
  /\ Shown!Needed \subseteq Shown!Parts
BY DEF Shown!Nested, Shown!Parts, Shown!Needed

(* Nothing read is no version. *)
LEMMA ShownNothing ==
  ASSUME Shown!ViewsAssumption, ShownLayers
  PROVE  /\ \A p \in Shown!Parts : now[p] \in Nat /\ now[p] # None
         /\ Shown!Blank \in Shown!Entries /\ MaxWrites \in Nat
BY DEF Shown!ViewsAssumption, ShownLayers, Shown!Versions, Shown!Blank, Shown!Entries

-----------------------------------------------------------------------------
(* A call that only reads. *)
ShownReads(c) ==
  \/ Shown!Ask(c) \/ Shown!Warm(c) \/ Shown!Fail(c) \/ Shown!RouteHit(c) \/ Shown!RouteMiss(c) \/ Shown!Hit(c) \/ Shown!Miss(c)
  \/ Shown!Again(c) \/ Shown!Renew(c) \/ \E p \in Shown!Parts : Shown!Read(c, p) \/ Shown!ReadInner(c, p)
ShownOwed == {"tell", "flush", "again", "set"}
ShownOthers(c) == \A d \in FewCalls \ {c} : pc'[d] = pc[d] /\ part'[d] = part[d] /\ got'[d] = got[d] /\ (clean'[d] = clean[d] \/ clean'[d] = FALSE)

(* It leaves the tables and what is kept alone, and the other calls. *)
LEMMA ShownReading ==
  ASSUME Shown!ViewsAssumption, ShownInv, NEW c \in FewCalls, ShownReads(c)
  PROVE  /\ ShownSlots' /\ UNCHANGED <<view, now, entry, inner, front, writes, sure>> /\ ShownOthers(c)
         /\ (pc[c] = "again" /\ pc'[c] = "set") \/ (pc[c] \notin ShownOwed /\ pc'[c] \notin ShownOwed)
<1>0. ShownSlots /\ ShownLayers /\ MaxWrites \in Nat /\ Shown!Blank \in Shown!Entries /\ 1 \in Shown!Parts
  BY ShownNothing, ShownNames DEF ShownInv
<1> USE DEF ShownSlots, ShownOthers, ShownOwed
<1>1. CASE Shown!Ask(c)
  BY <1>0, <1>1 DEF Shown!Ask, Shown!Goto, Shown!layers, ShownLabels, Shown!Owing
<1>2. CASE Shown!Warm(c)
  BY <1>0, <1>2 DEF Shown!Warm, Shown!Goto, Shown!layers, ShownLabels, Shown!Owing
<1>3. CASE Shown!Fail(c)
  BY <1>0, <1>3 DEF Shown!Fail, Shown!Goto, Shown!layers, ShownLabels
<1>4. CASE Shown!RouteHit(c)
  BY <1>0, <1>4 DEF Shown!RouteHit, Shown!Goto, Shown!layers, ShownLabels
<1>5. CASE Shown!RouteMiss(c)
  BY <1>0, <1>5 DEF Shown!RouteMiss, Shown!Goto, Shown!layers, ShownLabels
<1>6. CASE Shown!Hit(c)
  <2>1. /\ pc[c] = "look" /\ got' = [got EXCEPT ![c] = entry] /\ UNCHANGED <<view, now, entry, inner, front, part, writes, sure>>
        /\ clean' = [clean EXCEPT ![c] = @ /\ "entry" \in sure]
        /\ \E l \in {"respond", "done"} : pc' = [pc EXCEPT ![c] = l]
    BY <1>6 DEF Shown!Hit, Shown!Answered, Shown!Goto, Shown!layers
  <2>2. entry \in Shown!Entries
    BY <1>0, <1>6 DEF Shown!Hit, ShownLayers
  <2>3. got' \in [FewCalls -> Shown!Entries] /\ clean' \in [FewCalls -> BOOLEAN] /\ pc' \in [FewCalls -> ShownLabels]
    BY <1>0, <2>1, <2>2 DEF ShownLabels
  <2>4. QED
    BY <1>0, <2>1, <2>3
<1>7. CASE Shown!Miss(c)
  BY <1>0, <1>7 DEF Shown!Miss, Shown!Goto, Shown!layers, ShownLabels
<1>8. CASE Shown!Renew(c)
  BY <1>0, <1>8 DEF Shown!Renew, Shown!Goto, Shown!layers, ShownLabels
<1>9. CASE Shown!Again(c)
  <2>1. [Shown!Blank EXCEPT ![1] = now[1]] \in Shown!Entries
    BY <1>0 DEF ShownLayers, Shown!Entries
  <2>2. QED
    BY <1>0, <1>9, <2>1 DEF Shown!Again, Shown!Goto, Shown!layers, ShownLabels
<1>10. ASSUME NEW p \in Shown!Parts, Shown!Read(c, p)
      PROVE  /\ ShownSlots' /\ UNCHANGED <<view, now, entry, inner, front, writes, sure>> /\ ShownOthers(c)
             /\ (pc[c] = "again" /\ pc'[c] = "set") \/ (pc[c] \notin ShownOwed /\ pc'[c] \notin ShownOwed)
  <2>1. /\ pc[c] = "read" /\ got' = [got EXCEPT ![c][p] = now[p]] /\ part' = [part EXCEPT ![c] = p]
        /\ UNCHANGED <<view, now, entry, inner, front, writes, clean, sure>>
        /\ \E l \in {"nest", "keep", "read"} : pc' = [pc EXCEPT ![c] = l]
    BY <1>10 DEF Shown!Read, Shown!Goto, Shown!layers
  <2>2. got' \in [FewCalls -> Shown!Entries]
    BY <1>0, <2>1 DEF ShownLayers, Shown!Entries
  <2>3. pc' \in [FewCalls -> ShownLabels] /\ part' \in [FewCalls -> Shown!Parts]
    BY <1>0, <2>1 DEF ShownLabels
  <2>4. QED
    BY <1>0, <2>1, <2>2, <2>3
<1>11. ASSUME NEW p \in Shown!Parts, Shown!ReadInner(c, p)
      PROVE  /\ ShownSlots' /\ UNCHANGED <<view, now, entry, inner, front, writes, sure>> /\ ShownOthers(c)
             /\ (pc[c] = "again" /\ pc'[c] = "set") \/ (pc[c] \notin ShownOwed /\ pc'[c] \notin ShownOwed)
  <2>1. /\ pc[c] = "read" /\ got' = [got EXCEPT ![c][p] = inner[p]] /\ clean' = [clean EXCEPT ![c] = @ /\ Shown!Nested[p] \in sure]
        /\ UNCHANGED <<view, now, entry, inner, front, part, writes, sure>>
        /\ \E l \in {"keep", "read"} : pc' = [pc EXCEPT ![c] = l]
    BY <1>11 DEF Shown!ReadInner, Shown!Goto, Shown!layers
  <2>2. got' \in [FewCalls -> Shown!Entries]
    BY <1>0, <2>1 DEF ShownLayers, Shown!Entries
  <2>3. pc' \in [FewCalls -> ShownLabels] /\ clean' \in [FewCalls -> BOOLEAN]
    BY <1>0, <2>1 DEF ShownLabels
  <2>4. QED
    BY <1>0, <2>1, <2>2, <2>3
<1>12. QED
  BY <1>1, <1>2, <1>3, <1>4, <1>5, <1>6, <1>7, <1>8, <1>9, <1>10, <1>11 DEF ShownReads

(* What is kept is as true as it was. *)
LEMMA ShownReadingTrue ==
  ASSUME Shown!ViewsAssumption, ShownInv, NEW c \in FewCalls, ShownReads(c)
  PROVE  /\ ShownLayers' /\ ShownTrue' /\ (Shown!Owing' <=> Shown!Owing)
         /\ \A d \in FewCalls \ {c} : ShownPlace(d)' /\ ShownGot(d)'
<1>0. /\ ShownSlots' /\ UNCHANGED <<view, now, entry, inner, front, writes, sure>> /\ ShownOthers(c)
      /\ (pc[c] = "again" /\ pc'[c] = "set") \/ (pc[c] \notin ShownOwed /\ pc'[c] \notin ShownOwed)
  BY ShownReading
<1>1. ShownLayers'
  BY <1>0 DEF ShownInv, ShownLayers
<1>2. Shown!Owing' <=> Shown!Owing
  BY <1>0 DEF Shown!Owing, ShownOthers, ShownOwed
<1>3. ShownOwes => ShownOwes'
  BY <1>0 DEF ShownOwes, ShownOthers, ShownOwed
<1>4. \A p \in Shown!Parts : ShownTells(p) => ShownTells(p)'
  BY <1>0 DEF ShownTells, ShownOthers, ShownOwed
<1>5. Shown!Needed' = Shown!Needed
  BY <1>0 DEF Shown!Needed
<1>6. ShownTrue'
  BY <1>0, <1>3, <1>4, <1>5 DEF ShownInv, ShownTrue
<1>7. ASSUME NEW d \in FewCalls \ {c} PROVE ShownPlace(d)' /\ ShownGot(d)'
  BY <1>0, <1>2, <1>5 DEF ShownInv, ShownPlace, ShownGot, ShownOthers, Shown!Blank
<1>8. QED
  BY <1>1, <1>2, <1>6, <1>7

-----------------------------------------------------------------------------
(* A call that has nothing more to read has read all of what it needs. *)
LEMMA ShownWhole ==
  ASSUME Shown!ViewsAssumption, ShownLayers, NEW g \in Shown!Entries, Shown!Have(g) = Shown!Needed,
         \A p \in Shown!Needed : g[p] \in {None, now[p]}
  PROVE  \A p \in Shown!Needed : g[p] = now[p]
BY DEF Shown!Have

(* A call that reads has read what the tables say, unless somebody wrote meanwhile. *)
LEMMA ShownReadingOwn ==
  ASSUME Shown!ViewsAssumption, ShownInv, NEW c \in FewCalls, ShownReads(c)
  PROVE  ShownPlace(c)' /\ ShownGot(c)'
<1>0. /\ ShownSlots /\ ShownLayers /\ ShownPlace(c) /\ ShownGot(c) /\ ShownTrue /\ ShownSlots' /\ UNCHANGED <<view, now, entry, inner, front, writes, sure>>
      /\ (Shown!Owing' <=> Shown!Owing) /\ Shown!Needed \subseteq Shown!Parts /\ ShownFits(view)
  BY ShownReading, ShownReadingTrue, ShownNames, ShownKind DEF ShownInv, ShownLayers
<1>1. Shown!Needed' = Shown!Needed /\ Shown!Blank' = Shown!Blank /\ \A p \in Shown!Parts : Shown!Blank[p] = None
  BY <1>0 DEF Shown!Needed, Shown!Blank
<1>2. ~Shown!Owing => ~ShownOwes /\ \A p \in Shown!Parts : ~ShownTells(p)
  BY DEF Shown!Owing, ShownOwes, ShownTells
<1>3. CASE Shown!Ask(c) \/ Shown!Warm(c)
  <2>1. /\ pc[c] = "new" /\ got' = got /\ clean'[c] = ~Shown!Owing /\ pc'[c] \in {"route", "look", "read"}
    BY <1>0, <1>3 DEF Shown!Ask, Shown!Warm, Shown!Goto, ShownSlots
  <2>2. got'[c] = Shown!Blank
    BY <1>0, <2>1 DEF ShownPlace
  <2>3. QED
    BY <1>0, <1>1, <2>1, <2>2 DEF ShownPlace, ShownGot
<1>4. CASE Shown!Fail(c) \/ Shown!RouteHit(c)
  <2>1. pc'[c] = "done"
    BY <1>0, <1>4 DEF Shown!Fail, Shown!RouteHit, Shown!Goto, ShownSlots
  <2>2. QED
    BY <2>1 DEF ShownPlace, ShownGot
<1>5. CASE Shown!RouteMiss(c) \/ Shown!Miss(c)
  <2>1. got' = got /\ clean' = clean /\ pc[c] \in {"route", "look"} /\ pc'[c] \in {"look", "read"}
    BY <1>0, <1>5 DEF Shown!RouteMiss, Shown!Miss, Shown!Goto, ShownSlots
  <2>2. got'[c] = Shown!Blank
    BY <1>0, <2>1 DEF ShownPlace
  <2>3. QED
    BY <1>0, <1>1, <2>1, <2>2 DEF ShownPlace, ShownGot
<1>6. CASE Shown!Hit(c)
  <2>1. pc[c] = "look" /\ entry # None /\ got'[c] = entry /\ clean'[c] = (clean[c] /\ "entry" \in sure) /\ pc'[c] \in {"respond", "done"}
    BY <1>0, <1>6 DEF Shown!Hit, Shown!Answered, Shown!Goto, ShownSlots
  <2>2. clean'[c] => ~Shown!Owing /\ \A p \in Shown!Needed : entry[p] = now[p]
    BY <1>0, <1>2, <2>1 DEF ShownGot, ShownTrue
  <2>3. QED
    BY <1>0, <1>1, <2>1, <2>2 DEF ShownPlace, ShownGot
<1>7. ASSUME NEW p \in Shown!Parts, Shown!Read(c, p) PROVE ShownPlace(c)' /\ ShownGot(c)'
  <2>1. /\ pc[c] = "read" /\ got' = [got EXCEPT ![c][p] = now[p]] /\ part'[c] = p /\ clean' = clean /\ p \in Shown!Needed
        /\ pc'[c] = IF p \in view.nested THEN "nest" ELSE IF Shown!Have(got'[c]) = Shown!Needed THEN "keep" ELSE "read"
    BY <1>0, <1>7 DEF Shown!Read, Shown!Turn, Shown!Goto, ShownSlots
  <2>2. got'[c][p] = now[p] /\ (\A q \in Shown!Parts : q # p => got'[c][q] = got[c][q]) /\ got'[c] \in Shown!Entries
    BY <1>0, <2>1 DEF ShownSlots, Shown!Entries
  <2>3. clean[c] => \A q \in Shown!Needed : got'[c][q] \in {None, now[q]}
    BY <1>0, <2>1, <2>2 DEF ShownGot
  <2>4. clean[c] /\ pc'[c] = "keep" => \A q \in Shown!Needed : got'[c][q] = now[q]
    BY <1>0, <2>1, <2>2, <2>3, ShownWhole
  <2>5. clean[c] => ~Shown!Owing
    BY <1>0, <2>1 DEF ShownGot
  <2>6. pc'[c] \in {"nest", "keep", "read"} /\ (pc'[c] = "nest" => p \in view.nested)
    BY <2>1
  <2>7. ShownPlace(c)'
    BY <1>0, <1>1, <2>1, <2>6 DEF ShownPlace
  <2>8. ShownGot(c)'
    BY <1>0, <1>1, <2>1, <2>3, <2>4, <2>5, <2>6 DEF ShownGot
  <2>9. QED
    BY <2>7, <2>8
<1>8. ASSUME NEW p \in Shown!Parts, Shown!ReadInner(c, p) PROVE ShownPlace(c)' /\ ShownGot(c)'
  <2>1. /\ pc[c] = "read" /\ got' = [got EXCEPT ![c][p] = inner[p]] /\ p \in Shown!Needed /\ inner[p] # None
        /\ clean'[c] = (clean[c] /\ Shown!Nested[p] \in sure)
        /\ pc'[c] = IF Shown!Have(got'[c]) = Shown!Needed THEN "keep" ELSE "read"
    BY <1>0, <1>8 DEF Shown!ReadInner, Shown!Turn, Shown!Goto, ShownSlots
  <2>2. got'[c][p] = inner[p] /\ (\A q \in Shown!Parts : q # p => got'[c][q] = got[c][q]) /\ got'[c] \in Shown!Entries
    BY <1>0, <2>1 DEF ShownSlots, ShownLayers, Shown!Entries
  <2>3. clean'[c] => clean[c] /\ ~Shown!Owing /\ inner[p] = now[p]
    BY <1>0, <1>2, <2>1 DEF ShownGot, ShownTrue
  <2>4. clean'[c] => \A q \in Shown!Needed : got'[c][q] \in {None, now[q]}
    BY <1>0, <2>1, <2>2, <2>3 DEF ShownGot
  <2>5. clean'[c] /\ pc'[c] = "keep" => \A q \in Shown!Needed : got'[c][q] = now[q]
    BY <1>0, <2>1, <2>2, <2>4, ShownWhole
  <2>6. pc'[c] \in {"keep", "read"}
    BY <2>1
  <2>7. ShownPlace(c)'
    BY <2>6 DEF ShownPlace
  <2>8. ShownGot(c)'
    BY <1>0, <1>1, <2>3, <2>4, <2>5, <2>6 DEF ShownGot
  <2>9. QED
    BY <2>7, <2>8
<1>9. CASE Shown!Again(c)
  <2>1. pc[c] = "again" /\ got'[c] = [Shown!Blank EXCEPT ![1] = now[1]] /\ pc'[c] = "set"
    BY <1>0, <1>9 DEF Shown!Again, Shown!Goto, ShownSlots
  <2>2. view.through
    BY <1>0, <2>1 DEF ShownPlace
  <2>3. Shown!Needed = {1}
    BY <1>0, <2>2 DEF ShownFits, Shown!Needed
  <2>4. got'[c][1] = now[1]
    BY <1>0, <2>1, ShownNames DEF Shown!Blank
  <2>5. QED
    BY <1>0, <1>1, <2>1, <2>2, <2>3, <2>4 DEF ShownPlace, ShownGot
<1>10. CASE Shown!Renew(c)
  <2>1. pc'[c] = "new" /\ got'[c] = Shown!Blank /\ clean'[c] = FALSE
    BY <1>0, <1>10 DEF Shown!Renew, Shown!Goto, ShownSlots
  <2>2. QED
    BY <1>1, <2>1 DEF ShownPlace, ShownGot
<1>11. QED
  BY <1>3, <1>4, <1>5, <1>6, <1>7, <1>8, <1>9, <1>10 DEF ShownReads

-----------------------------------------------------------------------------
(* A call that keeps what it has read. *)
ShownKeeps(c) == Shown!Nest(c) \/ Shown!Keep(c) \/ Shown!Respond(c) \/ Shown!Set(c)

(* It leaves the tables alone, and the other calls; what it keeps is sure if it is
   clean. *)
LEMMA ShownKeeping ==
  ASSUME Shown!ViewsAssumption, ShownInv, NEW c \in FewCalls, ShownKeeps(c)
  PROVE  /\ ShownSlots' /\ ShownLayers' /\ UNCHANGED <<view, now, part, got, writes, clean>>
         /\ (\A d \in FewCalls \ {c} : pc'[d] = pc[d]) /\ pc'[c] \notin ShownOwed
<1>0. ShownSlots /\ ShownLayers /\ ShownFits(view)
  BY ShownKind DEF ShownInv, ShownLayers
<1> USE DEF ShownOwed, ShownLabels
<1>1. CASE Shown!Nest(c)
  <2>1. /\ pc[c] = "nest" /\ inner' = [inner EXCEPT ![part[c]] = got[c][part[c]]]
        /\ \E l \in {"keep", "read"} : pc' = [pc EXCEPT ![c] = l]
        /\ UNCHANGED <<view, now, entry, front, part, got, writes, clean>>
    BY <1>1 DEF Shown!Nest, Shown!Goto
  <2>2. sure' = sure \cup {Shown!Nested[part[c]]} \/ sure' = sure \ {Shown!Nested[part[c]]}
    BY <1>1 DEF Shown!Nest, Shown!Trust
  <2>3. sure' \subseteq {"entry", "front", Shown!Nested[1], Shown!Nested[2]}
    <3>1. part[c] \in {1, 2}
      BY <1>0, ShownNames DEF ShownSlots
    <3>2. Shown!Nested[part[c]] = Shown!Nested[1] \/ Shown!Nested[part[c]] = Shown!Nested[2]
      BY <3>1
    <3>3. sure \subseteq {"entry", "front", Shown!Nested[1], Shown!Nested[2]}
      BY <1>0 DEF ShownSlots
    <3>4. QED
      BY <2>2, <3>2, <3>3, Zenon
  <2>4. inner' \in Shown!Entries
    BY <1>0, <2>1 DEF ShownSlots, ShownLayers, Shown!Entries
  <2>5. pc' \in [FewCalls -> ShownLabels] /\ (\A d \in FewCalls \ {c} : pc'[d] = pc[d]) /\ pc'[c] \notin ShownOwed
    BY <1>0, <2>1 DEF ShownSlots
  <2>6. QED
    BY <1>0, <2>1, <2>3, <2>4, <2>5 DEF ShownSlots, ShownLayers
<1>2. CASE Shown!Keep(c)
  <2>1. /\ entry' = got[c] /\ (sure' = sure \cup {"entry"} \/ sure' = sure \ {"entry"})
        /\ \E l \in {"twice", "respond", "done"} : pc' = [pc EXCEPT ![c] = l]
        /\ UNCHANGED <<view, now, inner, front, part, got, writes, clean>>
    BY <1>2 DEF Shown!Keep, Shown!Goto, Shown!Answered, Shown!Trust
  <2>2. pc' \in [FewCalls -> ShownLabels] /\ (\A d \in FewCalls \ {c} : pc'[d] = pc[d]) /\ pc'[c] \notin ShownOwed
    BY <1>0, <2>1 DEF ShownSlots
  <2>3. QED
    BY <1>0, <2>1, <2>2 DEF ShownSlots, ShownLayers
<1>3. CASE Shown!Respond(c)
  <2>1. /\ front' = got[c] /\ (sure' = sure \cup {"front"} \/ sure' = sure \ {"front"})
        /\ pc' = [pc EXCEPT ![c] = "done"]
        /\ UNCHANGED <<view, now, inner, entry, part, got, writes, clean>>
    BY <1>3 DEF Shown!Respond, Shown!Goto, Shown!Trust
  <2>2. QED
    BY <1>0, <2>1 DEF ShownSlots, ShownLayers
<1>4. CASE Shown!Set(c)
  <2>1. /\ entry' = got[c] /\ (sure' = sure \cup {"entry"} \/ sure' = sure \ {"entry"})
        /\ pc' = [pc EXCEPT ![c] = "done"]
        /\ UNCHANGED <<view, now, inner, front, part, got, writes, clean>>
    BY <1>4 DEF Shown!Set, Shown!Goto, Shown!Trust
  <2>2. QED
    BY <1>0, <2>1 DEF ShownSlots, ShownLayers
<1>5. QED
  BY <1>1, <1>2, <1>3, <1>4 DEF ShownKeeps

(* What it keeps is true. *)
LEMMA ShownKeepingTrue ==
  ASSUME Shown!ViewsAssumption, ShownInv, NEW c \in FewCalls, ShownKeeps(c)
  PROVE  ShownTrue'
<1>0. /\ ShownSlots /\ ShownLayers /\ ShownGot(c) /\ ShownPlace(c) /\ ShownTrue /\ UNCHANGED <<view, now, part, got, writes, clean>>
      /\ (\A d \in FewCalls \ {c} : pc'[d] = pc[d])
  BY ShownKeeping DEF ShownInv
<1>1. Shown!Needed' = Shown!Needed /\ (Shown!Trust(c, "entry") \/ Shown!Trust(c, "front") \/ Shown!Trust(c, Shown!Nested[part[c]]))
  BY <1>0 DEF Shown!Needed, ShownKeeps, Shown!Nest, Shown!Keep, Shown!Respond, Shown!Set
<1>2. pc[c] # "set" => (ShownOwes => ShownOwes')
  BY <1>0 DEF ShownOwes, ShownKeeps, Shown!Nest, Shown!Keep, Shown!Respond, Shown!Set
<1>3. \A p \in Shown!Parts : ShownTells(p) => ShownTells(p)'
  BY <1>0 DEF ShownTells, ShownKeeps, Shown!Nest, Shown!Keep, Shown!Respond, Shown!Set
<1>4. CASE Shown!Nest(c)
  <2>1. /\ pc[c] = "nest" /\ inner' = [inner EXCEPT ![part[c]] = got[c][part[c]]] /\ Shown!Trust(c, Shown!Nested[part[c]])
        /\ UNCHANGED <<entry, front>>
    BY <1>4 DEF Shown!Nest
  <2>2. part[c] \in Shown!Needed /\ part[c] \in view.nested /\ part[c] \in Shown!Parts
    BY <1>0, <2>1 DEF ShownPlace, ShownSlots
  <2>3. ("entry" \in sure' <=> "entry" \in sure) /\ ("front" \in sure' <=> "front" \in sure)
    BY <2>1, <2>2, ShownNames DEF Shown!Trust
  <2>4. \A p \in Shown!Parts : p # part[c] => (Shown!Nested[p] \in sure' <=> Shown!Nested[p] \in sure) /\ inner'[p] = inner[p]
    BY <1>0, <2>1, <2>2, ShownNames DEF Shown!Trust, ShownLayers, Shown!Entries
  <2>5. Shown!Nested[part[c]] \in sure' => inner'[part[c]] \in {None, now[part[c]]}
    <3>1. inner'[part[c]] = got[c][part[c]]
      BY <1>0, <2>1, <2>2 DEF ShownLayers, Shown!Entries
    <3>2. Shown!Nested[part[c]] \in sure' => clean[c]
      BY <2>1 DEF Shown!Trust
    <3>3. clean[c] => got[c][part[c]] \in {None, now[part[c]]}
      BY <1>0, <2>1, <2>2 DEF ShownGot
    <3>4. QED
      BY <3>1, <3>2, <3>3
  <2>6. ("entry" \in sure' /\ entry' # None => ShownOwes' \/ \A p \in Shown!Needed : entry'[p] = now'[p])
        /\ ("front" \in sure' /\ front' # None => \A p \in Shown!Needed : front'[p] = now'[p])
    BY <1>0, <1>2, <2>1, <2>3 DEF ShownTrue
  <2>7. ASSUME NEW p \in Shown!Parts, Shown!Nested[p] \in sure', inner'[p] # None PROVE ShownTells(p)' \/ inner'[p] = now'[p]
    BY <1>0, <1>3, <2>4, <2>5, <2>7 DEF ShownTrue
  <2>8. \A p \in Shown!Parts \ view'.nested : inner'[p] = None
    BY <1>0, <2>2, <2>4 DEF ShownTrue
  <2>9. QED
    BY <1>1, <2>6, <2>7, <2>8 DEF ShownTrue
<1>5. CASE Shown!Keep(c) \/ Shown!Set(c)
  <2>1. /\ pc[c] \in {"keep", "twice", "set"} /\ entry' = got[c] /\ Shown!Trust(c, "entry") /\ UNCHANGED <<inner, front>>
    BY <1>5 DEF Shown!Keep, Shown!Set
  <2>2. "entry" \in sure' => \A p \in Shown!Needed : entry'[p] = now[p]
    BY <1>0, <2>1 DEF Shown!Trust, ShownGot
  <2>3. ("front" \in sure' <=> "front" \in sure) /\ \A p \in Shown!Parts : (Shown!Nested[p] \in sure' <=> Shown!Nested[p] \in sure)
    BY <2>1, ShownNames DEF Shown!Trust
  <2>4. QED
    BY <1>0, <1>1, <1>3, <2>1, <2>2, <2>3 DEF ShownTrue
<1>6. CASE Shown!Respond(c)
  <2>1. /\ pc[c] = "respond" /\ front' = got[c] /\ Shown!Trust(c, "front") /\ UNCHANGED <<inner, entry>>
    BY <1>6 DEF Shown!Respond
  <2>2. "front" \in sure' => \A p \in Shown!Needed : front'[p] = now[p]
    BY <1>0, <2>1 DEF Shown!Trust, ShownGot
  <2>3. ("entry" \in sure' <=> "entry" \in sure) /\ \A p \in Shown!Parts : (Shown!Nested[p] \in sure' <=> Shown!Nested[p] \in sure)
    BY <2>1, ShownNames DEF Shown!Trust
  <2>4. QED
    BY <1>0, <1>1, <1>2, <1>3, <2>1, <2>2, <2>3 DEF ShownTrue
<1>7. QED
  BY <1>4, <1>5, <1>6 DEF ShownKeeps

(* The calls are as clean as they were. *)
LEMMA ShownKeepingRest ==
  ASSUME Shown!ViewsAssumption, ShownInv, NEW c \in FewCalls, ShownKeeps(c)
  PROVE  \A d \in FewCalls : ShownPlace(d)' /\ ShownGot(d)'
<1>0. /\ ShownSlots /\ ShownLayers /\ ShownGot(c) /\ ShownPlace(c) /\ UNCHANGED <<view, now, part, got, writes, clean>>
      /\ (\A d \in FewCalls \ {c} : pc'[d] = pc[d]) /\ pc'[c] \notin ShownOwed /\ Shown!Needed \subseteq Shown!Parts
  BY ShownKeeping, ShownNames DEF ShownInv
<1>1. Shown!Owing' => Shown!Owing
  BY <1>0 DEF Shown!Owing, ShownOwed
<1>2. Shown!Needed' = Shown!Needed /\ Shown!Blank' = Shown!Blank
  BY <1>0 DEF Shown!Needed, Shown!Blank
<1>3. ASSUME NEW d \in FewCalls \ {c} PROVE ShownPlace(d)' /\ ShownGot(d)'
  BY <1>0, <1>1, <1>2 DEF ShownInv, ShownPlace, ShownGot
<1>4. ShownPlace(c)' /\ ShownGot(c)'
  <2>1. CASE Shown!Nest(c)
    <3>1. pc[c] = "nest" /\ pc'[c] = IF Shown!Have(got[c]) = Shown!Needed THEN "keep" ELSE "read"
      BY <1>0, <2>1 DEF Shown!Nest, Shown!Goto, ShownSlots
    <3>2. clean[c] => ~Shown!Owing /\ \A p \in Shown!Needed : got[c][p] \in {None, now[p]}
      BY <1>0, <3>1 DEF ShownGot
    <3>3. clean[c] /\ pc'[c] = "keep" => \A p \in Shown!Needed : got[c][p] = now[p]
      BY <1>0, <3>1, <3>2, ShownWhole DEF ShownSlots
    <3>4. pc'[c] \in {"keep", "read"}
      BY <3>1
    <3>5. QED
      BY <1>0, <1>1, <1>2, <3>2, <3>3, <3>4 DEF ShownPlace, ShownGot
  <2>2. CASE Shown!Keep(c)
    <3>1. pc[c] \in {"keep", "twice"} /\ pc'[c] \in {"twice", "respond", "done"}
      BY <1>0, <2>2 DEF Shown!Keep, Shown!Goto, Shown!Answered, ShownSlots
    <3>2. QED
      BY <1>0, <1>1, <1>2, <3>1 DEF ShownPlace, ShownGot
  <2>3. CASE Shown!Respond(c) \/ Shown!Set(c)
    <3>1. pc'[c] = "done"
      BY <1>0, <2>3 DEF Shown!Respond, Shown!Set, Shown!Goto, ShownSlots
    <3>2. QED
      BY <3>1 DEF ShownPlace, ShownGot
  <2>4. QED
    BY <2>1, <2>2, <2>3 DEF ShownKeeps
<1>5. QED
  BY <1>3, <1>4

-----------------------------------------------------------------------------
(* A write that tells the entry has still to, and what it does not tell is sure no more. *)
LEMMA ShownWriting ==
  ASSUME Shown!ViewsAssumption, ShownInv, NEW c \in FewCalls, NEW p \in Shown!Parts, NEW tells \in BOOLEAN, Shown!Write(c, p, tells)
  PROVE  ShownInv'
<1>0. ShownSlots /\ ShownLayers /\ ShownTrue /\ ShownFits(view) /\ MaxWrites \in Nat
  BY ShownKind, ShownNothing DEF ShownInv, ShownLayers
<1>1. /\ pc[c] = "new" /\ writes < MaxWrites /\ writes' = writes + 1 /\ part' = [part EXCEPT ![c] = p]
      /\ now' = [q \in Shown!Parts |-> IF q = p \/ view.joint THEN now[q] + 1 ELSE now[q]]
      /\ clean' = [d \in FewCalls |-> FALSE] /\ UNCHANGED <<view, entry, inner, front, got>>
      /\ (tells => p \in view.told)
  BY DEF Shown!Write, Shown!layers
<1>2. sure' = sure \ ({"front"} \cup (IF tells THEN {} ELSE {"entry"}))
  BY DEF Shown!Write
<1>3. pc' = [pc EXCEPT ![c] = IF p \in view.nested THEN "tell" ELSE IF ~tells THEN "done" ELSE IF view.through THEN "again" ELSE "flush"]
  BY DEF Shown!Write, Shown!Goto
<1>4. /\ pc'[c] \in {"tell", "done", "again", "flush"} /\ (pc'[c] = "again" => view.through) /\ (p \in view.nested => pc'[c] = "tell")
      /\ (tells => pc'[c] # "done") /\ pc' \in [FewCalls -> ShownLabels] /\ \A d \in FewCalls \ {c} : pc'[d] = pc[d]
  BY <1>0, <1>1, <1>3 DEF ShownSlots, ShownLabels
<1>5. part'[c] = p /\ (\A d \in FewCalls \ {c} : part'[d] = part[d]) /\ part' \in [FewCalls -> Shown!Parts]
  BY <1>0, <1>1 DEF ShownSlots
<1>6. ShownSlots'
  <2>1. sure' \subseteq {"entry", "front", Shown!Nested[1], Shown!Nested[2]}
    BY <1>0, <1>2, Zenon DEF ShownSlots
  <2>2. QED
    BY <1>0, <1>1, <1>4, <1>5, <2>1 DEF ShownSlots
<1>7. ASSUME NEW q \in Shown!Parts PROVE now'[q] \in Shown!Versions /\ now'[q] <= writes' /\ now'[q] \in {now[q], now[q] + 1}
  <2>1. now[q] \in 0 .. MaxWrites /\ now[q] <= writes /\ writes \in 0 .. MaxWrites
    BY <1>0 DEF ShownLayers, Shown!Versions
  <2>2. now'[q] \in {now[q], now[q] + 1}
    BY <1>1
  <2>3. QED
    BY <1>0, <1>1, <2>1, <2>2 DEF Shown!Versions
<1>8. ShownLayers'
  <2>1. now' \in [Shown!Parts -> Shown!Versions]
    BY <1>1, <1>7
  <2>2. writes' \in 0 .. MaxWrites
    BY <1>0, <1>1 DEF ShownLayers
  <2>3. QED
    BY <1>0, <1>1, <1>7, <2>1, <2>2 DEF ShownLayers
<1>9. ASSUME NEW d \in FewCalls PROVE ShownPlace(d)' /\ ShownGot(d)'
  <2>1. clean'[d] = FALSE
    BY <1>1
  <2>2. Shown!Needed' = Shown!Needed /\ Shown!Blank' = Shown!Blank
    BY <1>1 DEF Shown!Needed, Shown!Blank
  <2>3. CASE d = c
    BY <1>1, <1>4, <2>1, <2>3 DEF ShownPlace, ShownGot
  <2>4. CASE d # c
    BY <1>1, <1>4, <1>5, <2>1, <2>2, <2>4 DEF ShownInv, ShownPlace, ShownGot
  <2>5. QED
    BY <2>3, <2>4
<1>10. ShownTrue'
  <2>1. "front" \notin sure' /\ ("entry" \in sure' => tells)
    BY <1>2
  <2>2. tells => ShownOwes'
    BY <1>1, <1>4, <1>5 DEF ShownOwes
  <2>3. ASSUME NEW q \in Shown!Parts, Shown!Nested[q] \in sure', inner'[q] # None PROVE ShownTells(q)' \/ inner'[q] = now'[q]
    <3>1. Shown!Nested[q] \in sure /\ inner[q] # None
      BY <1>1, <1>2, <2>3
    <3>2. q \in view.nested
      BY <1>0, <3>1 DEF ShownTrue
    <3>3. ~view.joint
      BY <1>0, <3>2 DEF ShownFits
    <3>4. CASE q = p
      BY <1>4, <1>5, <3>2, <3>4 DEF ShownTells
    <3>5. CASE q # p
      <4>1. now'[q] = now[q] /\ inner'[q] = inner[q]
        BY <1>1, <3>3, <3>5
      <4>2. ShownTells(q) => ShownTells(q)'
        BY <1>1, <1>4, <1>5 DEF ShownTells
      <4>3. QED
        BY <1>0, <3>1, <4>1, <4>2 DEF ShownTrue
    <3>6. QED
      BY <3>4, <3>5
  <2>4. QED
    BY <1>0, <1>1, <2>1, <2>2, <2>3 DEF ShownTrue
<1>11. QED
  BY <1>6, <1>8, <1>9, <1>10 DEF ShownInv

(* Who has written and tells is not clean. *)
LEMMA ShownOwner ==
  ASSUME ShownInv, NEW c \in FewCalls, pc[c] \in {"tell", "flush", "again"}
  PROVE  /\ Shown!Owing /\ ~clean[c] /\ \A d \in FewCalls : clean[d] => pc[d] \in {"set", "done"}
BY DEF ShownInv, ShownGot, ShownSlots, Shown!Owing

(* A call that deletes what it has to, or dies. *)
LEMMA ShownTelling ==
  ASSUME Shown!ViewsAssumption, ShownInv, NEW c \in FewCalls, Shown!Tell(c) \/ Shown!Flush(c) \/ Shown!Crash(c)
  PROVE  ShownInv'
<1>0. ShownSlots /\ ShownLayers /\ ShownTrue /\ pc[c] \in ShownOwed
  BY DEF ShownInv, ShownOwed, Shown!Tell, Shown!Flush, Shown!Crash
<1>1. /\ UNCHANGED <<view, now, part, got, writes, front>> /\ (Shown!Crash(c) \/ (clean' = clean /\ sure' = sure))
      /\ (Shown!Crash(c) => sure' = {} /\ clean' = [d \in FewCalls |-> FALSE] /\ UNCHANGED <<entry, inner>>)
  BY DEF Shown!Tell, Shown!Flush, Shown!Crash, Shown!layers
<1>2. /\ pc'[c] \in {"done", "flush"} /\ pc' \in [FewCalls -> ShownLabels] /\ (\A d \in FewCalls \ {c} : pc'[d] = pc[d])
      /\ (pc'[c] = "flush" => Shown!Tell(c))
  <2>1. \E l \in {"done", "flush"} : pc' = [pc EXCEPT ![c] = l] /\ (l = "flush" => Shown!Tell(c))
    BY DEF Shown!Tell, Shown!Flush, Shown!Crash, Shown!Goto
  <2>2. QED
    BY <1>0, <2>1 DEF ShownSlots, ShownLabels
<1>3. part[c] \in Shown!Parts /\ (~Shown!Crash(c) => inner' = [inner EXCEPT ![part[c]] = None])
  BY <1>0 DEF ShownSlots, Shown!Tell, Shown!Flush
<1>4. (Shown!Flush(c) => entry' = None) /\ (~Shown!Flush(c) => entry' = entry)
  BY DEF Shown!Flush, Shown!Tell, Shown!Crash, Shown!Cleared, Shown!layers
<1>5. \A p \in Shown!Parts : inner'[p] = inner[p] \/ inner'[p] = None
  BY <1>0, <1>1, <1>3 DEF ShownLayers, Shown!Entries
<1>6. ShownSlots' /\ ShownLayers'
  <2>1. inner' \in Shown!Entries
    BY <1>0, <1>1, <1>3 DEF ShownLayers, Shown!Entries
  <2>2. entry' \in Shown!Entries \cup {None}
    BY <1>0, <1>4 DEF ShownLayers
  <2>3. clean' \in [FewCalls -> BOOLEAN] /\ sure' \subseteq {"entry", "front", Shown!Nested[1], Shown!Nested[2]}
    BY <1>0, <1>1 DEF ShownSlots
  <2>4. QED
    BY <1>0, <1>1, <1>2, <2>1, <2>2, <2>3 DEF ShownSlots, ShownLayers
<1>7. ASSUME NEW d \in FewCalls PROVE ShownPlace(d)' /\ ShownGot(d)'
  <2>1. Shown!Needed' = Shown!Needed /\ Shown!Blank' = Shown!Blank
    BY <1>1 DEF Shown!Needed, Shown!Blank
  <2>2. Shown!Owing' => Shown!Owing
    BY <1>0, <1>2 DEF Shown!Owing, ShownOwed
  <2>3. clean'[d] => clean[d]
    BY <1>0, <1>1 DEF ShownSlots
  <2>4. CASE d # c
    BY <1>1, <1>2, <2>1, <2>2, <2>3, <2>4 DEF ShownInv, ShownPlace, ShownGot
  <2>5. CASE d = c /\ Shown!Crash(c)
    BY <1>1, <1>2, <2>5 DEF ShownPlace, ShownGot
  <2>6. CASE d = c /\ ~Shown!Crash(c)
    <3>1. ~clean[c]
      BY <2>6, ShownOwner DEF Shown!Tell, Shown!Flush
    <3>2. QED
      BY <1>2, <2>3, <2>6, <3>1 DEF ShownPlace, ShownGot
  <2>7. QED
    BY <2>4, <2>5, <2>6
<1>8. CASE Shown!Crash(c)
  BY <1>0, <1>1, <1>6, <1>7, <1>8 DEF ShownInv, ShownTrue
<1>9. CASE ~Shown!Crash(c)
  <2>1. Shown!Needed' = Shown!Needed
    BY <1>1 DEF Shown!Needed
  <2>2. ASSUME ~Shown!Flush(c) PROVE ShownOwes => ShownOwes'
    <3>1. Shown!Tell(c) /\ pc[c] = "tell" /\ (part[c] \in view.told => pc'[c] = "flush")
      BY <1>0, <1>9, <2>2 DEF Shown!Tell, Shown!Goto, ShownSlots
    <3>2. ShownOwes => ShownOwes'
      BY <1>1, <1>2, <3>1 DEF ShownOwes
    <3>3. QED
      BY <3>2
  <2>3. "entry" \in sure' /\ entry' # None => ShownOwes' \/ \A p \in Shown!Needed : entry'[p] = now'[p]
    <3>1. CASE Shown!Flush(c)
      BY <1>4, <3>1
    <3>2. CASE ~Shown!Flush(c)
      BY <1>0, <1>1, <1>4, <1>9, <2>2, <3>2 DEF ShownTrue
    <3>3. QED
      BY <3>1, <3>2
  <2>4. ASSUME NEW p \in Shown!Parts, Shown!Nested[p] \in sure', inner'[p] # None PROVE ShownTells(p)' \/ inner'[p] = now'[p]
    <3>1. p # part[c] /\ inner'[p] = inner[p] /\ Shown!Nested[p] \in sure
      BY <1>0, <1>1, <1>3, <1>9, <2>4 DEF ShownLayers, Shown!Entries
    <3>2. ShownTells(p) => ShownTells(p)'
      BY <1>1, <1>2, <3>1 DEF ShownTells
    <3>3. QED
      BY <1>0, <1>1, <2>4, <3>1, <3>2 DEF ShownTrue
  <2>5. ShownTrue'
    BY <1>0, <1>1, <1>5, <1>9, <2>1, <2>3, <2>4 DEF ShownTrue
  <2>6. QED
    BY <1>6, <1>7, <2>5 DEF ShownInv
<1>10. QED
  BY <1>8, <1>9

(* An entry that expires is none. *)
LEMMA ShownExpiring ==
  ASSUME Shown!ViewsAssumption, ShownInv, Shown!Expire
  PROVE  ShownInv'
<1>1. UNCHANGED <<view, now, pc, part, got, writes, clean, sure>>
  BY DEF Shown!Expire
<1>2. /\ entry' \in {entry, None} /\ front' \in {front, None} /\ inner' \in Shown!Entries
      /\ \A p \in Shown!Parts : inner'[p] \in {inner[p], None}
  BY DEF Shown!Expire, ShownInv, ShownLayers, Shown!Entries
<1>3. ShownSlots' /\ ShownLayers'
  BY <1>1, <1>2 DEF ShownInv, ShownSlots, ShownLayers
<1>4. Shown!Needed' = Shown!Needed /\ Shown!Blank' = Shown!Blank /\ Shown!Owing' = Shown!Owing /\ ShownOwes' = ShownOwes
  BY <1>1 DEF Shown!Needed, Shown!Blank, Shown!Owing, ShownOwes
<1>5. \A p \in Shown!Parts : ShownTells(p)' = ShownTells(p)
  BY <1>1 DEF ShownTells
<1>6. \A c \in FewCalls : ShownPlace(c)' /\ ShownGot(c)'
  BY <1>1, <1>4 DEF ShownInv, ShownPlace, ShownGot
<1>7. ShownTrue'
  BY <1>1, <1>2, <1>4, <1>5 DEF ShownInv, ShownTrue
<1>8. QED
  BY <1>3, <1>6, <1>7 DEF ShownInv

(* Every step keeps what is kept of the answers. *)
LEMMA ShownKept ==
  ASSUME Shown!ViewsAssumption, ShownInv, Shown!Next
  PROVE  ShownInv'
<1>1. ASSUME NEW c \in FewCalls, ShownReads(c) PROVE ShownInv'
  BY <1>1, ShownReading, ShownReadingTrue, ShownReadingOwn DEF ShownInv
<1>2. ASSUME NEW c \in FewCalls, ShownKeeps(c) PROVE ShownInv'
  BY <1>2, ShownKeeping, ShownKeepingTrue, ShownKeepingRest DEF ShownInv
<1>3. QED
  BY <1>1, <1>2, ShownWriting, ShownTelling, ShownExpiring DEF Shown!Next, ShownReads, ShownKeeps

(* It holds at first. *)
LEMMA ShownInit ==
  ASSUME Shown!ViewsAssumption, Shown!Init
  PROVE  ShownInv
<1>1. /\ view \in Shown!Kinds /\ now = [p \in Shown!Parts |-> 0] /\ writes = 0 /\ entry = None /\ inner = Shown!Blank /\ front = None
      /\ pc = [c \in FewCalls |-> "new"] /\ part = [c \in FewCalls |-> 1] /\ got = [c \in FewCalls |-> Shown!Blank]
      /\ clean = [c \in FewCalls |-> FALSE] /\ sure = {}
  BY DEF Shown!Init
<1>2. 0 \in 0 .. MaxWrites /\ 0 <= 0
  BY DEF Shown!ViewsAssumption
<1>3. Shown!Blank \in Shown!Entries /\ (\A p \in Shown!Parts : Shown!Blank[p] = None) /\ 1 \in Shown!Parts
  BY DEF Shown!Blank, Shown!Entries, Shown!Parts
<1>4. ShownSlots /\ ShownLayers
  BY <1>1, <1>2, <1>3 DEF ShownSlots, ShownLayers, ShownLabels, Shown!Versions
<1>5. ShownTrue /\ \A c \in FewCalls : ShownPlace(c) /\ ShownGot(c)
  BY <1>1, <1>3 DEF ShownTrue, ShownPlace, ShownGot
<1>6. QED
  BY <1>4, <1>5 DEF ShownInv

(* It gives what is checked of the entries. *)
LEMMA ShownHolds ==
  ASSUME ShownInv
  PROVE  Shown!EntriesTrue /\ Shown!TypeOK
<1>1. Shown!TypeOK
  BY DEF ShownInv, ShownSlots, ShownLayers, ShownLabels, Shown!TypeOK
<1>2. ~Shown!Owing => ~ShownOwes /\ \A p \in Shown!Parts : ~ShownTells(p)
  BY DEF Shown!Owing, ShownOwes, ShownTells
<1>3. Shown!EntriesTrue
  BY <1>2 DEF ShownInv, ShownTrue, Shown!EntriesTrue
<1>4. QED
  BY <1>1, <1>3

(* A step that changes nothing of the answers. *)
LEMMA ShownStill ==
  ASSUME ShownInv, UNCHANGED <<view, now, entry, inner, front, pc, part, got, writes, clean, sure>>
  PROVE  ShownInv'
<1>1. Shown!Needed' = Shown!Needed /\ Shown!Blank' = Shown!Blank /\ Shown!Owing' = Shown!Owing /\ ShownOwes' = ShownOwes
  BY DEF Shown!Needed, Shown!Blank, Shown!Owing, ShownOwes
<1>2. \A p \in Shown!Parts : ShownTells(p)' = ShownTells(p)
  BY DEF ShownTells
<1>3. ShownSlots' /\ ShownLayers' /\ ShownTrue'
  BY <1>1, <1>2 DEF ShownInv, ShownSlots, ShownLayers, ShownTrue
<1>4. \A c \in FewCalls : ShownPlace(c)' /\ ShownGot(c)'
  BY <1>1 DEF ShownInv, ShownPlace, ShownGot
<1>5. QED
  BY <1>3, <1>4 DEF ShownInv

-----------------------------------------------------------------------------
(* The paged lists.  The rows, and what the walkers and the cache hold. *)
ListingRows == rows \in Seq(1 .. MaxRows) /\ shown \in SUBSET (1 .. MaxRows)
ListingSlots ==
  /\ DOMAIN at = Walkers /\ page \in [Walkers -> Listing!Pages] /\ DOMAIN got = Walkers /\ DOMAIN told = Walkers
  /\ DOMAIN clean = Walkers /\ DOMAIN kept = Listing!Pages
(* A page that is read, or being read, and a total that is right. *)
ListingPage(g) == \E i : \E t \in 0 .. MaxRows \cup {None} : g = [items |-> i, total |-> t]
ListingWhole(g) == \E i : \E t \in 0 .. MaxRows : g = [items |-> i, total |-> t]
ListingRight(t) == t = Listing!Cardinality(shown) \/ (list.blank /\ t = 0)
ListingGot(w) ==
  /\ ListingPage(got[w])
  /\ at[w] \in {"keep", "turn"} => ListingWhole(got[w])
  /\ clean[w] /\ at[w] \in {"check", "read", "keep", "turn"} => got[w].total = None \/ ListingRight(got[w].total)
ListingEnd(w) == at[w] = "done" /\ clean[w] => ListingRight(told[w].total)
ListingKept(k) == kept[k] # None => ListingWhole(kept[k]) /\ (k \in fresh => ListingRight(kept[k].total))
ListingInv ==
  /\ ListingRows /\ ListingSlots
  /\ \A w \in Walkers : ListingGot(w) /\ ListingEnd(w)
  /\ \A k \in Listing!Pages : ListingKept(k)

(* A division grows with what is divided. *)
LEMMA DivGrows ==
  ASSUME NEW S \in Nat \ {0}, NEW a \in Nat, NEW b \in Nat, a <= b
  PROVE  a \div S \in Nat /\ b \div S \in Nat /\ a \div S <= b \div S
<1>1. ASSUME NEW k \in Nat PROVE k \div S \in Int /\ k % S \in 0 .. S - 1 /\ k = S * (k \div S) + (k % S)
  <2>1. k \div S \in Int /\ k % S \in 0 .. S - 1
    OBVIOUS
  <2>2. k = S * (k \div S) + (k % S)
    OBVIOUS
  <2>3. QED
    BY <2>1, <2>2
<1>2. ASSUME NEW p \in Int, NEW q \in Int, NEW x \in 0 .. S - 1, NEW y \in 0 .. S - 1, S * p + x <= S * q + y PROVE p <= q
  <2>1. SUFFICES ASSUME p >= q + 1 PROVE FALSE
    OBVIOUS
  <2>2. S * p >= S * (q + 1)
    BY <2>1
  <2>3. S * (q + 1) = S * q + S
    OBVIOUS
  <2>4. S * p \in Int /\ S * q \in Int
    OBVIOUS
  <2>5. QED
    BY <1>2, <2>2, <2>3, <2>4
<1>3. a \div S <= b \div S
  BY <1>1, <1>2
<1>4. ASSUME NEW p \in Int, NEW x \in 0 .. S - 1, S * p + x >= 0 PROVE p >= 0
  BY <1>2, <1>4, S * 0 + 0 = 0
<1>5. QED
  BY <1>1, <1>3, <1>4

(* There is a first page, and whoever is told of more pages has one to turn to. *)
LEMMA ListingTurns ==
  ASSUME Listing!ListingsAssumption
  PROVE  /\ 1 \in Listing!Pages
         /\ \A t \in 0 .. MaxRows, k \in Listing!Pages : k < Listing!TotalPages(t) => k + 1 \in Listing!Pages
<1>1. Size \in Nat \ {0} /\ MaxRows \in Nat \ {0}
  BY DEF Listing!ListingsAssumption
<1>2. Size \div Size = 1
  <2>1. Size = Size * 1 + 0
    BY <1>1
  <2>2. QED
    BY <1>1, <2>1
<1>3. (MaxRows + Size - 1) \div Size \in Nat /\ 1 <= (MaxRows + Size - 1) \div Size
  <2>1. Size <= MaxRows + Size - 1 /\ MaxRows + Size - 1 \in Nat
    BY <1>1
  <2>2. QED
    BY <1>1, <1>2, <2>1, DivGrows
<1>4. 1 \in Listing!Pages
  BY <1>3 DEF Listing!Pages
<1>5. ASSUME NEW t \in 0 .. MaxRows, NEW k \in Listing!Pages, k < Listing!TotalPages(t) PROVE k + 1 \in Listing!Pages
  <2>1. k \in Nat /\ 1 <= k
    BY <1>3 DEF Listing!Pages
  <2>2. CASE t = 0
    BY <1>5, <2>1, <2>2 DEF Listing!TotalPages
  <2>3. CASE t # 0
    <3>1. t + Size - 1 \in Nat /\ MaxRows + Size - 1 \in Nat /\ t + Size - 1 <= MaxRows + Size - 1
      BY <1>1, <2>3
    <3>2. (t + Size - 1) \div Size \in Nat /\ (t + Size - 1) \div Size <= (MaxRows + Size - 1) \div Size
      BY <1>1, <3>1, DivGrows
    <3>3. k < (t + Size - 1) \div Size
      BY <1>5, <2>3 DEF Listing!TotalPages
    <3>4. QED
      BY <1>3, <2>1, <3>2, <3>3 DEF Listing!Pages
  <2>4. QED
    BY <2>2, <2>3
<1>6. QED
  BY <1>4, <1>5

(* A row put into a sequence. *)
LEMMA ListingPut ==
  ASSUME NEW T, NEW s \in Seq(T), NEW i \in 1 .. Len(s) + 1, NEW r \in T
  PROVE  Listing!Put(s, i, r) \in Seq(T)
<1>1. SubSeq(s, 1, i - 1) \in Seq(T) /\ SubSeq(s, i, Len(s)) \in Seq(T) /\ <<r>> \in Seq(T)
  OBVIOUS
<1>2. QED
  BY <1>1 DEF Listing!Put

(* A row taken out of one. *)
LEMMA ListingWithout ==
  ASSUME NEW T, NEW s \in Seq(T), NEW i \in 1 .. Len(s)
  PROVE  Listing!Without(s, i) \in Seq(T) /\ Len(Listing!Without(s, i)) = Len(s) - 1
<1>1. SubSeq(s, 1, i - 1) \in Seq(T) /\ SubSeq(s, i + 1, Len(s)) \in Seq(T)
  OBVIOUS
<1>2. Len(SubSeq(s, 1, i - 1)) = i - 1 /\ Len(SubSeq(s, i + 1, Len(s))) = Len(s) - i
  OBVIOUS
<1>3. Listing!Without(s, i) \in Seq(T)
  BY <1>1 DEF Listing!Without
<1>4. Len(Listing!Without(s, i)) = Len(SubSeq(s, 1, i - 1)) + Len(SubSeq(s, i + 1, Len(s)))
  BY <1>1 DEF Listing!Without
<1>5. Len(Listing!Without(s, i)) = (i - 1) + (Len(s) - i)
  BY <1>2, <1>4
<1>6. (i - 1) + (Len(s) - i) = Len(s) - 1
  <2>1. Len(s) \in Int /\ i \in Int
    OBVIOUS
  <2>2. QED
    BY <2>1
<1>7. QED
  BY <1>3, <1>5, <1>6

-----------------------------------------------------------------------------
(* The rows change: whatever was read is doubtful, and no entry is fresh. *)
LEMMA ListingChanged ==
  ASSUME ListingInv, ListingRows', NEW kind, Listing!Change(kind)
  PROVE  ListingInv'
<1>1. /\ UNCHANGED <<list, kept, at, page, got, told>> /\ fresh' = {} /\ DOMAIN clean' = Walkers
      /\ \A w \in Walkers : clean'[w] = FALSE
  BY DEF Listing!Change, Listing!walk
<1>2. ListingSlots'
  BY <1>1 DEF ListingInv, ListingSlots, Listing!Pages
<1>3. ASSUME NEW w \in Walkers PROVE ListingGot(w)' /\ ListingEnd(w)'
  <2>1. clean'[w] = FALSE /\ got' = got /\ at' = at /\ ListingGot(w)
    BY <1>1, <1>3 DEF ListingInv
  <2>2. QED
    BY <2>1 DEF ListingGot, ListingEnd, ListingPage, ListingWhole
<1>4. ASSUME NEW k \in Listing!Pages PROVE ListingKept(k)'
  BY <1>1, <1>4 DEF ListingInv, ListingKept, ListingWhole
<1>5. QED
  BY <1>2, <1>3, <1>4 DEF ListingInv, Listing!Pages

(* A change of the rows keeps them rows. *)
LEMMA ListingWrites ==
  ASSUME Listing!ListingsAssumption, ListingInv, NEW r \in 1 .. MaxRows,
         Listing!Insert \/ Listing!Vanish \/ Listing!Depart(r) \/ Listing!Return(r) \/ Listing!Move(r)
  PROVE  ListingInv'
<1>0. rows \in Seq(1 .. MaxRows) /\ shown \in SUBSET (1 .. MaxRows) /\ Len(rows) \in Nat /\ MaxRows \in Nat
  <2>1. rows \in Seq(1 .. MaxRows)
    BY DEF ListingInv, ListingRows
  <2>2. QED
    BY <2>1 DEF ListingInv, ListingRows, Listing!ListingsAssumption
<1>1. CASE Listing!Insert
  <2>1. /\ Len(rows) < MaxRows /\ shown' = shown \cup {Len(rows) + 1} /\ Listing!Change("insert")
        /\ \E i \in Listing!Places : rows' = Listing!Put(rows, i, Len(rows) + 1)
    BY <1>1 DEF Listing!Insert
  <2>2. Len(rows) + 1 \in 1 .. MaxRows
    BY <1>0, <2>1
  <2>3. PICK i \in Listing!Places : rows' = Listing!Put(rows, i, Len(rows) + 1)
    BY <2>1
  <2>4. i \in 1 .. Len(rows) + 1
    BY <2>3 DEF Listing!Places
  <2>5. rows' \in Seq(1 .. MaxRows)
    BY <1>0, <2>2, <2>3, <2>4, ListingPut
  <2>6. ListingRows'
    BY <1>0, <2>1, <2>2, <2>5 DEF ListingRows
  <2>7. QED
    BY <2>1, <2>6, ListingChanged
<1>2. CASE Listing!Vanish
  <2>1. ListingRows' /\ Listing!Change("remove")
    BY <1>0, <1>2 DEF Listing!Vanish, ListingRows
  <2>2. QED
    BY <2>1, ListingChanged
<1>3. CASE Listing!Depart(r)
  <2>1. ListingRows' /\ Listing!Change("remove")
    BY <1>0, <1>3 DEF Listing!Depart, ListingRows
  <2>2. QED
    BY <2>1, ListingChanged
<1>4. CASE Listing!Return(r)
  <2>1. ListingRows' /\ Listing!Change("return")
    BY <1>0, <1>4 DEF Listing!Return, ListingRows
  <2>2. QED
    BY <2>1, ListingChanged
<1>5. CASE Listing!Move(r)
  <2>1. shown' = shown /\ Listing!Change("move")
    BY <1>5 DEF Listing!Move
  <2>2. PICK j \in 1 .. Len(rows), i \in IF list.order = "touched" THEN {1} ELSE 1 .. Len(rows) :
          rows' = Listing!Put(Listing!Without(rows, j), i, r)
    BY <1>5 DEF Listing!Move
  <2>3. Listing!Without(rows, j) \in Seq(1 .. MaxRows) /\ Len(Listing!Without(rows, j)) = Len(rows) - 1
    BY <1>0, <2>2, ListingWithout
  <2>4. i \in 1 .. Len(Listing!Without(rows, j)) + 1
    BY <1>0, <2>2, <2>3
  <2>5. rows' \in Seq(1 .. MaxRows)
    BY <2>2, <2>3, <2>4, ListingPut
  <2>6. ListingRows'
    BY <1>0, <2>1, <2>5 DEF ListingRows
  <2>7. QED
    BY <2>1, <2>6, ListingChanged
<1>6. QED
  BY <1>1, <1>2, <1>3, <1>4, <1>5

(* The total stays right as long as the rows stay, *)
LEMMA ListingRightStays ==
  ASSUME UNCHANGED <<list, shown>>, NEW t, ListingRight(t)
  PROVE  t = Listing!Cardinality(shown)' \/ (list'.blank /\ t = 0)
<1>1. Listing!Cardinality(shown)' = Listing!Cardinality(shown)
  BY DEF Listing!Cardinality
<1>2. QED
  BY <1>1, Zenon DEF ListingRight

(* and whoever does not move has what he had. *)
LEMMA ListingOthers ==
  ASSUME UNCHANGED <<list, shown>>, NEW w, UNCHANGED <<at[w], got[w], told[w], clean[w]>>, ListingGot(w), ListingEnd(w)
  PROVE  ListingGot(w)' /\ ListingEnd(w)'
<1>1. ListingRight(got[w].total) => (got[w].total = Listing!Cardinality(shown)' \/ (list'.blank /\ got[w].total = 0))
  BY ListingRightStays
<1>2. ListingRight(told[w].total) => (told[w].total = Listing!Cardinality(shown)' \/ (list'.blank /\ told[w].total = 0))
  BY ListingRightStays
<1>3. ListingPage(got[w])' /\ (at'[w] \in {"keep", "turn"} => ListingWhole(got[w])')
  BY DEF ListingGot, ListingPage, ListingWhole
<1>4. ListingGot(w)'
  BY <1>1, <1>3, Zenon DEF ListingGot, ListingRight
<1>5. ListingEnd(w)'
  BY <1>2, Zenon DEF ListingEnd, ListingRight
<1>6. QED
  BY <1>4, <1>5

(* The cache is emptied, or a page of it. *)
LEMMA ListingForgets ==
  ASSUME ListingInv, NEW k \in Listing!Pages, Listing!Flush \/ Listing!Expire(k)
  PROVE  ListingInv'
<1>1. /\ UNCHANGED <<list, rows, shown, fresh, at, page, got, told, clean>> /\ DOMAIN kept' = Listing!Pages
      /\ \A p \in Listing!Pages : kept'[p] \in {kept[p], None}
  <2>1. CASE Listing!Flush
    BY <2>1 DEF Listing!Flush, Listing!table, Listing!walk, Listing!history
  <2>2. CASE Listing!Expire(k)
    BY <2>2 DEF Listing!Expire, Listing!table, Listing!walk, Listing!history, ListingInv, ListingSlots
  <2>3. QED
    BY <2>1, <2>2
<1>2. ListingSlots' /\ ListingRows'
  BY <1>1 DEF ListingInv, ListingSlots, ListingRows, Listing!Pages
<1>3. ASSUME NEW w \in Walkers PROVE ListingGot(w)' /\ ListingEnd(w)'
  BY <1>1, <1>3, ListingOthers DEF ListingInv
<1>4. ASSUME NEW p \in Listing!Pages PROVE ListingKept(p)'
  <2>1. kept'[p] = None \/ (kept'[p] = kept[p] /\ ListingKept(p))
    BY <1>1, <1>4 DEF ListingInv
  <2>2. QED
    BY <1>1, <2>1 DEF ListingKept, ListingWhole, ListingRight, Listing!Cardinality
<1>5. QED
  BY <1>2, <1>3, <1>4 DEF ListingInv, Listing!Pages

-----------------------------------------------------------------------------
(* A walker reads, and the rows stay. *)
ListingStep(w) ==
  \/ Listing!Begin(w) \/ Listing!Hit(w) \/ Listing!Ask(w) \/ Listing!Check(w) \/ Listing!ReadItems(w) \/ Listing!Count(w)
  \/ Listing!Keep(w) \/ Listing!Turn(w)
ListingAlone(w) ==
  /\ DOMAIN at' = Walkers /\ DOMAIN got' = Walkers /\ DOMAIN told' = Walkers /\ DOMAIN clean' = Walkers
  /\ \A v \in Walkers : v # w => at'[v] = at[v] /\ got'[v] = got[v] /\ told'[v] = told[v] /\ clean'[v] = clean[v]

(* A walker moves alone. *)
LEMMA ListingMoves ==
  ASSUME Listing!ListingsAssumption, ListingInv, NEW w \in Walkers, ListingStep(w)
  PROVE  UNCHANGED <<list, rows, shown>> /\ ListingAlone(w)
<1> USE DEF ListingInv, ListingSlots, ListingAlone
<1>1. CASE Listing!Begin(w)
  BY <1>1 DEF Listing!Begin, Listing!Go, Listing!table, Listing!cache
<1>2. CASE Listing!Hit(w)
  BY <1>2 DEF Listing!Hit, Listing!Go, Listing!table, Listing!cache
<1>3. CASE Listing!Ask(w)
  BY <1>3 DEF Listing!Ask, Listing!Go, Listing!table, Listing!cache
<1>4. CASE Listing!Check(w)
  BY <1>4 DEF Listing!Check, Listing!Go, Listing!table, Listing!cache, Listing!history
<1>5. CASE Listing!ReadItems(w)
  BY <1>5 DEF Listing!ReadItems, Listing!Ready, Listing!Go, Listing!table, Listing!cache, Listing!history
<1>6. CASE Listing!Count(w)
  BY <1>6 DEF Listing!Count, Listing!Ready, Listing!Go, Listing!table, Listing!cache, Listing!history
<1>7. CASE Listing!Keep(w)
  BY <1>7 DEF Listing!Keep, Listing!Go, Listing!table, Listing!history
<1>8. CASE Listing!Turn(w)
  BY <1>8 DEF Listing!Turn, Listing!Go, Listing!table, Listing!cache, Listing!history
<1>9. QED
  BY <1>1, <1>2, <1>3, <1>4, <1>5, <1>6, <1>7, <1>8 DEF ListingStep

(* What a walker is left with. *)
ListingOwn(w) == page'[w] \in Listing!Pages /\ page' = [page EXCEPT ![w] = page'[w]] /\ ListingGot(w)' /\ ListingEnd(w)'

(* The parts of a page. *)
LEMMA ListingParts ==
  /\ \A g : ListingPage(g) => g.total \in 0 .. MaxRows \cup {None}
  /\ \A g : ListingWhole(g) => g.total \in 0 .. MaxRows /\ ListingPage(g)
  /\ \A g : ListingPage(g) /\ g.total \in 0 .. MaxRows => ListingWhole(g)
  /\ \A g, i : ListingPage(g) => LET h == [g EXCEPT !.items = i] IN ListingPage(h) /\ h.total = g.total
  /\ \A g, t : ListingPage(g) => LET h == [g EXCEPT !.total = t] IN h.total = t /\ (t \in 0 .. MaxRows => ListingWhole(h))
<1>1. ASSUME NEW g, ListingPage(g)
      PROVE  /\ g.total \in 0 .. MaxRows \cup {None} /\ (g.total \in 0 .. MaxRows => ListingWhole(g))
             /\ \A x : [g EXCEPT !.items = x].total = g.total /\ ListingPage([g EXCEPT !.items = x])
             /\ \A x : [g EXCEPT !.total = x].total = x /\ (x \in 0 .. MaxRows => ListingWhole([g EXCEPT !.total = x]))
  <2>1. PICK i, t : g = [items |-> i, total |-> t] /\ t \in 0 .. MaxRows \cup {None}
    BY <1>1 DEF ListingPage
  <2>2. g.total = t
    BY <2>1
  <2>3. ASSUME NEW x PROVE [g EXCEPT !.items = x] = [items |-> x, total |-> t] /\ [g EXCEPT !.total = x] = [items |-> i, total |-> x]
    BY <2>1
  <2>4. g.total \in 0 .. MaxRows \cup {None} /\ (g.total \in 0 .. MaxRows => ListingWhole(g))
    BY <2>1, <2>2 DEF ListingWhole
  <2>5. \A x : [g EXCEPT !.items = x].total = g.total /\ ListingPage([g EXCEPT !.items = x])
    <3> SUFFICES ASSUME NEW x PROVE [g EXCEPT !.items = x].total = g.total /\ ListingPage([g EXCEPT !.items = x])
      OBVIOUS
    <3>1. [items |-> x, total |-> t].total = t /\ ListingPage([items |-> x, total |-> t])
      <4>1. \E i1 : \E t1 \in 0 .. MaxRows \cup {None} : [items |-> x, total |-> t] = [items |-> i1, total |-> t1]
        BY <2>1
      <4>2. QED
        BY <4>1 DEF ListingPage
    <3>2. QED
      BY <2>2, <2>3, <3>1, Zenon
  <2>6. \A x : [g EXCEPT !.total = x].total = x /\ (x \in 0 .. MaxRows => ListingWhole([g EXCEPT !.total = x]))
    BY <2>1, <2>2, <2>3 DEF ListingWhole
  <2>7. QED
    BY <2>4, <2>5, <2>6
<1>2. ASSUME NEW g, ListingWhole(g) PROVE g.total \in 0 .. MaxRows /\ ListingPage(g)
  <2>1. PICK i, t : g = [items |-> i, total |-> t] /\ t \in 0 .. MaxRows
    BY <1>2 DEF ListingWhole
  <2>2. g.total = t
    BY <2>1
  <2>3. QED
    BY <2>1, <2>2 DEF ListingPage
<1>3. QED
  BY <1>1, <1>2

(* What is answered is told right if what was read was. *)
LEMMA ListingAnswers ==
  ASSUME Listing!ListingsAssumption, NEW g, ListingWhole(g)
  PROVE  ListingWhole(Listing!Answer(g)) /\ (ListingRight(g.total) => ListingRight(Listing!Answer(g).total))
<1>1. ListingPage(g)
  BY ListingParts
<1>2. CASE list.blank /\ g.items = <<>>
  <2>1. Listing!Answer(g) = [g EXCEPT !.total = 0]
    BY <1>2 DEF Listing!Answer
  <2>2. 0 \in 0 .. MaxRows
    BY DEF Listing!ListingsAssumption
  <2>3. ListingWhole(Listing!Answer(g)) /\ Listing!Answer(g).total = 0
    BY <1>1, <2>1, <2>2, ListingParts
  <2>4. QED
    BY <1>2, <2>3 DEF ListingRight
<1>3. CASE ~(list.blank /\ g.items = <<>>)
  BY <1>3 DEF Listing!Answer
<1>4. QED
  BY <1>2, <1>3

-----------------------------------------------------------------------------
(* What a walker has read is right unless the rows changed since. *)
LEMMA ListingOwnKept ==
  ASSUME Listing!ListingsAssumption, ListingInv, NEW w \in Walkers, ListingStep(w), ~Listing!Keep(w)
  PROVE  ListingOwn(w) /\ kept' = kept /\ fresh' = fresh
<1>0. /\ DOMAIN at = Walkers /\ page \in [Walkers -> Listing!Pages] /\ DOMAIN got = Walkers /\ DOMAIN told = Walkers
      /\ DOMAIN clean = Walkers /\ DOMAIN kept = Listing!Pages /\ page[w] \in Listing!Pages /\ ListingGot(w) /\ ListingEnd(w)
      /\ None \notin Nat /\ MaxRows \in Nat
  BY DEF ListingInv, ListingSlots, Listing!ListingsAssumption
<1>1. UNCHANGED <<list, shown>> /\ \A t : ListingRight(t) => ListingRight(t)'
  <2>1. UNCHANGED <<list, shown>>
    BY ListingMoves
  <2>2. ASSUME NEW t, ListingRight(t) PROVE ListingRight(t)'
    BY <2>1, <2>2, ListingRightStays, Zenon DEF ListingRight
  <2>3. QED
    BY <2>1, <2>2
<1>2. CASE Listing!Begin(w)
  <2>1. /\ page' = [page EXCEPT ![w] = 1] /\ at'[w] = "ask" /\ got' = got /\ clean' = clean /\ UNCHANGED <<kept, fresh>>
    BY <1>0, <1>2 DEF Listing!Begin, Listing!Go, Listing!table, Listing!cache
  <2>2. ListingPage(got[w])' /\ page'[w] = 1
    BY <1>0, <2>1 DEF ListingGot, ListingPage
  <2>3. QED
    BY <2>1, <2>2, ListingTurns DEF ListingOwn, ListingGot, ListingEnd
<1>3. CASE Listing!Hit(w)
  <2>1. /\ page' = page /\ at'[w] = "turn" /\ got'[w] = kept[page[w]] /\ kept[page[w]] # None
        /\ clean'[w] = (page[w] \in fresh) /\ UNCHANGED <<kept, fresh>>
    BY <1>0, <1>3 DEF Listing!Hit, Listing!Cached, Listing!Go, Listing!table, Listing!cache
  <2>2. ListingWhole(kept[page[w]]) /\ (page[w] \in fresh => ListingRight(kept[page[w]].total))
    BY <1>0, <2>1 DEF ListingInv, ListingKept
  <2>3. ListingPage(got'[w]) /\ ListingWhole(got'[w]) /\ (clean'[w] => ListingRight(got'[w].total))
    BY <2>1, <2>2, ListingParts
  <2>4. QED
    BY <1>0, <1>1, <2>1, <2>3 DEF ListingOwn, ListingGot, ListingEnd, ListingPage, ListingWhole
<1>4. CASE Listing!Ask(w)
  <2>1. /\ page' = page /\ at'[w] \in {"check", "read"} /\ got'[w] = [items |-> None, total |-> None] /\ UNCHANGED <<kept, fresh>>
    BY <1>0, <1>4 DEF Listing!Ask, Listing!Go, Listing!table, Listing!cache, Listing!Nothing
  <2>2. ListingPage(got'[w]) /\ got'[w].total = None
    <3>1. [items |-> None, total |-> None].total = None
      OBVIOUS
    <3>2. \E i : \E t \in 0 .. MaxRows \cup {None} : [items |-> None, total |-> None] = [items |-> i, total |-> t]
      OBVIOUS
    <3>3. ListingPage([items |-> None, total |-> None])
      BY <3>2 DEF ListingPage
    <3>4. QED
      BY <2>1, <3>1, <3>3
  <2>3. QED
    BY <1>0, <2>1, <2>2 DEF ListingOwn, ListingGot, ListingEnd, ListingPage
<1>5. CASE Listing!Check(w)
  <2>1. /\ page' = page /\ at[w] = "check" /\ at'[w] \in {"refused", "read"} /\ got' = got /\ clean' = clean /\ UNCHANGED <<kept, fresh>>
    BY <1>0, <1>5 DEF Listing!Check, Listing!Go, Listing!table, Listing!cache, Listing!history
  <2>2. ListingPage(got[w])'
    BY <1>0, <2>1 DEF ListingGot, ListingPage
  <2>3. QED
    BY <1>0, <1>1, <2>1, <2>2 DEF ListingOwn, ListingGot, ListingEnd
<1>6. CASE Listing!ReadItems(w)
  <2>1. /\ page' = page /\ at[w] = "read" /\ clean' = clean /\ got'[w] = [got[w] EXCEPT !.items = Listing!Slice(page[w])]
        /\ UNCHANGED <<kept, fresh>>
        /\ \/ at'[w] = "read"
           \/ at'[w] \in {"turn", "keep"} /\ got'[w].total # None
    BY <1>0, <1>6 DEF Listing!ReadItems, Listing!Ready, Listing!Go, Listing!table, Listing!cache, Listing!history
  <2>2. ListingPage(got'[w]) /\ got'[w].total = got[w].total
    BY <1>0, <2>1, ListingParts DEF ListingGot
  <2>3. ListingPage(got[w])' /\ (at'[w] \in {"turn", "keep"} => ListingWhole(got[w])')
    <3>1. at'[w] \in {"turn", "keep"} => ListingWhole(got'[w])
      BY <2>1, <2>2, ListingParts
    <3>2. QED
      BY <2>2, <3>1 DEF ListingPage, ListingWhole
  <2>4. QED
    BY <1>0, <1>1, <2>1, <2>2, <2>3 DEF ListingOwn, ListingGot, ListingEnd
<1>7. CASE Listing!Count(w)
  <2>1. /\ page' = page /\ at[w] = "read" /\ clean' = clean /\ got'[w] = [got[w] EXCEPT !.total = Listing!Cardinality(shown)]
        /\ UNCHANGED <<kept, fresh>> /\ at'[w] \in {"read", "turn", "keep"}
    BY <1>0, <1>7 DEF Listing!Count, Listing!Ready, Listing!Go, Listing!table, Listing!cache, Listing!history
  <2>2. Listing!Cardinality(shown) \in 0 .. MaxRows
    <3>1. shown \in SUBSET (1 .. MaxRows)
      BY DEF ListingInv, ListingRows
    <3>2. IsFiniteSet(1 .. MaxRows) /\ Cardinality(1 .. MaxRows) = MaxRows
      <4>1. 1 \in Int /\ MaxRows \in Int
        BY <1>0
      <4>2. IsFiniteSet(1 .. MaxRows) /\ Cardinality(1 .. MaxRows) = IF 1 > MaxRows THEN 0 ELSE MaxRows - 1 + 1
        BY <4>1, FS_Interval
      <4>3. QED
        BY <1>0, <4>2
    <3>5. Cardinality(shown) \in Nat /\ Cardinality(shown) <= MaxRows
      <4>1. IsFiniteSet(shown) /\ Cardinality(shown) <= Cardinality(1 .. MaxRows)
        BY <3>1, <3>2, FS_Subset
      <4>2. QED
        BY <3>2, <4>1, FS_CardinalityType
    <3>3. Listing!Cardinality(shown) = Cardinality(shown)
      BY Zenon DEF Listing!Cardinality, Cardinality
    <3>4. QED
      BY <1>0, <3>3, <3>5
  <2>3. ListingWhole(got'[w]) /\ got'[w].total = Listing!Cardinality(shown)
    BY <1>0, <2>1, <2>2, ListingParts DEF ListingGot
  <2>4. ListingPage(got'[w]) /\ ListingRight(got'[w].total)
    BY <2>3, ListingParts DEF ListingRight
  <2>5. ListingPage(got[w])' /\ ListingWhole(got[w])'
    BY <2>3, <2>4 DEF ListingPage, ListingWhole
  <2>6. ListingRight(got[w].total)'
    BY <1>1, <2>4
  <2>7. QED
    BY <1>0, <2>1, <2>5, <2>6 DEF ListingOwn, ListingGot, ListingEnd
<1>8. CASE Listing!Turn(w)
  <2>1. /\ at[w] = "turn" /\ clean' = clean /\ got'[w] = [items |-> None, total |-> None] /\ UNCHANGED <<kept, fresh>>
        /\ told'[w].total = Listing!Answer(got[w]).total
        /\ \/ at'[w] = "ask" /\ page[w] < Listing!TotalPages(told'[w].total) /\ page' = [page EXCEPT ![w] = page[w] + 1]
           \/ at'[w] = "done" /\ page' = page
    BY <1>0, <1>8 DEF Listing!Turn, Listing!Go, Listing!table, Listing!cache, Listing!history, Listing!Nothing
  <2>2. ListingWhole(got[w]) /\ (clean[w] => ListingRight(got[w].total))
    <3>1. ListingWhole(got[w]) /\ (clean[w] => got[w].total = None \/ ListingRight(got[w].total))
      BY <1>0, <2>1 DEF ListingGot
    <3>2. got[w].total \in 0 .. MaxRows
      BY <3>1, ListingParts
    <3>3. QED
      BY <1>0, <3>1, <3>2
  <2>3. ListingWhole(Listing!Answer(got[w])) /\ (clean[w] => ListingRight(told'[w].total))
    BY <2>1, <2>2, ListingAnswers
  <2>4. told'[w].total \in 0 .. MaxRows
    BY <2>1, <2>3, ListingParts
  <2>5. page'[w] \in Listing!Pages /\ page' = [page EXCEPT ![w] = page'[w]]
    <3>1. CASE page' = page
      BY <1>0, <3>1
    <3>2. CASE page[w] < Listing!TotalPages(told'[w].total) /\ page' = [page EXCEPT ![w] = page[w] + 1]
      BY <1>0, <2>4, <3>2, ListingTurns
    <3>3. QED
      BY <2>1, <3>1, <3>2
  <2>6. ListingPage(got[w])'
    BY <2>1 DEF ListingPage
  <2>7. clean'[w] => ListingRight(told[w].total)'
    BY <1>1, <2>1, <2>3
  <2>8. QED
    BY <2>1, <2>5, <2>6, <2>7 DEF ListingOwn, ListingGot, ListingEnd
<1>9. QED
  BY <1>2, <1>3, <1>4, <1>5, <1>6, <1>7, <1>8 DEF ListingStep

-----------------------------------------------------------------------------
(* A page is kept: it is fresh if no row changed since it was asked for. *)
LEMMA ListingKeeps ==
  ASSUME Listing!ListingsAssumption, ListingInv, NEW w \in Walkers, Listing!Keep(w)
  PROVE  ListingOwn(w) /\ DOMAIN kept' = Listing!Pages /\ \A k \in Listing!Pages : ListingKept(k)'
<1>0. /\ DOMAIN at = Walkers /\ page \in [Walkers -> Listing!Pages] /\ DOMAIN kept = Listing!Pages /\ page[w] \in Listing!Pages
      /\ DOMAIN clean = Walkers /\ ListingGot(w) /\ ListingEnd(w) /\ None \notin Nat
  BY DEF ListingInv, ListingSlots, Listing!ListingsAssumption
<1>1. UNCHANGED <<list, shown>> /\ \A t : ListingRight(t) => ListingRight(t)'
  <2>1. UNCHANGED <<list, shown>>
    BY ListingMoves DEF ListingStep
  <2>2. ASSUME NEW t, ListingRight(t) PROVE ListingRight(t)'
    BY <2>1, <2>2, ListingRightStays, Zenon DEF ListingRight
  <2>3. QED
    BY <2>1, <2>2
<1>2. /\ at[w] = "keep" /\ at'[w] = "turn" /\ UNCHANGED <<page, got, told, clean>>
      /\ kept' = [kept EXCEPT ![page[w]] = Listing!Answer(got[w])]
      /\ fresh' = IF clean[w] THEN fresh \cup {page[w]} ELSE fresh \ {page[w]}
  BY <1>0 DEF Listing!Keep, Listing!Go, Listing!table, Listing!history
<1>3. ListingWhole(got[w]) /\ (clean[w] => ListingRight(got[w].total))
  <2>1. ListingWhole(got[w]) /\ (clean[w] => got[w].total = None \/ ListingRight(got[w].total))
    BY <1>0, <1>2 DEF ListingGot
  <2>2. got[w].total \in 0 .. MaxRows
    BY <2>1, ListingParts
  <2>3. QED
    BY <1>0, <2>1, <2>2
<1>4. ListingOwn(w)
  <2>1. ListingPage(got[w])' /\ ListingWhole(got[w])'
    BY <1>2, <1>3, ListingParts DEF ListingPage, ListingWhole
  <2>2. clean'[w] => ListingRight(got[w].total)'
    BY <1>1, <1>2, <1>3
  <2>3. QED
    BY <1>0, <1>2, <2>1, <2>2 DEF ListingOwn, ListingGot, ListingEnd
<1>5. ASSUME NEW k \in Listing!Pages PROVE ListingKept(k)'
  <2>1. CASE k = page[w]
    <3>1. kept'[k] = Listing!Answer(got[w]) /\ (k \in fresh' => clean[w])
      BY <1>0, <1>2, <2>1
    <3>2. ListingWhole(kept'[k]) /\ (clean[w] => ListingRight(kept'[k].total))
      BY <1>3, <3>1, ListingAnswers
    <3>3. ListingWhole(kept[k])' /\ (k \in fresh' => ListingRight(kept[k].total)')
      BY <1>1, <3>1, <3>2 DEF ListingWhole
    <3>4. QED
      BY <3>3 DEF ListingKept
  <2>2. CASE k # page[w]
    <3>1. kept'[k] = kept[k] /\ (k \in fresh' => k \in fresh) /\ ListingKept(k)
      BY <1>0, <1>2, <2>2 DEF ListingInv
    <3>2. QED
      BY <1>1, <3>1 DEF ListingKept, ListingWhole
  <2>3. QED
    BY <2>1, <2>2
<1>6. QED
  BY <1>0, <1>2, <1>4, <1>5

(* A function of the first numbers is a sequence. *)
LEMMA RowsInOrder == ASSUME NEW T, NEW k \in Nat, NEW f \in [1 .. k -> T] PROVE f \in Seq(T)
OBVIOUS

(* The lists start empty-handed. *)
LEMMA ListingInit ==
  ASSUME Listing!ListingsAssumption, Listing!Init
  PROVE  ListingInv
<1>1. MaxRows \in Nat /\ 1 \in Listing!Pages
  BY ListingTurns DEF Listing!ListingsAssumption
<1>2. ListingRows
  <2>1. PICK k \in 0 .. MaxRows : shown = 1 .. k /\ rows = [i \in 1 .. k |-> IF list.order = "oldest" THEN i ELSE k + 1 - i]
    BY DEF Listing!Init
  <2>2. k \in Nat /\ k <= MaxRows /\ \A i \in 1 .. k : (IF list.order = "oldest" THEN i ELSE k + 1 - i) \in 1 .. MaxRows
    BY <1>1
  <2>3. rows \in [1 .. k -> 1 .. MaxRows]
    BY <2>1, <2>2
  <2>4. rows \in Seq(1 .. MaxRows)
    <3>1. k \in Nat
      OBVIOUS
    <3>2. QED
      BY <2>3, <3>1, RowsInOrder
  <2>5. shown \in SUBSET (1 .. MaxRows)
    BY <1>1, <2>1, <2>2
  <2>6. QED
    BY <2>4, <2>5 DEF ListingRows
<1>3. ListingSlots
  BY <1>1 DEF Listing!Init, ListingSlots
<1>4. ASSUME NEW w \in Walkers PROVE ListingGot(w) /\ ListingEnd(w)
  <2>1. at[w] = "idle" /\ got[w] = [items |-> None, total |-> None]
    BY <1>4 DEF Listing!Init, Listing!Nothing
  <2>2. \E i : \E t \in 0 .. MaxRows \cup {None} : [items |-> None, total |-> None] = [items |-> i, total |-> t]
    OBVIOUS
  <2>3. ListingPage(got[w])
    BY <2>1, <2>2 DEF ListingPage
  <2>4. QED
    BY <2>1, <2>3 DEF ListingGot, ListingEnd
<1>5. ASSUME NEW k \in Listing!Pages PROVE ListingKept(k)
  BY <1>5 DEF Listing!Init, ListingKept
<1>6. QED
  BY <1>2, <1>3, <1>4, <1>5 DEF ListingInv

(* Each step of the lists keeps their invariant. *)
LEMMA ListingPreserved ==
  ASSUME Listing!ListingsAssumption, ListingInv, Listing!Next
  PROVE  ListingInv'
<1>1. ASSUME NEW w \in Walkers, ListingStep(w) PROVE ListingInv'
  <2>1. UNCHANGED <<list, rows, shown>> /\ ListingAlone(w)
    BY <1>1, ListingMoves
  <2>2. ListingOwn(w) /\ DOMAIN kept' = Listing!Pages /\ \A k \in Listing!Pages : ListingKept(k)'
    <3>1. CASE Listing!Keep(w)
      BY <1>1, <3>1, ListingKeeps
    <3>2. CASE ~Listing!Keep(w)
      <4>1. ListingOwn(w) /\ kept' = kept /\ fresh' = fresh
        BY <1>1, <3>2, ListingOwnKept
      <4>2. ASSUME NEW t, ListingRight(t) PROVE ListingRight(t)'
        BY <2>1, <4>2, ListingRightStays, Zenon DEF ListingRight
      <4>3. ASSUME NEW k \in Listing!Pages PROVE ListingKept(k)'
        <5>1. kept'[k] = kept[k] /\ fresh' = fresh /\ ListingKept(k)
          BY <4>1, <4>3 DEF ListingInv
        <5>2. QED
          BY <4>2, <5>1 DEF ListingKept, ListingWhole
      <4>4. QED
        BY <4>1, <4>3 DEF ListingInv, ListingSlots
    <3>3. QED
      BY <3>1, <3>2
  <2>3. ListingRows'
    BY <2>1 DEF ListingInv, ListingRows
  <2>4. ListingSlots'
    BY <2>1, <2>2 DEF ListingAlone, ListingOwn, ListingInv, ListingSlots, Listing!Pages
  <2>5. ASSUME NEW v \in Walkers PROVE ListingGot(v)' /\ ListingEnd(v)'
    <3>1. CASE v = w
      BY <2>2, <3>1 DEF ListingOwn
    <3>2. CASE v # w
      <4>1. UNCHANGED <<at[v], got[v], told[v], clean[v]>> /\ ListingGot(v) /\ ListingEnd(v)
        BY <2>1, <2>5, <3>2 DEF ListingAlone, ListingInv
      <4>2. QED
        BY <2>1, <4>1, ListingOthers
    <3>3. QED
      BY <3>1, <3>2
  <2>6. QED
    BY <2>2, <2>3, <2>4, <2>5 DEF ListingInv, Listing!Pages
<1>2. 1 \in 1 .. MaxRows /\ 1 \in Listing!Pages
  BY ListingTurns DEF Listing!ListingsAssumption
<1>3. ASSUME NEW r \in 1 .. MaxRows, Listing!Insert \/ Listing!Vanish \/ Listing!Depart(r) \/ Listing!Return(r) \/ Listing!Move(r)
      PROVE  ListingInv'
  BY <1>3, ListingWrites
<1>4. ASSUME NEW k \in Listing!Pages, Listing!Flush \/ Listing!Expire(k) PROVE ListingInv'
  BY <1>4, ListingForgets
<1>5. QED
  BY <1>1, <1>2, <1>3, <1>4 DEF Listing!Next, ListingStep

(* The total told is the number of rows. *)
LEMMA ListingHolds == ASSUME ListingInv PROVE Listing!TotalTold
BY Zenon DEF ListingInv, ListingEnd, ListingRight, Listing!TotalTold

(* A step that changes nothing of the lists. *)
LEMMA ListingStill ==
  ASSUME ListingInv, UNCHANGED <<list, rows, shown, kept, fresh, at, page, got, told, clean>>
  PROVE  ListingInv'
<1>1. ListingRows' /\ ListingSlots'
  BY DEF ListingInv, ListingRows, ListingSlots, Listing!Pages
<1>2. ASSUME NEW w \in Walkers PROVE ListingGot(w)' /\ ListingEnd(w)'
  BY <1>2, ListingOthers DEF ListingInv
<1>3. ASSUME NEW k \in Listing!Pages PROVE ListingKept(k)'
  <2>1. ASSUME NEW t, ListingRight(t) PROVE ListingRight(t)'
    BY <2>1, ListingRightStays, Zenon DEF ListingRight
  <2>2. QED
    BY <1>3, <2>1 DEF ListingInv, ListingKept, ListingWhole
<1>4. QED
  BY <1>1, <1>2, <1>3 DEF ListingInv, Listing!Pages

-----------------------------------------------------------------------------
(* A step that changes nothing of rooms. *)
LEMMA RoomStill ==
  ASSUME RoomInv, UNCHANGED <<status, part, n, seat, locked, black, call, pc, seen, raced, crowded, closed>>
  PROVE  RoomInv'
<1>1. RoomFits'
  BY DEF RoomInv, RoomFits, RoomSlots, RoomTable, RoomSeats, RoomNone, RoomAsked, RoomMade
<1>2. Entering' = Entering /\ Leaving' = Leaving /\ Hosting' = Hosting /\ Inside' = Inside
  BY DEF Entering, Leaving, Hosting, Inside, RoomAt, Room!In
<1>3. RoomFinite' /\ RoomCounts'
  BY <1>2 DEF RoomInv, RoomFinite, RoomCounts
<1>4. RoomApart'
  BY DEF RoomInv, RoomApart, RoomOuts, Room!Active, Room!In
<1>5. RoomSpace'
  BY <1>2 DEF RoomInv, RoomSpace, RoomJoins, RoomEnters, Room!Active
<1>6. QED
  BY <1>1, <1>3, <1>4, <1>5 DEF RoomInv

(* A step that changes nothing of events. *)
LEMMA EventStill ==
  ASSUME EventInv, UNCHANGED <<event, going, ask, at, rushed>>
  PROVE  EventInv'
<1>1. Comers' = Comers
  BY DEF Comers
<1>2. QED
  BY <1>1 DEF EventInv, EventSlots, EventComers, EventAsked, EventAlone, EventMerges, EventPlaces, EventFits, EventSpare, Event!Limited

(* A step that changes nothing of what users set. *)
LEMMA SettingStill ==
  ASSUME SettingSound,
         UNCHANGED <<subject, role, active, sits, alive, moves, set, seat, challenge, views, follows, ask, at, got, answer, said,
                     granted, mixed, crossed, wrote>>
  PROVE  SettingSound'
<1>1. SettingFits'
  BY DEF SettingSound, SettingInv, SettingKeeps, SettingFits, SettingSlots, SettingTables, SettingPoints, SettingAsked, SettingFor
<1>2. \A c \in Calls : SettingFlags(c)'
  BY DEF SettingSound, SettingInv, SettingKeeps, SettingFlags
<1>3. SettingAlone' /\ (\A c \in Calls : SettingRead(c)') /\ Setting!SettingsHold' /\ mixed' \in BOOLEAN
  BY DEF SettingSound, SettingInv, SettingAlone, SettingMerging, SettingRead, Setting!Active, Setting!Merges, Setting!SettingsHold
<1>4. \A c \in Calls : SettingPaper(c)'
  BY DEF SettingSound, SettingPaper, SettingCarded
<1>5. QED
  BY <1>1, <1>2, <1>3, <1>4 DEF SettingSound, SettingInv, SettingKeeps

(* Nor of what they were told. *)
LEMMA SettingToldStill ==
  ASSUME SettingTold, UNCHANGED <<role, active, views, at, ask, got, crossed>>
  PROVE  SettingTold'
<1>1. ASSUME NEW c \in Calls
      PROVE  SettingCounting(c)' /\ SettingSummed(c)' /\ SettingViewed(c)' /\ (SettingSeen(c)' <=> SettingSeen(c))
  BY <1>1, SettingOtherTold DEF SettingTold
<1>2. SettingApart'
  BY <1>1 DEF SettingTold, SettingApart
<1>3. QED
  BY <1>1, <1>2 DEF SettingTold

(* A step that changes nothing of clans. *)
LEMMA ClanStill ==
  ASSUME ClanInv, UNCHANGED <<clans, rows, made, cached, ask, at, got, torn, cut, left, ranked>>
  PROVE  ClanInv'
BY DEF ClanInv, ClanFits, ClanTables, ClanSlots, ClanAsked, ClanLeft

(* A step that changes nothing of sockets. *)
LEMMA SocketStill ==
  ASSUME SocketInv, UNCHANGED <<phase, online, places, heard, muddled>>
  PROVE  SocketInv'
BY DEF SocketInv, SocketFits, SocketOf, Socket!Live

(* A step that changes nothing of belongings. *)
LEMMA BelongingRests ==
  ASSUME BelongingInv, UNCHANGED <<row, photo, story, clock, ask, at, got, said, mixed>>
  PROVE  BelongingInv'
<1>1. BelongingFits'
  BY DEF BelongingInv, BelongingFits, BelongingSlots, BelongingRows, BelongingShelf, BelongingAsked, BelongingAsk
<1>2. BelongingAlone' /\ \A c \in FewCalls : BelongingRead(c)'
  BY DEF BelongingInv, BelongingAlone, BelongingUpdates, BelongingRead, Belonging!Active
<1>3. Belonging!LastGivenKept'
  BY DEF BelongingInv, Belonging!LastGivenKept
<1>4. QED
  BY <1>1, <1>2, <1>3 DEF BelongingInv

-----------------------------------------------------------------------------
(* The components side by side: the one that runs keeps its invariant. *)
VenuesInv ==
  /\ mode = "Room" => RoomInv
  /\ mode = "Event" => EventInv
  /\ mode = "Setting" => SettingSound /\ SettingTold
  /\ mode = "Clan" => ClanInv /\ ClanSound
  /\ mode = "Socket" => SocketInv
  /\ mode = "Belonging" => BelongingInv
  /\ mode = "Notice" => NoticeInv
  /\ mode = "Balance" => BalanceInv
  /\ mode = "Listing" => ListingInv
  /\ mode = "Shown" => ShownInv

(* The assumptions on the constants, component by component. *)
LEMMA VenuesAssumed ==
  /\ Room!RoomsAssumption /\ Event!EventsAssumption /\ Clan!ClansAssumption /\ Socket!PresenceAssumption
  /\ Belonging!BelongingsAssumption /\ Setting!SettingsAssumption /\ Notice!NoticesAssumption /\ Balance!BalancesAssumption
  /\ Listing!ListingsAssumption /\ Shown!ViewsAssumption
BY VenuesAssumption

(* Each component starts where its invariant holds. *)
LEMMA VenuesInit == Init => VenuesInv
<1> SUFFICES ASSUME Init PROVE VenuesInv
  OBVIOUS
<1>1. \/ mode = "Room" /\ Room!Init
      \/ mode = "Event" /\ Event!Init
      \/ mode = "Setting" /\ Setting!Init
      \/ mode = "Clan" /\ Clan!Init
      \/ mode = "Socket" /\ Socket!Init
      \/ mode = "Belonging" /\ Belonging!Init
      \/ mode = "Notice" /\ Notice!Init
      \/ mode = "Balance" /\ Balance!Init
      \/ mode = "Listing" /\ Listing!Init
      \/ mode = "Shown" /\ Shown!Init
      \/ mode = "Feed"
  BY DEF Init
<1>2. CASE mode \in {"Room", "Event", "Setting", "Clan", "Socket", "Belonging"}
  BY <1>1, <1>2, VenuesAssumed, RoomInit, EventInit, SettingInit, SettingTellsFirst, ClanInit, ClanSoundInit, SocketInit, BelongingInit
     DEF VenuesInv
<1>3. CASE mode \in {"Notice", "Balance", "Listing", "Shown", "Feed"}
  BY <1>1, <1>3, VenuesAssumed, NoticeInit, BalanceInit, ListingInit, ShownInit DEF VenuesInv
<1>4. QED
  BY <1>1, <1>2, <1>3

(* A step of one component leaves the others out. *)
LEMMA VenuesStep == ASSUME VenuesInv, Next PROVE VenuesInv'
<1>1. CASE mode = "Room" /\ Room!Next /\ UNCHANGED OffRoom
  <2>1. mode' = mode /\ RoomInv'
    BY <1>1, VenuesAssumed, RoomStep DEF VenuesInv, OffRoom, Room!Next
  <2>2. QED
    BY <1>1, <2>1 DEF VenuesInv
<1>2. CASE mode = "Event" /\ Event!Next /\ UNCHANGED OffEvent
  <2>1. mode' = mode /\ EventInv'
    BY <1>2, VenuesAssumed, EventKept DEF VenuesInv, OffEvent
  <2>2. QED
    BY <1>2, <2>1 DEF VenuesInv
<1>3. CASE mode = "Setting" /\ Setting!Next /\ UNCHANGED OffSetting
  <2>1. mode' = mode /\ SettingSound /\ SettingTold
    BY <1>3 DEF VenuesInv, OffSetting
  <2>2. SettingSound' /\ SettingTold'
    BY <1>3, <2>1, VenuesAssumed, SettingKept, SettingTells
  <2>3. QED
    BY <1>3, <2>1, <2>2 DEF VenuesInv
<1>4. CASE mode = "Clan" /\ Clan!Next /\ UNCHANGED OffClan
  <2>1. mode' = mode /\ ClanInv' /\ ClanSound'
    BY <1>4, VenuesAssumed, ClanKept, ClanSoundKept DEF VenuesInv, OffClan
  <2>2. QED
    BY <1>4, <2>1 DEF VenuesInv
<1>5. CASE mode = "Socket" /\ Socket!Next /\ UNCHANGED OffSocket
  <2>1. mode' = mode /\ SocketInv'
    BY <1>5, VenuesAssumed, SocketKept DEF VenuesInv, OffSocket
  <2>2. QED
    BY <1>5, <2>1 DEF VenuesInv
<1>6. CASE mode = "Belonging" /\ Belonging!Next /\ UNCHANGED OffBelonging
  <2>1. mode' = mode /\ BelongingInv'
    BY <1>6, VenuesAssumed, BelongingKept DEF VenuesInv, OffBelonging
  <2>2. QED
    BY <1>6, <2>1 DEF VenuesInv
<1>7. CASE mode = "Notice" /\ Notice!Next /\ UNCHANGED OffNotice
  <2>1. mode' = mode /\ NoticeInv'
    BY <1>7, VenuesAssumed, NoticeKept DEF VenuesInv, OffNotice
  <2>2. QED
    BY <1>7, <2>1 DEF VenuesInv
<1>8. CASE mode = "Balance" /\ Balance!Next /\ UNCHANGED OffBalance
  <2>1. mode' = mode /\ BalanceInv'
    BY <1>8, VenuesAssumed, BalanceKept DEF VenuesInv, OffBalance
  <2>2. QED
    BY <1>8, <2>1 DEF VenuesInv
<1>9. CASE mode = "Listing" /\ Listing!Next /\ UNCHANGED OffListing
  <2>1. mode' = mode /\ ListingInv'
    BY <1>9, VenuesAssumed, ListingPreserved DEF VenuesInv, OffListing
  <2>2. QED
    BY <1>9, <2>1 DEF VenuesInv
<1>10. CASE mode = "Shown" /\ Shown!Next /\ UNCHANGED OffShown
  <2>1. mode' = mode /\ ShownInv'
    BY <1>10, VenuesAssumed, ShownKept DEF VenuesInv, OffShown
  <2>2. QED
    BY <1>10, <2>1 DEF VenuesInv
<1>11. CASE mode = "Feed" /\ Feed!Next /\ UNCHANGED OffFeed
  BY <1>11 DEF VenuesInv, OffFeed
<1>12. QED
  BY <1>1, <1>2, <1>3, <1>4, <1>5, <1>6, <1>7, <1>8, <1>9, <1>10, <1>11 DEF Next

(* A step that changes nothing. *)
LEMMA VenuesStill == ASSUME VenuesInv, UNCHANGED vars PROVE VenuesInv'
<1>1. mode' = mode /\ (RoomInv => RoomInv')
  BY RoomStill DEF vars
<1>2. (EventInv => EventInv') /\ (SettingSound => SettingSound') /\ (SettingTold => SettingTold')
  BY EventStill, SettingStill, SettingToldStill DEF vars
<1>3. (ClanInv => ClanInv') /\ (ClanSound => ClanSound') /\ (SocketInv => SocketInv') /\ (BelongingInv => BelongingInv')
  BY ClanStill, ClanSoundStill, SocketStill, BelongingRests DEF vars
<1>4. (NoticeInv => NoticeInv') /\ (BalanceInv => BalanceInv')
  BY NoticeStill, BalanceStill DEF vars
<1>5. (ListingInv => ListingInv') /\ (ShownInv => ShownInv')
  BY ListingStill, ShownStill DEF vars
<1>6. QED
  BY <1>1, <1>2, <1>3, <1>4, <1>5 DEF VenuesInv

(* The invariant holds. *)
THEOREM VenuesSafe == Spec => []VenuesInv
<1>1. Init => VenuesInv
  BY VenuesInit
<1>2. VenuesInv /\ [Next]_vars => VenuesInv'
  BY VenuesStep, VenuesStill
<1>3. QED
  BY <1>1, <1>2, PTL DEF Spec

(* Rooms and events count those in them, and hold no more than they may, unless their
   requests crossed; a room's challenge keeps its points (room.service.ts,
   event.service.ts, room-challenge.service.ts). *)
THEOREM VenuesHoldTheirOwn == Spec => []RoomsRight
<1>1. VenuesInv => RoomsRight
  BY VenuesAssumed, RoomHolds, EventHolds, SettingHolds DEF VenuesInv, RoomsRight
<1>2. QED
  BY <1>1, VenuesSafe, PTL

(* Who left a clan is out of it, a user is online while he has a socket, a belonging, a
   group or a room keeps what it was given last, and who is refused has set nothing
   (clan.service.ts, websocket.gateway.ts, store.service.ts, group.service.ts,
   room-settings.service.ts). *)
THEOREM MembersKeepTheirs == Spec => []MembersRight
<1>1. VenuesInv => MembersRight
  BY VenuesAssumed, ClanHolds, SocketHolds, BelongingHolds, SettingHolds DEF VenuesInv, MembersRight
<1>2. QED
  BY <1>1, VenuesSafe, PTL

(* The lists, totals, balances and counts a user is shown are those of the tables, once
   the writes that tell the caches have told (clan.service.ts, notification.service.ts,
   wallet-summary.service.ts, pagination.util.ts, cache.service.ts, group.service.ts,
   hashtag.service.ts). *)
THEOREM ViewsAreTrue == Spec => []ViewsTrue
<1>1. VenuesInv => ViewsTrue
  BY ClanSoundHolds, NoticeHolds, BalanceHolds, ListingHolds, ShownHolds, SettingTellsRight DEF VenuesInv, ViewsTrue
<1>2. QED
  BY <1>1, VenuesSafe, PTL
=============================================================================
