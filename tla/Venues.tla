------------------------------- MODULE Venues -------------------------------
(***************************************************************************)
(* Where users meet and what they are shown, side by side: rooms, events,  *)
(* clans, sockets, feeds, notifications, balances, belongings, the paged   *)
(* lists, the answers kept whole and what users set.  One component runs   *)
(* in each behaviour; the variables that two of them name alike are one.   *)
(***************************************************************************)
EXTENDS Naturals, Sequences, FiniteSets

CONSTANTS
    Users,                                     \* of all but the next three
    RoomUsers, RoomHost, RoomRequests, MaxParticipants,
    EventUsers, Creator, Limits,
    ClanUsers, MaxClans, MaxMemberships,
    Sockets, OwnerOf, SocketRooms,
    Walls, Ties, FeedRequests, MaxLimit, MaxPerAuthor, MaxFeedMoves, TouchedPosts,
    MaxNotes,
    Moves, MaxMoneyMoves,                      \* of the balances
    Photos, AlbumOf, Lifetime, MaxTime,        \* of the belongings
    Walkers, Size, MaxRows, MaxChanges,        \* of the paged lists
    MaxWrites, MaxWorth,                       \* of the answers kept whole
    Host, SettingRequests, CallsOn, MaxMemberMoves,
    Calls,                                     \* of rooms, events, clans and settings
    FewCalls,                                  \* of the rest
    None

VARIABLES
    mode, \* the component that runs
    status, part, n, seat, locked, black, call, pc, seen, raced, crowded, closed, event, going, ask, at, rushed,
    clans, rows, made, all, cached, got, torn, cut, left, ranked, phase, online, places, heard, muddled, wall,
    friends, follows, likes, pages, moves, circle, answer, current, notes, last, lists, pushed, table, told,
    silent, met, row, photo, story, clock, said, mixed, list, there, shown, changes, kept, fresh, owed, page,
    steady, since, clean, short, aged, view, now, entry, inner, front, writes, sure, subject, role, active, sits,
    alive, set, challenge, views, granted, crossed, wrote

Room == INSTANCE Rooms WITH Users <- RoomUsers, Host <- RoomHost, Requests <- RoomRequests
Event == INSTANCE Events WITH Users <- EventUsers
Clan == INSTANCE Clans WITH Users <- ClanUsers, MaxRows <- MaxMemberships
Socket == INSTANCE Presence WITH Rooms <- SocketRooms
Feed == INSTANCE Feeds WITH Calls <- FewCalls, Requests <- FeedRequests, MaxMoves <- MaxFeedMoves, Touched <- TouchedPosts
Notice == INSTANCE Notices WITH Calls <- FewCalls
Balance == INSTANCE Balances WITH Calls <- FewCalls, MaxMoves <- MaxMoneyMoves
Belonging == INSTANCE Belongings WITH Calls <- FewCalls
Listing == INSTANCE Listings
Shown == INSTANCE Views WITH Calls <- FewCalls
Setting == INSTANCE Settings WITH Requests <- SettingRequests, MaxMoves <- MaxMemberMoves

OffRoom == <<mode, event, going, ask, at, rushed, clans, rows, made, all, cached, got, torn, cut, left, ranked, phase,
    online, places, heard, muddled, wall, friends, follows, likes, pages, moves, circle, answer, current, notes,
    last, lists, pushed, table, told, silent, met, row, photo, story, clock, said, mixed, list, there, shown,
    changes, kept, fresh, owed, page, steady, since, clean, short, aged, view, now, entry, inner, front, writes,
    sure, subject, role, active, sits, alive, set, challenge, views, granted, crossed, wrote>>
OffEvent == <<mode, status, part, n, seat, locked, black, call, pc, seen, raced, crowded, closed, clans, rows, made, all,
    cached, got, torn, cut, left, ranked, phase, online, places, heard, muddled, wall, friends, follows, likes,
    pages, moves, circle, answer, current, notes, last, lists, pushed, table, told, silent, met, row, photo,
    story, clock, said, mixed, list, there, shown, changes, kept, fresh, owed, page, steady, since, clean, short,
    aged, view, now, entry, inner, front, writes, sure, subject, role, active, sits, alive, set, challenge,
    views, granted, crossed, wrote>>
OffClan == <<mode, status, part, n, seat, locked, black, call, pc, seen, raced, crowded, closed, event, going, rushed,
    phase, online, places, heard, muddled, wall, friends, follows, likes, pages, moves, circle, answer, current,
    notes, last, lists, pushed, table, told, silent, met, row, photo, story, clock, said, mixed, list, there,
    shown, changes, kept, fresh, owed, page, steady, since, clean, short, aged, view, now, entry, inner, front,
    writes, sure, subject, role, active, sits, alive, set, challenge, views, granted, crossed, wrote>>
OffSocket == <<mode, status, part, n, seat, locked, black, call, pc, seen, raced, crowded, closed, event, going, ask, at,
    rushed, clans, rows, made, all, cached, got, torn, cut, left, ranked, wall, friends, follows, likes, pages,
    moves, circle, answer, current, notes, last, lists, pushed, table, told, silent, met, row, photo, story,
    clock, said, mixed, list, there, shown, changes, kept, fresh, owed, page, steady, since, clean, short, aged,
    view, now, entry, inner, front, writes, sure, subject, role, active, sits, alive, set, challenge, views,
    granted, crossed, wrote>>
OffFeed == <<mode, status, part, n, seat, locked, black, call, pc, seen, raced, crowded, closed, event, going, rushed,
    clans, rows, made, all, cached, got, torn, cut, left, ranked, phase, online, places, heard, muddled, notes,
    last, lists, pushed, table, told, silent, met, row, photo, story, clock, said, mixed, list, there, shown,
    changes, kept, fresh, owed, page, steady, since, clean, short, aged, view, now, entry, inner, front, writes,
    sure, subject, role, active, sits, alive, set, challenge, views, granted, crossed, wrote>>
OffNotice == <<mode, status, part, n, seat, locked, black, call, pc, seen, raced, crowded, closed, event, going, rushed,
    clans, rows, made, all, cached, cut, left, ranked, phase, online, places, heard, muddled, wall, friends,
    follows, likes, pages, moves, circle, answer, current, table, told, silent, met, row, photo, story, clock,
    said, mixed, list, there, shown, changes, kept, fresh, owed, page, steady, since, clean, short, aged, view,
    now, entry, inner, front, writes, sure, subject, role, active, sits, alive, set, challenge, views, granted,
    crossed, wrote>>
OffBalance == <<mode, status, part, n, seat, locked, black, call, pc, seen, raced, crowded, closed, event, going, rushed,
    clans, rows, made, all, cached, left, ranked, phase, online, places, heard, muddled, wall, friends, follows,
    likes, pages, moves, circle, answer, current, notes, last, lists, pushed, row, photo, story, clock, said,
    mixed, list, there, shown, changes, kept, fresh, owed, page, steady, since, clean, short, aged, view, now,
    entry, inner, front, writes, sure, subject, role, active, sits, alive, set, challenge, views, granted,
    crossed, wrote>>
OffBelonging == <<mode, status, part, n, seat, locked, black, call, pc, seen, raced, crowded, closed, event, going, rushed,
    clans, rows, made, all, cached, torn, cut, left, ranked, phase, online, places, heard, muddled, wall,
    friends, follows, likes, pages, moves, circle, answer, current, notes, last, lists, pushed, table, told,
    silent, met, list, there, shown, changes, kept, fresh, owed, page, steady, since, clean, short, aged, view,
    now, entry, inner, front, writes, sure, subject, role, active, sits, alive, set, challenge, views, granted,
    crossed, wrote>>
OffListing == <<mode, status, part, n, seat, locked, black, call, pc, seen, raced, crowded, closed, event, going, ask,
    rushed, clans, made, all, cached, torn, cut, left, ranked, phase, online, places, heard, muddled, wall,
    friends, follows, likes, pages, moves, circle, answer, current, notes, last, lists, pushed, table, silent,
    met, row, photo, story, clock, said, mixed, view, now, entry, inner, front, writes, sure, subject, role,
    active, sits, alive, set, challenge, views, granted, crossed, wrote>>
OffShown == <<mode, status, n, seat, locked, black, call, seen, raced, crowded, closed, event, going, ask, at, rushed,
    clans, rows, made, all, cached, torn, cut, left, ranked, phase, online, places, heard, muddled, wall,
    friends, follows, likes, pages, moves, circle, answer, current, notes, last, lists, pushed, table, told,
    silent, met, row, photo, story, clock, said, mixed, list, there, shown, changes, kept, fresh, owed, page,
    steady, since, short, aged, subject, role, active, sits, alive, set, challenge, views, granted, crossed, wrote>>
OffSetting == <<mode, status, part, n, locked, black, call, pc, seen, raced, crowded, closed, event, going, rushed, clans,
    rows, made, all, cached, torn, cut, left, ranked, phase, online, places, heard, muddled, wall, friends,
    likes, pages, circle, current, notes, last, lists, pushed, table, told, silent, met, row, photo, story,
    clock, list, there, shown, changes, kept, fresh, owed, page, steady, since, clean, short, aged, view, now,
    entry, inner, front, writes, sure>>

Init ==
    \/ /\ mode = "Room" /\ Room!Init
       /\ event = None /\ going = None /\ ask = None /\ at = None /\ rushed = None /\ clans = None /\ rows = None /\ made = None /\ all = None
       /\ cached = None /\ got = None /\ torn = None /\ cut = None /\ left = None /\ ranked = None /\ phase = None /\ online = None /\ places = None
       /\ heard = None /\ muddled = None /\ wall = None /\ friends = None /\ follows = None /\ likes = None /\ pages = None /\ moves = None /\ circle = None
       /\ answer = None /\ current = None /\ notes = None /\ last = None /\ lists = None /\ pushed = None /\ table = None /\ told = None /\ silent = None
       /\ met = None /\ row = None /\ photo = None /\ story = None /\ clock = None /\ said = None /\ mixed = None /\ list = None /\ there = None
       /\ shown = None /\ changes = None /\ kept = None /\ fresh = None /\ owed = None /\ page = None /\ steady = None /\ since = None /\ clean = None
       /\ short = None /\ aged = None /\ view = None /\ now = None /\ entry = None /\ inner = None /\ front = None /\ writes = None /\ sure = None
       /\ subject = None /\ role = None /\ active = None /\ sits = None /\ alive = None /\ set = None /\ challenge = None /\ views = None /\ granted = None
       /\ crossed = None /\ wrote = None
    \/ /\ mode = "Event" /\ Event!Init
       /\ status = None /\ part = None /\ n = None /\ seat = None /\ locked = None /\ black = None /\ call = None /\ pc = None /\ seen = None
       /\ raced = None /\ crowded = None /\ closed = None /\ clans = None /\ rows = None /\ made = None /\ all = None /\ cached = None /\ got = None
       /\ torn = None /\ cut = None /\ left = None /\ ranked = None /\ phase = None /\ online = None /\ places = None /\ heard = None /\ muddled = None
       /\ wall = None /\ friends = None /\ follows = None /\ likes = None /\ pages = None /\ moves = None /\ circle = None /\ answer = None /\ current = None
       /\ notes = None /\ last = None /\ lists = None /\ pushed = None /\ table = None /\ told = None /\ silent = None /\ met = None /\ row = None
       /\ photo = None /\ story = None /\ clock = None /\ said = None /\ mixed = None /\ list = None /\ there = None /\ shown = None /\ changes = None
       /\ kept = None /\ fresh = None /\ owed = None /\ page = None /\ steady = None /\ since = None /\ clean = None /\ short = None /\ aged = None
       /\ view = None /\ now = None /\ entry = None /\ inner = None /\ front = None /\ writes = None /\ sure = None /\ subject = None /\ role = None
       /\ active = None /\ sits = None /\ alive = None /\ set = None /\ challenge = None /\ views = None /\ granted = None /\ crossed = None /\ wrote = None
    \/ /\ mode = "Clan" /\ Clan!Init
       /\ status = None /\ part = None /\ n = None /\ seat = None /\ locked = None /\ black = None /\ call = None /\ pc = None /\ seen = None
       /\ raced = None /\ crowded = None /\ closed = None /\ event = None /\ going = None /\ rushed = None /\ phase = None /\ online = None /\ places = None
       /\ heard = None /\ muddled = None /\ wall = None /\ friends = None /\ follows = None /\ likes = None /\ pages = None /\ moves = None /\ circle = None
       /\ answer = None /\ current = None /\ notes = None /\ last = None /\ lists = None /\ pushed = None /\ table = None /\ told = None /\ silent = None
       /\ met = None /\ row = None /\ photo = None /\ story = None /\ clock = None /\ said = None /\ mixed = None /\ list = None /\ there = None
       /\ shown = None /\ changes = None /\ kept = None /\ fresh = None /\ owed = None /\ page = None /\ steady = None /\ since = None /\ clean = None
       /\ short = None /\ aged = None /\ view = None /\ now = None /\ entry = None /\ inner = None /\ front = None /\ writes = None /\ sure = None
       /\ subject = None /\ role = None /\ active = None /\ sits = None /\ alive = None /\ set = None /\ challenge = None /\ views = None /\ granted = None
       /\ crossed = None /\ wrote = None
    \/ /\ mode = "Socket" /\ Socket!Init
       /\ status = None /\ part = None /\ n = None /\ seat = None /\ locked = None /\ black = None /\ call = None /\ pc = None /\ seen = None
       /\ raced = None /\ crowded = None /\ closed = None /\ event = None /\ going = None /\ ask = None /\ at = None /\ rushed = None /\ clans = None
       /\ rows = None /\ made = None /\ all = None /\ cached = None /\ got = None /\ torn = None /\ cut = None /\ left = None /\ ranked = None
       /\ wall = None /\ friends = None /\ follows = None /\ likes = None /\ pages = None /\ moves = None /\ circle = None /\ answer = None /\ current = None
       /\ notes = None /\ last = None /\ lists = None /\ pushed = None /\ table = None /\ told = None /\ silent = None /\ met = None /\ row = None
       /\ photo = None /\ story = None /\ clock = None /\ said = None /\ mixed = None /\ list = None /\ there = None /\ shown = None /\ changes = None
       /\ kept = None /\ fresh = None /\ owed = None /\ page = None /\ steady = None /\ since = None /\ clean = None /\ short = None /\ aged = None
       /\ view = None /\ now = None /\ entry = None /\ inner = None /\ front = None /\ writes = None /\ sure = None /\ subject = None /\ role = None
       /\ active = None /\ sits = None /\ alive = None /\ set = None /\ challenge = None /\ views = None /\ granted = None /\ crossed = None /\ wrote = None
    \/ /\ mode = "Feed" /\ Feed!Init
       /\ status = None /\ part = None /\ n = None /\ seat = None /\ locked = None /\ black = None /\ call = None /\ pc = None /\ seen = None
       /\ raced = None /\ crowded = None /\ closed = None /\ event = None /\ going = None /\ rushed = None /\ clans = None /\ rows = None /\ made = None
       /\ all = None /\ cached = None /\ got = None /\ torn = None /\ cut = None /\ left = None /\ ranked = None /\ phase = None /\ online = None
       /\ places = None /\ heard = None /\ muddled = None /\ notes = None /\ last = None /\ lists = None /\ pushed = None /\ table = None /\ told = None
       /\ silent = None /\ met = None /\ row = None /\ photo = None /\ story = None /\ clock = None /\ said = None /\ mixed = None /\ list = None
       /\ there = None /\ shown = None /\ changes = None /\ kept = None /\ fresh = None /\ owed = None /\ page = None /\ steady = None /\ since = None
       /\ clean = None /\ short = None /\ aged = None /\ view = None /\ now = None /\ entry = None /\ inner = None /\ front = None /\ writes = None
       /\ sure = None /\ subject = None /\ role = None /\ active = None /\ sits = None /\ alive = None /\ set = None /\ challenge = None /\ views = None
       /\ granted = None /\ crossed = None /\ wrote = None
    \/ /\ mode = "Notice" /\ Notice!Init
       /\ status = None /\ part = None /\ n = None /\ seat = None /\ locked = None /\ black = None /\ call = None /\ pc = None /\ seen = None
       /\ raced = None /\ crowded = None /\ closed = None /\ event = None /\ going = None /\ rushed = None /\ clans = None /\ rows = None /\ made = None
       /\ all = None /\ cached = None /\ cut = None /\ left = None /\ ranked = None /\ phase = None /\ online = None /\ places = None /\ heard = None
       /\ muddled = None /\ wall = None /\ friends = None /\ follows = None /\ likes = None /\ pages = None /\ moves = None /\ circle = None /\ answer = None
       /\ current = None /\ table = None /\ told = None /\ silent = None /\ met = None /\ row = None /\ photo = None /\ story = None /\ clock = None
       /\ said = None /\ mixed = None /\ list = None /\ there = None /\ shown = None /\ changes = None /\ kept = None /\ fresh = None /\ owed = None
       /\ page = None /\ steady = None /\ since = None /\ clean = None /\ short = None /\ aged = None /\ view = None /\ now = None /\ entry = None
       /\ inner = None /\ front = None /\ writes = None /\ sure = None /\ subject = None /\ role = None /\ active = None /\ sits = None /\ alive = None
       /\ set = None /\ challenge = None /\ views = None /\ granted = None /\ crossed = None /\ wrote = None
    \/ /\ mode = "Balance" /\ Balance!Init
       /\ status = None /\ part = None /\ n = None /\ seat = None /\ locked = None /\ black = None /\ call = None /\ pc = None /\ seen = None
       /\ raced = None /\ crowded = None /\ closed = None /\ event = None /\ going = None /\ rushed = None /\ clans = None /\ rows = None /\ made = None
       /\ all = None /\ cached = None /\ left = None /\ ranked = None /\ phase = None /\ online = None /\ places = None /\ heard = None /\ muddled = None
       /\ wall = None /\ friends = None /\ follows = None /\ likes = None /\ pages = None /\ moves = None /\ circle = None /\ answer = None /\ current = None
       /\ notes = None /\ last = None /\ lists = None /\ pushed = None /\ row = None /\ photo = None /\ story = None /\ clock = None /\ said = None
       /\ mixed = None /\ list = None /\ there = None /\ shown = None /\ changes = None /\ kept = None /\ fresh = None /\ owed = None /\ page = None
       /\ steady = None /\ since = None /\ clean = None /\ short = None /\ aged = None /\ view = None /\ now = None /\ entry = None /\ inner = None
       /\ front = None /\ writes = None /\ sure = None /\ subject = None /\ role = None /\ active = None /\ sits = None /\ alive = None /\ set = None
       /\ challenge = None /\ views = None /\ granted = None /\ crossed = None /\ wrote = None
    \/ /\ mode = "Belonging" /\ Belonging!Init
       /\ status = None /\ part = None /\ n = None /\ seat = None /\ locked = None /\ black = None /\ call = None /\ pc = None /\ seen = None
       /\ raced = None /\ crowded = None /\ closed = None /\ event = None /\ going = None /\ rushed = None /\ clans = None /\ rows = None /\ made = None
       /\ all = None /\ cached = None /\ torn = None /\ cut = None /\ left = None /\ ranked = None /\ phase = None /\ online = None /\ places = None
       /\ heard = None /\ muddled = None /\ wall = None /\ friends = None /\ follows = None /\ likes = None /\ pages = None /\ moves = None /\ circle = None
       /\ answer = None /\ current = None /\ notes = None /\ last = None /\ lists = None /\ pushed = None /\ table = None /\ told = None /\ silent = None
       /\ met = None /\ list = None /\ there = None /\ shown = None /\ changes = None /\ kept = None /\ fresh = None /\ owed = None /\ page = None
       /\ steady = None /\ since = None /\ clean = None /\ short = None /\ aged = None /\ view = None /\ now = None /\ entry = None /\ inner = None
       /\ front = None /\ writes = None /\ sure = None /\ subject = None /\ role = None /\ active = None /\ sits = None /\ alive = None /\ set = None
       /\ challenge = None /\ views = None /\ granted = None /\ crossed = None /\ wrote = None
    \/ /\ mode = "Listing" /\ Listing!Init
       /\ status = None /\ part = None /\ n = None /\ seat = None /\ locked = None /\ black = None /\ call = None /\ pc = None /\ seen = None
       /\ raced = None /\ crowded = None /\ closed = None /\ event = None /\ going = None /\ ask = None /\ rushed = None /\ clans = None /\ made = None
       /\ all = None /\ cached = None /\ torn = None /\ cut = None /\ left = None /\ ranked = None /\ phase = None /\ online = None /\ places = None
       /\ heard = None /\ muddled = None /\ wall = None /\ friends = None /\ follows = None /\ likes = None /\ pages = None /\ moves = None /\ circle = None
       /\ answer = None /\ current = None /\ notes = None /\ last = None /\ lists = None /\ pushed = None /\ table = None /\ silent = None /\ met = None
       /\ row = None /\ photo = None /\ story = None /\ clock = None /\ said = None /\ mixed = None /\ view = None /\ now = None /\ entry = None
       /\ inner = None /\ front = None /\ writes = None /\ sure = None /\ subject = None /\ role = None /\ active = None /\ sits = None /\ alive = None
       /\ set = None /\ challenge = None /\ views = None /\ granted = None /\ crossed = None /\ wrote = None
    \/ /\ mode = "Shown" /\ Shown!Init
       /\ status = None /\ n = None /\ seat = None /\ locked = None /\ black = None /\ call = None /\ seen = None /\ raced = None /\ crowded = None
       /\ closed = None /\ event = None /\ going = None /\ ask = None /\ at = None /\ rushed = None /\ clans = None /\ rows = None /\ made = None
       /\ all = None /\ cached = None /\ torn = None /\ cut = None /\ left = None /\ ranked = None /\ phase = None /\ online = None /\ places = None
       /\ heard = None /\ muddled = None /\ wall = None /\ friends = None /\ follows = None /\ likes = None /\ pages = None /\ moves = None /\ circle = None
       /\ answer = None /\ current = None /\ notes = None /\ last = None /\ lists = None /\ pushed = None /\ table = None /\ told = None /\ silent = None
       /\ met = None /\ row = None /\ photo = None /\ story = None /\ clock = None /\ said = None /\ mixed = None /\ list = None /\ there = None
       /\ shown = None /\ changes = None /\ kept = None /\ fresh = None /\ owed = None /\ page = None /\ steady = None /\ since = None /\ short = None
       /\ aged = None /\ subject = None /\ role = None /\ active = None /\ sits = None /\ alive = None /\ set = None /\ challenge = None /\ views = None
       /\ granted = None /\ crossed = None /\ wrote = None
    \/ /\ mode = "Setting" /\ Setting!Init
       /\ status = None /\ part = None /\ n = None /\ locked = None /\ black = None /\ call = None /\ pc = None /\ seen = None /\ raced = None
       /\ crowded = None /\ closed = None /\ event = None /\ going = None /\ rushed = None /\ clans = None /\ rows = None /\ made = None /\ all = None
       /\ cached = None /\ torn = None /\ cut = None /\ left = None /\ ranked = None /\ phase = None /\ online = None /\ places = None /\ heard = None
       /\ muddled = None /\ wall = None /\ friends = None /\ likes = None /\ pages = None /\ circle = None /\ current = None /\ notes = None /\ last = None
       /\ lists = None /\ pushed = None /\ table = None /\ told = None /\ silent = None /\ met = None /\ row = None /\ photo = None /\ story = None
       /\ clock = None /\ list = None /\ there = None /\ shown = None /\ changes = None /\ kept = None /\ fresh = None /\ owed = None /\ page = None
       /\ steady = None /\ since = None /\ clean = None /\ short = None /\ aged = None /\ view = None /\ now = None /\ entry = None /\ inner = None
       /\ front = None /\ writes = None /\ sure = None

Next ==
    \/ mode = "Room" /\ Room!Next /\ UNCHANGED OffRoom
    \/ mode = "Event" /\ Event!Next /\ UNCHANGED OffEvent
    \/ mode = "Clan" /\ Clan!Next /\ UNCHANGED OffClan
    \/ mode = "Socket" /\ Socket!Next /\ UNCHANGED OffSocket
    \/ mode = "Feed" /\ Feed!Next /\ UNCHANGED OffFeed
    \/ mode = "Notice" /\ Notice!Next /\ UNCHANGED OffNotice
    \/ mode = "Balance" /\ Balance!Next /\ UNCHANGED OffBalance
    \/ mode = "Belonging" /\ Belonging!Next /\ UNCHANGED OffBelonging
    \/ mode = "Listing" /\ Listing!Next /\ UNCHANGED OffListing
    \/ mode = "Shown" /\ Shown!Next /\ UNCHANGED OffShown
    \/ mode = "Setting" /\ Setting!Next /\ UNCHANGED OffSetting

vars == <<mode, status, part, n, seat, locked, black, call, pc, seen, raced, crowded, closed, event, going, ask, at,
          rushed, clans, rows, made, all, cached, got, torn, cut, left, ranked, phase, online, places, heard, muddled,
          wall, friends, follows, likes, pages, moves, circle, answer, current, notes, last, lists, pushed, table,
          told, silent, met, row, photo, story, clock, said, mixed, list, there, shown, changes, kept, fresh, owed,
          page, steady, since, clean, short, aged, view, now, entry, inner, front, writes, sure, subject, role, active,
          sits, alive, set, challenge, views, granted, crossed, wrote>>
Spec == Init /\ [][Next]_vars

ASSUME VenuesAssumption ==
    /\ Room!RoomsAssumption /\ Event!EventsAssumption /\ Clan!ClansAssumption /\ Socket!PresenceAssumption
    /\ Feed!FeedsAssumption /\ Notice!NoticesAssumption /\ Balance!BalancesAssumption /\ Belonging!BelongingsAssumption
    /\ Listing!ListingsAssumption /\ Shown!ViewsAssumption /\ Setting!SettingsAssumption

TypeOK ==
    /\ mode = "Room" => Room!TypeOK
    /\ mode = "Event" => Event!TypeOK
    /\ mode = "Clan" => Clan!TypeOK
    /\ mode = "Socket" => Socket!TypeOK
    /\ mode = "Feed" => Feed!TypeOK
    /\ mode = "Notice" => Notice!TypeOK
    /\ mode = "Balance" => Balance!TypeOK
    /\ mode = "Belonging" => Belonging!TypeOK
    /\ mode = "Listing" => Listing!TypeOK
    /\ mode = "Shown" => Shown!TypeOK
    /\ mode = "Setting" => Setting!TypeOK

\* Rooms and events count those in them, and hold no more than they may; a room's
\* challenge keeps its points (room.service.ts, event.service.ts,
\* room-challenge.service.ts).
RoomsRight ==
    /\ mode = "Room" => Room!CountedRight /\ Room!NotOverfull
    /\ mode = "Event" => Event!EventNotOverfull
    /\ mode = "Setting" => Setting!PointsKept

\* A clan is left for good, a user is online while he has a socket, and a belonging
\* keeps what it was given last, as does a group or a room; who is refused has set
\* nothing (clan.service.ts, websocket.gateway.ts, store.service.ts, group.service.ts,
\* room-settings.service.ts).
MembersRight ==
    /\ mode = "Clan" => Clan!LeftIsOut
    /\ mode = "Socket" => Socket!OnlineTrue
    /\ mode = "Belonging" => Belonging!LastGivenKept
    /\ mode = "Setting" => Setting!SettingsHold /\ Setting!RefusedWroteNothing

\* A page of a feed has the posts of its place, in order, none that its viewer may
\* not read (friends-feed.service.ts, latest-feed.service.ts, community-feed.service.ts);
\* walking through the pages of a list tells each of its rows, and tells it once
\* (pagination.util.ts and the services that page); a level is the one its total falls
\* in (user-gift-wall.service.ts, user-level.service.ts).
ComputedRight ==
    /\ mode = "Feed" => Feed!FeedRight /\ Feed!FeedPrivate
    /\ mode = "Listing" => Listing!NothingTwice /\ Listing!NothingMissed
    /\ mode = "Shown" => Shown!LevelsRight

\* The lists, totals, balances and counts a user is shown are those of the tables
\* (clan.service.ts, notification.service.ts, wallet-summary.service.ts,
\* pagination.util.ts, cache.service.ts, group.service.ts, hashtag.service.ts).
ViewsTrue ==
    /\ mode = "Clan" => Clan!ClansCurrent
    /\ mode = "Notice" => Notice!NoticesCurrent
    /\ mode = "Balance" => Balance!BalancesCurrent /\ Balance!AnswersGiven
    /\ mode = "Listing" => Listing!TotalTold
    /\ mode = "Shown" => Shown!EntriesTrue
    /\ mode = "Setting" => Setting!CountsAdd /\ Setting!ViewsDiffer
=============================================================================
