------------------------------ MODULE Presence ------------------------------
(***************************************************************************)
(* The sockets of the users: WebSocketGateway (realtime/gateway).  A       *)
(* socket is in the map of the users online from its handshake, which      *)
(* awaits the verification of its token, to its disconnection.             *)
(***************************************************************************)
EXTENDS Naturals, FiniteSets

CONSTANTS Users, Sockets,
          OwnerOf, \* the user a socket's token names
          Rooms,   \* the rooms a socket may ask for
          None

PresenceAssumption == OwnerOf \in [Sockets -> Users] /\ Users \cap Rooms = {} /\ None \notin Sockets

VARIABLES
    phase,   \* per socket, how far its connection is
    online,  \* connectedUsers: per user, the socket last connected, or None
    places,  \* per socket, the rooms it is in: its user's and those it asked for
    heard,   \* per socket, whose events reached it
    muddled  \* history: users with two sockets at once, or one entered in the map after it
             \* closed, until they connect again with no other open

vars == <<phase, online, places, heard, muddled>>

To(s, p) == phase' = [phase EXCEPT ![s] = p]

Live(s) == phase[s] \notin {"idle", "shut"}
Others(s) == {t \in Sockets \ {s} : OwnerOf[t] = OwnerOf[s] /\ Live(t)}

\* handleConnection awaits the token's verification, enters the map, joins the room.
Connect(s) ==
    /\ phase[s] = "idle" /\ To(s, "verifying")
    /\ muddled' = IF Others(s) # {} THEN muddled \cup {OwnerOf[s]} ELSE muddled
    /\ UNCHANGED <<online, places, heard>>

\* A socket that closed while its token was verified enters the map all the same.
Verified(s) ==
    /\ phase[s] \in {"verifying", "lost"}
    /\ \/ /\ online' = [online EXCEPT ![OwnerOf[s]] = s] /\ To(s, IF phase[s] = "lost" THEN "shut" ELSE "joining")
          /\ muddled' = IF phase[s] = "lost" THEN muddled \cup {OwnerOf[s]}
                        ELSE IF Others(s) = {} THEN muddled \ {OwnerOf[s]} ELSE muddled
       \/ To(s, "shut") /\ UNCHANGED <<online, muddled>>
    /\ UNCHANGED <<places, heard>>

Join(s) ==
    /\ phase[s] = "joining" /\ To(s, "open")
    /\ places' = [places EXCEPT ![s] = {OwnerOf[s]}]
    /\ UNCHANGED <<online, heard, muddled>>

\* Mutant: the user stays in the map.
LeavesOnline(s) == online
\* The user leaves the map with any of his sockets, whichever the map names.
Leaves(s) == [online EXCEPT ![OwnerOf[s]] = None]

Disconnect(s) ==
    /\ phase[s] \in {"verifying", "joining", "open"}
    /\ IF phase[s] = "verifying" THEN To(s, "lost") /\ UNCHANGED online
       ELSE To(s, "shut") /\ online' = Leaves(s)
    /\ places' = [places EXCEPT ![s] = {}] /\ UNCHANGED <<heard, muddled>>

\* join_room and leave_room ask for no membership, only for a handshake that got
\* as far as naming the user.
Named(s) == phase[s] \in {"joining", "open"}
Enter(s, r) == Named(s) /\ places' = [places EXCEPT ![s] = @ \cup {r}] /\ UNCHANGED <<phase, online, heard, muddled>>
Quit(s, r) == Named(s) /\ places' = [places EXCEPT ![s] = @ \ {r}] /\ UNCHANGED <<phase, online, heard, muddled>>

\* Mutant: everybody hears what is sent to one user.
HearersAll(p) == {s \in Sockets : phase[s] = "open"}
Hearers(p) == {s \in Sockets : p \in places[s]}

\* The services and the sockets themselves emit to a user's room or to a room.
Emit(p) ==
    /\ heard' = [s \in Sockets |-> IF s \in Hearers(p) THEN heard[s] \cup {p} ELSE heard[s]]
    /\ UNCHANGED <<phase, online, places, muddled>>

Init ==
    /\ phase = [s \in Sockets |-> "idle"] /\ online = [u \in Users |-> None]
    /\ places = [s \in Sockets |-> {}] /\ heard = [s \in Sockets |-> {}] /\ muddled = {}

Next ==
    \/ \E s \in Sockets : Connect(s) \/ Verified(s) \/ Join(s) \/ Disconnect(s) \/ \E r \in Rooms : Enter(s, r) \/ Quit(s, r)
    \/ \E p \in Users \cup Rooms : Emit(p)
Spec == Init /\ [][Next]_vars

-----------------------------------------------------------------------------
TypeOK ==
    /\ phase \in [Sockets -> {"idle", "verifying", "lost", "joining", "open", "shut"}]
    /\ online \in [Users -> Sockets \cup {None}] /\ muddled \subseteq Users
    /\ places \in [Sockets -> SUBSET (Users \cup Rooms)] /\ heard \in [Sockets -> SUBSET (Users \cup Rooms)]
    /\ \A s \in Sockets : heard[s] \cap Users \subseteq {OwnerOf[s]}

\* isUserOnline says whether a user has a socket, unless he had two at once or closed
\* one in its handshake, and has not connected alone since.
OnlineTrue == \A u \in Users \ muddled : online[u] # None <=> \E s \in Sockets : OwnerOf[s] = u /\ Named(s)
=============================================================================
