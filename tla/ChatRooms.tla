------------------------------ MODULE ChatRooms ------------------------------
(***************************************************************************)
(* The rooms of the chat example and their messages: session.rs,           *)
(* room_supervisor.rs, room.rs of examples/chat/src.  Sessions join one    *)
(* room of a node, which the first of them creates; the room keeps the     *)
(* last messages, and a session fetches them after it joined the group.    *)
(***************************************************************************)
EXTENDS Naturals, Sequences, Functions

CONSTANTS
    User,           \* the sessions
    MaxHistory,     \* MAX_HISTORY
    MaxRooms,       \* bound: room processes ever started
    MaxMessages,    \* bound: messages sent
    MaxVisits       \* bound: joins

ASSUME RoomsAssumption == MaxHistory \in Nat /\ MaxRooms \in Nat

RoomProc == 1 .. MaxRooms
NoRoom == 0

VARIABLES
    rooms,      \* the room processes that run
    supervised, \* children of the room supervisor
    roomName,   \* global: the process registered as "room:<name>"
    history,    \* RoomState::history of each room process
    roomQueue,  \* its mailbox: <<"store", message>> or <<"get", session, its visit>>
    busy,       \* what a session is in the middle of, with the room found and the message sent
    present,    \* members of the group, which are the sessions that joined
    shown,      \* history: the messages each client sees, in its mailbox already or in a history
    gaveUp,     \* history: sessions whose GetHistory timed out
    started, sent, visits

roomVars == <<rooms, supervised, roomName, history, roomQueue, busy, present, shown, gaveUp, started, sent, visits>>

RoomSteps == {"idle", "create", "register", "terminate", "join", "ask", "fetch", "broadcast"}
IdleUser == [step |-> "idle", room |-> NoRoom, message |-> 0, visit |-> 0]

RoomInit ==
    /\ rooms = {} /\ supervised = {}
    /\ roomName = NoRoom
    /\ history = [r \in RoomProc |-> <<>>]
    /\ roomQueue = [r \in RoomProc |-> <<>>]
    /\ busy = [u \in User |-> IdleUser]
    /\ present = {}
    /\ shown = [u \in User |-> {}]
    /\ gaveUp = {}
    /\ started = 0 /\ sent = 0 /\ visits = 0

RoomTypeOK ==
    /\ rooms \subseteq 1 .. started /\ supervised \subseteq rooms
    /\ roomName \in rooms \cup {NoRoom}
    /\ \A r \in RoomProc : Range(history[r]) \subseteq 1 .. sent /\ Len(history[r]) <= MaxHistory
    /\ \A u \in User : busy[u].step \in RoomSteps /\ busy[u].room \in rooms \cup {NoRoom}
    /\ present \cup gaveUp \subseteq User
    /\ \A u \in User : shown[u] \subseteq 1 .. sent

-----------------------------------------------------------------------------
At(u, step) == busy[u].step = step
StepsTo(u, step) == busy' = [busy EXCEPT ![u].step = step]
Ends(u) == busy' = [busy EXCEPT ![u] = IdleUser]

\* handle_join: get_or_create_room looks the name up first.
JoinRoom(u) ==
    /\ At(u, "idle")
    /\ u \notin present
    /\ visits < MaxVisits
    /\ visits' = visits + 1
    /\ busy' = [busy EXCEPT ![u] = [@ EXCEPT !.step = IF roomName = NoRoom THEN "create" ELSE "join",
                                             !.room = roomName, !.visit = visits']]
    /\ UNCHANGED <<rooms, supervised, roomName, history, roomQueue, present, shown, gaveUp, started, sent>>

\* start_room: a child of the supervisor, awaited.
StartRoom(u) ==
    /\ At(u, "create")
    /\ started < MaxRooms
    /\ started' = started + 1
    /\ rooms' = rooms \cup {started'}
    /\ supervised' = supervised \cup {started'}
    /\ busy' = [busy EXCEPT ![u].step = "register", ![u].room = started']
    /\ UNCHANGED <<roomName, history, roomQueue, present, shown, gaveUp, sent,
                   visits>>

\* global::register: false if the name is taken, and then the existing room is used.
RegisterRoom(u) ==
    /\ At(u, "register")
    /\ IF roomName = NoRoom
       THEN roomName' = busy[u].room /\ StepsTo(u, "join")
       ELSE UNCHANGED roomName /\ StepsTo(u, "terminate")
    /\ UNCHANGED <<rooms, supervised, history, roomQueue, present, shown, gaveUp,
                   started, sent, visits>>

\* terminate_room: no child any more, and sent Shutdown, which ends no process that traps no exits.
TerminateRoom(u) ==
    /\ At(u, "terminate")
    /\ supervised' = supervised \ {busy[u].room}
    /\ busy' = [busy EXCEPT ![u].step = "join", ![u].room = roomName]
    /\ UNCHANGED <<rooms, roomName, history, roomQueue, present, shown, gaveUp,
                   started, sent, visits>>

\* ChannelServer::handle_join: the session joins the group once RoomChannel::join is over.
JoinChannel(u) ==
    /\ At(u, "join")
    /\ present' = present \cup {u}
    /\ StepsTo(u, "ask")
    /\ UNCHANGED <<rooms, supervised, roomName, history, roomQueue, shown, gaveUp, started, sent,
                   visits>>

\* Then it calls GetHistory.
GetHistory(u) ==
    /\ At(u, "ask")
    /\ StepsTo(u, "fetch")
    /\ roomQueue' = [roomQueue EXCEPT ![busy[u].room] = Append(@, <<"get", u, busy[u].visit>>)]
    /\ UNCHANGED <<rooms, supervised, roomName, history, present, shown, gaveUp, started, sent, visits>>

\* No answer in five seconds: the client gets no history; the room will answer later.
GiveUp(u) ==
    /\ At(u, "fetch")
    /\ gaveUp' = gaveUp \cup {u}
    /\ Ends(u)
    /\ UNCHANGED <<rooms, supervised, roomName, history, roomQueue, present, shown, started, sent, visits>>

\* handle_leave.
LeaveRoom(u) ==
    /\ At(u, "idle")
    /\ u \in present
    /\ present' = present \ {u}
    /\ UNCHANGED <<rooms, supervised, roomName, history, roomQueue, busy, shown,
                   gaveUp, started, sent, visits>>

\* handle_msg: a cast to the room, then the broadcast to the group.
StoreMessage(u) ==
    /\ At(u, "idle")
    /\ u \in present
    /\ sent < MaxMessages
    /\ sent' = sent + 1
    /\ roomQueue' = [roomQueue EXCEPT ![roomName] = Append(@, <<"store", sent'>>)]
    /\ busy' = [busy EXCEPT ![u].step = "broadcast", ![u].message = sent']
    /\ UNCHANGED <<rooms, supervised, roomName, history, present, shown, gaveUp,
                   started, visits>>

BroadcastMessage(u) ==
    /\ At(u, "broadcast")
    /\ shown' = [v \in User |-> IF v \in present THEN shown[v] \cup {busy[u].message} ELSE shown[v]]
    /\ Ends(u)
    /\ UNCHANGED <<rooms, supervised, roomName, history, roomQueue, present, gaveUp, started, sent,
                   visits>>

-----------------------------------------------------------------------------
\* The room: a GenServer.  handle_cast trims the history.  Variants: not, or from the wrong end.
Untrimmed(messages) == messages
TrimmedAtEnd(messages) ==
    IF Len(messages) > MaxHistory THEN SubSeq(messages, 1, MaxHistory) ELSE messages
Trimmed(messages) == IF Len(messages) > MaxHistory THEN Tail(messages) ELSE messages

HandleStore(r) ==
    /\ roomQueue[r] # <<>>
    /\ Head(roomQueue[r])[1] = "store"
    /\ history' = [history EXCEPT ![r] = Trimmed(Append(@, Head(roomQueue[r])[2]))]
    /\ roomQueue' = [roomQueue EXCEPT ![r] = Tail(@)]
    /\ UNCHANGED <<rooms, supervised, roomName, busy, present, shown, gaveUp,
                   started, sent, visits>>

HandleGetHistory(r) ==
    LET u == Head(roomQueue[r])[2]
    IN /\ roomQueue[r] # <<>>
       /\ Head(roomQueue[r])[1] = "get"
       /\ roomQueue' = [roomQueue EXCEPT ![r] = Tail(@)]
       /\ IF At(u, "fetch") /\ busy[u].visit = Head(roomQueue[r])[3]
          THEN shown' = [shown EXCEPT ![u] = @ \cup Range(history[r])] /\ Ends(u)
          ELSE UNCHANGED <<shown, busy>>
       /\ UNCHANGED <<rooms, supervised, roomName, history, present, gaveUp, started, sent, visits>>

RoomNext ==
    \/ \E u \in User :
          \/ JoinRoom(u) \/ StartRoom(u) \/ RegisterRoom(u) \/ TerminateRoom(u) \/ JoinChannel(u)
          \/ GetHistory(u) \/ GiveUp(u) \/ LeaveRoom(u)
          \/ StoreMessage(u) \/ BroadcastMessage(u)
    \/ \E r \in RoomProc : HandleStore(r) \/ HandleGetHistory(r)

-----------------------------------------------------------------------------
(***************************************************************************)
(* Between the history and the live messages nothing falls: a user in the  *)
(* room with nothing left to handle has been shown every message stored,   *)
(* but for those trimmed since, whenever the others sent them and however  *)
(* many sessions tried to create the room.                                 *)
(***************************************************************************)
NoMessageMissed ==
    \A u \in present \ gaveUp :
        At(u, "idle") =>
            \A msg \in 1 .. sent :
                \/ msg \in shown[u]
                \/ msg + MaxHistory <= sent
                \/ \E v \in User : At(v, "broadcast") /\ busy[v].message = msg

(***************************************************************************)
(* "Another node beat us - use theirs and terminate ours"                  *)
(* (room_supervisor.rs:67): a room that is no child any more is over.      *)
(***************************************************************************)
LoserEnds == rooms \subseteq supervised
=============================================================================
