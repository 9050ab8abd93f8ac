---------------------------- MODULE ChatPresence -----------------------------
(***************************************************************************)
(* Who is in a room, in the chat example of one node: RoomChannel          *)
(* (channel.rs), its TCP session (session.rs) and what its client keeps    *)
(* (bin/chat-client.rs), with the Presence and PubSub servers they call.   *)
(* While a session awaits a reply it receives other messages, which it     *)
(* sends itself again after the reply has come.                            *)
(***************************************************************************)
EXTENDS Naturals, Sequences, FiniteSets

Seqs == INSTANCE SequencesExt

CONSTANTS
    Session,    \* the TCP sessions, each with a nick of its own
    Watching,   \* the sessions whose client may be followed; what others are told is left out
    Room,
    MaxJoins,   \* bound: joins
    MaxLeaves,  \* bound: rooms left
    MaxTimeouts \* bound: calls that time out

ASSUME RoomAssumption == IsFiniteSet(Room)
ASSUME WatchAssumption == Watching \subseteq Session

VARIABLES
    watched,        \* the sessions whose client is followed: none where calls may time out
    online,         \* sessions that have not ended
    doing,          \* what a session is in the middle of
    channels,       \* the rooms it has joined
    group,          \* pg: the members of each room's channel
    letters,        \* its mailbox
    timers,         \* PushPresenceState messages it is still to get or to handle
    presenceQueue,  \* mailbox of the Presence server
    pubsubQueue,    \* mailbox of the PubSub server
    tracked,        \* presences of each room
    subscribed,     \* subscribers of "presence:<room>"
    users,          \* the client's user list of each room
    asking,         \* rooms whose client will ask for the list, as it does when it has joined
    joins, leaves,
    timeouts        \* calls that timed out

chatVars == <<watched, online, doing, channels, group, letters, timers, presenceQueue, pubsubQueue, tracked,
              subscribed, users, asking, joins, leaves, timeouts>>

Nowhere == "no room"
AtRest == [op |-> "none", room |-> Nowhere, step |-> "none", call |-> 0, todo |-> {}]

ChatInit ==
    /\ watched \in {{}, Watching}
    /\ online = Session
    /\ doing = [u \in Session |-> AtRest]
    /\ channels = [u \in Session |-> {}]
    /\ group = [r \in Room |-> {}]
    /\ letters = [u \in Session |-> <<>>]
    /\ timers = [u \in Session |-> 0]
    /\ presenceQueue = <<>> /\ pubsubQueue = <<>>
    /\ tracked = [r \in Room |-> {}]
    /\ subscribed = [r \in Room |-> {}]
    /\ users = [u \in Session |-> [r \in Room |-> {}]]
    /\ asking = [u \in Session |-> {}]
    /\ joins = 0 /\ leaves = 0
    /\ timeouts = 0

Op == {"none", "join", "leave", "end", "push state", "list users"}
Step == {"none", "track", "subscribe", "untrack", "unsubscribe", "list"}
PresenceRequest == [kind : {"track", "untrack", "list"}, room : Room, user : Session, call : Nat]
PubSubRequest == [kind : {"subscribe", "unsubscribe", "broadcast"}, room : Room, user : Session,
                  call : Nat]
ChatLetter == [kind : {"after join", "delta", "user joined", "user left", "state", "reply"},
               room : Room \cup {Nowhere}, who : SUBSET Session, call : Nat]

ChatTypeOK ==
    /\ watched \subseteq Session /\ online \subseteq Session
    /\ doing \in [Session -> [op : Op, room : Room \cup {Nowhere}, step : Step, call : Nat,
                             todo : SUBSET Room]]
    /\ \A u \in Session : doing[u].step # "none" => doing[u].room \in Room
    /\ channels \in [Session -> SUBSET Room] /\ asking \in [Session -> SUBSET Room]
    /\ group \in [Room -> SUBSET Session]
    /\ letters \in [Session -> Seq(ChatLetter)]
    /\ timers \in [Session -> Nat]
    /\ presenceQueue \in Seq(PresenceRequest) /\ pubsubQueue \in Seq(PubSubRequest)
    /\ tracked \in [Room -> SUBSET Session] /\ subscribed \in [Room -> SUBSET Session]
    /\ users \in [Session -> [Room -> SUBSET Session]]
    /\ joins \in Nat /\ leaves \in Nat /\ timeouts \in Nat

-----------------------------------------------------------------------------
Letter(kind, r, who) == [kind |-> kind, room |-> r, who |-> who, call |-> 0]
PostTo(receivers, letter) ==
    letters' = [u \in Session |-> IF u \in receivers \cap online THEN Append(letters[u], letter)
                               ELSE letters[u]]
IsAtRest(u) == u \in online /\ doing[u] = AtRest
Does(u, what) == doing' = [doing EXCEPT ![u] = what]

\* A call of a server: the request is queued, and the session waits in the given step.  Only a
\* call that timed out leaves its request or reply behind, so that the number of such calls
\* serves as the reference of the next one.
CallFrom(u, was, step, r, ref) ==
    LET request == [kind |-> step, room |-> r, user |-> u, call |-> ref]
    IN /\ Does(u, [was EXCEPT !.step = step, !.call = ref, !.room = r])
       /\ IF step \in {"subscribe", "unsubscribe"}
          THEN pubsubQueue' = Append(pubsubQueue, request) /\ UNCHANGED presenceQueue
          ELSE presenceQueue' = Append(presenceQueue, request) /\ UNCHANGED pubsubQueue

NothingAsked == UNCHANGED <<presenceQueue, pubsubQueue>>

(***************************************************************************)
(* A reply ends the wait; what was received before it is sent again and so *)
(* comes after what has arrived since.  A wait of five seconds ends it as  *)
(* well, and the operation goes on as if the call had been answered; the   *)
(* request stays in the queue.                                             *)
(***************************************************************************)
Resent(box, i) == SubSeq(box, i + 1, Len(box)) \o SubSeq(box, 1, i - 1)

Answers(u) ==
    {[rest |-> Resent(letters[u], i), listed |-> letters[u][i].who, late |-> 0] :
        i \in {x \in DOMAIN letters[u] : /\ letters[u][x].kind = "reply"
                                        /\ letters[u][x].call = doing[u].call}}

NoAnswer(u) ==
    IF watched = {} /\ timeouts < MaxTimeouts
    THEN {[rest |-> letters[u], listed |-> {}, late |-> 1]} ELSE {}

\* How a call made in this step may return: what the session then has in its mailbox.
Returns(u, step) == IF doing[u].step = step THEN Answers(u) \cup NoAnswer(u) ELSE {}

Resumes(u, back, more) ==
    /\ letters' = [letters EXCEPT ![u] = back.rest \o more]
    /\ timeouts' = timeouts + back.late

-----------------------------------------------------------------------------
\* handle_join, once the room is there: RoomChannel::join tracks and subscribes.
EnterRoom(u, r) ==
    /\ IsAtRest(u)
    /\ r \notin channels[u]
    /\ joins < MaxJoins
    /\ joins' = joins + 1
    /\ CallFrom(u, [AtRest EXCEPT !.op = "join"], "track", r, timeouts)
    /\ UNCHANGED <<watched, online, channels, group, letters, timers, tracked, subscribed, users, asking,
                   leaves, timeouts>>

SubscribePresence(u) ==
    \E back \in Returns(u, "track") :
        /\ Resumes(u, back, <<>>)
        /\ CallFrom(u, doing[u], "subscribe", doing[u].room, timeouts + back.late)
        /\ UNCHANGED <<watched, online, channels, group, timers, tracked, subscribed, users, asking,
                       joins, leaves>>

\* The client is told that it joined, and sends ListUsers.
AsksForUsers(u, r) == [asking EXCEPT ![u] = IF u \in watched THEN @ \cup {r} ELSE @]

\* AfterJoin is sent, the session joins the group, and the client asks for the users.
Joined(u) ==
    LET r == doing[u].room
    IN \E back \in Returns(u, "subscribe") :
          /\ Resumes(u, back, <<Letter("after join", Nowhere, {})>>)
          /\ group' = [group EXCEPT ![r] = @ \cup {u}]
          /\ channels' = [channels EXCEPT ![u] = @ \cup {r}]
          /\ asking' = AsksForUsers(u, r)
          /\ Does(u, AtRest)
          /\ NothingAsked
          /\ UNCHANGED <<watched, online, timers, tracked, subscribed, users, joins, leaves>>

-----------------------------------------------------------------------------
\* RoomChannel::terminate: the others are told, then the presence and the subscription go.
Terminating(u, op, r) ==
    /\ leaves < MaxLeaves
    /\ leaves' = leaves + 1
    /\ channels' = [channels EXCEPT ![u] = @ \ {r}]
    /\ PostTo((group[r] \ {u}) \cap watched, Letter("user left", r, {u}))
    /\ CallFrom(u, [AtRest EXCEPT !.op = op], "untrack", r, timeouts)
    /\ UNCHANGED <<watched, online, group, timers, tracked, subscribed, users, asking, joins, timeouts>>

QuitRoom(u, r) ==
    /\ IsAtRest(u)
    /\ r \in channels[u]
    /\ Terminating(u, "leave", r)

\* Variant: the subscription is forgotten.
ThenNothing(u, ref) == Does(u, [doing[u] EXCEPT !.step = "unsubscribe"]) /\ NothingAsked
ThenUnsubscribe(u, ref) == CallFrom(u, doing[u], "unsubscribe", doing[u].room, ref)

UnsubscribePresence(u) ==
    \E back \in Returns(u, "untrack") :
        /\ Resumes(u, back, <<>>)
        /\ ThenUnsubscribe(u, timeouts + back.late)
        /\ UNCHANGED <<watched, online, channels, group, timers, tracked, subscribed, users, asking,
                       joins, leaves>>

\* ChannelServer: the session leaves the group; at its end come the other channels.
LeftGroup(u) ==
    \E back \in Returns(u, "unsubscribe") :
        /\ Resumes(u, back, <<>>)
        /\ group' = [group EXCEPT ![doing[u].room] = @ \ {u}]
        /\ Does(u, IF doing[u].op = "end" THEN [AtRest EXCEPT !.op = "end"] ELSE AtRest)
        /\ NothingAsked
        /\ UNCHANGED <<watched, online, channels, timers, tracked, subscribed, users, asking, joins,
                       leaves>>

\* Quit, the end of the connection or a read error: cleanup, one channel after the other.
Quits(u) == IsAtRest(u) \/ doing[u] = [AtRest EXCEPT !.op = "end"]

TerminateChannel(u, r) ==
    /\ Quits(u)
    /\ r \in channels[u]
    /\ Terminating(u, "end", r)

Ended(u) ==
    /\ Quits(u)
    /\ channels[u] = {}
    /\ online' = online \ {u}
    /\ letters' = [letters EXCEPT ![u] = <<>>]
    /\ timers' = [timers EXCEPT ![u] = 0]
    /\ asking' = [asking EXCEPT ![u] = {}]
    /\ Does(u, AtRest)
    /\ NothingAsked
    /\ UNCHANGED <<watched, channels, group, tracked, subscribed, users, joins, leaves, timeouts>>

-----------------------------------------------------------------------------
(***************************************************************************)
(* handle_channel_message.  Every joined channel is given the message.     *)
(* Messages are told apart by what their bytes decode as, ChannelInfo      *)
(* first, and the bytes of a presence delta begin like AfterJoin's: a      *)
(* delta is handled as an AfterJoin.                                       *)
(***************************************************************************)
TakeLetter(u) ==
    /\ IsAtRest(u)
    /\ letters[u] # <<>>

\* AfterJoin: the others in the rooms are told, and tasks send PushPresenceState later.
HandleAfterJoin(u) ==
    /\ TakeLetter(u)
    /\ Head(letters[u]).kind \in {"after join", "delta"}
    /\ letters' = [v \in Session |->
           IF v = u THEN Tail(letters[u])
           ELSE IF v \in online \cap watched
           THEN letters[v] \o Seqs!SetToSeq({Letter("user joined", r, {u}) :
                                           r \in {x \in channels[u] : v \in group[x]}})
           ELSE letters[v]]
    /\ timers' = [timers EXCEPT ![u] = IF u \in watched THEN @ + Cardinality(channels[u]) ELSE @]
    /\ NothingAsked
    /\ UNCHANGED <<watched, online, doing, channels, group, tracked, subscribed, users, asking, joins,
                   leaves, timeouts>>

\* PushPresenceState, which such a task sent before what is in the mailbox.
HandlePushState(u) ==
    /\ IsAtRest(u)
    /\ timers[u] > 0
    /\ timers' = [timers EXCEPT ![u] = @ - 1]
    /\ Does(u, IF channels[u] = {} THEN AtRest
               ELSE [AtRest EXCEPT !.op = "push state", !.todo = channels[u]])
    /\ NothingAsked
    /\ UNCHANGED <<watched, online, channels, group, letters, tracked, subscribed, users, asking, joins,
                   leaves, timeouts>>

NextChannel(u, r) ==
    IF doing[u].todo = {r} THEN AtRest
    ELSE [doing[u] EXCEPT !.todo = @ \ {r}, !.step = "none", !.call = 0, !.room = Nowhere]

\* It lists the presences of each room and pushes them to the session itself.
PushPresenceState(u, r) ==
    /\ doing[u].op = "push state"
    /\ doing[u].step = "none"
    /\ r \in doing[u].todo
    /\ CallFrom(u, doing[u], "list", r, timeouts)
    /\ UNCHANGED <<watched, online, channels, group, letters, timers, tracked, subscribed, users, asking,
                   joins, leaves, timeouts>>

StatePushed(u) ==
    LET r == doing[u].room
    IN /\ doing[u].op = "push state"
       /\ \E back \in Returns(u, "list") :
             Resumes(u, back, <<Letter("state", r, back.listed \cup {u})>>)
       /\ Does(u, NextChannel(u, r))
       /\ NothingAsked
       /\ UNCHANGED <<watched, online, channels, group, timers, tracked, subscribed, users, asking, joins,
                      leaves>>

\* A push: the session tells its client, which keeps the users of each room.
ClientKeeps(known, letter) ==
    CASE letter.kind = "user joined" -> known \cup letter.who
      [] letter.kind = "user left" -> known \ letter.who
      [] letter.kind = "state" -> letter.who
      [] OTHER -> known

TellClient(u) ==
    LET letter == Head(letters[u])
        r == letter.room
    IN /\ TakeLetter(u)
       /\ letter.kind \in {"user joined", "user left", "state", "reply"}
       /\ letters' = [letters EXCEPT ![u] = Tail(@)]
       /\ users' = [users EXCEPT ![u][r] = ClientKeeps(@, letter)]
       /\ NothingAsked
       /\ UNCHANGED <<watched, online, doing, channels, group, timers, tracked, subscribed, asking, joins,
                      leaves, timeouts>>

\* ListUsers: the presences go to the client.
ListUsers(u, r) ==
    /\ IsAtRest(u)
    /\ r \in asking[u]
    /\ asking' = [asking EXCEPT ![u] = @ \ {r}]
    /\ CallFrom(u, [AtRest EXCEPT !.op = "list users"], "list", r, timeouts)
    /\ UNCHANGED <<watched, online, channels, group, letters, timers, tracked, subscribed, users, joins,
                   leaves, timeouts>>

UsersListed(u) ==
    LET r == doing[u].room
    IN /\ doing[u].op = "list users"
       /\ \E back \in Returns(u, "list") :
             /\ Resumes(u, back, <<>>)
             /\ users' = [users EXCEPT ![u][r] = back.listed]
       /\ Does(u, AtRest)
       /\ NothingAsked
       /\ UNCHANGED <<watched, online, channels, group, timers, tracked, subscribed, asking, joins,
                      leaves>>

-----------------------------------------------------------------------------
(***************************************************************************)
(* The servers handle their mailboxes in order.  Presence broadcasts a     *)
(* delta of what it tracked or untracked by a cast to PubSub.              *)
(***************************************************************************)
Answer(request, who) ==
    IF request.user \in online
    THEN letters' = [letters EXCEPT ![request.user] =
             Append(@, [kind |-> "reply", room |-> request.room, who |-> who, call |-> request.call])]
    ELSE UNCHANGED letters

Delta(r) == [kind |-> "broadcast", room |-> r, user |-> CHOOSE u \in Session : TRUE, call |-> 0]

PresenceServes ==
    LET request == Head(presenceQueue)
        r == request.room
        u == request.user
        changes == request.kind = "track" \/ (request.kind = "untrack" /\ u \in tracked[r])
    IN /\ presenceQueue # <<>>
       /\ presenceQueue' = Tail(presenceQueue)
       /\ tracked' = [tracked EXCEPT ![r] = IF request.kind = "track" THEN @ \cup {u}
                                            ELSE IF request.kind = "untrack" THEN @ \ {u} ELSE @]
       /\ pubsubQueue' = IF changes THEN Append(pubsubQueue, Delta(r)) ELSE pubsubQueue
       /\ Answer(request, IF request.kind = "list" THEN tracked[r] ELSE {})
       /\ UNCHANGED <<watched, online, doing, channels, group, timers, subscribed, users, asking, joins,
                      leaves, timeouts>>

PubSubServes ==
    LET request == Head(pubsubQueue)
        r == request.room
        u == request.user
    IN /\ pubsubQueue # <<>>
       /\ pubsubQueue' = Tail(pubsubQueue)
       /\ subscribed' = [subscribed EXCEPT ![r] = IF request.kind = "subscribe" THEN @ \cup {u}
                             ELSE IF request.kind = "unsubscribe" THEN @ \ {u} ELSE @]
       /\ IF request.kind = "broadcast"
          THEN PostTo(subscribed[r], Letter("delta", r, {}))
          ELSE Answer(request, {})
       /\ UNCHANGED <<watched, online, doing, channels, group, timers, presenceQueue, tracked, users,
                      asking, joins, leaves, timeouts>>

ChatNext ==
    \/ \E u \in Session :
          \/ \E r \in Room :
                \/ EnterRoom(u, r) \/ QuitRoom(u, r) \/ TerminateChannel(u, r)
                \/ PushPresenceState(u, r) \/ ListUsers(u, r)
          \/ SubscribePresence(u) \/ Joined(u) \/ UnsubscribePresence(u) \/ LeftGroup(u)
          \/ Ended(u)
          \/ HandleAfterJoin(u) \/ HandlePushState(u) \/ StatePushed(u) \/ TellClient(u) \/ UsersListed(u)
    \/ PresenceServes \/ PubSubServes

-----------------------------------------------------------------------------
Settled ==
    /\ presenceQueue = <<>> /\ pubsubQueue = <<>>
    /\ \A u \in online : doing[u] = AtRest /\ letters[u] = <<>> /\ timers[u] = 0 /\ asking[u] = {}

(***************************************************************************)
(* When everything is handled, a session is tracked, subscribed and in the *)
(* group of exactly the rooms it has joined, so that one that left or quit *)
(* leaves nothing behind, even if calls of it timed out and were served    *)
(* later; and unless one did, the client of each session in a room lists   *)
(* exactly the users of that room, whatever joins, leaves and lists met.   *)
(***************************************************************************)
RoomsAgree ==
    Settled =>
        \A r \in Room :
            LET present == {u \in online : r \in channels[u]}
            IN /\ group[r] = present /\ tracked[r] = present /\ subscribed[r] = present
               /\ \A u \in present \cap watched : users[u][r] = present
=============================================================================
