------------------------------ MODULE Channels -------------------------------
(***************************************************************************)
(* Channels over WebSocket connections: channel/core.rs and                *)
(* channel/websocket.rs.  A session is one process: it takes either a      *)
(* message of its mailbox, which comes first, or a frame of its client,    *)
(* and awaits the callbacks of the channels meanwhile; others may act      *)
(* while it does.  The members of a topic are a process group.             *)
(***************************************************************************)
EXTENDS Naturals, Sequences, FiniteSets, Functions

CONSTANTS
    Session,
    Topic,          \* the topics a handler matches
    NoTopic,        \* of an info message, which is not a push
    MaxFrames,      \* bound: frames of the clients
    MaxBroadcasts   \* bound: pushes and info messages

ASSUME NoTopicAssumption == NoTopic \notin Topic

VARIABLES
    life,       \* "open", "closing", "closed" or "killed"
    wire,       \* the sessions whose client is still connected
    doing,      \* what a session is in the middle of
    channels,   \* ChannelServer::channels: the joined topics
    joinRefs,   \* WsSession::joined: the topics with a join_ref
    group,      \* pg: the members of "channel:<topic>"
    mailbox,
    pushed,     \* the pushes each client received
    owed,       \* history: pushes sent while the session had joined
    strays,     \* history: sessions that were sent a push of a topic they had not joined
    frames, broadcasts

channelVars == <<life, wire, doing, channels, joinRefs, group, mailbox, pushed, owed, strays,
                 frames, broadcasts>>

Ops == {"none", "join", "event", "leave", "stop", "terminate", "info", "answer"}
Nothing == [op |-> "none", topic |-> NoTopic, push |-> 0, answers |-> {}, keyed |-> FALSE]
Op(op, t) == [Nothing EXCEPT !.op = op, !.topic = t]

ChannelInit ==
    /\ life = [s \in Session |-> "open"]
    /\ wire = Session
    /\ doing = [s \in Session |-> Nothing]
    /\ channels = [s \in Session |-> {}]
    /\ joinRefs = [s \in Session |-> {}]
    /\ group = [t \in Topic |-> {}]
    /\ mailbox = [s \in Session |-> <<>>]
    /\ pushed = [s \in Session |-> <<>>]
    /\ owed = [s \in Session |-> {}]
    /\ strays = {}
    /\ frames = 0
    /\ broadcasts = 0

ChannelTypeOK ==
    /\ life \in [Session -> {"open", "closing", "closed", "killed"}]
    /\ wire \subseteq Session /\ strays \subseteq Session
    /\ \A s \in Session :
          /\ doing[s].op \in Ops /\ doing[s].topic \in Topic \cup {NoTopic}
          /\ channels[s] \subseteq Topic /\ joinRefs[s] \subseteq Topic
          /\ Range(pushed[s]) \subseteq 1 .. broadcasts
    /\ group \in [Topic -> SUBSET Session]

-----------------------------------------------------------------------------
Alive(s) == life[s] \in {"open", "closing"}
IdleSession(s) == life[s] = "open" /\ doing[s] = Nothing
Does(s, what) == doing' = [doing EXCEPT ![s] = what]
IsDoing(s, op) == Alive(s) /\ doing[s].op = op

(***************************************************************************)
(* A push is sent to each member of the group that lives; excluded is the  *)
(* session broadcast_from leaves out.  What a session is owed follows from *)
(* what it has joined, not from the group.                                 *)
(***************************************************************************)
MembersBut(t, excluded) == group[t] \ excluded
Leaving(s, t) == doing[s].op \in {"leave", "stop", "terminate"} /\ doing[s].topic = t

SendTo(receivers, t) ==
    LET id == broadcasts + 1
        living == {s \in receivers : Alive(s)}
    IN /\ broadcasts < MaxBroadcasts
       /\ broadcasts' = id
       /\ mailbox' = [s \in Session |->
              IF s \in living THEN Append(mailbox[s], [topic |-> t, id |-> id]) ELSE mailbox[s]]

Broadcast(t, excluded) ==
    /\ SendTo(MembersBut(t, excluded), t)
    /\ strays' = strays \cup {s \in MembersBut(t, excluded) :
                               Alive(s) /\ t \notin channels[s] /\ ~Leaving(s, t)}
    /\ owed' = [s \in Session |->
           IF t \in channels[s] /\ s \notin excluded THEN owed[s] \cup {broadcasts + 1}
                             ELSE owed[s]]

\* Any process may broadcast to a topic: broadcast_to_topic and broadcast_to_topic_from.
BroadcastToTopic(t, excluded) ==
    /\ Broadcast(t, excluded)
    /\ UNCHANGED <<life, wire, doing, channels, joinRefs, group, pushed, frames>>

\* A callback sends while it runs: push goes to the session's own mailbox.
CallbackSends(s, t) ==
    /\ \E op \in {"join", "event", "leave", "stop", "terminate", "info"} : IsDoing(s, op)
    /\ \/ Broadcast(t, {})
       \/ Broadcast(t, {s})
       \/ /\ doing[s].topic = t
          /\ SendTo({s}, t)
          /\ UNCHANGED strays
          /\ owed' = [owed EXCEPT ![s] = @ \cup {broadcasts + 1}]
    /\ UNCHANGED <<life, wire, doing, channels, joinRefs, group, pushed, frames>>

\* A callback that calls a GenServer sends itself again what it received before the reply.
CallbackReceives(s) ==
    /\ Alive(s)
    /\ doing[s].op \notin {"none", "answer"}
    /\ \E k \in 1 .. Len(mailbox[s]) - 1 :
          mailbox' = [mailbox EXCEPT ![s] = SubSeq(@, k + 1, Len(@)) \o SubSeq(@, 1, k)]
    /\ UNCHANGED <<life, wire, doing, channels, joinRefs, group, pushed, owed, strays, frames,
                   broadcasts>>

\* Something else is sent to the session, which handle_info is for.
Info(s) ==
    /\ life[s] = "open"
    /\ broadcasts < MaxBroadcasts
    /\ broadcasts' = broadcasts + 1
    /\ mailbox' = [mailbox EXCEPT ![s] = Append(@, [topic |-> NoTopic, id |-> broadcasts + 1])]
    /\ UNCHANGED <<life, wire, doing, channels, joinRefs, group, pushed, owed, strays, frames>>

-----------------------------------------------------------------------------
(***************************************************************************)
(* The client's frames.  One is read when the mailbox has nothing to give. *)
(***************************************************************************)
Frame(s) ==
    /\ IdleSession(s)
    /\ mailbox[s] = <<>>
    /\ s \in wire
    /\ frames < MaxFrames
    /\ frames' = frames + 1
    /\ UNCHANGED <<life, wire, mailbox, pushed, owed, strays, broadcasts>>

\* phx_join: "already joined" is answered at once, else the join callback decides.
Join(s, t, keyed) ==
    /\ Frame(s)
    /\ t \notin channels[s]
    /\ Does(s, [Op("join", t) EXCEPT !.keyed = keyed])
    /\ UNCHANGED <<channels, joinRefs, group>>

JoinAgain(s, t) ==
    /\ Frame(s)
    /\ t \in channels[s]
    /\ UNCHANGED <<doing, channels, joinRefs, group>>

JoinOk(s) ==
    LET t == doing[s].topic
    IN /\ IsDoing(s, "join")
       /\ group' = [group EXCEPT ![t] = @ \cup {s}]
       /\ channels' = [channels EXCEPT ![s] = @ \cup {t}]
       /\ joinRefs' = [joinRefs EXCEPT ![s] = IF doing[s].keyed THEN @ \cup {t} ELSE @]
       /\ Does(s, Nothing)
       /\ UNCHANGED <<life, wire, mailbox, pushed, owed, strays, frames, broadcasts>>

JoinError(s) ==
    /\ IsDoing(s, "join")
    /\ Does(s, Nothing)
    /\ UNCHANGED <<life, wire, channels, joinRefs, group, mailbox, pushed, owed, strays, frames,
                   broadcasts>>

\* An event of a topic that is not joined is answered with an error.
ChannelEvent(s, t) ==
    /\ Frame(s)
    /\ Does(s, IF t \in channels[s] THEN Op("event", t) ELSE Nothing)
    /\ UNCHANGED <<channels, joinRefs, group>>

\* The result of handle_in: an answer to the client only, or a broadcast.
EventAnswered(s) ==
    /\ IsDoing(s, "event")
    /\ Does(s, Nothing)
    /\ UNCHANGED <<life, wire, channels, joinRefs, group, mailbox, pushed, owed, strays, frames,
                   broadcasts>>

EventBroadcasts(s, excluded) ==
    /\ IsDoing(s, "event")
    /\ Broadcast(doing[s].topic, excluded)
    /\ Does(s, Nothing)
    /\ UNCHANGED <<life, wire, channels, joinRefs, group, pushed, frames>>

\* handle_leave: the channel is gone, then comes the terminate callback.
RemoveChannel(s, op, t) ==
    /\ channels' = [channels EXCEPT ![s] = @ \ {t}]
    /\ Does(s, IF t \in channels[s] THEN Op(op, t) ELSE Nothing)

EventStops(s) ==
    /\ IsDoing(s, "event")
    /\ RemoveChannel(s, "stop", doing[s].topic)
    /\ UNCHANGED <<life, wire, joinRefs, group, mailbox, pushed, owed, strays, frames, broadcasts>>

Leave(s, t) ==
    /\ Frame(s)
    /\ RemoveChannel(s, "leave", t)
    /\ joinRefs' = [joinRefs EXCEPT ![s] = IF t \in channels[s] THEN @ ELSE @ \ {t}]
    /\ UNCHANGED group

\* Variant: a session that stops or terminates stays in the group.
WithoutIfLeaving(members, s) == IF doing[s].op = "leave" THEN members \ {s} ELSE members
Without(members, s) == members \ {s}

\* The terminate callback is over: pg::leave; only phx_leave drops the join_ref.
LeaveGroup(s) ==
    LET t == doing[s].topic
    IN /\ \E op \in {"leave", "stop", "terminate"} : IsDoing(s, op)
       /\ group' = [group EXCEPT ![t] = Without(@, s)]
       /\ joinRefs' = [joinRefs EXCEPT ![s] = IF doing[s].op = "leave" THEN @ \ {t} ELSE @]
       /\ Does(s, Nothing)
       /\ UNCHANGED <<life, wire, channels, mailbox, pushed, owed, strays, frames, broadcasts>>

-----------------------------------------------------------------------------
(***************************************************************************)
(* The mailbox.  Every joined channel sees the message in handle_info; the *)
(* broadcasts they answer are sent when all have; a push then goes to the  *)
(* client, and the session ends if that fails.                             *)
(***************************************************************************)
TakeInfo(s) ==
    /\ IdleSession(s)
    /\ mailbox[s] # <<>>
    /\ mailbox' = [mailbox EXCEPT ![s] = Tail(@)]
    /\ Does(s, [Op("info", Head(mailbox[s]).topic) EXCEPT !.push = Head(mailbox[s]).id])
    /\ UNCHANGED <<life, wire, channels, joinRefs, group, pushed, owed, strays, frames, broadcasts>>

InfoAnswered(s, answers) ==
    /\ IsDoing(s, "info")
    /\ answers \subseteq channels[s]
    /\ Does(s, [doing[s] EXCEPT !.op = "answer", !.answers = answers])
    /\ UNCHANGED <<life, wire, channels, joinRefs, group, mailbox, pushed, owed, strays, frames,
                   broadcasts>>

InfoBroadcasts(s, t) ==
    /\ IsDoing(s, "answer")
    /\ t \in doing[s].answers
    /\ Broadcast(t, {})
    /\ Does(s, [doing[s] EXCEPT !.answers = @ \ {t}])
    /\ UNCHANGED <<life, wire, channels, joinRefs, group, pushed, frames>>

PushToClient(s) ==
    /\ IsDoing(s, "answer")
    /\ doing[s].answers = {}
    /\ Does(s, Nothing)
    /\ IF doing[s].topic = NoTopic THEN UNCHANGED <<life, pushed>>
       ELSE IF s \in wire
       THEN pushed' = [pushed EXCEPT ![s] = Append(@, doing[s].push)] /\ UNCHANGED life
       ELSE life' = [life EXCEPT ![s] = "closing"] /\ UNCHANGED pushed
    /\ UNCHANGED <<wire, channels, joinRefs, group, mailbox, owed, strays, frames, broadcasts>>

-----------------------------------------------------------------------------
\* The client goes away, or its connection breaks.
Disconnect(s) ==
    /\ wire' = wire \ {s}
    /\ s \in wire
    /\ UNCHANGED <<life, doing, channels, joinRefs, group, mailbox, pushed, owed, strays, frames,
                   broadcasts>>

ReadEnds(s) ==
    /\ IdleSession(s)
    /\ mailbox[s] = <<>>
    /\ s \notin wire
    /\ life' = [life EXCEPT ![s] = "closing"]
    /\ UNCHANGED <<wire, doing, channels, joinRefs, group, mailbox, pushed, owed, strays, frames,
                   broadcasts>>

\* terminate: one channel after the other, then the process ends.
Terminate(s) ==
    /\ life[s] = "closing"
    /\ doing[s] = Nothing
    /\ IF channels[s] = {}
       THEN /\ life' = [life EXCEPT ![s] = "closed"]
            /\ mailbox' = [mailbox EXCEPT ![s] = <<>>]
            /\ joinRefs' = [joinRefs EXCEPT ![s] = {}]
            /\ UNCHANGED <<doing, channels>>
       ELSE /\ \E t \in channels[s] : RemoveChannel(s, "terminate", t)
            /\ UNCHANGED <<life, mailbox, joinRefs>>
    /\ UNCHANGED <<wire, group, pushed, owed, strays, frames, broadcasts>>

\* The process is killed or a callback panics: nothing is cleaned up, and nobody calls pg::leave_all.
Kill(s) ==
    /\ Alive(s)
    /\ life' = [life EXCEPT ![s] = "killed"]
    /\ Does(s, Nothing)
    /\ channels' = [channels EXCEPT ![s] = {}]
    /\ joinRefs' = [joinRefs EXCEPT ![s] = {}]
    /\ mailbox' = [mailbox EXCEPT ![s] = <<>>]
    /\ pushed' = [pushed EXCEPT ![s] = <<>>]
    /\ owed' = [owed EXCEPT ![s] = {}]
    /\ UNCHANGED <<wire, group, strays, frames, broadcasts>>

ChannelNext ==
    \/ \E t \in Topic, excluded \in SUBSET Session :
          Cardinality(excluded) <= 1 /\ BroadcastToTopic(t, excluded)
    \/ \E s \in Session :
          \/ \E t \in Topic :
                \/ CallbackSends(s, t)
                \/ \E keyed \in BOOLEAN : Join(s, t, keyed)
                \/ JoinAgain(s, t)
                \/ ChannelEvent(s, t)
                \/ Leave(s, t)
                \/ InfoBroadcasts(s, t)
          \/ CallbackReceives(s)
          \/ Info(s)
          \/ JoinOk(s) \/ JoinError(s)
          \/ EventAnswered(s)
          \/ \E excluded \in {{}, {s}} : EventBroadcasts(s, excluded)
          \/ EventStops(s)
          \/ LeaveGroup(s)
          \/ TakeInfo(s)
          \/ \E answers \in SUBSET Topic : InfoAnswered(s, answers)
          \/ PushToClient(s)
          \/ Disconnect(s) \/ ReadEnds(s) \/ Terminate(s) \/ Kill(s)

-----------------------------------------------------------------------------
(***************************************************************************)
(* Every push to a topic reaches the clients of the sessions that had      *)
(* joined it, each of them once, and no push is sent to a                  *)
(* session that is out of the topic, whatever joins, leaves, stops and     *)
(* broadcasts of callbacks go on meanwhile; one that came to its end is in *)
(* no group.  A killed session stays in its groups.                        *)
(***************************************************************************)
JoinedGetsAll ==
    /\ strays = {}
    /\ \A s \in Session :
          s \in wire /\ IdleSession(s) /\ mailbox[s] = <<>> =>
              owed[s] \subseteq Range(pushed[s]) /\ IsInjective(pushed[s])
    /\ \A s \in Session, t \in Topic : life[s] = "closed" => s \notin group[t]
=============================================================================
