------------------------------- MODULE PubSub --------------------------------
(***************************************************************************)
(* Publish and subscribe over two connected nodes: pubsub/server.rs.  Each *)
(* node runs a server, a GenServer that joins a process group and registers*)
(* its name once it runs; clients subscribe by calls, which may time out   *)
(* and still be served, and broadcast by casts.                            *)
(***************************************************************************)
EXTENDS Nodes, Naturals, Sequences, Functions

CONSTANTS
    Topic,
    MaxSubscribes,  \* bound: subscribe and unsubscribe calls
    MaxServerBroadcasts \* bound: broadcasts

VARIABLES
    named,      \* the nodes whose server handled handle_continue: registered, in its group
    knows,      \* the nodes that know the other server as a member of the group
    mailbox,    \* requests to each server
    entries,    \* each server's Registry: for each topic, how many entries each pid has
    calling,    \* the call that each client waits for
    inbox,      \* broadcasts each client received
    standing,   \* history: <<client, topic>> -> "out", "in" or "between" after its calls
    owed,       \* history: broadcasts that each client must receive, and those from the other node
    owedFar,
    strays,     \* history: clients that received one while "out"
    subscribes, broadcasts

pubsubVars == <<named, knows, mailbox, entries, calling, inbox, standing, owed, owedFar, strays,
                subscribes, broadcasts>>

NotCalling == [op |-> "none", topic |-> CHOOSE t \in Topic : TRUE, id |-> 0]

PubSubInit ==
    /\ named = {}
    /\ knows = {}
    /\ mailbox = [n \in Node |-> <<>>]
    /\ entries = [n \in Node |-> [t \in Topic |-> [c \in Pid |-> 0]]]
    /\ calling = [c \in Pid |-> NotCalling]
    /\ inbox = [c \in Pid |-> <<>>]
    /\ standing = [c \in Pid |-> [t \in Topic |-> "out"]]
    /\ owed = [c \in Pid |-> {}]
    /\ owedFar = [c \in Pid |-> {}]
    /\ strays = {}
    /\ subscribes = 0
    /\ broadcasts = 0

PubSubTypeOK ==
    /\ named \subseteq Node /\ knows \subseteq Node
    /\ \A n \in Node : \A i \in DOMAIN mailbox[n] :
          mailbox[n][i].kind \in {"subscribe", "unsubscribe", "unsubscribe_all",
                                  "broadcast", "local", "raw"}
    /\ entries \in [Node -> [Topic -> [Pid -> Nat]]]
    /\ standing \in [Pid -> [Topic -> {"out", "in", "between"}]]
    /\ \A c \in Pid : owed[c] \cup owedFar[c] \cup Range(inbox[c]) \subseteq 1 .. broadcasts
    /\ strays \subseteq Pid

-----------------------------------------------------------------------------
Send(n, msg) == mailbox' = [mailbox EXCEPT ![n] = Append(@, msg)]
Msg(kind, t, c, id) == [kind |-> kind, topic |-> t, client |-> c, id |-> id]
NotExcluded(c, msg) == c # msg.client

\* handle_continue: the server joins the group and registers its name, which clients look up.
HandleContinue(n) ==
    /\ n \notin named
    /\ named' = named \cup {n}
    /\ UNCHANGED <<knows, mailbox, entries, calling, inbox, standing, owed, owedFar, strays,
                   subscribes, broadcasts>>

\* The other node's join arrives: pg, distribution/pg.rs.
LearnMember(n) ==
    /\ Other(n) \in named
    /\ n \notin knows
    /\ knows' = knows \cup {n}
    /\ UNCHANGED <<named, mailbox, entries, calling, inbox, standing, owed, owedFar, strays,
                   subscribes, broadcasts>>

Call(c, op, t) ==
    /\ Home[c] \in named
    /\ calling[c] = NotCalling
    /\ subscribes < MaxSubscribes
    /\ subscribes' = subscribes + 1
    /\ calling' = [calling EXCEPT ![c] = [op |-> op, topic |-> t, id |-> subscribes + 1]]
    /\ Send(Home[c], Msg(op, t, c, subscribes + 1))
    /\ UNCHANGED <<named, knows, entries, inbox, strays, broadcasts>>

Subscribe(c, t) ==
    /\ Call(c, "subscribe", t)
    /\ standing' = [standing EXCEPT ![c][t] = IF @ = "out" THEN "between" ELSE @]
    /\ UNCHANGED <<owed, owedFar>>

\* What is still on its way to a client that unsubscribes may be served before or after.
Unsubscribe(c, t) ==
    /\ \/ Call(c, "unsubscribe", t)
          /\ standing' = [standing EXCEPT ![c][t] = IF @ = "in" THEN "between" ELSE @]
       \/ Call(c, "unsubscribe_all", t)
          /\ standing' = [standing EXCEPT ![c] = [u \in Topic |-> IF @[u] = "in" THEN "between" ELSE @[u]]]
    /\ owed' = [owed EXCEPT ![c] = {}]
    /\ owedFar' = [owedFar EXCEPT ![c] = {}]

\* The call times out: the request stays in the mailbox.
CallTimesOut(c) ==
    /\ calling[c] # NotCalling
    /\ calling' = [calling EXCEPT ![c] = NotCalling]
    /\ UNCHANGED <<named, knows, mailbox, entries, inbox, standing, owed, owedFar, strays,
                   subscribes, broadcasts>>

\* broadcast and broadcast_from, or their local forms: a cast, from naming whom it excludes.
Counts(c, t, n, msg) == standing[c][t] = "in" /\ Home[c] = n /\ NotExcluded(c, msg)

Broadcast(c, t, far, from) ==
    LET n == Home[c]
        id == broadcasts + 1
        msg == [kind |-> IF far THEN "broadcast" ELSE "local", topic |-> t, client |-> from, id |-> id]
    IN /\ n \in named
       /\ calling[c] = NotCalling
       /\ broadcasts < MaxServerBroadcasts
       /\ broadcasts' = id
       /\ Send(n, msg)
       /\ owed' = [d \in Pid |-> owed[d] \cup (IF Counts(d, t, n, msg) THEN {id} ELSE {})]
       /\ owedFar' = [d \in Pid |-> owedFar[d] \cup
              (IF far /\ n \in knows /\ Counts(d, t, Other(n), msg) THEN {id} ELSE {})]
       /\ UNCHANGED <<named, knows, entries, calling, inbox, standing, strays, subscribes>>

-----------------------------------------------------------------------------
(***************************************************************************)
(* The server takes the next message.                                      *)
(***************************************************************************)
IsNext(n, kind) == n \in named /\ mailbox[n] # <<>> /\ Head(mailbox[n]).kind = kind
Served(n) == [mailbox EXCEPT ![n] = Tail(@)]

\* The reply reaches the client, which ignores it unless it waits for it.
Replied(msg) ==
    IF calling[msg.client].id = msg.id /\ calling[msg.client] # NotCalling
    THEN /\ calling' = [calling EXCEPT ![msg.client] = NotCalling]
         /\ standing' = [standing EXCEPT ![msg.client] =
                [t \in Topic |->
                    IF msg.kind = "subscribe" /\ t = msg.topic THEN "in"
                    ELSE IF msg.kind = "unsubscribe" /\ t = msg.topic THEN "out"
                    ELSE IF msg.kind = "unsubscribe_all" THEN "out" ELSE @[t]]]
    ELSE UNCHANGED <<calling, standing>>

\* unregister removes every entry of the pid under the key.  Variant: one of them.
RemovedOne(pids, c) == [pids EXCEPT ![c] = IF @ > 0 THEN @ - 1 ELSE 0]
RemovedAll(pids, c) == [pids EXCEPT ![c] = 0]

HandleCall(n) ==
    LET msg == Head(mailbox[n])
    IN /\ \/ IsNext(n, "subscribe")
             /\ entries' = [entries EXCEPT ![n][msg.topic][msg.client] = @ + 1]
          \/ IsNext(n, "unsubscribe")
             /\ entries' = [entries EXCEPT ![n][msg.topic] = RemovedAll(@, msg.client)]
          \/ IsNext(n, "unsubscribe_all")
             /\ entries' = [entries EXCEPT ![n] = [t \in Topic |-> RemovedAll(@[t], msg.client)]]
       /\ mailbox' = Served(n)
       /\ Replied(msg)
       /\ UNCHANGED <<named, knows, inbox, owed, owedFar, strays, subscribes, broadcasts>>

\* dispatch_local: one message for each entry.
DispatchLocal(n, msg) ==
    LET copies(c) == IF NotExcluded(c, msg) THEN entries[n][msg.topic][c] ELSE 0
    IN /\ inbox' = [c \in Pid |-> inbox[c] \o [i \in 1 .. copies(c) |-> msg.id]]
       /\ strays' = strays \cup {c \in Pid : copies(c) > 0 /\ standing[c][msg.topic] = "out"}

\* forward_to_remote_nodes sends the bare bytes of the cast, in no envelope of the GenServer.
Forwarded(n, msg) ==
    IF msg.kind = "broadcast" /\ n \in knows
    THEN [Served(n) EXCEPT ![Other(n)] = Append(@, [msg EXCEPT !.kind = "raw"])]
    ELSE Served(n)

HandleCast(n) ==
    LET msg == Head(mailbox[n])
    IN /\ IsNext(n, "broadcast") \/ IsNext(n, "local")
       /\ DispatchLocal(n, msg)
       /\ mailbox' = Forwarded(n, msg)
       /\ UNCHANGED <<named, knows, entries, calling, standing, owed, owedFar, subscribes, broadcasts>>

\* The loop reads them as a Reply, a system Timeout or an unknown message: handle_info does nothing.
HandleInfo(n) ==
    /\ IsNext(n, "raw")
    /\ mailbox' = Served(n)
    /\ UNCHANGED <<named, knows, entries, calling, inbox, standing, owed, owedFar, strays,
                   subscribes, broadcasts>>

PubSubNext ==
    \/ \E n \in Node : HandleContinue(n) \/ LearnMember(n) \/ HandleCall(n) \/ HandleCast(n) \/ HandleInfo(n)
    \/ \E c \in Pid :
          \/ CallTimesOut(c)
          \/ \E t \in Topic :
                \/ Subscribe(c, t)
                \/ Unsubscribe(c, t)
                \/ \E far \in BOOLEAN, from \in {c, Nobody} : Broadcast(c, t, far, from)

-----------------------------------------------------------------------------
(***************************************************************************)
(* Of the broadcasts of its own node a client that has subscribed gets all *)
(* that are cast from then on, and one whose unsubscribe has returned gets *)
(* none, whichever calls before timed out and were served later, and       *)
(* however often it had subscribed.                                        *)
(***************************************************************************)
SubscribedGetsAll ==
    /\ strays = {}
    /\ \A c \in Pid : mailbox[Home[c]] = <<>> => owed[c] \subseteq Range(inbox[c])

(***************************************************************************)
(* "Remote PubSub processes dispatch to their local subscribers"           *)
(* (pubsub/mod.rs:46): a broadcast reaches those who had subscribed on the *)
(* other node, once the servers have handled everything.                   *)
(***************************************************************************)
RemoteSubscribersReceive ==
    (\A n \in Node : mailbox[n] = <<>>) => \A c \in Pid : owedFar[c] \subseteq Range(inbox[c])
=============================================================================
