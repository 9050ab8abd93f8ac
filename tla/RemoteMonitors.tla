--------------------------- MODULE RemoteMonitors ---------------------------
(***************************************************************************)
(* Monitors and links between processes on different nodes:                *)
(* distribution/process_monitor.rs, the messages about them in             *)
(* handle_incoming_message (manager.rs), and what handle_process_exit      *)
(* tells this layer.  Connections are here what this layer sees of them:   *)
(* entries of two tables that come and go at different times, with a FIFO  *)
(* channel each way.  NodeConnections has them in detail.                  *)
(***************************************************************************)
EXTENDS Naturals, Sequences, FiniteSets

CONSTANTS
    Node,       \* the nodes
    None,       \* "no node"
    Dialers,    \* the nodes that dial others
    MaxConn,    \* bound: connections ever made
    Proc,       \* the processes
    Home,       \* the node of each
    Users,      \* the processes that monitor and link others
    Mortal,     \* the processes whose bodies end
    Trapping,   \* the processes that trap exits
    Reason,     \* the reasons with which bodies end
    MaxRef,     \* bound: monitors and links ever requested
    Ops         \* the operations the processes and their nodes use

ASSUME NoneAssumption == None \notin Node
ASSUME ConnAssumption == MaxConn \in Nat
ASSUME HomeAssumption == Home \in [Proc -> Node]
ASSUME TrappingAssumption == Trapping \subseteq Proc
ASSUME RefAssumption == MaxRef \in Nat
ASSUME ReasonAssumption == Reason \subseteq {"Normal", "Killed", "Error"}

Ref == 1 .. MaxRef
Conn == 1 .. MaxConn

(***************************************************************************)
(* A DistMessage, and the steps of its handler that come after others.     *)
(***************************************************************************)
Kind == {"monitor", "monitor_check", "demonitor", "down", "link", "link_add",
         "unlink", "exit"}
Text == {"Normal", "Killed", "Error", "noproc", "noconnection"}
Message == [kind : Kind, from : Proc, to : Proc, ref : 0 .. MaxRef,
            reason : Text \cup {"none"}]

Msg(kind, from, to, ref, reason) ==
    [kind |-> kind, from |-> from, to |-> to, ref |-> ref, reason |-> reason]

VARIABLES
    ends,       \* who dialled each connection, and whom
    open,       \* the connections that are not closed
    entry,      \* the connection each node has in its table per peer, or 0
    stage,      \* how far connect_to and its acceptance are with each
    chan,       \* messages on each connection to each node
    hand,       \* the message a receiver loop is handling
    gone        \* removed entries whose handle_node_down is still to run

connVars == <<ends, open, entry, stage, chan, hand, gone>>

VARIABLES
    outgoing,   \* outgoing_monitors: owner, target and reference
    incoming,   \* incoming_monitors: owner, target and reference
    links,      \* links: a local process and a remote one
    tracking,   \* node_tracking of each node, per peer
    downItems,  \* what handle_node_down of a removed entry has still to do
    pc,         \* where each process is
    request,    \* the monitor or link request it is making
    exitMsgs,   \* what its handle_process_exit has still to send
    terminated, \* the processes marked terminated
    exitReason, \* the reason with which handle_process_exit runs for each
    mailbox,    \* the DOWN and EXIT messages each process was sent (history)
    held,       \* monitors that monitor_process returned, until demonitored
    nextRef     \* the counter behind Ref::new; counts links too, to bound them

monVars == <<outgoing, incoming, links, tracking, downItems, pc, request, exitMsgs,
             terminated, exitReason, mailbox, held, nextRef>>

vars == <<connVars, monVars>>

Remote(p, q) == Home[p] # Home[q]

Monitors == [owner : Proc, target : Proc, ref : Ref]
Mon(owner, target, ref) == [owner |-> owner, target |-> target, ref |-> ref]

\* An entry of node_tracking.
ItemKind == {"out", "in", "link"}
Item == [kind : ItemKind, local : Proc, remote : Proc, ref : 0 .. MaxRef]
Tracked(kind, local, remote, ref) ==
    [kind |-> kind, local |-> local, remote |-> remote, ref |-> ref]

NoEnds == [from |-> None, to |-> None]

Init ==
    /\ ends = [c \in Conn |-> NoEnds]
    /\ open = {}
    /\ entry = [n \in Node |-> [m \in Node |-> 0]]
    /\ stage = [c \in Conn |-> "none"]
    /\ chan = [c \in Conn |-> [n \in Node |-> <<>>]]
    /\ hand = [n \in Node |-> [c \in Conn |-> <<>>]]
    /\ gone = [n \in Node |-> {}]
    /\ outgoing = {}
    /\ incoming = {}
    /\ links = {}
    /\ tracking = [n \in Node |-> [m \in Node |-> [kind \in ItemKind |-> <<>>]]]
    /\ downItems = [n \in Node |-> [c \in Conn |-> <<>>]]
    /\ pc = [p \in Proc |-> "body"]
    /\ request = [p \in Proc |-> <<>>]
    /\ exitMsgs = [p \in Proc |-> {}]
    /\ terminated = {}
    /\ exitReason = [p \in Proc |-> "none"]
    /\ mailbox = [p \in Proc |-> <<>>]
    /\ held = {}
    /\ nextRef = 1

PC == {"body", "down", "send_down", "send_exit", "ended", "gone"}

TypeOK ==
    /\ ends \in [Conn -> [from : Node \cup {None}, to : Node \cup {None}]]
    /\ open \subseteq Conn
    /\ entry \in [Node -> [Node -> 0 .. MaxConn]]
    /\ stage \in [Conn -> {"none", "dialled", "accepted", "done"}]
    /\ chan \in [Conn -> [Node -> Seq(Message)]]
    /\ hand \in [Node -> [Conn -> Seq(Message)]]
    /\ gone \in [Node -> SUBSET Conn]
    /\ outgoing \subseteq Monitors
    /\ incoming \subseteq Monitors
    /\ links \subseteq Proc \X Proc
    /\ tracking \in [Node -> [Node -> [ItemKind -> Seq(Item)]]]
    /\ downItems \in [Node -> [Conn -> Seq(Item)]]
    /\ pc \in [Proc -> PC]
    /\ request \in [Proc -> Seq(Message)]
    /\ exitMsgs \in [Proc -> SUBSET Message]
    /\ terminated \subseteq Proc
    /\ exitReason \in [Proc -> Reason \cup {"none"}]
    /\ mailbox \in [Proc -> Seq(Message)]
    /\ held \subseteq Monitors
    /\ nextRef \in 1 .. MaxRef + 1
    /\ \A p \in Proc : pc[p] \in {"body", "ended"} \/ p \in terminated

-----------------------------------------------------------------------------
(***************************************************************************)
(* Connections.                                                            *)
(***************************************************************************)
Peer(n, c) == IF ends[c].from = n THEN ends[c].to ELSE ends[c].from

\* connect_to, up to its Hello.
Dial(n, m, c) ==
    /\ n \in Dialers \ {m}
    /\ ends[c] = NoEnds
    /\ \A b \in Conn : b < c => ends[b] # NoEnds
    /\ entry[n][m] = 0
    /\ ends' = [ends EXCEPT ![c] = [from |-> n, to |-> m]]
    /\ open' = open \cup {c}
    /\ stage' = [stage EXCEPT ![c] = "dialled"]
    /\ UNCHANGED <<entry, chan, hand, gone>>

\* The acceptor's entry for the dialler.  An old one is replaced: its
\* connection closes, but there is no node down.
Accept(c) ==
    LET m == ends[c].to
        old == entry[m][ends[c].from]
    IN /\ stage[c] = "dialled"
       /\ open' = open \ {old}
       /\ chan' = [b \in Conn |-> IF b = old THEN [chan[b] EXCEPT ![m] = <<>>]
                                   ELSE chan[b]]
       /\ entry' = [entry EXCEPT ![m][ends[c].from] = c]
       /\ stage' = [stage EXCEPT ![c] = "accepted"]
       /\ UNCHANGED <<ends, hand, gone>>

\* The dialler gets the Welcome: it has its entry now, or has one already.
DialReturns(c) ==
    LET n == ends[c].from
        m == ends[c].to
    IN /\ stage[c] = "accepted"
       /\ stage' = [stage EXCEPT ![c] = "done"]
       /\ IF entry[n][m] = 0
          THEN /\ entry' = [entry EXCEPT ![n][m] = c]
               /\ UNCHANGED open
          ELSE /\ open' = open \ {c}
               /\ UNCHANGED entry
       /\ UNCHANGED <<ends, chan, hand, gone>>

DialFails(c) ==
    /\ stage[c] \in {"dialled", "accepted"}
    /\ c \notin open
    /\ stage' = [stage EXCEPT ![c] = "done"]
    /\ UNCHANGED <<ends, open, entry, chan, hand, gone>>

ConnectionLost(c) ==
    /\ c \in open
    /\ open' = open \ {c}
    /\ UNCHANGED <<ends, entry, stage, chan, hand, gone>>

\* disconnect_from, or the loops of an entry notice that it is closed.
RemoveEntry(n, m) ==
    LET c == entry[n][m]
    IN /\ c # 0
       /\ open' = open \ {c}
       /\ chan' = [chan EXCEPT ![c][n] = <<>>]
       /\ entry' = [entry EXCEPT ![n][m] = 0]
       /\ gone' = [gone EXCEPT ![n] = @ \cup {c}]
       /\ UNCHANGED <<ends, stage, hand>>

Notice(n, m) == entry[n][m] \notin open /\ RemoveEntry(n, m)
Disconnect(n, m) == "disconnect" \in Ops /\ RemoveEntry(n, m)

\* What was sent before the connection closed may still arrive.
Receive(n, m) ==
    LET c == entry[n][m]
    IN /\ c # 0
       /\ hand[n][c] = <<>>
       /\ chan[c][n] # <<>>
       /\ hand' = [hand EXCEPT ![n][c] = <<Head(chan[c][n])>>]
       /\ chan' = [chan EXCEPT ![c][n] = Tail(@)]
       /\ UNCHANGED <<ends, open, entry, stage, gone>>

\* get_node_tx and try_send.
Post(n, m, msg) ==
    IF entry[n][m] \in open THEN [chan EXCEPT ![entry[n][m]][m] = Append(@, msg)]
    ELSE chan

\* Only messages are sent, and boxes are the channels then.
Sends(boxes) ==
    /\ chan' = boxes
    /\ UNCHANGED <<ends, open, entry, stage, hand, gone>>

\* The handler of what the loop of c has in hand is done.
Handled(n, c, boxes) ==
    /\ hand' = [hand EXCEPT ![n][c] = <<>>]
    /\ chan' = boxes
    /\ UNCHANGED <<ends, open, entry, stage, gone>>

-----------------------------------------------------------------------------
\* A system message for a local process, dropped once its body is over.
Deliver(p, msg) ==
    IF pc[p] = "body" THEN [mailbox EXCEPT ![p] = Append(@, msg)] ELSE mailbox

Track(n, m, item) == [tracking EXCEPT ![n][m][item.kind] = Append(@, item)]

\* Send to the node of a remote process, if it is connected.
PostTo(p, msg) == Post(Home[p], Home[msg.to], msg)
Connected(p, q) == entry[Home[p]][Home[q]] # 0

-----------------------------------------------------------------------------
(***************************************************************************)
(* What a process does: monitor_process, link_process and their inverses.  *)
(***************************************************************************)
Ready(p) == p \in Users /\ pc[p] = "body" /\ request[p] = <<>>

Monitor(p, q) ==
    /\ "monitor" \in Ops
    /\ Ready(p)
    /\ Remote(p, q)
    /\ nextRef \in Ref
    /\ nextRef' = nextRef + 1
    /\ outgoing' = outgoing \cup {Mon(p, q, nextRef)}
    /\ tracking' = Track(Home[p], Home[q], Tracked("out", p, q, nextRef))
    /\ request' = [request EXCEPT ![p] = <<Msg("monitor", p, q, nextRef, "none")>>]
    /\ UNCHANGED <<connVars, incoming, links, downItems, pc, exitMsgs, terminated,
                   exitReason, mailbox, held>>

Link(p, q) ==
    /\ "link" \in Ops
    /\ Ready(p)
    /\ Remote(p, q)
    /\ nextRef \in Ref
    /\ nextRef' = nextRef + 1
    /\ links' = links \cup {<<p, q>>}
    /\ tracking' = Track(Home[p], Home[q], Tracked("link", p, q, 0))
    /\ request' = [request EXCEPT ![p] = <<Msg("link", p, q, 0, "none")>>]
    /\ UNCHANGED <<connVars, outgoing, incoming, downItems, pc, exitMsgs, terminated,
                   exitReason, mailbox, held>>

\* The second half of both: ask the other node, or undo and return an error.
SendRequest(p) ==
    /\ request[p] # <<>>
    /\ LET msg == Head(request[p])
           mon == Mon(p, msg.to, msg.ref)
           asked == Connected(p, msg.to)
           monitors == msg.kind = "monitor"
       IN /\ Sends(PostTo(p, msg))
          /\ held' = IF asked /\ monitors THEN held \cup {mon} ELSE held
          /\ outgoing' = IF asked THEN outgoing ELSE outgoing \ {mon}
          /\ links' = IF asked \/ monitors THEN links ELSE links \ {<<p, msg.to>>}
    /\ request' = [request EXCEPT ![p] = <<>>]
    /\ UNCHANGED <<incoming, tracking, downItems, pc, exitMsgs, terminated,
                   exitReason, mailbox, nextRef>>

Demonitor(p, q, r) ==
    LET mon == Mon(p, q, r)
    IN /\ "demonitor" \in Ops
       /\ Ready(p)
       /\ mon \in held
       /\ held' = held \ {mon}
       /\ outgoing' = outgoing \ {mon}
       /\ Sends(PostTo(p, Msg("demonitor", p, q, r, "none")))
       /\ UNCHANGED <<incoming, links, tracking, downItems, pc, request, exitMsgs,
                      terminated, exitReason, mailbox, nextRef>>

Unlink(p, q) ==
    /\ "unlink" \in Ops
    /\ Ready(p)
    /\ <<p, q>> \in links
    /\ links' = links \ {<<p, q>>}
    /\ Sends(PostTo(p, Msg("unlink", p, q, 0, "none")))
    /\ UNCHANGED <<outgoing, incoming, tracking, downItems, pc, request, exitMsgs,
                   terminated, exitReason, mailbox, held, nextRef>>

-----------------------------------------------------------------------------
(***************************************************************************)
(* handle_process_exit and notify_local_process_down.                      *)
(***************************************************************************)
\* mark_terminated.  The reason it leaves in the state of the process is not read again.
Mark(p) == terminated' = terminated \cup {p}

\* A process already marked terminated is not reported at all.
BodyEnds(p, reason) ==
    /\ p \in Mortal
    /\ pc[p] = "body"
    /\ request[p] = <<>>
    /\ IF p \in terminated
       THEN /\ pc' = [pc EXCEPT ![p] = "ended"]
            /\ UNCHANGED <<terminated, exitReason>>
       ELSE /\ pc' = [pc EXCEPT ![p] = "down"]
            /\ exitReason' = [exitReason EXCEPT ![p] = reason]
            /\ Mark(p)
    /\ UNCHANGED <<connVars, outgoing, incoming, links, tracking, downItems, request,
                   exitMsgs, mailbox, held, nextRef>>

NotifyMonitors(p) ==
    /\ pc[p] = "down"
    /\ exitMsgs' = [exitMsgs EXCEPT ![p] =
                       {Msg("down", p, mon.owner, mon.ref, exitReason[p]) :
                            mon \in {m \in incoming : m.target = p}}]
    /\ incoming' = {m \in incoming : m.target # p}
    /\ pc' = [pc EXCEPT ![p] = "send_down"]
    /\ UNCHANGED <<connVars, outgoing, links, tracking, downItems, request, terminated,
                   exitReason, mailbox, held, nextRef>>

SendExitMsg(p) ==
    \E msg \in exitMsgs[p] :
        /\ exitMsgs' = [exitMsgs EXCEPT ![p] = @ \ {msg}]
        /\ Sends(PostTo(p, msg))
        /\ UNCHANGED <<outgoing, incoming, links, tracking, downItems, pc, request,
                       terminated, exitReason, mailbox, held, nextRef>>

\* What the linked processes are told.  Variant: they are forgotten.
ForgottenLinks(p) == {}
ExitMsgs(p) ==
    {Msg("exit", p, q, 0, exitReason[p]) : q \in {q \in Proc : <<p, q>> \in links}}

\* Its own monitors go, and handle_local_process_exit_links.
NotifyLinks(p) ==
    /\ pc[p] = "send_down"
    /\ exitMsgs[p] = {}
    /\ outgoing' = {m \in outgoing : m.owner # p}
    /\ exitMsgs' = [exitMsgs EXCEPT ![p] = ExitMsgs(p)]
    /\ links' = {l \in links : l[1] # p}
    /\ pc' = [pc EXCEPT ![p] = "send_exit"]
    /\ UNCHANGED <<connVars, incoming, tracking, downItems, request, terminated,
                   exitReason, mailbox, held, nextRef>>

Unregister(p) ==
    /\ pc[p] = "send_exit"
    /\ exitMsgs[p] = {}
    /\ pc' = [pc EXCEPT ![p] = "gone"]
    /\ UNCHANGED <<connVars, outgoing, incoming, links, tracking, downItems, request,
                   exitMsgs, terminated, exitReason, mailbox, held, nextRef>>

-----------------------------------------------------------------------------
(***************************************************************************)
(* handle_incoming_message, for what the loop of c at n has in hand.       *)
(***************************************************************************)
InHand(n, c, kind) == hand[n][c] # <<>> /\ Head(hand[n][c]).kind = kind

\* The handler goes on with another step for the same message.
Next2(n, c, kind) ==
    /\ hand' = [hand EXCEPT ![n][c] = <<[Head(@) EXCEPT !.kind = kind]>>]
    /\ UNCHANGED <<ends, open, entry, stage, chan, gone>>

HandleMonitor(n, c) ==
    LET msg == Head(hand[n][c])
    IN /\ InHand(n, c, "monitor")
       /\ incoming' = incoming \cup {Mon(msg.from, msg.to, msg.ref)}
       /\ tracking' = Track(n, Peer(n, c), Tracked("in", msg.to, msg.from, msg.ref))
       /\ Next2(n, c, "monitor_check")
       /\ UNCHANGED <<outgoing, links, downItems, pc, request, exitMsgs, terminated,
                      exitReason, mailbox, held, nextRef>>

\* handle.alive.  Variant: the test is not made.
AliveAssumed(p) == TRUE
Alive(p) == p \notin terminated

\* A target that is dead by now is reported from here.
HandleMonitorCheck(n, c) ==
    LET msg == Head(hand[n][c])
        noproc == Msg("down", msg.to, msg.from, msg.ref, "noproc")
    IN /\ InHand(n, c, "monitor_check")
       /\ IF Alive(msg.to)
          THEN /\ Handled(n, c, chan)
               /\ UNCHANGED incoming
          ELSE /\ Handled(n, c, PostTo(msg.to, noproc))
               /\ incoming' = incoming \ {Mon(msg.from, msg.to, msg.ref)}
       /\ UNCHANGED <<outgoing, links, tracking, downItems, pc, request, exitMsgs,
                      terminated, exitReason, mailbox, held, nextRef>>

HandleDemonitor(n, c) ==
    LET msg == Head(hand[n][c])
    IN /\ InHand(n, c, "demonitor")
       /\ incoming' = incoming \ {Mon(msg.from, msg.to, msg.ref)}
       /\ Handled(n, c, chan)
       /\ UNCHANGED <<outgoing, links, tracking, downItems, pc, request, exitMsgs,
                      terminated, exitReason, mailbox, held, nextRef>>

\* handle_process_down: only a monitor that is still there fires, and goes.
\* Variant: it is looked up and stays.
FiredStays(mon) == outgoing
Fired(mon) == outgoing \ {mon}

HandleDown(n, c) ==
    LET msg == Head(hand[n][c])
        mon == Mon(msg.to, msg.from, msg.ref)
    IN /\ InHand(n, c, "down")
       /\ outgoing' = Fired(mon)
       /\ mailbox' = IF mon \in outgoing THEN Deliver(mon.owner, msg) ELSE mailbox
       /\ Handled(n, c, chan)
       /\ UNCHANGED <<incoming, links, tracking, downItems, pc, request, exitMsgs,
                      terminated, exitReason, held, nextRef>>

HandleLink(n, c) ==
    LET msg == Head(hand[n][c])
    IN /\ InHand(n, c, "link")
       /\ IF Alive(msg.to)
          THEN Next2(n, c, "link_add")
          ELSE Handled(n, c, PostTo(msg.to, Msg("exit", msg.to, msg.from, 0,
                                                    "noproc")))
       /\ UNCHANGED monVars

HandleLinkAdd(n, c) ==
    LET msg == Head(hand[n][c])
    IN /\ InHand(n, c, "link_add")
       /\ links' = links \cup {<<msg.to, msg.from>>}
       /\ tracking' = Track(n, Home[msg.from], Tracked("link", msg.to, msg.from, 0))
       /\ Handled(n, c, chan)
       /\ UNCHANGED <<outgoing, incoming, downItems, pc, request, exitMsgs, terminated,
                      exitReason, mailbox, held, nextRef>>

HandleUnlink(n, c) ==
    LET msg == Head(hand[n][c])
    IN /\ InHand(n, c, "unlink")
       /\ links' = links \ {<<msg.to, msg.from>>}
       /\ Handled(n, c, chan)
       /\ UNCHANGED <<outgoing, incoming, tracking, downItems, pc, request, exitMsgs,
                      terminated, exitReason, mailbox, held, nextRef>>

(***************************************************************************)
(* An exit signal for a registered process.  class is what the reason      *)
(* counts as, text what it says.                                           *)
(***************************************************************************)
ExitSignal(p, from, class, text) ==
    IF pc[p] = "gone" \/ (class = "Normal" /\ p \notin Trapping)
    THEN UNCHANGED <<mailbox, terminated>>
    ELSE IF class # "Killed" /\ p \in Trapping
    THEN /\ mailbox' = Deliver(p, Msg("exit", from, p, 0, text))
         /\ UNCHANGED terminated
    ELSE /\ Mark(p)
         /\ UNCHANGED mailbox

\* ExitReason::from a string: whatever it says, it is an error.
Class(text) == "Error"

HandleExit(n, c) ==
    LET msg == Head(hand[n][c])
    IN /\ InHand(n, c, "exit")
       /\ links' = links \ {<<msg.to, msg.from>>}
       /\ ExitSignal(msg.to, msg.from, Class(msg.reason), msg.reason)
       /\ Handled(n, c, chan)
       /\ UNCHANGED <<outgoing, incoming, tracking, downItems, pc, request, exitMsgs,
                      exitReason, held, nextRef>>

-----------------------------------------------------------------------------
(***************************************************************************)
(* handle_node_down(Peer(n, c)) after the entry of c was removed at n.     *)
(***************************************************************************)
TakeTracking(n, c) ==
    LET items == tracking[n][Peer(n, c)]
    IN /\ c \in gone[n]
       /\ gone' = [gone EXCEPT ![n] = @ \ {c}]
       /\ tracking' = [tracking EXCEPT ![n][Peer(n, c)] = [kind \in ItemKind |-> <<>>]]
       /\ downItems' = [downItems EXCEPT ![n][c] =
                            items["out"] \o items["in"] \o items["link"]]
       /\ UNCHANGED <<ends, open, entry, stage, chan, hand, outgoing, incoming,
                      links, pc, request, exitMsgs, terminated, exitReason, mailbox,
                      held, nextRef>>

\* A DOWN goes out for every monitor ever tracked, fired or cancelled or not.
DropOutgoing(item) ==
    /\ item.kind = "out"
    /\ outgoing' = outgoing \ {Mon(item.local, item.remote, item.ref)}
    /\ mailbox' = Deliver(item.local, Msg("down", item.remote, item.local, item.ref,
                                          "noconnection"))
    /\ UNCHANGED <<incoming, links, terminated>>

\* Whatever the reference: all monitors of the remote process go.
DropIncoming(item) ==
    /\ item.kind = "in"
    /\ incoming' = {m \in incoming : ~(m.target = item.local /\ m.owner = item.remote)}
    /\ UNCHANGED <<outgoing, links, mailbox, terminated>>

DropLink(item) ==
    /\ item.kind = "link"
    /\ links' = links \ {<<item.local, item.remote>>}
    /\ ExitSignal(item.local, item.remote, "Error", "noconnection")
    /\ UNCHANGED <<outgoing, incoming>>

NodeDownItem(n, c) ==
    /\ downItems[n][c] # <<>>
    /\ LET item == Head(downItems[n][c])
       IN DropOutgoing(item) \/ DropIncoming(item) \/ DropLink(item)
    /\ downItems' = [downItems EXCEPT ![n][c] = Tail(@)]
    /\ UNCHANGED <<connVars, tracking, pc, request, exitMsgs, exitReason, held, nextRef>>

-----------------------------------------------------------------------------
ProcOperates(p) ==
    \/ \E q \in Proc : \/ Monitor(p, q)
                       \/ Link(p, q)
                       \/ Unlink(p, q)
                       \/ \E r \in Ref : Demonitor(p, q, r)
    \/ \E reason \in Reason : BodyEnds(p, reason)

ProcGoesOn(p) ==
    \/ SendRequest(p)
    \/ NotifyMonitors(p)
    \/ SendExitMsg(p)
    \/ NotifyLinks(p)
    \/ Unregister(p)

Handle(n, c) ==
    \/ HandleMonitor(n, c)
    \/ HandleMonitorCheck(n, c)
    \/ HandleDemonitor(n, c)
    \/ HandleDown(n, c)
    \/ HandleLink(n, c)
    \/ HandleLinkAdd(n, c)
    \/ HandleUnlink(n, c)
    \/ HandleExit(n, c)

NodeDownGoesOn(n, c) == TakeTracking(n, c) \/ NodeDownItem(n, c)

NodeGoesOn(n, m) == (Receive(n, m) \/ Notice(n, m)) /\ UNCHANGED monVars

\* What users and the network do.
Environment ==
    \/ /\ \/ \E n, m \in Node : Disconnect(n, m) \/ \E c \in Conn : Dial(n, m, c)
          \/ \E c \in Conn : \/ Accept(c)
                            \/ DialReturns(c)
                            \/ DialFails(c)
                            \/ ConnectionLost(c)
       /\ UNCHANGED monVars
    \/ \E p \in Proc : ProcOperates(p)

\* What the tasks of the system do by themselves.
GoesOn ==
    \/ \E p \in Proc : ProcGoesOn(p)
    \/ \E n, m \in Node : NodeGoesOn(n, m)
    \/ \E n \in Node, c \in Conn : Handle(n, c) \/ NodeDownGoesOn(n, c)

Next == Environment \/ GoesOn

Spec == Init /\ [][Next]_vars

(***************************************************************************)
(* tokio does not stop while a task can go on.  No task is preferred, as   *)
(* all they do ends by itself.  Nothing is assumed of users, of the        *)
(* network, nor that a handshake ends.                                     *)
(***************************************************************************)
FairSpec == Spec /\ WF_vars(GoesOn)

-----------------------------------------------------------------------------
(***************************************************************************)
(* Properties.                                                             *)
(***************************************************************************)
IsDown(m) == m.kind = "down"
Lost(m) == m.reason = "noconnection"
OfSameMonitor(m, other) == m.from = other.from /\ m.ref = other.ref

(***************************************************************************)
(* A monitor is reported at most once by the node of its target, although  *)
(* that node may answer the request and report the end too, and at most    *)
(* once by handle_node_down, however often the nodes connect.  (One of     *)
(* each may come: node_tracking forgets neither fired nor cancelled ones.) *)
(* A report that does not blame the connection is true: the target has     *)
(* been marked terminated, whatever was in flight meanwhile.               *)
(***************************************************************************)
DownOncePerCause ==
    \A p \in Proc : \A i \in DOMAIN mailbox[p] :
        LET down == mailbox[p][i] IN
        IsDown(down) =>
            /\ \A j \in DOMAIN mailbox[p] :
                  IsDown(mailbox[p][j]) /\ OfSameMonitor(down, mailbox[p][j])
                    /\ (Lost(down) <=> Lost(mailbox[p][j])) => i = j
            /\ ~Lost(down) => down.from \in terminated

\* The nodes have not been connected a second time.
OneConnection == \A b, c \in Conn : ends[b] # NoEnds /\ ends[c] # NoEnds => b = c

(***************************************************************************)
(* "The calling process will receive a SystemMessage::Down when the remote *)
(* process exits" (monitor_process): also when the target ends before the  *)
(* request comes, or while it is handled, or the connection is lost with   *)
(* the request or the DOWN on it.  Only as long as the nodes do not        *)
(* connect again: see the README for what happens then.                    *)
(***************************************************************************)
DownArrives ==
    \A mon \in Monitors : Remote(mon.owner, mon.target) =>
        (mon \in held /\ pc[mon.target] = "down" ~>
            \/ \E i \in DOMAIN mailbox[mon.owner] :
                  LET m == mailbox[mon.owner][i]
                  IN IsDown(m) /\ m.from = mon.target /\ m.ref = mon.ref
            \/ mon \notin held
            \/ pc[mon.owner] # "body"
            \/ ~OneConnection)

Told(p, q) == \E i \in DOMAIN mailbox[p] :
                 mailbox[p][i].kind = "exit" /\ mailbox[p][i].from = q

(***************************************************************************)
(* A process that traps exits and has a link that both nodes know is told  *)
(* of the end of its peer, by the peer's node or by the loss of the        *)
(* connection, or has unlinked; a link does not outlive the peer.          *)
(***************************************************************************)
LinkedEndArrives ==
    \A p \in Trapping, q \in Proc : Remote(p, q) =>
        ({<<p, q>>, <<q, p>>} \subseteq links /\ pc[q] = "down" ~>
            \/ Told(p, q)
            \/ <<p, q>> \notin links
            \/ p \in terminated
            \/ ~OneConnection)
=============================================================================
