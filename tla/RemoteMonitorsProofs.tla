------------------------ MODULE RemoteMonitorsProofs ------------------------
(***************************************************************************)
(* Proofs about RemoteMonitors, for any number of nodes, processes,        *)
(* connections and references, and any set of operations.                  *)
(***************************************************************************)
EXTENDS RemoteMonitors, TLAPS

-----------------------------------------------------------------------------
(***************************************************************************)
(* Types.  A connection that is in use was dialled by one node to another, *)
(* and all that is on its way is sound: a DOWN is about a process that has *)
(* been marked terminated, and blames no connection; a request has a       *)
(* reference.                                                              *)
(***************************************************************************)
Dialled(c) == ends[c].from \in Node /\ ends[c].to \in Node

ConnTypes(S) ==
    /\ ends \in [Conn -> [from : Node \cup {None}, to : Node \cup {None}]]
    /\ open \subseteq Conn
    /\ entry \in [Node -> [Node -> 0 .. MaxConn]]
    /\ stage \in [Conn -> {"none", "dialled", "accepted", "done"}]
    /\ chan \in [Conn -> [Node -> Seq(S)]]
    /\ hand \in [Node -> [Conn -> Seq(S)]]
    /\ gone \in [Node -> SUBSET Conn]

ConnInv ==
    /\ \A c \in Conn : ends[c] = NoEnds \/ Dialled(c)
    /\ \A c \in Conn : stage[c] # "none" => Dialled(c)
    /\ \A n, m \in Node : entry[n][m] # 0 => Dialled(entry[n][m])
    /\ \A n \in Node : \A c \in gone[n] : Dialled(c)
    /\ \A n \in Node, c \in Conn : hand[n][c] # <<>> => Dialled(c)

MonTypes(S) ==
    /\ outgoing \subseteq Monitors
    /\ incoming \subseteq Monitors
    /\ links \subseteq Proc \X Proc
    /\ tracking \in [Node -> [Node -> [ItemKind -> Seq(Item)]]]
    /\ downItems \in [Node -> [Conn -> Seq(Item)]]
    /\ pc \in [Proc -> PC]
    /\ request \in [Proc -> Seq(S)]
    /\ exitMsgs \in [Proc -> SUBSET S]
    /\ terminated \subseteq Proc
    /\ exitReason \in [Proc -> Reason \cup {"none"}]
    /\ mailbox \in [Proc -> Seq(Message)]
    /\ held \subseteq Monitors
    /\ nextRef \in 1 .. MaxRef + 1
    /\ \A p \in Proc : pc[p] \in {"body", "ended"} \/ p \in terminated

Requests(m) == m.kind \in {"monitor", "monitor_check"}

Sound == {m \in Message : /\ IsDown(m) => m.from \in terminated /\ ~Lost(m)
                          /\ Requests(m) => m.ref \in Ref}

Types == ConnTypes(Sound) /\ ConnInv /\ MonTypes(Sound)

LEMMA TypesInit == Init => Types
  <1> SUFFICES ASSUME Init PROVE Types
    OBVIOUS
  <1> USE ConnAssumption, RefAssumption
  <1>1. ConnTypes(Sound)
    BY DEF Init, ConnTypes, NoEnds, Conn
  <1>2. ConnInv
    BY DEF Init, ConnInv
  <1>3. MonTypes(Sound)
    BY DEF Init, MonTypes, PC
  <1>4. QED
    BY <1>1, <1>2, <1>3 DEF Types

LEMMA SoundGrows ==
    ASSUME terminated \subseteq terminated'
    PROVE  Sound \subseteq Sound'
  BY DEF Sound

\* What is typed by a set is typed by a larger one.
LEMMA WiderConn ==
    ASSUME NEW S, NEW T, S \subseteq T, ConnTypes(S)
    PROVE  ConnTypes(T)
  <1>1. Seq(S) \subseteq Seq(T)
    OBVIOUS
  <1>2. chan \in [Conn -> [Node -> Seq(T)]]
    BY <1>1 DEF ConnTypes
  <1>3. hand \in [Node -> [Conn -> Seq(T)]]
    BY <1>1 DEF ConnTypes
  <1>4. QED
    BY <1>2, <1>3 DEF ConnTypes

LEMMA WiderMon ==
    ASSUME NEW S, NEW T, S \subseteq T, MonTypes(S)
    PROVE  MonTypes(T)
  <1>1. Seq(S) \subseteq Seq(T) /\ SUBSET S \subseteq SUBSET T
    OBVIOUS
  <1>2. request \in [Proc -> Seq(T)]
    BY <1>1 DEF MonTypes
  <1>3. exitMsgs \in [Proc -> SUBSET T]
    BY <1>1 DEF MonTypes
  <1>4. QED
    BY <1>2, <1>3 DEF MonTypes

-----------------------------------------------------------------------------
(***************************************************************************)
(* What the connections do, whatever set S their messages are of.          *)
(***************************************************************************)
ConnOK(S) == ConnTypes(S) /\ ConnInv

LEMMA DialConn ==
    ASSUME NEW S, ConnOK(S), NEW n \in Node, NEW m \in Node, NEW c \in Conn, Dial(n, m, c)
    PROVE  ConnOK(S)'
  <1>1. /\ ends[c] = NoEnds
        /\ ends' = [ends EXCEPT ![c] = [from |-> n, to |-> m]]
        /\ open' = open \cup {c}
        /\ stage' = [stage EXCEPT ![c] = "dialled"]
        /\ UNCHANGED <<entry, chan, hand, gone>>
    BY DEF Dial
  <1>2. ~Dialled(c)
    BY <1>1, NoneAssumption DEF Dialled, NoEnds
  <1>3. ConnTypes(S)'
    BY <1>1 DEF ConnOK, ConnTypes
  <1>4. Dialled(c)' /\ \A b \in Conn : b # c => (Dialled(b)' <=> Dialled(b)) /\ ends'[b] = ends[b]
    BY <1>1 DEF ConnOK, ConnTypes, Dialled
  <1>5. \A b \in Conn : Dialled(b) => Dialled(b)'
    BY <1>4
  <1>6. (\A b \in Conn : ends[b] = NoEnds \/ Dialled(b))'
    BY <1>4 DEF ConnOK, ConnInv
  <1>7. \A b \in Conn : stage'[b] # "none" => Dialled(b)'
    BY <1>1, <1>4 DEF ConnOK, ConnTypes, ConnInv
  <1>8. \A k, l \in Node : entry'[k][l] # 0 =>
            ends'[entry'[k][l]].from \in Node /\ ends'[entry'[k][l]].to \in Node
    <2> SUFFICES ASSUME NEW k \in Node, NEW l \in Node, entry'[k][l] # 0
                 PROVE  ends'[entry'[k][l]].from \in Node /\ ends'[entry'[k][l]].to \in Node
      OBVIOUS
    <2> PICK b : b = entry[k][l]
      OBVIOUS
    <2>1. b \in Conn /\ Dialled(b) /\ entry'[k][l] = b
      BY <1>1 DEF ConnOK, ConnTypes, ConnInv, Conn
    <2>2. QED
      BY <2>1, <1>5 DEF Dialled
  <1>9. \A k \in Node : \A b \in gone'[k] : Dialled(b)'
    BY <1>1, <1>5 DEF ConnOK, ConnTypes, ConnInv
  <1>10. \A k \in Node, b \in Conn : hand'[k][b] # <<>> => Dialled(b)'
    BY <1>1, <1>5 DEF ConnOK, ConnInv
  <1>11. QED
    BY <1>1, <1>3, <1>6, <1>7, <1>8, <1>9, <1>10 DEF ConnOK, ConnInv, Dialled

\* No connection is dialled: the ends stay.
LEMMA EndsStay ==
    ASSUME NEW S, ConnOK(S), ConnTypes(S)', UNCHANGED ends,
           \A c \in Conn : stage'[c] # "none" => stage[c] # "none",
           \A n, m \in Node : entry'[n][m] \in {0, entry[n][m]} \cup {c \in Conn : stage[c] # "none"},
           \A n \in Node : gone'[n] \subseteq
               gone[n] \cup {entry[n][m] : m \in {l \in Node : entry[n][l] # 0}},
           \A n \in Node, c \in Conn : hand'[n][c] # <<>> =>
               hand[n][c] # <<>> \/ \E m \in Node : entry[n][m] # 0 /\ entry[n][m] = c
    PROVE  ConnOK(S)'
  <1>1. \A c : Dialled(c)' <=> Dialled(c)
    BY DEF Dialled
  <1>2. \A c \in Conn : stage[c] # "none" => Dialled(c)
    BY DEF ConnOK, ConnInv
  <1>3. (\A c \in Conn : ends[c] = NoEnds \/ Dialled(c))'
    BY DEF ConnOK, ConnInv, Dialled
  <1>4. \A c \in Conn : stage'[c] # "none" => Dialled(c)
    BY <1>2
  <1>5. \A n, m \in Node : entry'[n][m] # 0 => Dialled(entry'[n][m])
    BY <1>2 DEF ConnOK, ConnInv
  <1>6. \A n \in Node : \A c \in gone'[n] : Dialled(c)
    BY DEF ConnOK, ConnInv
  <1>7. \A n \in Node, c \in Conn : hand'[n][c] # <<>> => Dialled(c)
    BY DEF ConnOK, ConnInv
  <1>8. QED
    BY <1>1, <1>3, <1>4, <1>5, <1>6, <1>7 DEF ConnOK, ConnInv, Dialled

LEMMA AcceptConn ==
    ASSUME NEW S, ConnOK(S), NEW c \in Conn, Accept(c)
    PROVE  ConnOK(S)'
  <1>1. Dialled(c) /\ stage[c] # "none"
    BY DEF Accept, ConnOK, ConnInv
  <1> PICK m \in Node : m = ends[c].to
    BY <1>1 DEF Dialled
  <1> PICK k \in Node : k = ends[c].from
    BY <1>1 DEF Dialled
  <1> PICK old : old = entry[m][k]
    OBVIOUS
  <1>2. /\ open' = open \ {old}
        /\ chan' = [b \in Conn |-> IF b = old THEN [chan[b] EXCEPT ![m] = <<>>] ELSE chan[b]]
        /\ entry' = [entry EXCEPT ![m][k] = c]
        /\ stage' = [stage EXCEPT ![c] = "accepted"]
        /\ UNCHANGED <<ends, hand, gone>>
    BY DEF Accept
  <1>3. \A b \in Conn : [chan[b] EXCEPT ![m] = <<>>] \in [Node -> Seq(S)] /\ chan[b] \in [Node -> Seq(S)]
    BY DEF ConnOK, ConnTypes
  <1>4. chan' \in [Conn -> [Node -> Seq(S)]]
    BY <1>2, <1>3
  <1>5. entry' \in [Node -> [Node -> 0 .. MaxConn]]
    <2>1. [entry[m] EXCEPT ![k] = c] \in [Node -> 0 .. MaxConn]
      BY DEF ConnOK, ConnTypes, Conn
    <2>2. QED
      BY <1>2, <2>1 DEF ConnOK, ConnTypes
  <1>6. ConnTypes(S)'
    BY <1>2, <1>4, <1>5 DEF ConnOK, ConnTypes
  <1>7. \A k2, l2 \in Node : entry'[k2][l2] \in {c, entry[k2][l2]}
    BY <1>2 DEF ConnOK, ConnTypes
  <1>8. QED
    BY <1>1, <1>2, <1>6, <1>7, EndsStay

LEMMA DialReturnsConn ==
    ASSUME NEW S, ConnOK(S), NEW c \in Conn, DialReturns(c)
    PROVE  ConnOK(S)'
  <1>1. Dialled(c) /\ stage[c] # "none"
    BY DEF DialReturns, ConnOK, ConnInv
  <1> PICK m \in Node : m = ends[c].to
    BY <1>1 DEF Dialled
  <1> PICK n \in Node : n = ends[c].from
    BY <1>1 DEF Dialled
  <1>2. /\ open' \subseteq open
        /\ entry' = entry \/ entry' = [entry EXCEPT ![n][m] = c]
        /\ stage' = [stage EXCEPT ![c] = "done"]
        /\ UNCHANGED <<ends, chan, hand, gone>>
    BY DEF DialReturns
  <1>3. [entry[n] EXCEPT ![m] = c] \in [Node -> 0 .. MaxConn]
    BY DEF ConnOK, ConnTypes, Conn
  <1>4. entry' \in [Node -> [Node -> 0 .. MaxConn]]
    BY <1>2, <1>3 DEF ConnOK, ConnTypes
  <1>5. ConnTypes(S)'
    BY <1>2, <1>4 DEF ConnOK, ConnTypes
  <1>6. \A k, l \in Node : entry'[k][l] \in {c, entry[k][l]}
    <2>1. CASE entry' = entry
      BY <2>1
    <2>2. CASE entry' = [entry EXCEPT ![n][m] = c]
      BY <2>2 DEF ConnOK, ConnTypes
    <2>3. QED
      BY <1>2, <2>1, <2>2
  <1>7. QED
    BY <1>1, <1>2, <1>5, <1>6, EndsStay

LEMMA DialFailsConn ==
    ASSUME NEW S, ConnOK(S), NEW c \in Conn, DialFails(c)
    PROVE  ConnOK(S)'
  <1>1. stage[c] # "none" /\ stage' = [stage EXCEPT ![c] = "done"]
        /\ UNCHANGED <<ends, open, entry, chan, hand, gone>>
    BY DEF DialFails
  <1>2. ConnTypes(S)'
    BY <1>1 DEF ConnOK, ConnTypes
  <1>3. \A b \in Conn : stage'[b] # "none" => stage[b] # "none"
    BY <1>1 DEF ConnOK, ConnTypes
  <1>4. QED
    BY <1>1, <1>2, <1>3, EndsStay

LEMMA ConnectionLostConn ==
    ASSUME NEW S, ConnOK(S), NEW c \in Conn, ConnectionLost(c)
    PROVE  ConnOK(S)'
  <1>1. ConnTypes(S)'
    BY DEF ConnectionLost, ConnOK, ConnTypes
  <1>2. QED
    BY <1>1, EndsStay DEF ConnectionLost

\* A channel of a connection gets another content.
LEMMA ChanTyped ==
    ASSUME NEW S, ConnTypes(S), NEW c \in Conn, NEW n \in Node, NEW s \in Seq(S)
    PROVE  [chan EXCEPT ![c][n] = s] \in [Conn -> [Node -> Seq(S)]]
  <1>1. [chan[c] EXCEPT ![n] = s] \in [Node -> Seq(S)]
    BY DEF ConnTypes
  <1>2. QED
    BY <1>1 DEF ConnTypes

LEMMA HandTyped ==
    ASSUME NEW S, ConnTypes(S), NEW c \in Conn, NEW n \in Node, NEW s \in Seq(S)
    PROVE  [hand EXCEPT ![n][c] = s] \in [Node -> [Conn -> Seq(S)]]
  <1>1. [hand[n] EXCEPT ![c] = s] \in [Conn -> Seq(S)]
    BY DEF ConnTypes
  <1>2. QED
    BY <1>1 DEF ConnTypes

LEMMA RemoveEntryConn ==
    ASSUME NEW S, ConnOK(S), NEW n \in Node, NEW m \in Node, RemoveEntry(n, m)
    PROVE  ConnOK(S)'
  <1> PICK c : c = entry[n][m]
    OBVIOUS
  <1>1. /\ c # 0
        /\ open' = open \ {c}
        /\ chan' = [chan EXCEPT ![c][n] = <<>>]
        /\ entry' = [entry EXCEPT ![n][m] = 0]
        /\ gone' = [gone EXCEPT ![n] = @ \cup {c}]
        /\ UNCHANGED <<ends, stage, hand>>
    BY DEF RemoveEntry
  <1>2. c \in Conn
    BY <1>1 DEF ConnOK, ConnTypes, Conn
  <1>3. chan' \in [Conn -> [Node -> Seq(S)]]
    <2>1. <<>> \in Seq(S)
      OBVIOUS
    <2>2. QED
      BY <1>1, <1>2, <2>1, ChanTyped DEF ConnOK
  <1>4. entry' \in [Node -> [Node -> 0 .. MaxConn]]
    <2>1. [entry[n] EXCEPT ![m] = 0] \in [Node -> 0 .. MaxConn]
      BY ConnAssumption DEF ConnOK, ConnTypes
    <2>2. QED
      BY <1>1, <2>1 DEF ConnOK, ConnTypes
  <1>5. gone' \in [Node -> SUBSET Conn]
    BY <1>1, <1>2 DEF ConnOK, ConnTypes
  <1>6. ConnTypes(S)'
    BY <1>1, <1>3, <1>4, <1>5 DEF ConnOK, ConnTypes
  <1>7. \A k, l \in Node : entry'[k][l] \in {0, entry[k][l]}
    BY <1>1 DEF ConnOK, ConnTypes
  <1>8. \A k \in Node : gone'[k] \subseteq gone[k] \cup {entry[k][l] : l \in {l \in Node : entry[k][l] # 0}}
    BY <1>1 DEF ConnOK, ConnTypes
  <1>9. QED
    BY <1>1, <1>6, <1>7, <1>8, EndsStay

LEMMA ReceiveConn ==
    ASSUME NEW S, ConnOK(S), NEW n \in Node, NEW m \in Node, Receive(n, m)
    PROVE  ConnOK(S)'
  <1> PICK c : c = entry[n][m]
    OBVIOUS
  <1>1. /\ c # 0
        /\ chan[c][n] # <<>>
        /\ hand' = [hand EXCEPT ![n][c] = <<Head(chan[c][n])>>]
        /\ chan' = [chan EXCEPT ![c][n] = Tail(chan[c][n])]
        /\ UNCHANGED <<ends, open, entry, stage, gone>>
    BY DEF Receive
  <1>2. c \in Conn
    BY <1>1 DEF ConnOK, ConnTypes, Conn
  <1>3. chan[c][n] \in Seq(S)
    BY <1>2 DEF ConnOK, ConnTypes
  <1>4. <<Head(chan[c][n])>> \in Seq(S) /\ Tail(chan[c][n]) \in Seq(S)
    BY <1>1, <1>3
  <1>5. chan' \in [Conn -> [Node -> Seq(S)]] /\ hand' \in [Node -> [Conn -> Seq(S)]]
    BY <1>1, <1>2, <1>4, ChanTyped, HandTyped DEF ConnOK
  <1>6. ConnTypes(S)'
    BY <1>1, <1>5 DEF ConnOK, ConnTypes
  <1>7. \A k \in Node, b \in Conn : hand'[k][b] # <<>> => hand[k][b] # <<>> \/ (k = n /\ b = c)
    BY <1>1 DEF ConnOK, ConnTypes
  <1>8. \A k \in Node, b \in Conn : hand'[k][b] # <<>> =>
            hand[k][b] # <<>> \/ \E l \in Node : entry[k][l] # 0 /\ entry[k][l] = b
    BY <1>1, <1>7
  <1>9. QED
    BY <1>1, <1>6, <1>8, EndsStay

LEMMA PostTyped ==
    ASSUME NEW S, ConnTypes(S), NEW n \in Node, NEW m \in Node, NEW msg \in S
    PROVE  Post(n, m, msg) \in [Conn -> [Node -> Seq(S)]]
  <1> PICK c : c = entry[n][m]
    OBVIOUS
  <1>1. CASE c \in open
    <2>1. c \in Conn /\ chan[c][m] \in Seq(S)
      BY <1>1 DEF ConnTypes
    <2>2. Append(chan[c][m], msg) \in Seq(S)
      BY <2>1
    <2>3. QED
      BY <1>1, <2>1, <2>2, ChanTyped DEF Post
  <1>2. CASE c \notin open
    BY <1>2 DEF Post, ConnTypes
  <1>3. QED
    BY <1>1, <1>2

LEMMA PostToTyped ==
    ASSUME NEW S, ConnTypes(S), NEW p \in Proc, NEW msg \in S, S \subseteq Message
    PROVE  PostTo(p, msg) \in [Conn -> [Node -> Seq(S)]]
  <1>1. Home[p] \in Node /\ Home[msg.to] \in Node
    BY HomeAssumption DEF Message
  <1>2. QED
    BY <1>1, PostTyped DEF PostTo

LEMMA SendsConn ==
    ASSUME NEW S, ConnOK(S), NEW boxes \in [Conn -> [Node -> Seq(S)]], Sends(boxes)
    PROVE  ConnOK(S)'
  <1>1. ConnTypes(S)'
    BY DEF Sends, ConnOK, ConnTypes
  <1>2. QED
    BY <1>1, EndsStay DEF Sends

LEMMA HandledConn ==
    ASSUME NEW S, ConnOK(S), NEW n \in Node, NEW c \in Conn,
           NEW boxes \in [Conn -> [Node -> Seq(S)]], Handled(n, c, boxes)
    PROVE  ConnOK(S)'
  <1>1. hand' \in [Node -> [Conn -> Seq(S)]]
    BY HandTyped DEF Handled, ConnOK
  <1>2. ConnTypes(S)'
    BY <1>1 DEF Handled, ConnOK, ConnTypes
  <1>3. \A k \in Node, b \in Conn : hand'[k][b] # <<>> => hand[k][b] # <<>>
    BY DEF Handled, ConnOK, ConnTypes
  <1>4. QED
    BY <1>2, <1>3, EndsStay DEF Handled

LEMMA Next2Conn ==
    ASSUME NEW S, ConnOK(S), NEW n \in Node, NEW c \in Conn, NEW kind, hand[n][c] # <<>>,
           [Head(hand[n][c]) EXCEPT !.kind = kind] \in S, Next2(n, c, kind)
    PROVE  ConnOK(S)'
  <1>1. hand' = [hand EXCEPT ![n][c] = <<[Head(hand[n][c]) EXCEPT !.kind = kind]>>]
        /\ UNCHANGED <<ends, open, entry, stage, chan, gone>>
    BY DEF Next2
  <1>2. hand' \in [Node -> [Conn -> Seq(S)]]
    <2> PICK s : s = <<[Head(hand[n][c]) EXCEPT !.kind = kind]>>
      OBVIOUS
    <2>1. s \in Seq(S)
      OBVIOUS
    <2>2. QED
      BY <1>1, <2>1, HandTyped DEF ConnOK
  <1>3. ConnTypes(S)'
    BY <1>1, <1>2 DEF ConnOK, ConnTypes
  <1>4. \A k \in Node, b \in Conn : hand'[k][b] # <<>> => hand[k][b] # <<>>
    BY <1>1 DEF ConnOK, ConnTypes
  <1>5. QED
    BY <1>1, <1>3, <1>4, EndsStay

\* handle_node_down takes the removed entry.
LEMMA TakenConn ==
    ASSUME NEW S, ConnOK(S), NEW n \in Node, NEW c \in Conn,
           gone' = [gone EXCEPT ![n] = @ \ {c}],
           UNCHANGED <<ends, open, entry, stage, chan, hand>>
    PROVE  ConnOK(S)'
  <1>1. ConnTypes(S)'
    BY DEF ConnOK, ConnTypes
  <1>2. \A k \in Node : gone'[k] \subseteq gone[k]
    BY DEF ConnOK, ConnTypes
  <1>3. QED
    BY <1>1, <1>2, EndsStay

LEMMA SameConn ==
    ASSUME NEW S, ConnOK(S), UNCHANGED connVars
    PROVE  ConnOK(S)'
  BY DEF ConnOK, ConnTypes, ConnInv, connVars, Dialled

-----------------------------------------------------------------------------
(***************************************************************************)
(* What each step leaves, where S is what is sound after it.               *)
(***************************************************************************)
Before(S) == ConnOK(S) /\ MonTypes(S)

LEMMA SoundAfter ==
    ASSUME NEW S, S = Sound'
    PROVE  /\ S \subseteq Message
           /\ \A m \in S : IsDown(m) => m.from \in terminated' /\ ~Lost(m)
           /\ \A m \in S : Requests(m) => m.ref \in Ref
           /\ \A m \in Message :
                 (IsDown(m) => m.from \in terminated' /\ ~Lost(m)) /\ (Requests(m) => m.ref \in Ref)
                     => m \in S
  BY DEF Sound

LEMMA MsgTyped ==
    ASSUME NEW kind \in Kind, NEW p \in Proc, NEW q \in Proc, NEW r \in 0 .. MaxRef,
           NEW text \in Text \cup {"none"}
    PROVE  Msg(kind, p, q, r, text) \in Message
  BY DEF Msg, Message

LEMMA TrackTyped ==
    ASSUME NEW S, MonTypes(S), NEW n \in Node, NEW m \in Node, NEW item \in Item
    PROVE  Track(n, m, item) \in [Node -> [Node -> [ItemKind -> Seq(Item)]]]
  <1> PICK k \in ItemKind : k = item.kind
    BY DEF Item
  <1>1. tracking[n][m] \in [ItemKind -> Seq(Item)] /\ tracking[n] \in [Node -> [ItemKind -> Seq(Item)]]
    BY DEF MonTypes
  <1>2. Append(tracking[n][m][k], item) \in Seq(Item)
    BY <1>1
  <1>3. [tracking[n][m] EXCEPT ![k] = Append(tracking[n][m][k], item)] \in [ItemKind -> Seq(Item)]
    BY <1>1, <1>2
  <1> PICK g : g = [tracking[n][m] EXCEPT ![k] = Append(tracking[n][m][k], item)]
    OBVIOUS
  <1>4. [tracking[n] EXCEPT ![m] = g] \in [Node -> [ItemKind -> Seq(Item)]]
    BY <1>1, <1>3
  <1> PICK f : f = [tracking[n] EXCEPT ![m] = g]
    OBVIOUS
  <1>5. Track(n, m, item) = [tracking EXCEPT ![n] = f]
    BY DEF Track
  <1>6. QED
    BY <1>4, <1>5 DEF MonTypes

LEMMA DeliverTyped ==
    ASSUME NEW S, MonTypes(S), NEW p \in Proc, NEW msg \in Message
    PROVE  Deliver(p, msg) \in [Proc -> Seq(Message)]
  <1>1. Append(mailbox[p], msg) \in Seq(Message)
    BY DEF MonTypes
  <1>2. QED
    BY <1>1 DEF Deliver, MonTypes

\* What is in the hands of a loop.
LEMMA HeadTyped ==
    ASSUME NEW S, ConnOK(S), NEW n \in Node, NEW c \in Conn, hand[n][c] # <<>>
    PROVE  Head(hand[n][c]) \in S /\ Dialled(c)
  <1>1. hand[n][c] \in Seq(S)
    BY DEF ConnOK, ConnTypes
  <1>2. QED
    BY <1>1 DEF ConnOK, ConnInv

LEMMA PeerIsNode ==
    ASSUME NEW n, NEW c, Dialled(c)
    PROVE  Peer(n, c) \in Node
  BY DEF Dialled, Peer

LEMMA MonitorTypes ==
    ASSUME NEW S, S = Sound', Before(S), NEW p \in Proc, NEW q \in Proc, Monitor(p, q)
    PROVE  Before(S)'
  <1>1. /\ nextRef \in Ref
        /\ nextRef' = nextRef + 1
        /\ outgoing' = outgoing \cup {Mon(p, q, nextRef)}
        /\ tracking' = Track(Home[p], Home[q], Tracked("out", p, q, nextRef))
        /\ request' = [request EXCEPT ![p] = <<Msg("monitor", p, q, nextRef, "none")>>]
        /\ UNCHANGED <<connVars, incoming, links, downItems, pc, exitMsgs, terminated,
                       exitReason, mailbox, held>>
    BY DEF Monitor
  <1>2. Mon(p, q, nextRef) \in Monitors
    BY <1>1 DEF Mon, Monitors
  <1>3. Tracked("out", p, q, nextRef) \in Item /\ nextRef \in 0 .. MaxRef
    BY <1>1, RefAssumption DEF Tracked, Item, ItemKind, Ref
  <1>4. Home[p] \in Node /\ Home[q] \in Node
    BY HomeAssumption
  <1>5. tracking' \in [Node -> [Node -> [ItemKind -> Seq(Item)]]]
    BY <1>1, <1>3, <1>4, TrackTyped DEF Before
  <1> PICK msg : msg = Msg("monitor", p, q, nextRef, "none")
    OBVIOUS
  <1>6. msg \in Message /\ ~IsDown(msg) /\ msg.ref \in Ref
    BY <1>1, <1>3, MsgTyped DEF Kind, IsDown, Msg
  <1>7. msg \in S
    BY <1>6 DEF Sound, Requests, IsDown
  <1>8. request' \in [Proc -> Seq(S)]
    BY <1>1, <1>7 DEF Before, MonTypes
  <1>9. nextRef' \in 1 .. MaxRef + 1
    BY <1>1, RefAssumption DEF Ref
  <1>10. MonTypes(S)'
    BY <1>1, <1>2, <1>5, <1>8, <1>9 DEF Before, MonTypes
  <1>11. QED
    BY <1>1, <1>10, SameConn DEF Before

LEMMA LinkTypes ==
    ASSUME NEW S, S = Sound', Before(S), NEW p \in Proc, NEW q \in Proc, Link(p, q)
    PROVE  Before(S)'
  <1>1. /\ nextRef \in Ref
        /\ nextRef' = nextRef + 1
        /\ links' = links \cup {<<p, q>>}
        /\ tracking' = Track(Home[p], Home[q], Tracked("link", p, q, 0))
        /\ request' = [request EXCEPT ![p] = <<Msg("link", p, q, 0, "none")>>]
        /\ UNCHANGED <<connVars, outgoing, incoming, downItems, pc, exitMsgs, terminated,
                       exitReason, mailbox, held>>
    BY DEF Link
  <1>2. Tracked("link", p, q, 0) \in Item /\ 0 \in 0 .. MaxRef
    BY RefAssumption DEF Tracked, Item, ItemKind
  <1>3. Home[p] \in Node /\ Home[q] \in Node
    BY HomeAssumption
  <1>4. tracking' \in [Node -> [Node -> [ItemKind -> Seq(Item)]]]
    BY <1>1, <1>2, <1>3, TrackTyped DEF Before
  <1> PICK msg : msg = Msg("link", p, q, 0, "none")
    OBVIOUS
  <1>5. msg \in Message /\ ~IsDown(msg) /\ ~Requests(msg)
    BY <1>2, MsgTyped DEF Kind, IsDown, Requests, Msg
  <1>6. msg \in S
    BY <1>5 DEF Sound, Requests, IsDown
  <1>7. request' \in [Proc -> Seq(S)]
    BY <1>1, <1>6 DEF Before, MonTypes
  <1>8. nextRef' \in 1 .. MaxRef + 1
    BY <1>1, RefAssumption DEF Ref
  <1>9. MonTypes(S)'
    BY <1>1, <1>4, <1>7, <1>8 DEF Before, MonTypes
  <1>10. QED
    BY <1>1, <1>9, SameConn DEF Before

LEMMA SendRequestTypes ==
    ASSUME NEW S, S = Sound', Before(S), NEW p \in Proc, SendRequest(p)
    PROVE  Before(S)'
  <1> PICK msg : msg = Head(request[p])
    OBVIOUS
  <1>1. request[p] # <<>> /\ Sends(PostTo(p, msg))
    BY DEF SendRequest
  <1>2. request[p] \in Seq(S)
    BY DEF Before, MonTypes
  <1>3. msg \in S
    BY <1>1, <1>2
  <1>4. PostTo(p, msg) \in [Conn -> [Node -> Seq(S)]]
    BY <1>3, PostToTyped, SoundAfter DEF Before, ConnOK
  <1>5. ConnOK(S)'
    BY <1>1, <1>4, SendsConn DEF Before
  <1>6. msg \in Message /\ msg.ref \in 0 .. MaxRef
    BY <1>3, SoundAfter DEF Message
  <1>7. held' \subseteq Monitors
    <2>1. CASE Connected(p, msg.to) /\ msg.kind = "monitor"
      <3>1. held' = held \cup {Mon(p, msg.to, msg.ref)}
        BY <2>1 DEF SendRequest
      <3>2. msg.ref \in Ref
        BY <2>1, <1>3, SoundAfter DEF Requests
      <3>3. Mon(p, msg.to, msg.ref) \in Monitors
        BY <3>2, <1>6 DEF Mon, Monitors, Message
      <3>4. QED
        BY <3>1, <3>3 DEF Before, MonTypes
    <2>2. CASE ~(Connected(p, msg.to) /\ msg.kind = "monitor")
      BY <2>2 DEF SendRequest, Before, MonTypes
    <2>3. QED
      BY <2>1, <2>2
  <1>8. outgoing' \subseteq outgoing /\ links' \subseteq links
    BY DEF SendRequest
  <1>9. request' \in [Proc -> Seq(S)]
    BY DEF SendRequest, Before, MonTypes
  <1>10. UNCHANGED <<incoming, tracking, downItems, pc, exitMsgs, terminated, exitReason, mailbox, nextRef>>
    BY DEF SendRequest
  <1>11. MonTypes(S)'
    BY <1>7, <1>8, <1>9, <1>10 DEF Before, MonTypes
  <1>12. QED
    BY <1>5, <1>11 DEF Before

\* A message that is no DOWN and no request may always be sent.
LEMMA PlainIsSound ==
    ASSUME NEW S, S = Sound', NEW kind \in Kind \ {"down", "monitor", "monitor_check"},
           NEW p \in Proc, NEW q \in Proc, NEW r \in 0 .. MaxRef, NEW text \in Text \cup {"none"}
    PROVE  Msg(kind, p, q, r, text) \in S
  BY DEF Msg, Message, Sound, IsDown, Requests

LEMMA DemonitorTypes ==
    ASSUME NEW S, S = Sound', Before(S), NEW p \in Proc, NEW q \in Proc, NEW r \in Ref,
           Demonitor(p, q, r)
    PROVE  Before(S)'
  <1> PICK msg : msg = Msg("demonitor", p, q, r, "none")
    OBVIOUS
  <1>1. /\ held' \subseteq held
        /\ outgoing' \subseteq outgoing
        /\ Sends(PostTo(p, msg))
        /\ UNCHANGED <<incoming, links, tracking, downItems, pc, request, exitMsgs,
                       terminated, exitReason, mailbox, nextRef>>
    BY DEF Demonitor
  <1>2. msg \in S
    BY PlainIsSound, RefAssumption DEF Kind, Ref
  <1>3. PostTo(p, msg) \in [Conn -> [Node -> Seq(S)]]
    BY <1>2, PostToTyped, SoundAfter DEF Before, ConnOK
  <1>4. ConnOK(S)'
    BY <1>1, <1>3, SendsConn DEF Before
  <1>5. MonTypes(S)'
    BY <1>1 DEF Before, MonTypes
  <1>6. QED
    BY <1>4, <1>5 DEF Before

LEMMA UnlinkTypes ==
    ASSUME NEW S, S = Sound', Before(S), NEW p \in Proc, NEW q \in Proc, Unlink(p, q)
    PROVE  Before(S)'
  <1> PICK msg : msg = Msg("unlink", p, q, 0, "none")
    OBVIOUS
  <1>1. /\ links' \subseteq links
        /\ Sends(PostTo(p, msg))
        /\ UNCHANGED <<outgoing, incoming, tracking, downItems, pc, request, exitMsgs,
                       terminated, exitReason, mailbox, held, nextRef>>
    BY DEF Unlink
  <1>2. msg \in S
    BY PlainIsSound, RefAssumption DEF Kind
  <1>3. PostTo(p, msg) \in [Conn -> [Node -> Seq(S)]]
    BY <1>2, PostToTyped, SoundAfter DEF Before, ConnOK
  <1>4. ConnOK(S)'
    BY <1>1, <1>3, SendsConn DEF Before
  <1>5. MonTypes(S)'
    BY <1>1 DEF Before, MonTypes
  <1>6. QED
    BY <1>4, <1>5 DEF Before

LEMMA BodyEndsTypes ==
    ASSUME NEW S, S = Sound', Before(S), NEW p \in Proc, NEW reason \in Reason, BodyEnds(p, reason)
    PROVE  Before(S)'
  <1>1. UNCHANGED <<connVars, outgoing, incoming, links, tracking, downItems, request,
                    exitMsgs, mailbox, held, nextRef>>
    BY DEF BodyEnds
  <1>2. /\ terminated' \subseteq Proc
        /\ pc' \in [Proc -> PC]
        /\ exitReason' \in [Proc -> Reason \cup {"none"}]
        /\ \A q \in Proc : pc'[q] \in {"body", "ended"} \/ q \in terminated'
    <2>1. CASE p \in terminated
      BY <2>1 DEF BodyEnds, Before, MonTypes, PC
    <2>2. CASE p \notin terminated
      <3>1. /\ pc' = [pc EXCEPT ![p] = "down"]
            /\ exitReason' = [exitReason EXCEPT ![p] = reason]
            /\ terminated' = terminated \cup {p}
        BY <2>2 DEF BodyEnds, Mark
      <3>2. pc' \in [Proc -> PC]
        BY <3>1 DEF Before, MonTypes, PC
      <3>3. exitReason' \in [Proc -> Reason \cup {"none"}]
        BY <3>1 DEF Before, MonTypes
      <3>4. \A q \in Proc : pc'[q] \in {"body", "ended"} \/ q \in terminated'
        BY <3>1 DEF Before, MonTypes
      <3>5. QED
        BY <3>1, <3>2, <3>3, <3>4 DEF Before, MonTypes
    <2>3. QED
      BY <2>1, <2>2
  <1>3. MonTypes(S)'
    BY <1>1, <1>2 DEF Before, MonTypes
  <1>4. QED
    BY <1>1, <1>3, SameConn DEF Before

LEMMA NotifyMonitorsTypes ==
    ASSUME NEW S, S = Sound', Before(S), NEW p \in Proc, NotifyMonitors(p)
    PROVE  Before(S)'
  <1> PICK set : set = {Msg("down", p, mon.owner, mon.ref, exitReason[p]) :
                            mon \in {m \in incoming : m.target = p}}
    OBVIOUS
  <1>1. /\ pc[p] = "down"
        /\ exitMsgs' = [exitMsgs EXCEPT ![p] = set]
        /\ incoming' \subseteq incoming
        /\ pc' = [pc EXCEPT ![p] = "send_down"]
        /\ UNCHANGED <<connVars, outgoing, links, tracking, downItems, request, terminated,
                       exitReason, mailbox, held, nextRef>>
    BY DEF NotifyMonitors
  <1>2. p \in terminated /\ exitReason[p] \in Reason \cup {"none"}
    BY <1>1 DEF Before, MonTypes
  <1>3. \A mon \in incoming : mon.owner \in Proc /\ mon.ref \in 0 .. MaxRef
    BY DEF Before, MonTypes, Monitors, Ref
  <1>4. set \subseteq S
    <2> SUFFICES ASSUME NEW mon \in incoming
                 PROVE  Msg("down", p, mon.owner, mon.ref, exitReason[p]) \in S
      OBVIOUS
    <2> PICK msg : msg = Msg("down", p, mon.owner, mon.ref, exitReason[p])
      OBVIOUS
    <2>1. msg \in Message
      BY <1>2, <1>3, MsgTyped, ReasonAssumption DEF Kind, Text
    <2>2. msg.from \in terminated' /\ ~Lost(msg) /\ ~Requests(msg)
      BY <1>1, <1>2, ReasonAssumption DEF Msg, Lost, Requests
    <2>3. QED
      BY <2>1, <2>2 DEF Sound
  <1>5. exitMsgs' \in [Proc -> SUBSET S]
    BY <1>1, <1>4 DEF Before, MonTypes
  <1>6. pc' \in [Proc -> PC] /\ \A q \in Proc : pc'[q] \in {"body", "ended"} \/ q \in terminated'
    BY <1>1, <1>2 DEF Before, MonTypes, PC
  <1>7. MonTypes(S)'
    BY <1>1, <1>5, <1>6 DEF Before, MonTypes
  <1>8. QED
    BY <1>1, <1>7, SameConn DEF Before

LEMMA SendExitMsgTypes ==
    ASSUME NEW S, S = Sound', Before(S), NEW p \in Proc, SendExitMsg(p)
    PROVE  Before(S)'
  <1> PICK msg \in exitMsgs[p] :
        /\ exitMsgs' = [exitMsgs EXCEPT ![p] = exitMsgs[p] \ {msg}]
        /\ Sends(PostTo(p, msg))
        /\ UNCHANGED <<outgoing, incoming, links, tracking, downItems, pc, request,
                       terminated, exitReason, mailbox, held, nextRef>>
    BY DEF SendExitMsg
  <1>1. msg \in S
    BY DEF Before, MonTypes
  <1>2. PostTo(p, msg) \in [Conn -> [Node -> Seq(S)]]
    BY <1>1, PostToTyped, SoundAfter DEF Before, ConnOK
  <1>3. ConnOK(S)'
    BY <1>2, SendsConn DEF Before
  <1>4. exitMsgs' \in [Proc -> SUBSET S]
    BY DEF Before, MonTypes
  <1>5. MonTypes(S)'
    BY <1>4 DEF Before, MonTypes
  <1>6. QED
    BY <1>3, <1>5 DEF Before

LEMMA NotifyLinksTypes ==
    ASSUME NEW S, S = Sound', Before(S), NEW p \in Proc, NotifyLinks(p)
    PROVE  Before(S)'
  <1>1. /\ pc[p] = "send_down"
        /\ outgoing' \subseteq outgoing
        /\ exitMsgs' = [exitMsgs EXCEPT ![p] = ExitMsgs(p)]
        /\ links' \subseteq links
        /\ pc' = [pc EXCEPT ![p] = "send_exit"]
        /\ UNCHANGED <<connVars, incoming, tracking, downItems, request, terminated,
                       exitReason, mailbox, held, nextRef>>
    BY DEF NotifyLinks
  <1>2. p \in terminated /\ exitReason[p] \in Text \cup {"none"}
    BY <1>1, ReasonAssumption DEF Before, MonTypes, Text
  <1>3. ExitMsgs(p) \subseteq S
    <2> SUFFICES ASSUME NEW q \in Proc PROVE Msg("exit", p, q, 0, exitReason[p]) \in S
      BY DEF ExitMsgs
    <2>1. QED
      BY <1>2, PlainIsSound, RefAssumption DEF Kind
  <1>4. exitMsgs' \in [Proc -> SUBSET S]
    BY <1>1, <1>3 DEF Before, MonTypes
  <1>5. pc' \in [Proc -> PC] /\ \A q \in Proc : pc'[q] \in {"body", "ended"} \/ q \in terminated'
    BY <1>1, <1>2 DEF Before, MonTypes, PC
  <1>6. MonTypes(S)'
    BY <1>1, <1>4, <1>5 DEF Before, MonTypes
  <1>7. QED
    BY <1>1, <1>6, SameConn DEF Before

LEMMA UnregisterTypes ==
    ASSUME NEW S, S = Sound', Before(S), NEW p \in Proc, Unregister(p)
    PROVE  Before(S)'
  <1>1. /\ pc[p] = "send_exit"
        /\ pc' = [pc EXCEPT ![p] = "gone"]
        /\ UNCHANGED <<connVars, outgoing, incoming, links, tracking, downItems, request,
                       exitMsgs, terminated, exitReason, mailbox, held, nextRef>>
    BY DEF Unregister
  <1>2. pc' \in [Proc -> PC] /\ \A q \in Proc : pc'[q] \in {"body", "ended"} \/ q \in terminated'
    BY <1>1 DEF Before, MonTypes, PC
  <1>3. MonTypes(S)'
    BY <1>1, <1>2 DEF Before, MonTypes
  <1>4. QED
    BY <1>1, <1>3, SameConn DEF Before

\* What handle_incoming_message has in hand.
LEMMA HandTypes ==
    ASSUME NEW S, S = Sound', Before(S), NEW n \in Node, NEW c \in Conn, NEW kind, InHand(n, c, kind)
    PROVE  /\ hand[n][c] # <<>> /\ Dialled(c)
           /\ Head(hand[n][c]) \in S
           /\ Head(hand[n][c]) \in Message
           /\ Head(hand[n][c]).kind = kind
  <1>1. hand[n][c] # <<>> /\ Head(hand[n][c]).kind = kind
    BY DEF InHand
  <1>2. Head(hand[n][c]) \in S /\ Dialled(c)
    BY <1>1, HeadTyped DEF Before
  <1>3. QED
    BY <1>1, <1>2, SoundAfter

LEMMA ChanIsTyped ==
    ASSUME NEW S, Before(S)
    PROVE  chan \in [Conn -> [Node -> Seq(S)]]
  BY DEF Before, ConnOK, ConnTypes

LEMMA HandleMonitorTypes ==
    ASSUME NEW S, S = Sound', Before(S), NEW n \in Node, NEW c \in Conn, HandleMonitor(n, c)
    PROVE  Before(S)'
  <1> PICK msg : msg = Head(hand[n][c])
    OBVIOUS
  <1> PICK m : m = Peer(n, c)
    OBVIOUS
  <1>1. /\ InHand(n, c, "monitor")
        /\ incoming' = incoming \cup {Mon(msg.from, msg.to, msg.ref)}
        /\ tracking' = Track(n, m, Tracked("in", msg.to, msg.from, msg.ref))
        /\ Next2(n, c, "monitor_check")
        /\ UNCHANGED <<outgoing, links, downItems, pc, request, exitMsgs, terminated,
                       exitReason, mailbox, held, nextRef>>
    BY DEF HandleMonitor
  <1>2. hand[n][c] # <<>> /\ Dialled(c) /\ msg \in S /\ msg \in Message /\ msg.kind = "monitor"
    BY <1>1, HandTypes
  <1>3. msg.from \in Proc /\ msg.to \in Proc /\ msg.ref \in Ref /\ msg.ref \in 0 .. MaxRef
    BY <1>2, RefAssumption DEF Message, Sound, Requests, Ref
  <1>4. [msg EXCEPT !.kind = "monitor_check"] \in S
    BY <1>2, <1>3 DEF Message, Kind, Sound, IsDown, Requests
  <1>5. ConnOK(S)'
    BY <1>1, <1>2, <1>4, Next2Conn DEF Before
  <1>6. Mon(msg.from, msg.to, msg.ref) \in Monitors
    BY <1>3 DEF Mon, Monitors
  <1>7. Tracked("in", msg.to, msg.from, msg.ref) \in Item
    BY <1>3 DEF Tracked, Item, ItemKind
  <1>8. m \in Node
    BY <1>2, PeerIsNode
  <1>9. tracking' \in [Node -> [Node -> [ItemKind -> Seq(Item)]]]
    BY <1>1, <1>7, <1>8, TrackTyped DEF Before
  <1>10. MonTypes(S)'
    BY <1>1, <1>6, <1>9 DEF Before, MonTypes
  <1>11. QED
    BY <1>5, <1>10 DEF Before

LEMMA HandleMonitorCheckTypes ==
    ASSUME NEW S, S = Sound', Before(S), NEW n \in Node, NEW c \in Conn, HandleMonitorCheck(n, c)
    PROVE  Before(S)'
  <1> PICK msg : msg = Head(hand[n][c])
    OBVIOUS
  <1> PICK noproc : noproc = Msg("down", msg.to, msg.from, msg.ref, "noproc")
    OBVIOUS
  <1>1. InHand(n, c, "monitor_check")
    BY DEF HandleMonitorCheck
  <1>2. UNCHANGED <<outgoing, links, tracking, downItems, pc, request, exitMsgs,
                    terminated, exitReason, mailbox, held, nextRef>>
    BY DEF HandleMonitorCheck
  <1>3. msg \in Message /\ msg.from \in Proc /\ msg.to \in Proc /\ msg.ref \in 0 .. MaxRef
    BY <1>1, HandTypes DEF Message
  <1>4. incoming' \subseteq Monitors
    BY DEF HandleMonitorCheck, Before, MonTypes
  <1>5. ASSUME Alive(msg.to) PROVE ConnOK(S)'
    <2>1. Handled(n, c, chan)
      BY <1>5 DEF HandleMonitorCheck
    <2>2. QED
      BY <2>1, ChanIsTyped, HandledConn DEF Before
  <1>6. ASSUME ~Alive(msg.to) PROVE ConnOK(S)'
    <2>1. Handled(n, c, PostTo(msg.to, noproc))
      BY <1>6 DEF HandleMonitorCheck
    <2>2. noproc \in Message
      BY <1>3, MsgTyped DEF Kind, Text
    <2>3. noproc.from \in terminated' /\ ~Lost(noproc) /\ ~Requests(noproc)
      BY <1>2, <1>6 DEF Alive, Msg, Lost, Requests
    <2>4. noproc \in S
      BY <2>2, <2>3 DEF Sound
    <2>5. PostTo(msg.to, noproc) \in [Conn -> [Node -> Seq(S)]]
      BY <1>3, <2>4, PostToTyped, SoundAfter DEF Before, ConnOK
    <2>6. QED
      BY <2>1, <2>5, HandledConn DEF Before
  <1>7. ConnOK(S)'
    BY <1>5, <1>6
  <1>8. MonTypes(S)'
    BY <1>2, <1>4 DEF Before, MonTypes
  <1>9. QED
    BY <1>7, <1>8 DEF Before

LEMMA HandleDemonitorTypes ==
    ASSUME NEW S, S = Sound', Before(S), NEW n \in Node, NEW c \in Conn, HandleDemonitor(n, c)
    PROVE  Before(S)'
  <1>1. /\ incoming' \subseteq incoming
        /\ Handled(n, c, chan)
        /\ UNCHANGED <<outgoing, links, tracking, downItems, pc, request, exitMsgs,
                       terminated, exitReason, mailbox, held, nextRef>>
    BY DEF HandleDemonitor
  <1>2. ConnOK(S)'
    BY <1>1, ChanIsTyped, HandledConn DEF Before
  <1>3. MonTypes(S)'
    BY <1>1 DEF Before, MonTypes
  <1>4. QED
    BY <1>2, <1>3 DEF Before

LEMMA HandleDownTypes ==
    ASSUME NEW S, S = Sound', Before(S), NEW n \in Node, NEW c \in Conn, HandleDown(n, c)
    PROVE  Before(S)'
  <1> PICK msg : msg = Head(hand[n][c])
    OBVIOUS
  <1>1. /\ InHand(n, c, "down")
        /\ outgoing' \subseteq outgoing
        /\ mailbox' = mailbox \/ mailbox' = Deliver(msg.to, msg)
        /\ Handled(n, c, chan)
        /\ UNCHANGED <<incoming, links, tracking, downItems, pc, request, exitMsgs,
                       terminated, exitReason, held, nextRef>>
    BY DEF HandleDown, Fired, Mon
  <1>2. msg \in Message /\ msg.to \in Proc
    BY <1>1, HandTypes DEF Message
  <1>3. mailbox' \in [Proc -> Seq(Message)]
    <2>1. mailbox \in [Proc -> Seq(Message)] /\ MonTypes(S)
      BY DEF Before, MonTypes
    <2>2. QED
      BY <1>1, <1>2, <2>1, DeliverTyped
  <1>4. ConnOK(S)'
    BY <1>1, ChanIsTyped, HandledConn DEF Before
  <1>5. MonTypes(S)'
    BY <1>1, <1>3 DEF Before, MonTypes
  <1>6. QED
    BY <1>4, <1>5 DEF Before

LEMMA HandleLinkTypes ==
    ASSUME NEW S, S = Sound', Before(S), NEW n \in Node, NEW c \in Conn, HandleLink(n, c)
    PROVE  Before(S)'
  <1> PICK msg : msg = Head(hand[n][c])
    OBVIOUS
  <1> PICK noproc : noproc = Msg("exit", msg.to, msg.from, 0, "noproc")
    OBVIOUS
  <1>1. InHand(n, c, "link") /\ UNCHANGED monVars
    BY DEF HandleLink
  <1>2. hand[n][c] # <<>> /\ msg \in Message /\ msg \in S /\ msg.kind = "link"
        /\ msg.from \in Proc /\ msg.to \in Proc
    BY <1>1, HandTypes DEF Message
  <1>3. ASSUME Alive(msg.to) PROVE ConnOK(S)'
    <2>1. Next2(n, c, "link_add")
      BY <1>3 DEF HandleLink
    <2>2. [msg EXCEPT !.kind = "link_add"] \in S
      BY <1>2 DEF Message, Kind, Sound, IsDown, Requests
    <2>3. QED
      BY <1>2, <2>1, <2>2, Next2Conn DEF Before
  <1>4. ASSUME ~Alive(msg.to) PROVE ConnOK(S)'
    <2>1. Handled(n, c, PostTo(msg.to, noproc))
      BY <1>4 DEF HandleLink
    <2>2. noproc \in S
      BY <1>2, PlainIsSound, RefAssumption DEF Kind, Text
    <2>3. PostTo(msg.to, noproc) \in [Conn -> [Node -> Seq(S)]]
      BY <1>2, <2>2, PostToTyped, SoundAfter DEF Before, ConnOK
    <2>4. QED
      BY <2>1, <2>3, HandledConn DEF Before
  <1>5. ConnOK(S)'
    BY <1>3, <1>4
  <1>6. MonTypes(S)'
    BY <1>1 DEF Before, MonTypes, monVars
  <1>7. QED
    BY <1>5, <1>6 DEF Before

LEMMA HandleLinkAddTypes ==
    ASSUME NEW S, S = Sound', Before(S), NEW n \in Node, NEW c \in Conn, HandleLinkAdd(n, c)
    PROVE  Before(S)'
  <1> PICK msg : msg = Head(hand[n][c])
    OBVIOUS
  <1>1. /\ InHand(n, c, "link_add")
        /\ links' = links \cup {<<msg.to, msg.from>>}
        /\ tracking' = Track(n, Home[msg.from], Tracked("link", msg.to, msg.from, 0))
        /\ Handled(n, c, chan)
        /\ UNCHANGED <<outgoing, incoming, downItems, pc, request, exitMsgs, terminated,
                       exitReason, mailbox, held, nextRef>>
    BY DEF HandleLinkAdd
  <1>2. msg.from \in Proc /\ msg.to \in Proc
    BY <1>1, HandTypes DEF Message
  <1>3. Tracked("link", msg.to, msg.from, 0) \in Item /\ Home[msg.from] \in Node
    BY <1>2, RefAssumption, HomeAssumption DEF Tracked, Item, ItemKind
  <1>4. tracking' \in [Node -> [Node -> [ItemKind -> Seq(Item)]]]
    BY <1>1, <1>3, TrackTyped DEF Before
  <1>5. ConnOK(S)'
    BY <1>1, ChanIsTyped, HandledConn DEF Before
  <1>6. links' \subseteq Proc \X Proc
    BY <1>1, <1>2 DEF Before, MonTypes
  <1>7. MonTypes(S)'
    BY <1>1, <1>4, <1>6 DEF Before, MonTypes
  <1>8. QED
    BY <1>5, <1>7 DEF Before

LEMMA HandleUnlinkTypes ==
    ASSUME NEW S, S = Sound', Before(S), NEW n \in Node, NEW c \in Conn, HandleUnlink(n, c)
    PROVE  Before(S)'
  <1>1. /\ links' \subseteq links
        /\ Handled(n, c, chan)
        /\ UNCHANGED <<outgoing, incoming, tracking, downItems, pc, request, exitMsgs,
                       terminated, exitReason, mailbox, held, nextRef>>
    BY DEF HandleUnlink
  <1>2. ConnOK(S)'
    BY <1>1, ChanIsTyped, HandledConn DEF Before
  <1>3. MonTypes(S)'
    BY <1>1 DEF Before, MonTypes
  <1>4. QED
    BY <1>2, <1>3 DEF Before

LEMMA ExitSignalTyped ==
    ASSUME NEW S, MonTypes(S), NEW p \in Proc, NEW q \in Proc, NEW class,
           NEW text \in Text \cup {"none"}, ExitSignal(p, q, class, text)
    PROVE  /\ mailbox' \in [Proc -> Seq(Message)]
           /\ terminated \subseteq terminated'
           /\ terminated' \subseteq Proc
           /\ mailbox' = mailbox \/ mailbox' = Deliver(p, Msg("exit", q, p, 0, text))
  <1>1. Msg("exit", q, p, 0, text) \in Message
    BY MsgTyped, RefAssumption DEF Kind
  <1>2. mailbox' = mailbox \/ mailbox' = Deliver(p, Msg("exit", q, p, 0, text))
    BY DEF ExitSignal
  <1>3. terminated' = terminated \/ terminated' = terminated \cup {p}
    BY DEF ExitSignal, Mark
  <1>4. mailbox' \in [Proc -> Seq(Message)]
    <2>1. mailbox \in [Proc -> Seq(Message)]
      BY DEF MonTypes
    <2>2. QED
      BY <1>1, <1>2, <2>1, DeliverTyped
  <1>5. QED
    BY <1>2, <1>3, <1>4 DEF MonTypes

LEMMA HandleExitTypes ==
    ASSUME NEW S, S = Sound', Before(S), NEW n \in Node, NEW c \in Conn, HandleExit(n, c)
    PROVE  Before(S)'
  <1> PICK msg : msg = Head(hand[n][c])
    OBVIOUS
  <1>1. /\ InHand(n, c, "exit")
        /\ links' \subseteq links
        /\ ExitSignal(msg.to, msg.from, Class(msg.reason), msg.reason)
        /\ Handled(n, c, chan)
        /\ UNCHANGED <<outgoing, incoming, tracking, downItems, pc, request, exitMsgs,
                       exitReason, held, nextRef>>
    BY DEF HandleExit
  <1>2. msg.from \in Proc /\ msg.to \in Proc /\ msg.reason \in Text \cup {"none"}
    BY <1>1, HandTypes DEF Message
  <1>3. /\ mailbox' \in [Proc -> Seq(Message)]
        /\ terminated \subseteq terminated'
        /\ terminated' \subseteq Proc
    BY <1>1, <1>2, ExitSignalTyped DEF Before
  <1>4. ConnOK(S)'
    BY <1>1, ChanIsTyped, HandledConn DEF Before
  <1>5. MonTypes(S)'
    BY <1>1, <1>3 DEF Before, MonTypes
  <1>6. QED
    BY <1>4, <1>5 DEF Before

LEMMA TakeTrackingTypes ==
    ASSUME NEW S, S = Sound', Before(S), NEW n \in Node, NEW c \in Conn, TakeTracking(n, c)
    PROVE  Before(S)'
  <1> PICK m : m = Peer(n, c)
    OBVIOUS
  <1> PICK items : items = tracking[n][m]
    OBVIOUS
  <1> PICK none : none = [kind \in ItemKind |-> <<>>]
    OBVIOUS
  <1>1. /\ c \in gone[n]
        /\ gone' = [gone EXCEPT ![n] = @ \ {c}]
        /\ tracking' = [tracking EXCEPT ![n][m] = none]
        /\ downItems' = [downItems EXCEPT ![n][c] = items["out"] \o items["in"] \o items["link"]]
        /\ UNCHANGED <<ends, open, entry, stage, chan, hand, outgoing, incoming,
                       links, pc, request, exitMsgs, terminated, exitReason, mailbox,
                       held, nextRef>>
    BY DEF TakeTracking
  <1>2. m \in Node
    BY <1>1, PeerIsNode DEF Before, ConnOK, ConnInv
  <1>3. ConnOK(S)'
    BY <1>1, TakenConn DEF Before
  <1>4. items \in [ItemKind -> Seq(Item)]
    BY <1>2 DEF Before, MonTypes
  <1>5. items["out"] \o items["in"] \o items["link"] \in Seq(Item)
    BY <1>4 DEF ItemKind
  <1> PICK all : all = items["out"] \o items["in"] \o items["link"]
    OBVIOUS
  <1>6. downItems' \in [Node -> [Conn -> Seq(Item)]]
    <2>1. [downItems[n] EXCEPT ![c] = all] \in [Conn -> Seq(Item)]
      BY <1>5 DEF Before, MonTypes
    <2>2. QED
      BY <1>1, <2>1 DEF Before, MonTypes
  <1>7. tracking' \in [Node -> [Node -> [ItemKind -> Seq(Item)]]]
    <2>1. none \in [ItemKind -> Seq(Item)]
      OBVIOUS
    <2>2. [tracking[n] EXCEPT ![m] = none] \in [Node -> [ItemKind -> Seq(Item)]]
      BY <2>1 DEF Before, MonTypes
    <2>3. QED
      BY <1>1, <2>2 DEF Before, MonTypes
  <1>8. MonTypes(S)'
    BY <1>1, <1>6, <1>7 DEF Before, MonTypes
  <1>9. QED
    BY <1>3, <1>8 DEF Before

LEMMA NodeDownItemTypes ==
    ASSUME NEW S, S = Sound', Before(S), NEW n \in Node, NEW c \in Conn, NodeDownItem(n, c)
    PROVE  Before(S)'
  <1> PICK item : item = Head(downItems[n][c])
    OBVIOUS
  <1>1. /\ downItems[n][c] # <<>>
        /\ DropOutgoing(item) \/ DropIncoming(item) \/ DropLink(item)
        /\ downItems' = [downItems EXCEPT ![n][c] = Tail(downItems[n][c])]
        /\ UNCHANGED <<connVars, tracking, pc, request, exitMsgs, exitReason, held, nextRef>>
    BY DEF NodeDownItem
  <1>2. downItems[n][c] \in Seq(Item)
    BY DEF Before, MonTypes
  <1>3. Tail(downItems[n][c]) \in Seq(Item) /\ item \in Item
    BY <1>1, <1>2
  <1>4. downItems' \in [Node -> [Conn -> Seq(Item)]]
    <2>1. [downItems[n] EXCEPT ![c] = Tail(downItems[n][c])] \in [Conn -> Seq(Item)]
      BY <1>3 DEF Before, MonTypes
    <2>2. QED
      BY <1>1, <2>1 DEF Before, MonTypes
  <1>5. item.local \in Proc /\ item.remote \in Proc /\ item.ref \in 0 .. MaxRef
    BY <1>3 DEF Item
  <1>6. MonTypes(S)
    BY DEF Before
  <1>7. /\ outgoing' \subseteq outgoing
        /\ incoming' \subseteq incoming
        /\ links' \subseteq links
        /\ mailbox' \in [Proc -> Seq(Message)]
        /\ terminated \subseteq terminated'
        /\ terminated' \subseteq Proc
    <2>1. mailbox \in [Proc -> Seq(Message)] /\ terminated \subseteq Proc
      BY <1>6 DEF MonTypes
    <2>2. CASE DropOutgoing(item)
      <3> PICK msg : msg = Msg("down", item.remote, item.local, item.ref, "noconnection")
        OBVIOUS
      <3>1. msg \in Message
        BY <1>5, MsgTyped DEF Kind, Text
      <3>2. mailbox' = Deliver(item.local, msg)
        BY <2>2 DEF DropOutgoing
      <3>3. mailbox' \in [Proc -> Seq(Message)]
        BY <1>5, <1>6, <3>1, <3>2, DeliverTyped
      <3>4. QED
        BY <2>1, <2>2, <3>3 DEF DropOutgoing
    <2>3. CASE DropIncoming(item)
      BY <2>1, <2>3 DEF DropIncoming
    <2>4. CASE DropLink(item)
      <3>1. ExitSignal(item.local, item.remote, "Error", "noconnection")
        BY <2>4 DEF DropLink
      <3>2. /\ mailbox' \in [Proc -> Seq(Message)]
            /\ terminated \subseteq terminated'
            /\ terminated' \subseteq Proc
        BY <1>5, <1>6, <3>1, ExitSignalTyped DEF Text
      <3>3. QED
        BY <2>4, <3>2 DEF DropLink
    <2>5. QED
      BY <1>1, <2>2, <2>3, <2>4
  <1>8. MonTypes(S)'
    BY <1>1, <1>4, <1>6, <1>7 DEF MonTypes
  <1>9. ConnOK(S)'
    BY <1>1, SameConn DEF Before
  <1>10. QED
    BY <1>8, <1>9 DEF Before

-----------------------------------------------------------------------------
LEMMA TerminatedGrows == [Next]_vars => terminated \subseteq terminated'
  <1> SUFFICES ASSUME [Next]_vars PROVE terminated \subseteq terminated'
    OBVIOUS
  <1>1. ASSUME NEW p \in Proc, ProcOperates(p) PROVE terminated \subseteq terminated'
    BY <1>1 DEF ProcOperates, Monitor, Link, Unlink, Demonitor, BodyEnds, Mark
  <1>2. ASSUME NEW p \in Proc, ProcGoesOn(p) PROVE terminated \subseteq terminated'
    BY <1>2 DEF ProcGoesOn, SendRequest, NotifyMonitors, SendExitMsg, NotifyLinks, Unregister
  <1>3. ASSUME NEW n \in Node, NEW c \in Conn, Handle(n, c) PROVE terminated \subseteq terminated'
    BY <1>3 DEF Handle, HandleMonitor, HandleMonitorCheck, HandleDemonitor, HandleDown,
                HandleLink, HandleLinkAdd, HandleUnlink, HandleExit, ExitSignal, Mark, monVars
  <1>4. ASSUME NEW n \in Node, NEW c \in Conn, NodeDownGoesOn(n, c)
        PROVE  terminated \subseteq terminated'
    BY <1>4 DEF NodeDownGoesOn, TakeTracking, NodeDownItem, DropOutgoing, DropIncoming, DropLink,
                ExitSignal, Mark
  <1>5. CASE UNCHANGED monVars
    BY <1>5 DEF monVars
  <1>6. CASE UNCHANGED vars
    BY <1>6 DEF vars, monVars
  <1>7. QED
    BY <1>1, <1>2, <1>3, <1>4, <1>5, <1>6 DEF Next, Environment, GoesOn, NodeGoesOn

LEMMA EnvironmentTypes ==
    ASSUME NEW S, S = Sound', Before(S), Environment
    PROVE  Before(S)'
  <1>1. ASSUME UNCHANGED monVars PROVE MonTypes(S)'
    BY <1>1 DEF Before, MonTypes, monVars
  <1>2. ASSUME NEW n \in Node, NEW m \in Node, Disconnect(n, m), UNCHANGED monVars PROVE Before(S)'
    BY <1>1, <1>2, RemoveEntryConn DEF Disconnect, Before
  <1>3. ASSUME NEW n \in Node, NEW m \in Node, NEW c \in Conn, Dial(n, m, c), UNCHANGED monVars
        PROVE  Before(S)'
    BY <1>1, <1>3, DialConn DEF Before
  <1>4. ASSUME NEW c \in Conn, UNCHANGED monVars,
               Accept(c) \/ DialReturns(c) \/ DialFails(c) \/ ConnectionLost(c)
        PROVE  Before(S)'
    BY <1>1, <1>4, AcceptConn, DialReturnsConn, DialFailsConn, ConnectionLostConn DEF Before
  <1>5. ASSUME NEW p \in Proc, ProcOperates(p) PROVE Before(S)'
    BY <1>5, MonitorTypes, LinkTypes, UnlinkTypes, DemonitorTypes, BodyEndsTypes DEF ProcOperates
  <1>6. QED
    BY <1>2, <1>3, <1>4, <1>5 DEF Environment

LEMMA GoesOnTypes ==
    ASSUME NEW S, S = Sound', Before(S), GoesOn
    PROVE  Before(S)'
  <1>1. ASSUME NEW p \in Proc, ProcGoesOn(p) PROVE Before(S)'
    BY <1>1, SendRequestTypes, NotifyMonitorsTypes, SendExitMsgTypes, NotifyLinksTypes,
       UnregisterTypes DEF ProcGoesOn
  <1>2. ASSUME NEW n \in Node, NEW m \in Node, NodeGoesOn(n, m) PROVE Before(S)'
    <2>1. MonTypes(S)'
      BY <1>2 DEF NodeGoesOn, Before, MonTypes, monVars
    <2>2. QED
      BY <1>2, <2>1, ReceiveConn, RemoveEntryConn DEF NodeGoesOn, Notice, Before
  <1>3. ASSUME NEW n \in Node, NEW c \in Conn, Handle(n, c) PROVE Before(S)'
    BY <1>3, HandleMonitorTypes, HandleMonitorCheckTypes, HandleDemonitorTypes, HandleDownTypes,
       HandleLinkTypes, HandleLinkAddTypes, HandleUnlinkTypes, HandleExitTypes DEF Handle
  <1>4. ASSUME NEW n \in Node, NEW c \in Conn, NodeDownGoesOn(n, c) PROVE Before(S)'
    BY <1>4, TakeTrackingTypes, NodeDownItemTypes DEF NodeDownGoesOn
  <1>5. QED
    BY <1>1, <1>2, <1>3, <1>4 DEF GoesOn

LEMMA TypesStep == Types /\ [Next]_vars => Types'
  <1> SUFFICES ASSUME Types, [Next]_vars PROVE Types'
    OBVIOUS
  <1> PICK S : S = Sound'
    OBVIOUS
  <1>1. Sound \subseteq S
    BY TerminatedGrows, SoundGrows
  <1>2. ConnTypes(S) /\ MonTypes(S)
    BY <1>1, WiderConn, WiderMon DEF Types
  <1>3. Before(S)
    BY <1>2 DEF Types, Before, ConnOK
  <1>4. Before(S)'
    <2>1. CASE UNCHANGED vars
      <3>1. MonTypes(S)'
        BY <1>3, <2>1 DEF Before, MonTypes, vars, monVars
      <3>2. QED
        BY <1>3, <2>1, <3>1, SameConn DEF Before, vars
    <2>2. QED
      BY <1>3, <2>1, EnvironmentTypes, GoesOnTypes DEF Next
  <1>5. ConnTypes(S)' /\ ConnInv' /\ MonTypes(S)'
    BY <1>4 DEF Before, ConnOK
  <1>6. ConnTypes(Sound)' /\ MonTypes(Sound)'
    BY <1>5 DEF ConnTypes, MonTypes
  <1>7. QED
    BY <1>5, <1>6 DEF Types

LEMMA TypesHold == Spec => []Types
  BY TypesInit, TypesStep, PTL DEF Spec

(***************************************************************************)
(* Every variable keeps its type, and a process that is not in its body    *)
(* has been marked terminated: what handle_process_exit and the handlers   *)
(* of messages may count on.                                               *)
(***************************************************************************)
THEOREM TypeCorrect == Spec => []TypeOK
  <1>1. Sound \subseteq Message
    BY DEF Sound
  <1>2. Types => TypeOK
    <2> SUFFICES ASSUME Types PROVE TypeOK
      OBVIOUS
    <2>1. ConnTypes(Message) /\ MonTypes(Message)
      BY <1>1, WiderConn, WiderMon DEF Types
    <2>2. QED
      BY <2>1 DEF ConnTypes, MonTypes, TypeOK
  <1>3. QED
    BY <1>2, TypesHold, PTL

-----------------------------------------------------------------------------
(***************************************************************************)
(* The tracking of a reference is in one place: with node_tracking, with   *)
(* the handle_node_down that took it, or gone with the DOWN that was sent. *)
(* A report takes its monitor out of outgoing, where no other reference    *)
(* comes but a fresh one.                                                  *)
(***************************************************************************)
Has(s, S) == \E i \in DOMAIN s : s[i] \in S
Once(s, S) == \A i, j \in DOMAIN s : s[i] \in S /\ s[j] \in S => i = j

OutItems(r) == {x \in Item : x.kind = "out" /\ x.ref = r}
LostDowns(r) == {m \in Message : IsDown(m) /\ Lost(m) /\ m.ref = r}
Reports(q, r) == {m \in Message : IsDown(m) /\ ~Lost(m) /\ m.from = q /\ m.ref = r}

TrackedAt(n, m, k, r) == Has(tracking[n][m][k], OutItems(r))
PlannedAt(n, c, r) == Has(downItems[n][c], OutItems(r))
LostAt(p, r) == Has(mailbox[p], LostDowns(r))

TrackedOnce(r) ==
    \A n, m \in Node, k \in ItemKind :
        /\ Once(tracking[n][m][k], OutItems(r))
        /\ \A n3, m3 \in Node, k2 \in ItemKind :
              TrackedAt(n, m, k, r) /\ TrackedAt(n3, m3, k2, r) => n = n3 /\ m = m3 /\ k = k2

PlannedOnce(r) ==
    \A n \in Node, c \in Conn :
        /\ Once(downItems[n][c], OutItems(r))
        /\ \A n3 \in Node, c2 \in Conn : PlannedAt(n, c, r) /\ PlannedAt(n3, c2, r) => n = n3 /\ c = c2
        /\ PlannedAt(n, c, r) => \A n3, m3 \in Node, k \in ItemKind : ~TrackedAt(n3, m3, k, r)

LostOnce(r) ==
    \A p \in Proc :
        /\ Once(mailbox[p], LostDowns(r))
        /\ LostAt(p, r) => /\ \A n, m \in Node, k \in ItemKind : ~TrackedAt(n, m, k, r)
                           /\ \A n \in Node, c \in Conn : ~PlannedAt(n, c, r)

FreshIsNowhere(r) ==
    r >= nextRef =>
        /\ \A n, m \in Node, k \in ItemKind : ~TrackedAt(n, m, k, r)
        /\ \A n \in Node, c \in Conn : ~PlannedAt(n, c, r)
        /\ \A p \in Proc : ~LostAt(p, r)

ReportedOnce(p, q, r) ==
    /\ Once(mailbox[p], Reports(q, r))
    /\ Has(mailbox[p], Reports(q, r)) => Mon(p, q, r) \notin outgoing /\ q \in terminated /\ r < nextRef

CauseInv ==
    /\ \A mon \in outgoing : mon.ref < nextRef
    /\ \A r \in 0 .. MaxRef : TrackedOnce(r) /\ PlannedOnce(r) /\ LostOnce(r) /\ FreshIsNowhere(r)
    /\ \A p, q \in Proc, r \in 0 .. MaxRef : ReportedOnce(p, q, r)

\* The parts of CauseInv about one reference.
RefInv(r) == TrackedOnce(r) /\ PlannedOnce(r) /\ LostOnce(r) /\ FreshIsNowhere(r)

-----------------------------------------------------------------------------
LEMMA EmptyHas ==
    ASSUME NEW X
    PROVE  ~Has(<<>>, X) /\ Once(<<>>, X)
  BY DEF Has, Once

LEMMA AppendHas ==
    ASSUME NEW T, NEW s \in Seq(T), NEW x \in T, NEW X
    PROVE  /\ Has(Append(s, x), X) => Has(s, X) \/ x \in X
           /\ Once(s, X) /\ (x \in X => ~Has(s, X)) => Once(Append(s, x), X)
  <1>1. DOMAIN s = 1 .. Len(s) /\ DOMAIN Append(s, x) = 1 .. Len(s) + 1 /\ Len(s) \in Nat
    OBVIOUS
  <1>2. \A i \in 1 .. Len(s) + 1 : Append(s, x)[i] = IF i = Len(s) + 1 THEN x ELSE s[i]
    OBVIOUS
  <1> PICK t : t = Append(s, x)
    OBVIOUS
  <1>3. DOMAIN t = 1 .. Len(s) + 1 /\ \A i \in 1 .. Len(s) + 1 : t[i] = IF i = Len(s) + 1 THEN x ELSE s[i]
    BY <1>1, <1>2
  <1>4. Has(t, X) => Has(s, X) \/ x \in X
    BY <1>1, <1>3 DEF Has
  <1>5. ASSUME Once(s, X), x \in X => ~Has(s, X) PROVE Once(t, X)
    BY <1>1, <1>3, <1>5 DEF Once, Has
  <1>6. QED
    BY <1>4, <1>5

LEMMA TailHas ==
    ASSUME NEW T, NEW s \in Seq(T), s # <<>>, NEW X
    PROVE  /\ Has(Tail(s), X) => Has(s, X)
           /\ Head(s) \in X => Has(s, X)
           /\ Once(s, X) => Once(Tail(s), X)
           /\ Once(s, X) /\ Head(s) \in X => ~Has(Tail(s), X)
  <1>1. DOMAIN s = 1 .. Len(s) /\ DOMAIN Tail(s) = 1 .. Len(s) - 1 /\ Len(s) \in Nat \ {0}
        /\ Head(s) = s[1]
    OBVIOUS
  <1>2. \A i \in 1 .. Len(s) - 1 : Tail(s)[i] = s[i + 1]
    OBVIOUS
  <1> PICK t : t = Tail(s)
    OBVIOUS
  <1>3. DOMAIN t = 1 .. Len(s) - 1 /\ \A i \in 1 .. Len(s) - 1 : t[i] = s[i + 1]
    BY <1>1, <1>2
  <1>4. Has(t, X) => Has(s, X)
    BY <1>1, <1>3 DEF Has
  <1>5. Head(s) \in X => Has(s, X)
    BY <1>1 DEF Has
  <1>6. Once(s, X) => Once(t, X)
    BY <1>1, <1>3 DEF Once
  <1>7. Once(s, X) /\ Head(s) \in X => ~Has(t, X)
    BY <1>1, <1>3 DEF Once, Has
  <1>8. QED
    BY <1>4, <1>5, <1>6, <1>7

LEMMA ConcatIs ==
    ASSUME NEW T, NEW s \in Seq(T), NEW t \in Seq(T)
    PROVE  /\ s \o t \in Seq(T)
           /\ DOMAIN (s \o t) = 1 .. Len(s) + Len(t)
           /\ \A i \in 1 .. Len(s) + Len(t) : (s \o t)[i] = IF i <= Len(s) THEN s[i] ELSE t[i - Len(s)]
  OBVIOUS

LEMMA ConcatHas ==
    ASSUME NEW T, NEW s \in Seq(T), NEW t \in Seq(T), NEW X
    PROVE  /\ Has(s \o t, X) => Has(s, X) \/ Has(t, X)
           /\ Once(s, X) /\ Once(t, X) /\ ~(Has(s, X) /\ Has(t, X)) => Once(s \o t, X)
  <1> PICK u : u = s \o t
    OBVIOUS
  <1> PICK a \in Nat : a = Len(s)
    OBVIOUS
  <1> PICK b \in Nat : b = Len(t)
    OBVIOUS
  <1>1. DOMAIN u = 1 .. a + b /\ \A i \in 1 .. a + b : u[i] = IF i <= a THEN s[i] ELSE t[i - a]
    BY ConcatIs
  <1>2. DOMAIN s = 1 .. a /\ DOMAIN t = 1 .. b
    OBVIOUS
  <1>3. Has(u, X) => Has(s, X) \/ Has(t, X)
    <2> SUFFICES ASSUME NEW i \in 1 .. a + b, u[i] \in X PROVE Has(s, X) \/ Has(t, X)
      BY <1>1 DEF Has
    <2>1. CASE i <= a
      BY <1>1, <1>2, <2>1 DEF Has
    <2>2. CASE ~(i <= a)
      <3>1. i - a \in 1 .. b /\ t[i - a] \in X
        BY <1>1, <2>2
      <3>2. QED
        BY <1>2, <3>1 DEF Has
    <2>3. QED
      BY <2>1, <2>2
  <1>4. ASSUME Once(s, X), Once(t, X), ~(Has(s, X) /\ Has(t, X)) PROVE Once(u, X)
    <2> SUFFICES ASSUME NEW i \in 1 .. a + b, NEW j \in 1 .. a + b, u[i] \in X, u[j] \in X PROVE i = j
      BY <1>1 DEF Once
    <2>1. CASE i <= a /\ j <= a
      BY <1>1, <1>2, <1>4, <2>1 DEF Once
    <2>2. CASE ~(i <= a) /\ ~(j <= a)
      <3>1. i - a \in 1 .. b /\ t[i - a] \in X /\ j - a \in 1 .. b /\ t[j - a] \in X
        BY <1>1, <2>2
      <3>2. i - a = j - a
        BY <1>2, <1>4, <3>1 DEF Once
      <3>3. QED
        BY <3>2
    <2>3. ASSUME NEW k \in 1 .. a + b, NEW l \in 1 .. a + b, u[k] \in X, u[l] \in X, k <= a, ~(l <= a)
          PROVE  FALSE
      <3>1. s[k] \in X /\ k \in 1 .. a
        BY <1>1, <2>3
      <3>2. t[l - a] \in X /\ l - a \in 1 .. b
        BY <1>1, <2>3
      <3>3. QED
        BY <1>2, <1>4, <3>1, <3>2 DEF Has
    <2>4. QED
      BY <2>1, <2>2, <2>3
  <1>5. QED
    BY <1>3, <1>4

LEMMA ConcatOfThree ==
    ASSUME NEW T, NEW s \in Seq(T), NEW t \in Seq(T), NEW u \in Seq(T), NEW X
    PROVE  /\ Has(s \o t \o u, X) => Has(s, X) \/ Has(t, X) \/ Has(u, X)
           /\ (/\ Once(s, X) /\ Once(t, X) /\ Once(u, X)
               /\ ~(Has(s, X) /\ Has(t, X)) /\ ~(Has(s, X) /\ Has(u, X)) /\ ~(Has(t, X) /\ Has(u, X)))
                  => Once(s \o t \o u, X)
  <1> PICK v \in Seq(T) : v = s \o t
    BY ConcatIs
  <1> PICK w \in Seq(T) : w = v \o u
    BY ConcatIs
  <1>1. /\ Has(v, X) => Has(s, X) \/ Has(t, X)
        /\ Once(s, X) /\ Once(t, X) /\ ~(Has(s, X) /\ Has(t, X)) => Once(v, X)
    BY ConcatHas
  <1>2. /\ Has(w, X) => Has(v, X) \/ Has(u, X)
        /\ Once(v, X) /\ Once(u, X) /\ ~(Has(v, X) /\ Has(u, X)) => Once(w, X)
    BY ConcatHas
  <1>3. w = s \o t \o u
    OBVIOUS
  <1>4. QED
    BY <1>1, <1>2, <1>3

-----------------------------------------------------------------------------
(***************************************************************************)
(* Steps that add nothing of a set.                                        *)
(***************************************************************************)
TrackedKept(r) ==
    \A n, m \in Node, k \in ItemKind :
        /\ Has(tracking'[n][m][k], OutItems(r)) => Has(tracking[n][m][k], OutItems(r))
        /\ Once(tracking[n][m][k], OutItems(r)) => Once(tracking'[n][m][k], OutItems(r))

PlannedKept(r) ==
    \A n \in Node, c \in Conn :
        /\ Has(downItems'[n][c], OutItems(r)) => Has(downItems[n][c], OutItems(r))
        /\ Once(downItems[n][c], OutItems(r)) => Once(downItems'[n][c], OutItems(r))

MailKept(X) ==
    \A p \in Proc :
        /\ Has(mailbox'[p], X) => Has(mailbox[p], X)
        /\ Once(mailbox[p], X) => Once(mailbox'[p], X)

LEMMA RefFrame ==
    ASSUME NEW r \in 0 .. MaxRef, RefInv(r), nextRef \in Nat, nextRef' \in Nat, nextRef <= nextRef',
           TrackedKept(r), PlannedKept(r), MailKept(LostDowns(r))
    PROVE  RefInv(r)'
  <1>1. TrackedOnce(r)'
    BY DEF RefInv, TrackedOnce, TrackedKept, TrackedAt
  <1>2. PlannedOnce(r)'
    BY DEF RefInv, PlannedOnce, PlannedKept, TrackedKept, PlannedAt, TrackedAt
  <1>3. LostOnce(r)'
    BY DEF RefInv, LostOnce, MailKept, PlannedKept, TrackedKept, LostAt, PlannedAt, TrackedAt
  <1>4. FreshIsNowhere(r)'
    <2>1. r >= nextRef' => r >= nextRef
      OBVIOUS
    <2>2. QED
      BY <2>1 DEF RefInv, FreshIsNowhere, MailKept, PlannedKept, TrackedKept, LostAt, PlannedAt, TrackedAt
  <1>5. QED
    BY <1>1, <1>2, <1>3, <1>4 DEF RefInv

LEMMA ReportFrame ==
    ASSUME NEW p \in Proc, NEW q \in Proc, NEW r \in 0 .. MaxRef, ReportedOnce(p, q, r),
           nextRef \in Nat, nextRef' \in Nat, nextRef <= nextRef',
           terminated \subseteq terminated', MailKept(Reports(q, r)),
           Mon(p, q, r) \in outgoing' => Mon(p, q, r) \in outgoing \/ r >= nextRef
    PROVE  ReportedOnce(p, q, r)'
  BY DEF ReportedOnce, MailKept

LEMMA SameTracked ==
    ASSUME UNCHANGED tracking, NEW r
    PROVE  TrackedKept(r)
  BY DEF TrackedKept

LEMMA SamePlanned ==
    ASSUME UNCHANGED downItems, NEW r
    PROVE  PlannedKept(r)
  BY DEF PlannedKept

LEMMA SameMail ==
    ASSUME UNCHANGED mailbox, NEW X
    PROVE  MailKept(X)
  BY DEF MailKept

\* Another item is tracked.
LEMMA TrackHas ==
    ASSUME NEW S, MonTypes(S), NEW n \in Node, NEW m \in Node, NEW item \in Item, NEW X,
           tracking' = Track(n, m, item)
    PROVE  \A n2, m2 \in Node, k \in ItemKind :
               /\ Has(tracking'[n2][m2][k], X) =>
                      Has(tracking[n2][m2][k], X) \/ (n2 = n /\ m2 = m /\ k = item.kind /\ item \in X)
               /\ Once(tracking[n2][m2][k], X) /\ (item \in X => ~Has(tracking[n2][m2][k], X)) =>
                      Once(tracking'[n2][m2][k], X)
  <1> PICK k0 \in ItemKind : k0 = item.kind
    BY DEF Item
  <1>1. tracking \in [Node -> [Node -> [ItemKind -> Seq(Item)]]]
    BY DEF MonTypes
  <1>2. tracking[n][m][k0] \in Seq(Item) /\ Append(tracking[n][m][k0], item) \in Seq(Item)
    BY <1>1
  <1> PICK box \in Seq(Item) : box = Append(tracking[n][m][k0], item)
    BY <1>2
  <1>3. tracking' = [tracking EXCEPT ![n][m][k0] = box]
    BY DEF Track
  <1>4. \A n2, m2 \in Node, k \in ItemKind :
            tracking'[n2][m2][k] = IF n2 = n /\ m2 = m /\ k = k0 THEN box ELSE tracking[n2][m2][k]
    <2> PICK g : g = [tracking[n][m] EXCEPT ![k0] = box]
      OBVIOUS
    <2> PICK f : f = [tracking[n] EXCEPT ![m] = g]
      OBVIOUS
    <2>1. tracking[n] \in [Node -> [ItemKind -> Seq(Item)]] /\ tracking[n][m] \in [ItemKind -> Seq(Item)]
      BY <1>1
    <2>2. \A k \in ItemKind : g[k] = IF k = k0 THEN box ELSE tracking[n][m][k]
      BY <2>1
    <2>3. \A m2 \in Node : f[m2] = IF m2 = m THEN g ELSE tracking[n][m2]
      BY <2>1
    <2>4. \A n2 \in Node : tracking'[n2] = IF n2 = n THEN f ELSE tracking[n2]
      BY <1>1, <1>3
    <2> SUFFICES ASSUME NEW n2 \in Node, NEW m2 \in Node, NEW k \in ItemKind
                 PROVE  tracking'[n2][m2][k] =
                            IF n2 = n /\ m2 = m /\ k = k0 THEN box ELSE tracking[n2][m2][k]
      OBVIOUS
    <2>5. CASE n2 # n
      BY <2>4, <2>5
    <2>6. CASE n2 = n /\ m2 # m
      <3>1. tracking'[n2] = f /\ f[m2] = tracking[n][m2]
        BY <2>3, <2>4, <2>6
      <3>2. QED
        BY <2>6, <3>1
    <2>7. CASE n2 = n /\ m2 = m
      <3>1. tracking'[n2] = f /\ f[m2] = g
        BY <2>3, <2>4, <2>7
      <3>2. QED
        BY <2>2, <2>7, <3>1
    <2>8. QED
      BY <2>5, <2>6, <2>7
  <1>5. /\ Has(box, X) => Has(tracking[n][m][k0], X) \/ item \in X
        /\ Once(tracking[n][m][k0], X) /\ (item \in X => ~Has(tracking[n][m][k0], X)) => Once(box, X)
    BY <1>2, AppendHas
  <1>6. QED
    BY <1>4, <1>5

LEMMA TrackKept ==
    ASSUME NEW S, MonTypes(S), NEW n \in Node, NEW m \in Node, NEW item \in Item, NEW r,
           tracking' = Track(n, m, item), item \notin OutItems(r)
    PROVE  TrackedKept(r)
  BY TrackHas DEF TrackedKept

LEMMA TrackFresh ==
    ASSUME NEW S, MonTypes(S), NEW n \in Node, NEW m \in Node, NEW item \in Item, NEW r,
           tracking' = Track(n, m, item)
    PROVE  (\A n2, m2 \in Node, k \in ItemKind : ~Has(tracking[n2][m2][k], OutItems(r))) =>
           \A n2, m2 \in Node, k \in ItemKind :
               /\ Has(tracking'[n2][m2][k], OutItems(r)) => n2 = n /\ m2 = m /\ k = item.kind
               /\ Once(tracking[n2][m2][k], OutItems(r)) => Once(tracking'[n2][m2][k], OutItems(r))
  <1> PICK X : X = OutItems(r)
    OBVIOUS
  <1>1. \A n2, m2 \in Node, k \in ItemKind :
               /\ Has(tracking'[n2][m2][k], X) =>
                      Has(tracking[n2][m2][k], X) \/ (n2 = n /\ m2 = m /\ k = item.kind /\ item \in X)
               /\ Once(tracking[n2][m2][k], X) /\ (item \in X => ~Has(tracking[n2][m2][k], X)) =>
                      Once(tracking'[n2][m2][k], X)
    BY TrackHas
  <1>2. QED
    BY <1>1

\* One more message is delivered.
LEMMA DeliverHas ==
    ASSUME NEW S, MonTypes(S), NEW p \in Proc, NEW msg \in Message, NEW X, mailbox' = Deliver(p, msg)
    PROVE  \A q \in Proc :
               /\ Has(mailbox'[q], X) => Has(mailbox[q], X) \/ (q = p /\ msg \in X)
               /\ Once(mailbox[q], X) /\ (q = p /\ msg \in X => ~Has(mailbox[q], X)) =>
                      Once(mailbox'[q], X)
  <1>1. mailbox \in [Proc -> Seq(Message)] /\ mailbox[p] \in Seq(Message)
    BY DEF MonTypes
  <1> PICK box : box = Append(mailbox[p], msg)
    OBVIOUS
  <1>2. \A q \in Proc : mailbox'[q] = mailbox[q] \/ (q = p /\ mailbox'[q] = box)
    BY <1>1 DEF Deliver
  <1>3. /\ Has(box, X) => Has(mailbox[p], X) \/ msg \in X
        /\ Once(mailbox[p], X) /\ (msg \in X => ~Has(mailbox[p], X)) => Once(box, X)
    BY <1>1, AppendHas
  <1>4. QED
    BY <1>2, <1>3

LEMMA DeliverKept ==
    ASSUME NEW S, MonTypes(S), NEW p \in Proc, NEW msg \in Message, NEW X,
           mailbox' = mailbox \/ mailbox' = Deliver(p, msg), msg \notin X
    PROVE  MailKept(X)
  BY DeliverHas DEF MailKept

\* An item of handle_node_down is done.
LEMMA DoneHas ==
    ASSUME NEW S, MonTypes(S), NEW n \in Node, NEW c \in Conn, NEW r, downItems[n][c] # <<>>,
           downItems' = [downItems EXCEPT ![n][c] = Tail(downItems[n][c])]
    PROVE  /\ PlannedKept(r)
           /\ Once(downItems[n][c], OutItems(r)) /\ Head(downItems[n][c]) \in OutItems(r) =>
                  Has(downItems[n][c], OutItems(r)) /\ ~Has(downItems'[n][c], OutItems(r))
  <1>1. downItems \in [Node -> [Conn -> Seq(Item)]] /\ downItems[n][c] \in Seq(Item)
    BY DEF MonTypes
  <1> PICK rest : rest = Tail(downItems[n][c])
    OBVIOUS
  <1>2. \A n2 \in Node, c2 \in Conn :
            downItems'[n2][c2] = IF n2 = n /\ c2 = c THEN rest ELSE downItems[n2][c2]
    BY <1>1
  <1> PICK X : X = OutItems(r)
    OBVIOUS
  <1>3. /\ Has(rest, X) => Has(downItems[n][c], X)
        /\ Head(downItems[n][c]) \in X => Has(downItems[n][c], X)
        /\ Once(downItems[n][c], X) => Once(rest, X)
        /\ Once(downItems[n][c], X) /\ Head(downItems[n][c]) \in X => ~Has(rest, X)
    BY <1>1, TailHas
  <1>4. PlannedKept(r)
    BY <1>2, <1>3 DEF PlannedKept
  <1>5. QED
    BY <1>2, <1>3, <1>4

-----------------------------------------------------------------------------
LEMMA RefsAreNat ==
    ASSUME Types
    PROVE  nextRef \in Nat /\ MonTypes(Sound) /\ ConnOK(Sound)
  BY RefAssumption DEF Types, MonTypes, ConnOK

LEMMA CauseParts ==
    CauseInv <=> /\ \A mon \in outgoing : mon.ref < nextRef
                 /\ \A r \in 0 .. MaxRef : RefInv(r)
                 /\ \A p, q \in Proc, r \in 0 .. MaxRef : ReportedOnce(p, q, r)
  BY DEF CauseInv, RefInv

LEMMA CauseFrame ==
    ASSUME Types, Types', CauseInv, terminated \subseteq terminated', nextRef <= nextRef',
           outgoing' \subseteq outgoing,
           \A r \in 0 .. MaxRef : TrackedKept(r) /\ PlannedKept(r) /\ MailKept(LostDowns(r)),
           \A q \in Proc, r \in 0 .. MaxRef : MailKept(Reports(q, r))
    PROVE  CauseInv'
  <1>1. nextRef \in Nat /\ nextRef' \in Nat
    BY RefAssumption DEF Types, MonTypes
  <1>2. \A r \in 0 .. MaxRef : RefInv(r)'
    BY <1>1, RefFrame, CauseParts
  <1>3. \A p, q \in Proc, r \in 0 .. MaxRef : ReportedOnce(p, q, r)'
    BY <1>1, ReportFrame, CauseParts
  <1>4. \A mon \in outgoing' : mon.ref < nextRef'
    <2> SUFFICES ASSUME NEW mon \in outgoing' PROVE mon.ref < nextRef'
      OBVIOUS
    <2>1. mon \in outgoing /\ mon \in Monitors
      BY DEF Types, MonTypes
    <2>2. mon.ref < nextRef /\ mon.ref \in Nat
      BY <2>1 DEF CauseInv, Monitors, Ref
    <2>3. QED
      BY <1>1, <2>2
  <1>5. QED
    BY <1>2, <1>3, <1>4 DEF CauseInv, RefInv

LEMMA CauseStill ==
    ASSUME Types, Types', CauseInv, terminated \subseteq terminated', nextRef <= nextRef',
           outgoing' \subseteq outgoing, UNCHANGED <<tracking, downItems, mailbox>>
    PROVE  CauseInv'
  <1>1. \A r \in 0 .. MaxRef : TrackedKept(r) /\ PlannedKept(r) /\ MailKept(LostDowns(r))
    BY SameTracked, SamePlanned, SameMail
  <1>2. \A q \in Proc, r \in 0 .. MaxRef : MailKept(Reports(q, r))
    BY SameMail
  <1>3. QED
    BY <1>1, <1>2, CauseFrame

\* What is tracked of a link or of a monitor of another node is no matter here.
LEMMA CauseOfOther ==
    ASSUME Types, Types', CauseInv, terminated \subseteq terminated', nextRef <= nextRef',
           outgoing' \subseteq outgoing, UNCHANGED <<downItems, mailbox>>,
           NEW n \in Node, NEW m \in Node, NEW item \in Item, item.kind # "out",
           tracking' = Track(n, m, item)
    PROVE  CauseInv'
  <1>1. \A r : item \notin OutItems(r)
    BY DEF OutItems
  <1>2. \A r \in 0 .. MaxRef : TrackedKept(r)
    BY <1>1, TrackKept, RefsAreNat
  <1>3. \A r \in 0 .. MaxRef : PlannedKept(r) /\ MailKept(LostDowns(r))
    BY SamePlanned, SameMail
  <1>4. \A q \in Proc, r \in 0 .. MaxRef : MailKept(Reports(q, r))
    BY SameMail
  <1>5. QED
    BY <1>2, <1>3, <1>4, CauseFrame

LEMMA LinkCause ==
    ASSUME Types, Types', CauseInv, NEW p \in Proc, NEW q \in Proc, Link(p, q)
    PROVE  CauseInv'
  <1> PICK item : item = Tracked("link", p, q, 0)
    OBVIOUS
  <1>1. item \in Item /\ item.kind # "out"
    BY RefAssumption DEF Tracked, Item, ItemKind
  <1>2. Home[p] \in Node /\ Home[q] \in Node
    BY HomeAssumption
  <1>3. /\ tracking' = Track(Home[p], Home[q], item)
        /\ nextRef' = nextRef + 1
        /\ UNCHANGED <<outgoing, downItems, terminated, mailbox>>
    BY DEF Link
  <1>4. nextRef <= nextRef'
    BY <1>3, RefsAreNat
  <1>5. QED
    BY <1>1, <1>2, <1>3, <1>4, CauseOfOther

LEMMA HandleMonitorCause ==
    ASSUME Types, Types', CauseInv, NEW n \in Node, NEW c \in Conn, HandleMonitor(n, c)
    PROVE  CauseInv'
  <1> PICK msg : msg = Head(hand[n][c])
    OBVIOUS
  <1> PICK m : m = Peer(n, c)
    OBVIOUS
  <1> PICK item : item = Tracked("in", msg.to, msg.from, msg.ref)
    OBVIOUS
  <1>1. msg \in Sound /\ Dialled(c)
    BY HeadTyped, RefsAreNat DEF HandleMonitor, InHand
  <1>2. item \in Item /\ item.kind # "out"
    BY <1>1 DEF Sound, Message, Tracked, Item, ItemKind
  <1>3. m \in Node
    BY <1>1, PeerIsNode
  <1>4. tracking' = Track(n, m, item) /\ UNCHANGED <<outgoing, downItems, terminated, mailbox, nextRef>>
    BY DEF HandleMonitor
  <1>5. nextRef <= nextRef'
    BY <1>4, RefsAreNat
  <1>6. QED
    BY <1>2, <1>3, <1>4, <1>5, CauseOfOther

LEMMA HandleLinkAddCause ==
    ASSUME Types, Types', CauseInv, NEW n \in Node, NEW c \in Conn, HandleLinkAdd(n, c)
    PROVE  CauseInv'
  <1> PICK msg : msg = Head(hand[n][c])
    OBVIOUS
  <1> PICK item : item = Tracked("link", msg.to, msg.from, 0)
    OBVIOUS
  <1>1. msg \in Sound
    BY HeadTyped, RefsAreNat DEF HandleLinkAdd, InHand
  <1>2. item \in Item /\ item.kind # "out" /\ Home[msg.from] \in Node
    BY <1>1, RefAssumption, HomeAssumption DEF Sound, Message, Tracked, Item, ItemKind
  <1>3. tracking' = Track(n, Home[msg.from], item)
        /\ UNCHANGED <<outgoing, downItems, terminated, mailbox, nextRef>>
    BY DEF HandleLinkAdd
  <1>4. nextRef <= nextRef'
    BY <1>3, RefsAreNat
  <1>5. QED
    BY <1>2, <1>3, <1>4, CauseOfOther

\* A fresh reference is nowhere but in the tracking that Monitor adds.
LEMMA MonitorCause ==
    ASSUME Types, Types', CauseInv, NEW p \in Proc, NEW q \in Proc, Monitor(p, q)
    PROVE  CauseInv'
  <1> PICK new : new = nextRef
    OBVIOUS
  <1> PICK item : item = Tracked("out", p, q, new)
    OBVIOUS
  <1> PICK n \in Node : n = Home[p]
    BY HomeAssumption
  <1> PICK m \in Node : m = Home[q]
    BY HomeAssumption
  <1>1. /\ new \in Ref
        /\ nextRef' = new + 1
        /\ outgoing' = outgoing \cup {Mon(p, q, new)}
        /\ tracking' = Track(n, m, item)
        /\ UNCHANGED <<downItems, terminated, mailbox>>
    BY DEF Monitor
  <1>2. nextRef \in Nat /\ nextRef' \in Nat /\ nextRef <= nextRef' /\ new \in 0 .. MaxRef
    BY <1>1, RefAssumption DEF Ref
  <1>3. item \in Item /\ item.kind = "out" /\ item.ref = new
    BY <1>2 DEF Tracked, Item, ItemKind
  <1>4. MonTypes(Sound)
    BY RefsAreNat
  <1>5. \A r \in 0 .. MaxRef : RefInv(r)'
    <2> SUFFICES ASSUME NEW r \in 0 .. MaxRef PROVE RefInv(r)'
      OBVIOUS
    <2>1. RefInv(r) /\ PlannedKept(r) /\ MailKept(LostDowns(r))
      BY <1>1, SamePlanned, SameMail DEF CauseInv, RefInv
    <2>2. CASE r # new
      <3>1. TrackedKept(r)
        BY <1>1, <1>3, <1>4, <2>2, TrackKept DEF OutItems
      <3>2. QED
        BY <1>2, <2>1, <3>1, RefFrame
    <2>3. CASE r = new
      <3>1. /\ \A n2, m2 \in Node, k \in ItemKind : ~Has(tracking[n2][m2][k], OutItems(r))
            /\ \A n2 \in Node, c2 \in Conn : ~Has(downItems[n2][c2], OutItems(r))
            /\ \A p2 \in Proc : ~Has(mailbox[p2], LostDowns(r))
        BY <1>2, <2>1, <2>3 DEF RefInv, FreshIsNowhere, TrackedAt, PlannedAt, LostAt
      <3>2. \A n2, m2 \in Node, k \in ItemKind :
                /\ Has(tracking'[n2][m2][k], OutItems(r)) => n2 = n /\ m2 = m /\ k = item.kind
                /\ Once(tracking[n2][m2][k], OutItems(r)) => Once(tracking'[n2][m2][k], OutItems(r))
        BY <1>1, <1>3, <1>4, <3>1, TrackFresh
      <3>3. TrackedOnce(r)'
        BY <2>1, <3>2 DEF RefInv, TrackedOnce, TrackedAt
      <3>4. PlannedOnce(r)'
        BY <1>1, <2>1, <3>1 DEF RefInv, PlannedOnce, PlannedAt
      <3>5. LostOnce(r)'
        BY <1>1, <2>1, <3>1 DEF RefInv, LostOnce, LostAt
      <3>6. FreshIsNowhere(r)'
        BY <1>1, <1>2, <2>3 DEF FreshIsNowhere
      <3>7. QED
        BY <3>3, <3>4, <3>5, <3>6 DEF RefInv
    <2>4. QED
      BY <2>2, <2>3
  <1>6. \A p2, q2 \in Proc, r \in 0 .. MaxRef : ReportedOnce(p2, q2, r)'
    <2> SUFFICES ASSUME NEW p2 \in Proc, NEW q2 \in Proc, NEW r \in 0 .. MaxRef
                 PROVE  ReportedOnce(p2, q2, r)'
      OBVIOUS
    <2>1. MailKept(Reports(q2, r)) /\ ReportedOnce(p2, q2, r)
      BY <1>1, SameMail DEF CauseInv
    <2>2. Mon(p2, q2, r) \in outgoing' => Mon(p2, q2, r) \in outgoing \/ r >= nextRef
      BY <1>1, <1>2 DEF Mon
    <2>3. terminated \subseteq terminated'
      BY <1>1
    <2>4. QED
      BY <1>2, <2>1, <2>2, <2>3, ReportFrame
  <1>7. \A mon \in outgoing' : mon.ref < nextRef'
    <2> SUFFICES ASSUME NEW mon \in outgoing' PROVE mon.ref < nextRef'
      OBVIOUS
    <2>1. CASE mon \in outgoing
      <3>1. mon.ref < nextRef /\ mon.ref \in Nat
        BY <1>4, <2>1 DEF CauseInv, MonTypes, Monitors, Ref
      <3>2. QED
        BY <1>2, <3>1
    <2>2. CASE mon = Mon(p, q, new)
      BY <1>1, <1>2, <2>2 DEF Mon
    <2>3. QED
      BY <1>1, <2>1, <2>2
  <1>8. QED
    BY <1>5, <1>6, <1>7 DEF CauseInv, RefInv

LEMMA HandleExitCause ==
    ASSUME Types, Types', CauseInv, NEW n \in Node, NEW c \in Conn, HandleExit(n, c)
    PROVE  CauseInv'
  <1> PICK msg : msg = Head(hand[n][c])
    OBVIOUS
  <1> PICK exit : exit = Msg("exit", msg.from, msg.to, 0, msg.reason)
    OBVIOUS
  <1>1. msg \in Sound
    BY HeadTyped, RefsAreNat DEF HandleExit, InHand
  <1>2. msg.from \in Proc /\ msg.to \in Proc /\ msg.reason \in Text \cup {"none"}
    BY <1>1 DEF Sound, Message
  <1>3. ExitSignal(msg.to, msg.from, Class(msg.reason), msg.reason)
        /\ UNCHANGED <<outgoing, tracking, downItems, nextRef>>
    BY DEF HandleExit
  <1>4. MonTypes(Sound) /\ nextRef <= nextRef'
    BY <1>3, RefsAreNat
  <1>5. terminated \subseteq terminated' /\ (mailbox' = mailbox \/ mailbox' = Deliver(msg.to, exit))
    BY <1>2, <1>3, <1>4, ExitSignalTyped
  <1>6. exit \in Message /\ ~IsDown(exit)
    BY <1>2, RefAssumption, MsgTyped DEF Kind, Msg, IsDown
  <1>7. \A r \in 0 .. MaxRef : exit \notin LostDowns(r) /\ \A q \in Proc : exit \notin Reports(q, r)
    BY <1>6 DEF LostDowns, Reports
  <1>8. \A r \in 0 .. MaxRef : MailKept(LostDowns(r)) /\ \A q \in Proc : MailKept(Reports(q, r))
    BY <1>2, <1>4, <1>5, <1>6, <1>7, DeliverKept
  <1>9. \A r \in 0 .. MaxRef : TrackedKept(r) /\ PlannedKept(r)
    BY <1>3, SameTracked, SamePlanned
  <1>10. QED
    BY <1>3, <1>4, <1>5, <1>8, <1>9, CauseFrame

\* A report is taken only while its monitor is in outgoing, which it leaves.
LEMMA HandleDownCause ==
    ASSUME Types, Types', CauseInv, NEW n \in Node, NEW c \in Conn, HandleDown(n, c)
    PROVE  CauseInv'
  <1> PICK msg : msg = Head(hand[n][c])
    OBVIOUS
  <1> PICK mon : mon = Mon(msg.to, msg.from, msg.ref)
    OBVIOUS
  <1>1. msg \in Sound /\ IsDown(msg)
    BY HeadTyped, RefsAreNat DEF HandleDown, InHand, IsDown
  <1>2. /\ msg.from \in Proc /\ msg.to \in Proc /\ msg.ref \in 0 .. MaxRef /\ msg \in Message
        /\ msg.from \in terminated /\ ~Lost(msg)
    BY <1>1 DEF Sound, Message
  <1>3. /\ outgoing' = outgoing \ {mon}
        /\ mailbox' = IF mon \in outgoing THEN Deliver(msg.to, msg) ELSE mailbox
        /\ UNCHANGED <<tracking, downItems, terminated, nextRef>>
    BY DEF HandleDown, Fired, Mon
  <1>4. MonTypes(Sound) /\ nextRef <= nextRef' /\ nextRef \in Nat /\ nextRef' \in Nat
    BY <1>3, RefsAreNat
  <1>5. CASE mon \notin outgoing
    BY <1>3, <1>4, <1>5, CauseStill
  <1>6. CASE mon \in outgoing
    <2>1. mailbox' = Deliver(msg.to, msg)
      BY <1>3, <1>6
    <2>2. \A r \in 0 .. MaxRef : RefInv(r)'
      <3> SUFFICES ASSUME NEW r \in 0 .. MaxRef PROVE RefInv(r)'
        OBVIOUS
      <3>1. msg \notin LostDowns(r)
        BY <1>2 DEF LostDowns
      <3>2. MailKept(LostDowns(r))
        BY <1>2, <1>4, <2>1, <3>1, DeliverKept
      <3>3. TrackedKept(r) /\ PlannedKept(r)
        BY <1>3, SameTracked, SamePlanned
      <3>4. RefInv(r)
        BY DEF CauseInv, RefInv
      <3>5. QED
        BY <1>4, <3>2, <3>3, <3>4, RefFrame
    <2>3. \A p, q \in Proc, r \in 0 .. MaxRef : ReportedOnce(p, q, r)'
      <3> SUFFICES ASSUME NEW p \in Proc, NEW q \in Proc, NEW r \in 0 .. MaxRef
                   PROVE  ReportedOnce(p, q, r)'
        OBVIOUS
      <3> PICK X : X = Reports(q, r)
        OBVIOUS
      <3>1. ReportedOnce(p, q, r)
        BY DEF CauseInv
      <3>2. /\ Has(mailbox'[p], X) => Has(mailbox[p], X) \/ (p = msg.to /\ msg \in X)
            /\ Once(mailbox[p], X) /\ (p = msg.to /\ msg \in X => ~Has(mailbox[p], X)) =>
                   Once(mailbox'[p], X)
        BY <1>2, <1>4, <2>1, DeliverHas
      <3>3. CASE p = msg.to /\ msg \in X
        <4>1. q = msg.from /\ r = msg.ref /\ mon = Mon(p, q, r)
          BY <3>3 DEF Reports
        <4>2. ~Has(mailbox[p], X) /\ Once(mailbox[p], X)
          BY <1>6, <3>1, <4>1 DEF ReportedOnce
        <4>3. r < nextRef
          BY <1>6, <4>1 DEF CauseInv, Mon
        <4>4. QED
          BY <1>2, <1>3, <3>2, <4>1, <4>2, <4>3 DEF ReportedOnce
      <3>4. CASE ~(p = msg.to /\ msg \in X)
        BY <1>3, <3>1, <3>2, <3>4 DEF ReportedOnce
      <3>5. QED
        BY <3>3, <3>4
    <2>4. \A other \in outgoing' : other.ref < nextRef'
      BY <1>3 DEF CauseInv
    <2>5. QED
      BY <2>2, <2>3, <2>4 DEF CauseInv, RefInv
  <1>7. QED
    BY <1>5, <1>6

\* What was tracked of the peer is now with handle_node_down.
LEMMA TakeTrackingCause ==
    ASSUME Types, Types', CauseInv, NEW n \in Node, NEW c \in Conn, TakeTracking(n, c)
    PROVE  CauseInv'
  <1> PICK m : m = Peer(n, c)
    OBVIOUS
  <1> PICK items : items = tracking[n][m]
    OBVIOUS
  <1> PICK none : none = [kind \in ItemKind |-> <<>>]
    OBVIOUS
  <1> PICK all : all = items["out"] \o items["in"] \o items["link"]
    OBVIOUS
  <1>1. /\ c \in gone[n]
        /\ tracking' = [tracking EXCEPT ![n][m] = none]
        /\ downItems' = [downItems EXCEPT ![n][c] = all]
        /\ UNCHANGED <<outgoing, terminated, mailbox, nextRef>>
    BY DEF TakeTracking
  <1>2. MonTypes(Sound) /\ nextRef <= nextRef' /\ nextRef \in Nat /\ nextRef' \in Nat
    BY <1>1, RefsAreNat
  <1>3. m \in Node
    BY <1>1, PeerIsNode DEF Types, ConnInv
  <1>4. /\ tracking \in [Node -> [Node -> [ItemKind -> Seq(Item)]]]
        /\ downItems \in [Node -> [Conn -> Seq(Item)]]
    BY <1>2 DEF MonTypes
  <1>5. \A n2, m2 \in Node : tracking'[n2][m2] = IF n2 = n /\ m2 = m THEN none ELSE tracking[n2][m2]
    BY <1>1, <1>4
  <1>6. \A n2 \in Node, c2 \in Conn : downItems'[n2][c2] = IF n2 = n /\ c2 = c THEN all ELSE downItems[n2][c2]
    BY <1>1, <1>4
  <1>7. \A r \in 0 .. MaxRef : RefInv(r)'
    <2> SUFFICES ASSUME NEW r \in 0 .. MaxRef PROVE RefInv(r)'
      OBVIOUS
    <2> PICK X : X = OutItems(r)
      OBVIOUS
    <2>1. RefInv(r)
      BY DEF CauseInv, RefInv
    <2>2. \A n2, m2 \in Node, k \in ItemKind :
              /\ Once(tracking[n2][m2][k], X)
              /\ \A n3, m3 \in Node, k2 \in ItemKind :
                    Has(tracking[n2][m2][k], X) /\ Has(tracking[n3][m3][k2], X) => n2 = n3 /\ m2 = m3 /\ k = k2
      BY <2>1 DEF RefInv, TrackedOnce, TrackedAt
    <2>3. items["out"] \in Seq(Item) /\ items["in"] \in Seq(Item) /\ items["link"] \in Seq(Item)
      BY <1>3, <1>4 DEF ItemKind
    <2>4. Has(all, X) => Has(items["out"], X) \/ Has(items["in"], X) \/ Has(items["link"], X)
      BY <2>3, ConcatOfThree
    <2>5. Has(all, X) => \E k \in ItemKind : Has(tracking[n][m][k], X)
      BY <2>4 DEF ItemKind
    <2>6. /\ Once(items["out"], X) /\ Once(items["in"], X) /\ Once(items["link"], X)
          /\ ~(Has(items["out"], X) /\ Has(items["in"], X))
          /\ ~(Has(items["out"], X) /\ Has(items["link"], X))
          /\ ~(Has(items["in"], X) /\ Has(items["link"], X))
      BY <1>3, <2>2 DEF ItemKind
    <2>8. Once(all, X)
      BY <2>3, <2>6, ConcatOfThree
    <2>9. \A k \in ItemKind : ~Has(none[k], X) /\ Once(none[k], X)
      BY EmptyHas
    <2>10. \A n2, m2 \in Node, k \in ItemKind :
               /\ Has(tracking'[n2][m2][k], X) => Has(tracking[n2][m2][k], X) /\ ~(n2 = n /\ m2 = m)
               /\ Once(tracking'[n2][m2][k], X)
      BY <1>5, <2>2, <2>9
    <2>11. \A n2 \in Node, c2 \in Conn :
               /\ Has(downItems'[n2][c2], X) =>
                      \/ n2 = n /\ c2 = c /\ \E k \in ItemKind : Has(tracking[n][m][k], X)
                      \/ ~(n2 = n /\ c2 = c) /\ Has(downItems[n2][c2], X)
               /\ Once(downItems'[n2][c2], X)
      BY <1>6, <2>1, <2>5, <2>8 DEF RefInv, PlannedOnce
    <2>12. \A n2 \in Node, c2 \in Conn :
               /\ Has(downItems[n2][c2], X) => \A n3, m3 \in Node, k \in ItemKind : ~Has(tracking[n3][m3][k], X)
               /\ \A n3 \in Node, c3 \in Conn :
                     Has(downItems[n2][c2], X) /\ Has(downItems[n3][c3], X) => n2 = n3 /\ c2 = c3
      BY <2>1 DEF RefInv, PlannedOnce, PlannedAt, TrackedAt
    <2>13. TrackedOnce(r)'
      BY <2>2, <2>10 DEF TrackedOnce, TrackedAt
    <2>14. PlannedOnce(r)'
      <3>1. \A n2 \in Node, c2 \in Conn :
                Has(downItems'[n2][c2], X) => \A n3, m3 \in Node, k \in ItemKind : ~Has(tracking'[n3][m3][k], X)
        BY <1>3, <2>2, <2>10, <2>11, <2>12
      <3>2. \A n2, n3 \in Node, c2, c3 \in Conn :
                Has(downItems'[n2][c2], X) /\ Has(downItems'[n3][c3], X) => n2 = n3 /\ c2 = c3
        BY <1>3, <2>11, <2>12
      <3>3. QED
        BY <2>11, <3>1, <3>2 DEF PlannedOnce, PlannedAt, TrackedAt
    <2>15. LostOnce(r)'
      <3>1. \A p \in Proc :
                /\ Once(mailbox[p], LostDowns(r))
                /\ Has(mailbox[p], LostDowns(r)) =>
                       /\ \A n2, m2 \in Node, k \in ItemKind : ~Has(tracking[n2][m2][k], X)
                       /\ \A n2 \in Node, c2 \in Conn : ~Has(downItems[n2][c2], X)
        BY <2>1 DEF RefInv, LostOnce, LostAt, TrackedAt, PlannedAt
      <3>2. QED
        BY <1>1, <1>3, <2>10, <2>11, <3>1 DEF LostOnce, LostAt, TrackedAt, PlannedAt
    <2>16. FreshIsNowhere(r)'
      <3>1. r >= nextRef =>
                /\ \A n2, m2 \in Node, k \in ItemKind : ~Has(tracking[n2][m2][k], X)
                /\ \A n2 \in Node, c2 \in Conn : ~Has(downItems[n2][c2], X)
                /\ \A p \in Proc : ~Has(mailbox[p], LostDowns(r))
        BY <2>1 DEF RefInv, FreshIsNowhere, LostAt, TrackedAt, PlannedAt
      <3>2. QED
        BY <1>1, <1>3, <2>10, <2>11, <3>1 DEF FreshIsNowhere, LostAt, TrackedAt, PlannedAt
    <2>17. QED
      BY <2>13, <2>14, <2>15, <2>16 DEF RefInv
  <1>8. \A p, q \in Proc, r \in 0 .. MaxRef : ReportedOnce(p, q, r)'
    BY <1>1 DEF CauseInv, ReportedOnce
  <1>9. \A mon \in outgoing' : mon.ref < nextRef'
    BY <1>1 DEF CauseInv
  <1>10. QED
    BY <1>7, <1>8, <1>9 DEF CauseInv, RefInv

\* A DOWN that blames the connection is of an item that is dropped with it.
LEMMA DropOutgoingCause ==
    ASSUME Types, Types', CauseInv, NEW n \in Node, NEW c \in Conn, NodeDownItem(n, c),
           DropOutgoing(Head(downItems[n][c]))
    PROVE  CauseInv'
  <1> PICK item : item = Head(downItems[n][c])
    OBVIOUS
  <1> PICK msg : msg = Msg("down", item.remote, item.local, item.ref, "noconnection")
    OBVIOUS
  <1> PICK rest : rest = Tail(downItems[n][c])
    OBVIOUS
  <1>1. /\ downItems[n][c] # <<>>
        /\ downItems' = [downItems EXCEPT ![n][c] = rest]
        /\ UNCHANGED <<tracking, terminated, nextRef>>
    BY DEF NodeDownItem, DropOutgoing
  <1>2. MonTypes(Sound) /\ nextRef <= nextRef' /\ nextRef \in Nat /\ nextRef' \in Nat
    BY <1>1, RefsAreNat
  <1>3. downItems[n][c] \in Seq(Item)
    BY <1>2 DEF MonTypes
  <1>4. item \in Item
    BY <1>1, <1>3
  <1>5. /\ item.kind = "out" /\ outgoing' \subseteq outgoing
        /\ mailbox' = Deliver(item.local, msg)
    BY DEF DropOutgoing
  <1>6. item.local \in Proc /\ item.remote \in Proc /\ item.ref \in 0 .. MaxRef
    BY <1>4 DEF Item
  <1>7. msg \in Message /\ IsDown(msg) /\ Lost(msg) /\ msg.ref = item.ref
    <2>1. msg \in Message
      BY <1>6, MsgTyped DEF Kind, Text
    <2>2. QED
      BY <2>1 DEF Msg, IsDown, Lost
  <1>8. \A r \in 0 .. MaxRef : TrackedKept(r) /\ PlannedKept(r)
    BY <1>1, <1>2, SameTracked, DoneHas
  <1>9. \A r \in 0 .. MaxRef : RefInv(r)'
    <2> SUFFICES ASSUME NEW r \in 0 .. MaxRef PROVE RefInv(r)'
      OBVIOUS
    <2>1. RefInv(r)
      BY DEF CauseInv, RefInv
    <2>2. CASE r # item.ref
      <3>1. msg \notin LostDowns(r)
        BY <1>7, <2>2 DEF LostDowns
      <3>2. MailKept(LostDowns(r))
        BY <1>2, <1>5, <1>6, <1>7, <3>1, DeliverKept
      <3>3. QED
        BY <1>2, <1>8, <2>1, <3>2, RefFrame
    <2>3. CASE r = item.ref
      <3>1. item \in OutItems(r)
        BY <1>4, <1>5, <2>3 DEF OutItems
      <3>2. Once(downItems[n][c], OutItems(r))
        BY <2>1 DEF RefInv, PlannedOnce
      <3>3. Has(downItems[n][c], OutItems(r)) /\ ~Has(downItems'[n][c], OutItems(r))
        BY <1>1, <1>2, <3>1, <3>2, DoneHas
      <3>4. /\ \A n2, m2 \in Node, k \in ItemKind : ~Has(tracking[n2][m2][k], OutItems(r))
            /\ \A n2 \in Node, c2 \in Conn : Has(downItems[n2][c2], OutItems(r)) => n2 = n /\ c2 = c
        BY <2>1, <3>3 DEF RefInv, PlannedOnce, PlannedAt, TrackedAt
      <3>5. \A p \in Proc : ~Has(mailbox[p], LostDowns(r)) /\ Once(mailbox[p], LostDowns(r))
        BY <2>1, <3>3 DEF RefInv, LostOnce, LostAt, PlannedAt
      <3>6. \A n2 \in Node, c2 \in Conn : ~Has(downItems'[n2][c2], OutItems(r))
        BY <1>8, <3>3, <3>4 DEF PlannedKept
      <3>7. \A p \in Proc : Once(mailbox'[p], LostDowns(r))
        BY <1>2, <1>5, <1>6, <1>7, <3>5, DeliverHas
      <3>8. r < nextRef
        BY <1>2, <2>1, <3>3 DEF RefInv, FreshIsNowhere, PlannedAt
      <3>9. TrackedOnce(r)'
        BY <1>8, <2>1, <3>4 DEF RefInv, TrackedOnce, TrackedAt, TrackedKept
      <3>10. PlannedOnce(r)'
        BY <1>8, <2>1, <3>6 DEF RefInv, PlannedOnce, PlannedAt, PlannedKept
      <3>11. LostOnce(r)'
        BY <1>1, <3>4, <3>6, <3>7 DEF LostOnce, TrackedAt, PlannedAt
      <3>12. FreshIsNowhere(r)'
        BY <1>1, <1>2, <3>8 DEF FreshIsNowhere
      <3>13. QED
        BY <3>9, <3>10, <3>11, <3>12 DEF RefInv
    <2>4. QED
      BY <2>2, <2>3
  <1>10. \A p, q \in Proc, r \in 0 .. MaxRef : ReportedOnce(p, q, r)'
    <2> SUFFICES ASSUME NEW p \in Proc, NEW q \in Proc, NEW r \in 0 .. MaxRef
                 PROVE  ReportedOnce(p, q, r)'
      OBVIOUS
    <2>1. msg \notin Reports(q, r)
      BY <1>7 DEF Reports
    <2>2. MailKept(Reports(q, r))
      BY <1>2, <1>5, <1>6, <1>7, <2>1, DeliverKept
    <2>3. ReportedOnce(p, q, r)
      BY DEF CauseInv
    <2>4. QED
      BY <1>1, <1>2, <1>5, <2>2, <2>3, ReportFrame
  <1>11. \A mon \in outgoing' : mon.ref < nextRef'
    BY <1>1, <1>5 DEF CauseInv
  <1>12. QED
    BY <1>9, <1>10, <1>11 DEF CauseInv, RefInv

LEMMA NodeDownItemCause ==
    ASSUME Types, Types', CauseInv, NEW n \in Node, NEW c \in Conn, NodeDownItem(n, c)
    PROVE  CauseInv'
  <1> PICK item : item = Head(downItems[n][c])
    OBVIOUS
  <1>1. /\ downItems[n][c] # <<>>
        /\ DropOutgoing(item) \/ DropIncoming(item) \/ DropLink(item)
        /\ downItems' = [downItems EXCEPT ![n][c] = Tail(downItems[n][c])]
        /\ UNCHANGED <<tracking, nextRef>>
    BY DEF NodeDownItem
  <1>2. MonTypes(Sound) /\ nextRef <= nextRef'
    BY <1>1, RefsAreNat
  <1>3. downItems[n][c] \in Seq(Item)
    BY <1>2 DEF MonTypes
  <1>4. item \in Item
    BY <1>1, <1>3
  <1>5. \A r \in 0 .. MaxRef : TrackedKept(r) /\ PlannedKept(r)
    BY <1>1, <1>2, SameTracked, DoneHas
  <1>6. CASE DropOutgoing(item)
    BY <1>6, DropOutgoingCause
  <1>7. CASE DropIncoming(item)
    <2>1. UNCHANGED <<outgoing, mailbox, terminated>>
      BY <1>7 DEF DropIncoming
    <2>2. \A r \in 0 .. MaxRef : MailKept(LostDowns(r)) /\ \A q \in Proc : MailKept(Reports(q, r))
      BY <2>1, SameMail
    <2>3. QED
      BY <1>2, <1>5, <2>1, <2>2, CauseFrame
  <1>8. CASE DropLink(item)
    <2> PICK exit : exit = Msg("exit", item.remote, item.local, 0, "noconnection")
      OBVIOUS
    <2>1. item.local \in Proc /\ item.remote \in Proc
      BY <1>4 DEF Item
    <2>2. ExitSignal(item.local, item.remote, "Error", "noconnection") /\ UNCHANGED outgoing
      BY <1>8 DEF DropLink
    <2>3. terminated \subseteq terminated' /\ (mailbox' = mailbox \/ mailbox' = Deliver(item.local, exit))
      BY <1>2, <2>1, <2>2, ExitSignalTyped DEF Text
    <2>4. exit \in Message /\ ~IsDown(exit)
      <3>1. exit \in Message
        BY <2>1, RefAssumption, MsgTyped DEF Kind, Text
      <3>2. QED
        BY <3>1 DEF Msg, IsDown
    <2>5. \A r \in 0 .. MaxRef : exit \notin LostDowns(r) /\ \A q \in Proc : exit \notin Reports(q, r)
      BY <2>4 DEF LostDowns, Reports
    <2>6. \A r \in 0 .. MaxRef : MailKept(LostDowns(r)) /\ \A q \in Proc : MailKept(Reports(q, r))
      BY <1>2, <2>1, <2>3, <2>4, <2>5, DeliverKept
    <2>7. QED
      BY <1>2, <1>5, <2>2, <2>3, <2>6, CauseFrame
  <1>9. QED
    BY <1>1, <1>6, <1>7, <1>8

-----------------------------------------------------------------------------
LEMMA CauseInit == Init => CauseInv
  <1> SUFFICES ASSUME Init PROVE CauseInv
    OBVIOUS
  <1>1. \A n, m \in Node, k \in ItemKind : tracking[n][m][k] = <<>>
    BY DEF Init
  <1>2. \A n \in Node, c \in Conn : downItems[n][c] = <<>>
    BY DEF Init
  <1>3. \A p \in Proc : mailbox[p] = <<>>
    BY DEF Init
  <1>4. \A r : RefInv(r)
    BY <1>1, <1>2, <1>3, EmptyHas DEF RefInv, TrackedOnce, PlannedOnce, LostOnce, FreshIsNowhere,
       TrackedAt, PlannedAt, LostAt
  <1>5. \A p, q \in Proc, r \in 0 .. MaxRef : ReportedOnce(p, q, r)
    BY <1>3, EmptyHas DEF ReportedOnce
  <1>6. outgoing = {}
    BY DEF Init
  <1>7. QED
    BY <1>4, <1>5, <1>6 DEF CauseInv, RefInv

\* What leaves tracking, handle_node_down and mailboxes alone.
LEMMA QuietSteps ==
    ASSUME Types, Types', CauseInv, [Next]_vars,
           nextRef <= nextRef', outgoing' \subseteq outgoing, UNCHANGED <<tracking, downItems, mailbox>>
    PROVE  CauseInv'
  BY TerminatedGrows, CauseStill

LEMMA CauseStep == Types /\ Types' /\ CauseInv /\ [Next]_vars => CauseInv'
  <1> SUFFICES ASSUME Types, Types', CauseInv, [Next]_vars PROVE CauseInv'
    OBVIOUS
  <1>1. ASSUME nextRef' = nextRef, outgoing' \subseteq outgoing, UNCHANGED <<tracking, downItems, mailbox>>
        PROVE  CauseInv'
    BY <1>1, QuietSteps, RefsAreNat
  <1>2. CASE UNCHANGED vars
    BY <1>1, <1>2 DEF vars, monVars
  <1>3. CASE UNCHANGED monVars
    BY <1>1, <1>3 DEF monVars
  <1>4. ASSUME NEW p \in Proc, ProcOperates(p) PROVE CauseInv'
    <2>1. ASSUME NEW q \in Proc, Unlink(p, q) \/ \E r \in Ref : Demonitor(p, q, r) PROVE CauseInv'
      BY <1>1, <2>1 DEF Unlink, Demonitor
    <2>2. ASSUME NEW reason \in Reason, BodyEnds(p, reason) PROVE CauseInv'
      BY <1>1, <2>2 DEF BodyEnds
    <2>3. QED
      BY <1>4, <2>1, <2>2, MonitorCause, LinkCause DEF ProcOperates
  <1>5. ASSUME NEW p \in Proc, ProcGoesOn(p) PROVE CauseInv'
    <2>1. outgoing' \subseteq outgoing /\ nextRef' = nextRef /\ UNCHANGED <<tracking, downItems, mailbox>>
      BY <1>5 DEF ProcGoesOn, SendRequest, NotifyMonitors, SendExitMsg, NotifyLinks, Unregister
    <2>2. QED
      BY <1>1, <2>1
  <1>6. ASSUME NEW n \in Node, NEW c \in Conn, Handle(n, c) PROVE CauseInv'
    <2>1. ASSUME HandleMonitorCheck(n, c) \/ HandleDemonitor(n, c) \/ HandleLink(n, c) \/ HandleUnlink(n, c)
          PROVE  CauseInv'
      BY <1>1, <2>1 DEF HandleMonitorCheck, HandleDemonitor, HandleLink, HandleUnlink, monVars
    <2>2. QED
      BY <1>6, <2>1, HandleMonitorCause, HandleDownCause, HandleLinkAddCause, HandleExitCause DEF Handle
  <1>7. ASSUME NEW n \in Node, NEW c \in Conn, NodeDownGoesOn(n, c) PROVE CauseInv'
    BY <1>7, TakeTrackingCause, NodeDownItemCause DEF NodeDownGoesOn
  <1>8. QED
    BY <1>2, <1>3, <1>4, <1>5, <1>6, <1>7 DEF Next, Environment, GoesOn, NodeGoesOn

LEMMA CauseHolds == Spec => [](Types /\ CauseInv)
  BY TypesInit, CauseInit, TypesStep, CauseStep, PTL DEF Spec

(***************************************************************************)
(* handle_process_down and handle_node_down report a monitor at most once  *)
(* each, however often the nodes connect and whatever is in flight; and a  *)
(* report that does not blame the connection is of a process that has      *)
(* been marked terminated.                                                 *)
(***************************************************************************)
THEOREM DownsComeOncePerCause == Spec => []DownOncePerCause
  <1>1. Types /\ CauseInv => DownOncePerCause
    <2> SUFFICES ASSUME Types, CauseInv, NEW p \in Proc, NEW i \in DOMAIN mailbox[p], IsDown(mailbox[p][i])
                 PROVE  /\ \A j \in DOMAIN mailbox[p] :
                              IsDown(mailbox[p][j]) /\ OfSameMonitor(mailbox[p][i], mailbox[p][j])
                                /\ (Lost(mailbox[p][i]) <=> Lost(mailbox[p][j])) => i = j
                        /\ ~Lost(mailbox[p][i]) => mailbox[p][i].from \in terminated
      BY DEF DownOncePerCause
    <2> PICK down : down = mailbox[p][i]
      OBVIOUS
    <2> PICK r : r = down.ref
      OBVIOUS
    <2> PICK q : q = down.from
      OBVIOUS
    <2>1. mailbox[p] \in Seq(Message)
      BY DEF Types, MonTypes
    <2>2. \A j \in DOMAIN mailbox[p] : mailbox[p][j] \in Message
      BY <2>1
    <2>3. down \in Message /\ r \in 0 .. MaxRef /\ q \in Proc
      BY <2>2 DEF Message
    <2>4. Once(mailbox[p], LostDowns(r)) /\ ReportedOnce(p, q, r)
      BY <2>3 DEF CauseInv, LostOnce
    <2>5. ASSUME ~Lost(down) PROVE q \in terminated
      <3>1. Has(mailbox[p], Reports(q, r))
        BY <2>3, <2>5 DEF Has, Reports
      <3>2. QED
        BY <2>4, <3>1 DEF ReportedOnce
    <2>6. ASSUME NEW j \in DOMAIN mailbox[p], IsDown(mailbox[p][j]), OfSameMonitor(down, mailbox[p][j]),
                 Lost(down) <=> Lost(mailbox[p][j])
          PROVE  i = j
      <3> PICK other \in Message : other = mailbox[p][j]
        BY <2>2
      <3>1. other.from = q /\ other.ref = r
        BY <2>6 DEF OfSameMonitor
      <3>2. CASE Lost(down)
        <4>1. down \in LostDowns(r) /\ other \in LostDowns(r)
          BY <2>3, <2>6, <3>1, <3>2 DEF LostDowns
        <4>2. QED
          BY <2>4, <4>1 DEF Once
      <3>3. CASE ~Lost(down)
        <4>1. down \in Reports(q, r) /\ other \in Reports(q, r)
          BY <2>3, <2>6, <3>1, <3>3 DEF Reports
        <4>2. QED
          BY <2>4, <4>1 DEF ReportedOnce, Once
      <3>4. QED
        BY <3>2, <3>3
    <2>7. QED
      BY <2>5, <2>6
  <1>2. QED
    BY <1>1, CauseHolds, PTL
=============================================================================
