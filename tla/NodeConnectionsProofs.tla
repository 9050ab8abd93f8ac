------------------------ MODULE NodeConnectionsProofs ------------------------
(***************************************************************************)
(* Proofs about NodeConnections: for every number of nodes, addresses and  *)
(* connections, two invariants that TLC checks on two nodes.               *)
(***************************************************************************)
EXTENDS NodeConnections, TLAPS

-----------------------------------------------------------------------------
(***************************************************************************)
(* What the two properties rest on.  An end that is done with a connection *)
(* that is open has it in its table, because whatever takes it from there  *)
(* closes it (AtFrom, AtTo).  An entry is under the peer of its connection *)
(* (EntryOfPeer), so its own loop meets itself when it looks at the table. *)
(***************************************************************************)
Ends(c) == /\ conn[c] \in [from : Node, to : Node, addr : Addr]
           /\ conn[c].from # conn[c].to

ConnTypes ==
    /\ conn \in [Conn -> [from : Node \cup {None}, to : Node \cup {None}, addr : Addr \cup {None}]]
    /\ up \subseteq Conn
    /\ nodes \in [Node -> [Node -> 0 .. MaxConn]]
    /\ dialer \in [Conn -> DialerStep]
    /\ acceptor \in [Conn -> AcceptorStep]
    /\ sender \in [Node -> [Conn -> SenderStep]]
    /\ receiver \in [Node -> [Conn -> ReceiverStep]]

HasEnds(c) == (dialer[c] # "none" \/ acceptor[c] # "none") => Ends(c)

AtFrom(c) == c \in up /\ dialer[c] = "done" => nodes[conn[c].from][conn[c].to] = c
AtTo(c) == c \in up /\ acceptor[c] = "done" => nodes[conn[c].to][conn[c].from] = c

HasLoop(n, c) == (sender[n][c] # "none" \/ receiver[n][c] # "none") => Ends(c)

EntryOfPeer(n, m) ==
    nodes[n][m] # 0 =>
        /\ Ends(nodes[n][m]) /\ Peer(n, nodes[n][m]) = m
        /\ receiver[n][nodes[n][m]] # "none"

ConnInv ==
    /\ ConnTypes
    /\ \A c \in Conn : HasEnds(c) /\ AtFrom(c) /\ AtTo(c)
    /\ \A n \in Node, c \in Conn : HasLoop(n, c)
    /\ \A n, m \in Node : EntryOfPeer(n, m)

LEMMA InitInv == Init => ConnInv
  <1> SUFFICES ASSUME Init PROVE ConnInv
    OBVIOUS
  <1>1. ConnTypes
    BY BoundAssumption DEF Init, ConnTypes, NoConn, DialerStep, AcceptorStep, SenderStep, ReceiverStep
  <1>2. QED
    BY <1>1 DEF Init, ConnInv, HasEnds, AtFrom, AtTo, HasLoop, EntryOfPeer

-----------------------------------------------------------------------------
(***************************************************************************)
(* What a step leaves as it was.                                           *)
(***************************************************************************)
LEMMA ConnKept ==
    ASSUME ConnInv, conn' = conn, ConnTypes',
           \A c \in Conn : dialer'[c] # "none" => dialer[c] # "none",
           \A c \in Conn : acceptor'[c] # "none" => acceptor[c] # "none",
           \A n \in Node, c \in Conn :
               sender'[n][c] # "none" \/ receiver'[n][c] # "none" => Ends(c),
           \A c \in Conn : AtFrom(c)', \A c \in Conn : AtTo(c)',
           \A n, m \in Node : EntryOfPeer(n, m)'
    PROVE  ConnInv'
  BY DEF ConnInv, HasEnds, HasLoop, Ends

\* The entries and the handshakes are as they were; connections may have closed.
LEMMA HandshakesKept ==
    ASSUME ConnInv, UNCHANGED <<conn, nodes>>, up' \subseteq up,
           NEW c \in Conn
    PROVE  /\ (dialer'[c] = "done" => dialer[c] = "done" \/ c \notin up') => AtFrom(c)'
           /\ (acceptor'[c] = "done" => acceptor[c] = "done" \/ c \notin up') => AtTo(c)'
  BY DEF ConnInv, AtFrom, AtTo

LEMMA ReceiversKept ==
    ASSUME ConnInv, UNCHANGED <<conn, nodes, receiver>>, NEW n \in Node, NEW m \in Node
    PROVE  EntryOfPeer(n, m)'
  BY DEF ConnInv, EntryOfPeer, Ends, Peer

\* An entry that stays, of which the receiver loop has not ended.
LEMMA EntryStays ==
    ASSUME ConnInv, conn' = conn, NEW n \in Node, NEW m \in Node, nodes'[n][m] = nodes[n][m],
           NEW e, e = nodes[n][m],
           e \in Conn /\ Peer(n, e) = m /\ receiver[n][e] # "none" => receiver'[n][e] # "none"
    PROVE  EntryOfPeer(n, m)'
  <1>1. e = 0 \/ e \in Conn
    BY BoundAssumption DEF ConnInv, ConnTypes, Conn
  <1>2. e # 0 => Ends(e) /\ Peer(n, e) = m /\ receiver[n][e] # "none"
    BY DEF ConnInv, EntryOfPeer
  <1>3. Ends(e)' = Ends(e) /\ Peer(n, e)' = Peer(n, e)
    BY DEF Ends, Peer
  <1>4. e # 0 => Ends(e)' /\ Peer(n, e)' = m /\ receiver'[n][e] # "none"
    BY <1>1, <1>2, <1>3
  <1>5. QED
    BY <1>4 DEF EntryOfPeer

-----------------------------------------------------------------------------
(***************************************************************************)
(* Changes of the table: an entry of n for m that is taken out or          *)
(* overwritten is dropped, and closes its connection.                      *)
(***************************************************************************)
LEMMA DropCloses ==
    ASSUME ConnInv, conn' = conn, NEW n \in Node, NEW m \in Node, up' = up \ {nodes[n][m]},
           \A k, l \in Node : k # n \/ l # m => nodes'[k][l] = nodes[k][l],
           NEW c \in Conn
    PROVE  /\ dialer'[c] = dialer[c] => AtFrom(c)'
           /\ acceptor'[c] = acceptor[c] => AtTo(c)'
  <1>1. ASSUME c \in up', dialer[c] = "done" PROVE nodes'[conn[c].from][conn[c].to] = c
    <2>1. /\ c \in up /\ c # nodes[n][m] /\ nodes[conn[c].from][conn[c].to] = c
          /\ conn[c].from \in Node /\ conn[c].to \in Node
      BY <1>1 DEF ConnInv, AtFrom, HasEnds, Ends
    <2>2. QED
      BY <2>1
  <1>2. ASSUME c \in up', acceptor[c] = "done" PROVE nodes'[conn[c].to][conn[c].from] = c
    <2>1. /\ c \in up /\ c # nodes[n][m] /\ nodes[conn[c].to][conn[c].from] = c
          /\ conn[c].from \in Node /\ conn[c].to \in Node
      BY <1>2 DEF ConnInv, AtTo, HasEnds, Ends
    <2>2. QED
      BY <2>1
  <1>3. QED
    BY <1>1, <1>2 DEF AtFrom, AtTo

LEMMA RemoveEffect ==
    ASSUME ConnInv, NEW n \in Node, NEW m \in Node, RemoveIfAny(n, m) \/ RemoveEntry(n, m)
    PROVE  /\ up' = up \ {nodes[n][m]} /\ nodes' \in [Node -> [Node -> 0 .. MaxConn]]
           /\ nodes'[n][m] = 0
           /\ \A k, l \in Node : k # n \/ l # m => nodes'[k][l] = nodes[k][l]
  <1>1. 0 \notin up
    BY BoundAssumption DEF ConnInv, ConnTypes, Conn
  <1>2. ASSUME RemoveEntry(n, m)
        PROVE  /\ up' = up \ {nodes[n][m]} /\ nodes' \in [Node -> [Node -> 0 .. MaxConn]]
               /\ nodes'[n][m] = 0
               /\ \A k, l \in Node : k # n \/ l # m => nodes'[k][l] = nodes[k][l]
    BY <1>2, BoundAssumption DEF RemoveEntry, Drop, ConnInv, ConnTypes
  <1>3. ASSUME nodes[n][m] = 0, UNCHANGED <<up, nodes, addrs, wire>>
        PROVE  /\ up' = up \ {nodes[n][m]} /\ nodes' \in [Node -> [Node -> 0 .. MaxConn]]
               /\ nodes'[n][m] = 0
               /\ \A k, l \in Node : k # n \/ l # m => nodes'[k][l] = nodes[k][l]
    BY <1>1, <1>3 DEF ConnInv, ConnTypes
  <1>4. QED
    BY <1>2, <1>3 DEF RemoveIfAny

\* The removals of the loops, of an accepted Hello and of disconnect_from: a loop that removes
\* an entry ends, and is a loop of a connection with the peer whose entry goes.
LEMMA RemoveInv ==
    ASSUME ConnInv, NEW n \in Node, NEW m \in Node, RemoveIfAny(n, m) \/ RemoveEntry(n, m),
           UNCHANGED <<conn, dialer>>, acceptor' \in [Conn -> AcceptorStep],
           \A c \in Conn : \/ acceptor'[c] = acceptor[c]
                           \/ acceptor[c] # "none" /\ acceptor'[c] # "done",
           sender' \in [Node -> [Conn -> SenderStep]], receiver' \in [Node -> [Conn -> ReceiverStep]],
           \A k \in Node, c \in Conn :
               receiver'[k][c] = receiver[k][c] \/ (k = n /\ Peer(n, c) = m),
           \A k \in Node, c \in Conn :
               sender'[k][c] # "none" \/ receiver'[k][c] # "none" => Ends(c)
    PROVE  ConnInv'
  <1>1. /\ up' = up \ {nodes[n][m]} /\ nodes' \in [Node -> [Node -> 0 .. MaxConn]]
        /\ nodes'[n][m] = 0
        /\ \A k, l \in Node : k # n \/ l # m => nodes'[k][l] = nodes[k][l]
    BY RemoveEffect
  <1>2. ConnTypes'
    BY <1>1 DEF ConnInv, ConnTypes
  <1>3. ASSUME NEW c \in Conn PROVE AtFrom(c)'
    BY <1>1, DropCloses
  <1>4. ASSUME NEW c \in Conn PROVE AtTo(c)'
    <2>1. CASE acceptor'[c] = acceptor[c]
      BY <1>1, <2>1, DropCloses
    <2>2. CASE acceptor'[c] # "done"
      BY <2>2 DEF AtTo
    <2>3. QED
      BY <2>1, <2>2
  <1>5. ASSUME NEW k \in Node, NEW l \in Node PROVE EntryOfPeer(k, l)'
    <2>1. CASE k = n /\ l = m
      BY <1>1, <2>1 DEF EntryOfPeer
    <2>2. CASE k # n \/ l # m
      <3>1. PICK e : e = nodes[k][l]
        OBVIOUS
      <3>2. nodes'[k][l] = nodes[k][l]
        BY <1>1, <2>2
      <3>3. e \in Conn /\ Peer(k, e) = l /\ receiver[k][e] # "none" => receiver'[k][e] # "none"
        BY <1>1, <2>2
      <3>4. QED
        BY <3>1, <3>2, <3>3, EntryStays
    <2>3. QED
      BY <2>1, <2>2
  <1>6. QED
    BY <1>2, <1>3, <1>4, <1>5, ConnKept

LEMMA InsertEffect ==
    ASSUME ConnInv, NEW n \in Node, NEW c \in Conn, NEW m \in Node, m = Peer(n, c), InsertEntry(n, c)
    PROVE  /\ up' = up \ {nodes[n][m]} /\ nodes' \in [Node -> [Node -> 0 .. MaxConn]]
           /\ nodes'[n][m] = c
           /\ \A k, l \in Node : k # n \/ l # m => nodes'[k][l] = nodes[k][l]
           /\ sender' \in [Node -> [Conn -> SenderStep]]
           /\ receiver' \in [Node -> [Conn -> ReceiverStep]]
           /\ \A k \in Node, d \in Conn : receiver'[k][d] = receiver[k][d] \/ receiver'[k][d] = "start"
           /\ receiver'[n][c] = "start"
           /\ \A k \in Node, d \in Conn :
                 k # n \/ d # c => receiver'[k][d] = receiver[k][d] /\ sender'[k][d] = sender[k][d]
  <1>1. /\ up' = up \ {nodes[n][m]}
        /\ nodes' = [nodes EXCEPT ![n][m] = c]
        /\ sender' = [sender EXCEPT ![n][c] = "run"]
        /\ receiver' = [receiver EXCEPT ![n][c] = "start"]
    BY DEF InsertEntry, Drop
  <1>2. c \in 0 .. MaxConn
    BY BoundAssumption DEF Conn
  <1>3. /\ nodes' \in [Node -> [Node -> 0 .. MaxConn]]
        /\ nodes'[n][m] = c
        /\ \A k, l \in Node : k # n \/ l # m => nodes'[k][l] = nodes[k][l]
    BY <1>1, <1>2 DEF ConnInv, ConnTypes
  <1>4. sender' \in [Node -> [Conn -> SenderStep]]
    BY <1>1 DEF ConnInv, ConnTypes, SenderStep
  <1>5. receiver' \in [Node -> [Conn -> ReceiverStep]]
    BY <1>1 DEF ConnInv, ConnTypes, ReceiverStep
  <1>6. ASSUME NEW k \in Node, NEW d \in Conn
        PROVE  /\ receiver'[k][d] = receiver[k][d] \/ receiver'[k][d] = "start"
               /\ k = n /\ d = c => receiver'[k][d] = "start"
               /\ k # n \/ d # c => receiver'[k][d] = receiver[k][d] /\ sender'[k][d] = sender[k][d]
    BY <1>1 DEF ConnInv, ConnTypes
  <1>7. QED
    BY <1>1, <1>3, <1>4, <1>5, <1>6

\* What an end that inserts the connection brings about, whichever end it is.
LEMMA InsertInv ==
    ASSUME ConnInv, NEW n \in Node, NEW c \in Conn, InsertEntry(n, c), Ends(c),
           conn' = conn,
           dialer' \in [Conn -> DialerStep], acceptor' \in [Conn -> AcceptorStep],
           \/ /\ n = conn[c].from /\ acceptor' = acceptor
              /\ \A d \in Conn : dialer'[d] = dialer[d] \/ (d = c /\ dialer[d] # "none")
           \/ /\ n = conn[c].to /\ dialer' = dialer
              /\ \A d \in Conn : acceptor'[d] = acceptor[d] \/ (d = c /\ acceptor[d] # "none")
    PROVE  ConnInv'
  <1>1. PICK m : m = Peer(n, c)
    OBVIOUS
  <1>2. m \in Node /\ m # n
    BY <1>1 DEF Peer, Ends
  <1>3. /\ up' = up \ {nodes[n][m]} /\ nodes' \in [Node -> [Node -> 0 .. MaxConn]]
        /\ nodes'[n][m] = c
        /\ \A k, l \in Node : k # n \/ l # m => nodes'[k][l] = nodes[k][l]
        /\ sender' \in [Node -> [Conn -> SenderStep]]
        /\ receiver' \in [Node -> [Conn -> ReceiverStep]]
        /\ \A k \in Node, d \in Conn : receiver'[k][d] = receiver[k][d] \/ receiver'[k][d] = "start"
        /\ receiver'[n][c] = "start"
        /\ \A k \in Node, d \in Conn :
              k # n \/ d # c => receiver'[k][d] = receiver[k][d] /\ sender'[k][d] = sender[k][d]
    BY <1>1, <1>2, InsertEffect
  <1>4. ConnTypes'
    BY <1>3 DEF ConnInv, ConnTypes
  <1>5. ASSUME NEW d \in Conn PROVE AtFrom(d)'
    <2>1. CASE dialer'[d] = dialer[d]
      BY <1>2, <1>3, <2>1, DropCloses
    <2>2. CASE d = c /\ n = conn[c].from
      BY <1>1, <1>2, <1>3, <2>2 DEF AtFrom, Peer
    <2>3. QED
      BY <2>1, <2>2
  <1>6. ASSUME NEW d \in Conn PROVE AtTo(d)'
    <2>1. CASE acceptor'[d] = acceptor[d]
      BY <1>2, <1>3, <2>1, DropCloses
    <2>2. CASE d = c /\ n = conn[c].to
      BY <1>1, <1>2, <1>3, <2>2 DEF AtTo, Peer, Ends
    <2>3. QED
      BY <2>1, <2>2
  <1>7. ASSUME NEW k \in Node, NEW l \in Node PROVE EntryOfPeer(k, l)'
    <2>1. CASE k = n /\ l = m
      <3>1. nodes'[k][l] = c /\ receiver'[k][c] = "start"
        BY <1>3, <2>1
      <3>2. QED
        BY <1>1, <2>1, <3>1 DEF EntryOfPeer, Ends, Peer
    <2>2. CASE k # n \/ l # m
      <3>1. PICK e : e = nodes[k][l]
        OBVIOUS
      <3>2. nodes'[k][l] = nodes[k][l]
        BY <1>3, <2>2
      <3>3. e \in Conn /\ Peer(k, e) = l /\ receiver[k][e] # "none" => receiver'[k][e] # "none"
        BY <1>3, <2>2
      <3>4. QED
        BY <3>1, <3>2, <3>3, EntryStays
    <2>3. QED
      BY <2>1, <2>2
  <1>8. ASSUME NEW k \in Node, NEW d \in Conn, sender'[k][d] # "none" \/ receiver'[k][d] # "none"
        PROVE  Ends(d)
    <2>1. CASE d = c
      BY <1>1, <2>1
    <2>2. CASE d # c
      <3>1. sender'[k][d] = sender[k][d] /\ receiver'[k][d] = receiver[k][d]
        BY <1>3, <2>2
      <3>2. HasLoop(k, d)
        BY DEF ConnInv
      <3>3. QED
        BY <1>8, <3>1, <3>2 DEF HasLoop
    <2>3. QED
      BY <2>1, <2>2
  <1>9. QED
    BY <1>4, <1>5, <1>6, <1>7, <1>8, ConnKept

-----------------------------------------------------------------------------
(***************************************************************************)
(* The actions.                                                            *)
(***************************************************************************)
\* Nothing of the table, the handshakes or the receivers.
LEMMA OutsideInv ==
    ASSUME ConnInv, UNCHANGED <<conn, up, nodes, dialer, acceptor, receiver>>,
           sender' \in [Node -> [Conn -> SenderStep]],
           \A n \in Node, c \in Conn : sender'[n][c] # "none" => sender[n][c] # "none"
    PROVE  ConnInv'
  <1>1. ConnTypes' /\ \A n \in Node, c \in Conn :
                         sender'[n][c] # "none" \/ receiver'[n][c] # "none" => Ends(c)
    BY DEF ConnInv, ConnTypes, HasLoop
  <1>2. \A c \in Conn : AtFrom(c)' /\ AtTo(c)'
    BY DEF ConnInv, AtFrom, AtTo
  <1>3. \A n, m \in Node : EntryOfPeer(n, m)'
    BY ReceiversKept
  <1>4. QED
    BY <1>1, <1>2, <1>3, ConnKept

\* A connection ends, or an end is done with one that has.
LEMMA ClosingInv ==
    ASSUME ConnInv, UNCHANGED <<conn, nodes, sender, receiver>>, up' \subseteq up,
           dialer' \in [Conn -> DialerStep], acceptor' \in [Conn -> AcceptorStep],
           \A c \in Conn : \/ dialer'[c] = dialer[c]
                           \/ dialer[c] # "none" /\ (dialer'[c] = "done" => c \notin up'),
           \A c \in Conn : \/ acceptor'[c] = acceptor[c]
                           \/ acceptor[c] # "none" /\ (acceptor'[c] = "done" => c \notin up')
    PROVE  ConnInv'
  <1>1. ConnTypes' /\ \A n \in Node, c \in Conn :
                         sender'[n][c] # "none" \/ receiver'[n][c] # "none" => Ends(c)
    BY DEF ConnInv, ConnTypes, HasLoop
  <1>2. ASSUME NEW c \in Conn PROVE AtFrom(c)' /\ AtTo(c)'
    BY HandshakesKept
  <1>3. \A n, m \in Node : EntryOfPeer(n, m)'
    BY ReceiversKept
  <1>4. QED
    BY <1>1, <1>2, <1>3, ConnKept

LEMMA DialInv ==
    ASSUME ConnInv, NEW n \in Node, NEW m \in Node, NEW a \in Addr, NEW c \in Conn, Dial(n, m, a, c)
    PROVE  ConnInv'
  <1>1. /\ n # m /\ conn[c] = NoConn
        /\ conn' = [conn EXCEPT ![c] = [from |-> n, to |-> m, addr |-> a]]
        /\ up' = up \cup {c}
        /\ dialer' = [dialer EXCEPT ![c] = "hello"]
        /\ acceptor' = [acceptor EXCEPT ![c] = "hello"]
        /\ UNCHANGED <<nodes, sender, receiver>>
    BY DEF Dial
  <1>2. ~Ends(c)
    BY <1>1, NoneAssumption DEF Ends, NoConn
  <1>3. /\ conn'[c] = [from |-> n, to |-> m, addr |-> a]
        /\ dialer'[c] = "hello" /\ acceptor'[c] = "hello"
        /\ \A d \in Conn : d # c => /\ conn'[d] = conn[d] /\ dialer'[d] = dialer[d]
                                    /\ acceptor'[d] = acceptor[d]
    BY <1>1 DEF ConnInv, ConnTypes
  <1>4. ConnTypes'
    <2>1. conn' \in [Conn -> [from : Node \cup {None}, to : Node \cup {None}, addr : Addr \cup {None}]]
      BY <1>1 DEF ConnInv, ConnTypes
    <2>2. dialer' \in [Conn -> DialerStep] /\ acceptor' \in [Conn -> AcceptorStep]
      BY <1>1 DEF ConnInv, ConnTypes, DialerStep, AcceptorStep
    <2>3. QED
      BY <1>1, <2>1, <2>2 DEF ConnInv, ConnTypes
  <1>5. ASSUME NEW d \in Conn PROVE HasEnds(d)' /\ AtFrom(d)' /\ AtTo(d)'
    <2>1. CASE d = c
      BY <1>1, <1>3, <2>1 DEF HasEnds, AtFrom, AtTo, Ends
    <2>2. CASE d # c
      BY <1>1, <1>3, <2>2 DEF ConnInv, HasEnds, AtFrom, AtTo, Ends
    <2>3. QED
      BY <2>1, <2>2
  <1>6. ASSUME NEW k \in Node, NEW l \in Node PROVE EntryOfPeer(k, l)'
    <2>1. PICK e : e = nodes[k][l]
      OBVIOUS
    <2>2. e = 0 \/ e \in Conn
      BY <2>1, BoundAssumption DEF ConnInv, ConnTypes, Conn
    <2>3. e # 0 => Ends(e) /\ Peer(k, e) = l /\ receiver[k][e] # "none" /\ e # c
      BY <1>2, <2>1 DEF ConnInv, EntryOfPeer
    <2>4. e # 0 => Ends(e)' /\ Peer(k, e)' = l
      BY <1>3, <2>2, <2>3 DEF Ends, Peer
    <2>5. QED
      BY <1>1, <2>1, <2>3, <2>4 DEF EntryOfPeer
  <1>7. ASSUME NEW k \in Node, NEW d \in Conn PROVE HasLoop(k, d)'
    <2>1. CASE d = c
      BY <1>1, <1>2, <2>1 DEF ConnInv, HasLoop
    <2>2. CASE d # c
      BY <1>1, <1>3, <2>2 DEF ConnInv, HasLoop, Ends
    <2>3. QED
      BY <2>1, <2>2
  <1>8. QED
    BY <1>4, <1>5, <1>6, <1>7 DEF ConnInv

LEMMA HandshakeInv ==
    ASSUME ConnInv, NEW c \in Conn, Handshake(c)
    PROVE  ConnInv'
  <1>1. ASSUME Welcomed(c) PROVE ConnInv'
    <2>1. /\ UNCHANGED <<conn, nodes, sender, receiver, acceptor>> /\ dialer[c] # "none"
          /\ \/ up' = up \ {c} /\ dialer' = [dialer EXCEPT ![c] = "done"]
             \/ up' = up /\ dialer' = [dialer EXCEPT ![c] = "insert"]
      BY <1>1 DEF Welcomed, CloseDuplicate
    <2>2. /\ up' \subseteq up /\ dialer' \in [Conn -> DialerStep]
          /\ dialer'[c] = "done" => c \notin up'
          /\ \A d \in Conn : d # c => dialer'[d] = dialer[d]
      BY <2>1 DEF ConnInv, ConnTypes, DialerStep
    <2>3. acceptor' \in [Conn -> AcceptorStep]
      BY <2>1 DEF ConnInv, ConnTypes
    <2>4. QED
      BY <2>1, <2>2, <2>3, ClosingInv
  <1>2. ASSUME DialerInsert(c) PROVE ConnInv'
    <2>1. /\ dialer[c] = "insert" /\ InsertEntry(conn[c].from, c)
          /\ dialer' = [dialer EXCEPT ![c] = "done"] /\ UNCHANGED <<conn, acceptor>>
      BY <1>2 DEF DialerInsert
    <2>2. Ends(c) /\ conn[c].from \in Node
      BY <2>1 DEF ConnInv, HasEnds, Ends
    <2>3. /\ dialer' \in [Conn -> DialerStep] /\ acceptor' \in [Conn -> AcceptorStep]
          /\ \A d \in Conn : dialer'[d] = dialer[d] \/ (d = c /\ dialer[d] # "none")
      BY <2>1 DEF ConnInv, ConnTypes, DialerStep
    <2>4. QED
      BY <2>1, <2>2, <2>3, InsertInv
  <1>3. ASSUME DialFails(c) PROVE ConnInv'
    <2>1. /\ UNCHANGED <<conn, nodes, sender, receiver, acceptor, up>> /\ dialer[c] # "none"
          /\ c \notin up /\ dialer' = [dialer EXCEPT ![c] = "done"]
      BY <1>3 DEF DialFails
    <2>2. /\ dialer' \in [Conn -> DialerStep] /\ acceptor' \in [Conn -> AcceptorStep]
          /\ \A d \in Conn : d # c => dialer'[d] = dialer[d]
      BY <2>1 DEF ConnInv, ConnTypes, DialerStep
    <2>3. QED
      BY <2>1, <2>2, ClosingInv
  <1>4. ASSUME AcceptHello(c) PROVE ConnInv'
    <2>1. /\ acceptor[c] = "hello" /\ RemoveIfAny(conn[c].to, conn[c].from)
          /\ acceptor' = [acceptor EXCEPT ![c] = "welcome"]
          /\ UNCHANGED <<conn, dialer, sender, receiver>>
      BY <1>4 DEF AcceptHello
    <2>2. conn[c].to \in Node /\ conn[c].from \in Node
      BY <2>1 DEF ConnInv, HasEnds, Ends
    <2>3. /\ acceptor' \in [Conn -> AcceptorStep]
          /\ \A d \in Conn : acceptor'[d] = acceptor[d] \/ (acceptor[d] # "none" /\ acceptor'[d] # "done")
      BY <2>1 DEF ConnInv, ConnTypes, AcceptorStep
    <2>4. /\ sender' \in [Node -> [Conn -> SenderStep]] /\ receiver' \in [Node -> [Conn -> ReceiverStep]]
          /\ \A k \in Node, d \in Conn : sender'[k][d] # "none" \/ receiver'[k][d] # "none" => Ends(d)
      BY <2>1 DEF ConnInv, ConnTypes, HasLoop
    <2>5. QED
      BY <2>1, <2>2, <2>3, <2>4, RemoveInv
  <1>5. ASSUME SendWelcome(c) PROVE ConnInv'
    <2>1. /\ UNCHANGED <<conn, nodes, sender, receiver, dialer, up>> /\ acceptor[c] # "none"
          /\ acceptor' = [acceptor EXCEPT ![c] = IF c \in up THEN "insert" ELSE "done"]
      BY <1>5 DEF SendWelcome
    <2>2. /\ acceptor' \in [Conn -> AcceptorStep] /\ dialer' \in [Conn -> DialerStep]
          /\ acceptor'[c] = "done" => c \notin up'
          /\ \A d \in Conn : d # c => acceptor'[d] = acceptor[d]
      BY <2>1 DEF ConnInv, ConnTypes, AcceptorStep
    <2>3. QED
      BY <2>1, <2>2, ClosingInv
  <1>6. ASSUME AcceptorInsert(c) PROVE ConnInv'
    <2>1. /\ acceptor[c] = "insert" /\ InsertEntry(conn[c].to, c)
          /\ acceptor' = [acceptor EXCEPT ![c] = "done"] /\ UNCHANGED <<conn, dialer>>
      BY <1>6 DEF AcceptorInsert
    <2>2. Ends(c) /\ conn[c].to \in Node
      BY <2>1 DEF ConnInv, HasEnds, Ends
    <2>3. /\ dialer' \in [Conn -> DialerStep] /\ acceptor' \in [Conn -> AcceptorStep]
          /\ \A d \in Conn : acceptor'[d] = acceptor[d] \/ (d = c /\ acceptor[d] # "none")
      BY <2>1 DEF ConnInv, ConnTypes, AcceptorStep
    <2>4. QED
      BY <2>1, <2>2, <2>3, InsertInv
  <1>7. QED
    BY <1>1, <1>2, <1>3, <1>4, <1>5, <1>6 DEF Handshake

-----------------------------------------------------------------------------
(***************************************************************************)
(* The loops.  One that meets its own connection in the table goes on, or  *)
(* takes it out.                                                           *)
(***************************************************************************)
LEMMA LoopHasPeer ==
    ASSUME ConnInv, NEW n \in Node, NEW c \in Conn, sender[n][c] # "none" \/ receiver[n][c] # "none"
    PROVE  Ends(c) /\ Peer(n, c) \in Node
  BY DEF ConnInv, HasLoop, Ends, Peer

LEMMA SenderLoopInv ==
    ASSUME ConnInv, NEW n \in Node, NEW c \in Conn, SenderLoop(n, c)
    PROVE  ConnInv'
  <1>1. ASSUME SenderSends(n, c) PROVE ConnInv'
    <2>1. UNCHANGED <<conn, up, nodes, dialer, acceptor, receiver, sender>>
      BY <1>1 DEF SenderSends
    <2>2. QED
      BY <2>1, OutsideInv DEF ConnInv, ConnTypes
  <1>2. ASSUME NEW v \in SenderStep, sender[n][c] # "none",
               sender' = [sender EXCEPT ![n][c] = v]
        PROVE  /\ sender' \in [Node -> [Conn -> SenderStep]]
               /\ \A k \in Node, d \in Conn : sender'[k][d] # "none" => sender[k][d] # "none"
    BY <1>2 DEF ConnInv, ConnTypes
  <1>3. ASSUME SenderBreaks(n, c) PROVE ConnInv'
    <2>1. /\ UNCHANGED <<conn, up, nodes, dialer, acceptor, receiver>> /\ sender[n][c] # "none"
          /\ \E v \in SenderStep : sender' = [sender EXCEPT ![n][c] = v]
      BY <1>3 DEF SenderBreaks, SenderStep
    <2>2. QED
      BY <1>2, <2>1, OutsideInv
  <1>4. ASSUME SenderCleanup(n, c) PROVE ConnInv'
    <2>1. /\ UNCHANGED <<conn, dialer, acceptor, receiver>> /\ sender[n][c] # "none"
          /\ \E v \in SenderStep : sender' = [sender EXCEPT ![n][c] = v]
          /\ UNCHANGED <<up, nodes>> \/ RemoveIfAny(n, Peer(n, c))
      BY <1>4 DEF SenderCleanup, SenderStep, AtEnd
    <2>2. /\ sender' \in [Node -> [Conn -> SenderStep]]
          /\ \A k \in Node, d \in Conn : sender'[k][d] # "none" => sender[k][d] # "none"
      BY <1>2, <2>1
    <2>3. CASE UNCHANGED <<up, nodes>>
      BY <2>1, <2>2, <2>3, OutsideInv
    <2>4. CASE RemoveIfAny(n, Peer(n, c))
      <3>1. Peer(n, c) \in Node
        BY <2>1, LoopHasPeer
      <3>2. /\ receiver' \in [Node -> [Conn -> ReceiverStep]] /\ acceptor' \in [Conn -> AcceptorStep]
            /\ \A k \in Node, d \in Conn : sender'[k][d] # "none" \/ receiver'[k][d] # "none" => Ends(d)
        BY <2>1, <2>2 DEF ConnInv, ConnTypes, HasLoop
      <3>3. QED
        BY <2>1, <2>2, <2>4, <3>1, <3>2, RemoveInv
    <2>5. QED
      BY <2>1, <2>3, <2>4
  <1>5. QED
    BY <1>1, <1>3, <1>4 DEF SenderLoop

\* A receiver loop ends only when its connection is not the entry.
LEMMA ReceiverMoves ==
    ASSUME ConnInv, NEW n \in Node, NEW c \in Conn, receiver[n][c] # "none",
           NEW v \in ReceiverStep, receiver' = [receiver EXCEPT ![n][c] = v],
           v = "none" => Entry(n, c) # c,
           UNCHANGED <<conn, up, nodes, dialer, acceptor, sender>>
    PROVE  ConnInv'
  <1>1. /\ receiver' \in [Node -> [Conn -> ReceiverStep]]
        /\ receiver'[n][c] = v
        /\ \A k \in Node, d \in Conn : k # n \/ d # c => receiver'[k][d] = receiver[k][d]
    BY DEF ConnInv, ConnTypes
  <1>2. ConnTypes'
    BY <1>1 DEF ConnInv, ConnTypes
  <1>3. \A d \in Conn : AtFrom(d)' /\ AtTo(d)'
    BY DEF ConnInv, AtFrom, AtTo
  <1>4. ASSUME NEW k \in Node, NEW d \in Conn, sender'[k][d] # "none" \/ receiver'[k][d] # "none"
        PROVE  Ends(d)
    BY <1>1, <1>4 DEF ConnInv, HasLoop
  <1>5. ASSUME NEW k \in Node, NEW l \in Node PROVE EntryOfPeer(k, l)'
    <2>1. PICK e : e = nodes[k][l]
      OBVIOUS
    <2>2. e \in Conn /\ Peer(k, e) = l /\ receiver[k][e] # "none" => receiver'[k][e] # "none"
      BY <1>1, <2>1 DEF Entry
    <2>3. QED
      BY <2>1, <2>2, EntryStays
  <1>6. QED
    BY <1>2, <1>3, <1>4, <1>5, ConnKept

\* The address of a connection is its own.
LEMMA MeetsItself ==
    ASSUME NEW n, NEW c \in Conn, Entry(n, c) = c
    PROVE  SameAddr(n, c) /\ AtTop(n, c) = "accept" /\ AtEnd(n, c) = "remove"
  <1>1. c # 0
    BY BoundAssumption DEF Conn
  <1>2. QED
    BY <1>1 DEF SameAddr, AtTop, AtEnd, ShouldCleanup

LEMMA ReceiverLoopInv ==
    ASSUME ConnInv, NEW n \in Node, NEW c \in Conn, ReceiverLoop(n, c)
    PROVE  ConnInv'
  <1>1. ASSUME ReceiverStarts(n, c) \/ ReceiverTakes(n, c) \/ ReceiverBreaks(n, c) \/ ReadFails(n, c)
               \/ Handled(n, c)
        PROVE  ConnInv'
    <2>1. /\ receiver[n][c] # "none" /\ UNCHANGED <<conn, up, nodes, dialer, acceptor, sender>>
          /\ \E v \in {"read", "cleanup", AtTop(n, c)} : receiver' = [receiver EXCEPT ![n][c] = v]
      BY <1>1 DEF ReceiverStarts, ReceiverTakes, ReceiverBreaks, ReadFails, Handled
    <2>2. \A v \in {"read", "cleanup", AtTop(n, c)} :
              v \in ReceiverStep /\ (v = "none" => Entry(n, c) # c)
      BY MeetsItself DEF AtTop, ReceiverStep
    <2>3. QED
      BY <2>1, <2>2, ReceiverMoves
  <1>2. ASSUME ReceiverCleanup(n, c) PROVE ConnInv'
    <2>1. /\ UNCHANGED <<conn, dialer, acceptor, sender>> /\ receiver[n][c] # "none"
          /\ \/ /\ UNCHANGED <<up, nodes>>
                /\ receiver' = [receiver EXCEPT ![n][c] = AtEnd(n, c)]
             \/ /\ RemoveIfAny(n, Peer(n, c))
                /\ receiver' = [receiver EXCEPT ![n][c] = "none"]
      BY <1>2 DEF ReceiverCleanup
    <2>2. CASE UNCHANGED <<up, nodes>> /\ receiver' = [receiver EXCEPT ![n][c] = AtEnd(n, c)]
      <3>1. AtEnd(n, c) \in ReceiverStep /\ (AtEnd(n, c) = "none" => Entry(n, c) # c)
        BY MeetsItself DEF AtEnd, ReceiverStep
      <3>2. QED
        BY <2>1, <2>2, <3>1, ReceiverMoves
    <2>3. CASE RemoveIfAny(n, Peer(n, c)) /\ receiver' = [receiver EXCEPT ![n][c] = "none"]
      <3>1. PICK m : m = Peer(n, c)
        OBVIOUS
      <3>2. m \in Node /\ RemoveIfAny(n, m)
        BY <2>1, <2>3, <3>1, LoopHasPeer
      <3>3. /\ receiver' \in [Node -> [Conn -> ReceiverStep]]
            /\ receiver'[n][c] = "none"
            /\ \A k \in Node, d \in Conn : k # n \/ d # c => receiver'[k][d] = receiver[k][d]
        BY <2>3 DEF ConnInv, ConnTypes, ReceiverStep
      <3>4. /\ sender' \in [Node -> [Conn -> SenderStep]] /\ acceptor' \in [Conn -> AcceptorStep]
            /\ \A k \in Node, d \in Conn : sender'[k][d] # "none" \/ receiver'[k][d] # "none" => Ends(d)
        BY <2>1, <3>3 DEF ConnInv, ConnTypes, HasLoop
      <3>5. \A k \in Node, d \in Conn :
                receiver'[k][d] = receiver[k][d] \/ (k = n /\ Peer(n, d) = m)
        BY <3>1, <3>3
      <3>6. QED
        BY <2>1, <3>2, <3>3, <3>4, <3>5, RemoveInv
    <2>4. QED
      BY <2>1, <2>2, <2>3
  <1>3. QED
    BY <1>1, <1>2 DEF ReceiverLoop

LEMMA NextInv == ConnInv /\ [Next]_vars => ConnInv'
  <1> SUFFICES ASSUME ConnInv, [Next]_vars
               PROVE  ConnInv'
    OBVIOUS
  <1>1. ASSUME NEW n \in Node, NEW m \in Node, Disconnect(n, m) PROVE ConnInv'
    <2>1. RemoveEntry(n, m) /\ UNCHANGED <<conn, dialer, acceptor, sender, receiver>>
      BY <1>1 DEF Disconnect
    <2>2. /\ sender' \in [Node -> [Conn -> SenderStep]] /\ receiver' \in [Node -> [Conn -> ReceiverStep]]
          /\ acceptor' \in [Conn -> AcceptorStep]
          /\ \A k \in Node, d \in Conn : sender'[k][d] # "none" \/ receiver'[k][d] # "none" => Ends(d)
      BY <2>1 DEF ConnInv, ConnTypes, HasLoop
    <2>3. QED
      BY <2>1, <2>2, RemoveInv
  <1>2. ASSUME NEW c \in Conn, ConnectionLost(c) PROVE ConnInv'
    <2>1. UNCHANGED <<conn, nodes, dialer, acceptor, sender, receiver>> /\ up' \subseteq up
      BY <1>2 DEF ConnectionLost
    <2>2. QED
      BY <2>1, ClosingInv DEF ConnInv, ConnTypes
  <1>3. ASSUME NEW n \in Node, NEW m \in Node, Send(n, m) PROVE ConnInv'
    <2>1. UNCHANGED <<conn, up, nodes, dialer, acceptor, receiver, sender>>
      BY <1>3 DEF Send
    <2>2. QED
      BY <2>1, OutsideInv DEF ConnInv, ConnTypes
  <1>4. CASE UNCHANGED vars
    <2>1. UNCHANGED <<conn, up, nodes, dialer, acceptor, receiver, sender>>
      BY <1>4 DEF vars
    <2>2. QED
      BY <2>1, OutsideInv DEF ConnInv, ConnTypes
  <1>5. QED
    BY <1>1, <1>2, <1>3, <1>4, SenderLoopInv, ReceiverLoopInv, DialInv, HandshakeInv DEF Next

(***************************************************************************)
(* UpIsKnown, for every number of nodes and addresses: a connection that   *)
(* is open when both ends are done with the handshake is in both tables.   *)
(***************************************************************************)
THEOREM UpConnectionsAreKnown == Spec => []UpIsKnown
  <1>1. ConnInv => UpIsKnown
    BY DEF ConnInv, ConnTypes, AtFrom, AtTo, UpIsKnown
  <1>2. QED
    BY <1>1, InitInv, NextInv, PTL DEF Spec

(***************************************************************************)
(* EntryIsWatched, for every number of nodes and addresses: the receiver   *)
(* loop of a connection does not end while its node has the entry.         *)
(***************************************************************************)
THEOREM EntriesAreWatched == Spec => []EntryIsWatched
  <1>1. ConnInv => EntryIsWatched
    BY DEF ConnInv, EntryOfPeer, EntryIsWatched
  <1>2. QED
    BY <1>1, InitInv, NextInv, PTL DEF Spec

=============================================================================
