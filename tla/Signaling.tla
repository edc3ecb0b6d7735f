----------------------------- MODULE Signaling -----------------------------
(***************************************************************************)
(* The peer-to-peer signaling of CrossPlay (plugins/CrossPlay/src/rpcn/    *)
(* SignalingHandler.cpp): consoles connect by CONNECT, CONNECT_ACK and     *)
(* CONFIRM datagrams, keep a connection up with PING and PONG, and close   *)
(* it by FINISHED and FINISHED_ACK, over a network that may lose,          *)
(* duplicate and reorder.  What must arrive is kept in QueuedPackets and   *)
(* sent again until it is answered.                                        *)
(*                                                                         *)
(* Every handler holds DataMutex, so a handler is a step.  Time is         *)
(* abstracted: how many queued packets are due when HandleQueuedMessages   *)
(* runs (wakeup_time), and whom it has not heard of for a minute           *)
(* (LastSeen), is free.  CallbackQueue is handed to the game in order and whole   *)
(* (CheckSignalingCallbacks): what a connection's fields told and ext hold *)
(* is what the game will have been told once it has drained that queue.    *)
(***************************************************************************)
EXTENDS Integers, Sequences, FiniteSets, SequencesExt

CONSTANTS
  Nodes,           \* consoles that run this code
  Strangers,       \* peers that may send anything under their own name
  MaxInits,        \* bound: ActivateConnection calls of each node per peer
  MaxStops,        \* bound: DeactivateConnection calls of each node per peer
  MaxQueue,        \* bound: a CONNECT that would make the queue longer is lost
  MayExpire        \* whether a minute may pass without a packet

ASSUME PeersAssumption == Nodes \intersect Strangers = {} /\ IsFiniteSet(Nodes \union Strangers)

ASSUME BoundsAssumption ==
  /\ MaxInits \in [Nodes -> Nat] /\ MaxStops \in [Nodes -> Nat]
  /\ MaxQueue \in Nat /\ MayExpire \in BOOLEAN

VARIABLES
  conn,            \* Peers: conn[p][q] is p's signaling_info of q
  queue,           \* QueuedPackets of each node
  asked,           \* SignalingRequests: p's requests about q that RPCN has yet to answer
  net,             \* datagrams under way
  inits, stops,    \* calls made so far (bounds)
  refused          \* history: RPCN has answered a request with an error

vars == <<conn, queue, asked, net, inits, stops, refused>>

Everyone == Nodes \union Strangers
Others(p) == Everyone \ {p}

\* The commands this code sends; a stranger may send "SignalInfo" as well.
Commands == {"Ping", "Pong", "Connect", "ConnectAck", "Confirm", "Finished", "FinishedAck"}

\* A datagram; npid is the name written in it, which is not always the sender's.
Packet == [from : Nodes, to : Nodes, command : Commands, npid : Nodes]

Entries == UNION {[to : Others(p), command : Commands, npid : Everyone] : p \in Nodes}

\* signaling_info(); known: there is such an entry of Peers; addr: its Address
\* is not zero.
NoConn == [known |-> FALSE, status |-> "INACTIVE", activated |-> FALSE, addr |-> FALSE,
           told |-> "nothing", ext |-> "nothing"]

-----------------------------------------------------------------------------
(* The queue.                                                              *)

Places(q, to, command) == {i \in DOMAIN q : q[i].to = to /\ q[i].command = command}

FirstOf(S) == CHOOSE i \in S : \A j \in S : i <= j

RetirePacket(q, to, command) ==
  LET found == Places(q, to, command)
  IN  IF found = {} THEN q ELSE RemoveAt(q, FirstOf(found))

RetireAllPackets(q, to) ==
  LET rest[k \in 0 .. Len(q)] ==
        IF k = 0 THEN <<>>
        ELSE IF q[k].to = to THEN rest[k - 1] ELSE Append(rest[k - 1], q[k])
  IN  rest[Len(q)]

QueueEntry(to, command, npid) == [to |-> to, command |-> command, npid |-> npid]

\* SendSignalingPacket: with no address to send to, the datagram is lost.  What
\* goes to a stranger is not followed further.
Send(p, c, to, command, npid) ==
  IF c.addr /\ to \in Nodes THEN {[from |-> p, to |-> to, command |-> command, npid |-> npid]} ELSE {}

\* Broken: a ping is queued though there is one already.
SetupPing_Again(q, to, npid) == Append(q, QueueEntry(to, "Ping", npid))

\* SetupPing(si, *sp): the ping is the packet just received, turned round, so
\* it bears the name the peer wrote in it.
SetupPing(q, to, npid) ==
  IF Places(q, to, "Ping") = {} THEN Append(q, QueueEntry(to, "Ping", npid)) ELSE q

FirstPing(p, c, q, to, npid) ==
  IF Places(q, to, "Ping") = {} THEN Send(p, c, to, "Ping", npid) ELSE {}

-----------------------------------------------------------------------------
(* signaling_info.                                                         *)

UpdateAddress(c) == [c EXCEPT !.addr = TRUE]

\* UpdateStatus(ACTIVE).
ToActive(c) ==
  IF c.status = "PENDING"
  THEN [c EXCEPT !.status = "ACTIVE", !.told = "established",
                 !.ext = IF c.activated THEN "mutual" ELSE @]
  ELSE c

\* Broken: the game is not told.
ToInactive_Quiet(c) == [c EXCEPT !.status = "INACTIVE"]

\* UpdateStatus(INACTIVE); a connection that dies has its packets retired.
ToInactive(c) ==
  IF c.status # "INACTIVE" THEN [c EXCEPT !.status = "INACTIVE", !.told = "dead"] ELSE c

RetireIfDying(c, q, to) == IF c.status # "INACTIVE" THEN RetireAllPackets(q, to) ELSE q

UpdateExtendedStatus(c, on) ==
  CASE on /\ ~ c.activated ->
         [c EXCEPT !.activated = TRUE,
                   !.ext = IF c.status = "ACTIVE" THEN "mutual" ELSE "peer"]
    [] ~ on /\ c.activated -> [c EXCEPT !.activated = FALSE, !.ext = "off"]
    [] OTHER -> c

-----------------------------------------------------------------------------

Init ==
  /\ conn = [p \in Nodes |-> [q \in Others(p) |-> NoConn]]
  /\ queue = [p \in Nodes |-> <<>>]
  /\ asked = [p \in Nodes |-> [q \in Others(p) |-> 0]]
  /\ net = {}
  /\ inits = [p \in Nodes |-> [q \in Others(p) |-> 0]]
  /\ stops = [p \in Nodes |-> [q \in Others(p) |-> 0]]
  /\ refused = FALSE

-----------------------------------------------------------------------------
(* Calls of the game and of the RPCN client.                               *)

\* InitSignaling: from INACTIVE, asks RPCN where the peer is.
InitSignaling(p, q) ==
  LET c == [conn[p][q] EXCEPT !.known = TRUE]
  IN  /\ inits[p][q] < MaxInits[p]
      /\ inits' = [inits EXCEPT ![p][q] = @ + 1]
      /\ IF c.status = "INACTIVE"
         THEN /\ conn' = [conn EXCEPT ![p][q] = [c EXCEPT !.status = "PENDING"]]
              /\ asked' = [asked EXCEPT ![p][q] = @ + 1]
         ELSE /\ conn' = [conn EXCEPT ![p][q] = c]
              /\ UNCHANGED asked
      /\ UNCHANGED <<queue, net, stops, refused>>

\* Broken: the CONNECT is sent, but not kept to be sent again.
StartSignaling_Once(p, q) ==
  LET c == UpdateAddress(conn[p][q])
  IN  /\ asked[p][q] > 0
      /\ asked' = [asked EXCEPT ![p][q] = @ - 1]
      /\ conn' = [conn EXCEPT ![p][q] = c]
      /\ net' = net \union Send(p, c, q, "Connect", p)
      /\ UNCHANGED <<queue, inits, stops, refused>>

\* RPCN's answer, Client.cpp:602: StartSignaling, whatever the connection has
\* come to meanwhile...
StartSignaling(p, q) ==
  LET c == UpdateAddress(conn[p][q])
  IN  /\ asked[p][q] > 0
      /\ asked' = [asked EXCEPT ![p][q] = @ - 1]
      /\ conn' = [conn EXCEPT ![p][q] = c]
      /\ net' = net \union Send(p, c, q, "Connect", p)
      /\ queue' = [queue EXCEPT ![p] = Append(@, QueueEntry(q, "Connect", p))]
      /\ UNCHANGED <<inits, stops, refused>>

\* ...or an error, of which the connection is not told.
InfoRefused(p, q) ==
  /\ asked[p][q] > 0
  /\ asked' = [asked EXCEPT ![p][q] = @ - 1]
  /\ refused' = TRUE
  /\ UNCHANGED <<conn, queue, net, inits, stops>>

\* DeactivateConnection: StopSignaling(conn_id, forceful = true).
StopSignaling(p, q) ==
  LET c == [conn[p][q] EXCEPT !.status = "INACTIVE", !.activated = FALSE]
  IN  /\ stops[p][q] < MaxStops[p]
      /\ c.known
      /\ stops' = [stops EXCEPT ![p][q] = @ + 1]
      /\ conn' = [conn EXCEPT ![p][q] = c]
      /\ net' = net \union Send(p, c, q, "Finished", p)
      /\ queue' = [queue EXCEPT ![p] =
                     Append(RetireAllPackets(@, q), QueueEntry(q, "Finished", p))]
      /\ UNCHANGED <<asked, inits, refused>>

-----------------------------------------------------------------------------
(* HandleQueuedMessages.                                                   *)

\* One turn of the loop; s.at is the iterator.  ReschedulePacket erases the
\* first entry that looks like the one just sent and appends it, not due again
\* in this pass.  The iterator has already moved on, so that the entry that
\* slides into the gap is passed over.
QueueTurn(s) ==
  LET e == s.q[s.at]
      first == FirstOf(Places(s.q, e.to, e.command))
  IN  [q |-> Append(RemoveAt(s.q, first), s.q[first]), at |-> s.at + 1,
       sent |-> s.sent \union {e}]

QueuePass(q, n) ==
  LET pass[k \in 0 .. n] ==
        IF k = 0 THEN [q |-> q, at |-> 1, sent |-> {}] ELSE QueueTurn(pass[k - 1])
  IN  pass[n]

\* A pass whose first n entries are due, and which ends at the end of the queue
\* or at an entry that is not due, though due ones may follow.
HandleQueuedMessages(p, n) ==
  /\ n \in 1 .. (Len(queue[p]) + 1) \div 2
  /\ \E s \in {QueuePass(queue[p], n)} :
       /\ queue' = [queue EXCEPT ![p] = s.q]
       /\ net' = net \union UNION {Send(p, conn[p][e.to], e.to, e.command, e.npid) : e \in s.sent}
  /\ UNCHANGED <<conn, asked, inits, stops, refused>>

\* A pass that sends n packets, then finds one due whose peer has not been heard
\* of for a minute.
TimeOut(p, n) ==
  /\ MayExpire
  /\ n \in 0 .. (Len(queue[p]) - 1) \div 2 /\ queue[p] # <<>>
  /\ \E s \in {QueuePass(queue[p], n)} :
       LET q == s.q[s.at].to
       IN  /\ \A e \in s.sent : e.to # q
           /\ conn' = [conn EXCEPT ![p][q] = ToInactive(@)]
           /\ queue' = [queue EXCEPT ![p] =
                          RetirePacket(RetireIfDying(conn[p][q], s.q, q), q, "Ping")]
           /\ net' = net \union UNION {Send(p, conn[p][e.to], e.to, e.command, e.npid) : e \in s.sent}
  /\ UNCHANGED <<asked, inits, stops, refused>>

-----------------------------------------------------------------------------
(* HandleIncomingMessage, by node m.to.  A delivered datagram may come     *)
(* again (kept); the reply goes to where it came from.                     *)

Rest(m, kept) == IF kept THEN net ELSE net \ {m}

\* GetSignalingPointer: the connection of the peer the packet names.
Known(m) == m.npid # m.to /\ conn[m.to][m.npid].known

Reply(m, command) ==
  IF m.from \in Nodes
  THEN {[from |-> m.to, to |-> m.from, command |-> command, npid |-> m.to]} ELSE {}

Update(m, c, q, sent, kept) ==
  /\ conn' = [conn EXCEPT ![m.to][m.npid] = c]
  /\ queue' = [queue EXCEPT ![m.to] = q]
  /\ net' = Rest(m, kept) \union sent
  /\ UNCHANGED <<asked, inits, stops, refused>>

\* Only CONNECT and INFO make an entry for a player not known yet, and only
\* FINISHED is answered without one.
DropUnknown(m, kept) ==
  /\ ~ Known(m)
  /\ m.command \notin {"Connect", "SignalInfo", "Finished"}
  /\ net' = Rest(m, kept)
  /\ UNCHANGED <<conn, queue, asked, inits, stops, refused>>

ReceivePing(m, kept) ==
  /\ m.command = "Ping" /\ Known(m)
  /\ Update(m, conn[m.to][m.npid], queue[m.to], Reply(m, "Pong"), kept)

\* ReschedulePacket(si, PING, now + 10000).
ReceivePong(m, kept) ==
  LET q == queue[m.to]
      pings == Places(q, m.npid, "Ping")
  IN  /\ m.command = "Pong" /\ Known(m)
      /\ Update(m, conn[m.to][m.npid],
                IF pings = {} THEN q
                ELSE Append(RemoveAt(q, FirstOf(pings)), q[FirstOf(pings)]), {}, kept)

ReceiveInfo(m, kept) ==
  LET c == [conn[m.to][m.npid] EXCEPT !.known = TRUE]
  IN  /\ m.command = "SignalInfo" /\ m.npid # m.to
      /\ Update(m, UpdateAddress(c), queue[m.to], {}, kept)

\* Broken: the CONNECT_ACK is sent, but not kept to be sent again.
ReceiveConnect_AckOnce(m, kept) ==
  LET c == [conn[m.to][m.npid] EXCEPT !.known = TRUE]
  IN  /\ m.command = "Connect" /\ m.npid # m.to
      /\ Len(queue[m.to]) < MaxQueue
      /\ Update(m, UpdateAddress(c), queue[m.to], Reply(m, "ConnectAck"), kept)

ReceiveConnect(m, kept) ==
  LET c == [conn[m.to][m.npid] EXCEPT !.known = TRUE]
  IN  /\ m.command = "Connect" /\ m.npid # m.to
      /\ Len(queue[m.to]) < MaxQueue
      /\ Update(m, UpdateAddress(c),
                Append(queue[m.to], QueueEntry(m.npid, "ConnectAck", m.to)),
                Reply(m, "ConnectAck"), kept)

\* Broken: the CONFIRM is kept to be sent again, and nothing answers it.
ReceiveConnectAck_Repeats(m, kept) ==
  LET c == conn[m.to][m.npid]
      q == queue[m.to]
  IN  /\ m.command = "ConnectAck" /\ Known(m)
      /\ Update(m, ToActive(UpdateAddress(c)),
                Append(RetirePacket(SetupPing(q, m.npid, m.npid), m.npid, "Connect"),
                       QueueEntry(m.npid, "Confirm", m.to)),
                FirstPing(m.to, c, q, m.npid, m.npid) \union Reply(m, "Confirm"), kept)

ReceiveConnectAck(m, kept) ==
  LET c == conn[m.to][m.npid]
      q == queue[m.to]
  IN  /\ m.command = "ConnectAck" /\ Known(m)
      /\ Update(m, ToActive(UpdateAddress(c)),
                RetirePacket(SetupPing(q, m.npid, m.npid), m.npid, "Connect"),
                FirstPing(m.to, c, q, m.npid, m.npid) \union Reply(m, "Confirm"), kept)

\* Broken: a CONFIRM does not activate the peer.
ReceiveConfirm_NoUpdate(m, kept) ==
  LET c == conn[m.to][m.npid]
      q == queue[m.to]
  IN  /\ m.command = "Confirm" /\ Known(m)
      /\ Update(m, UpdateAddress(c),
                RetirePacket(SetupPing(q, m.npid, m.npid), m.npid, "ConnectAck"),
                FirstPing(m.to, c, q, m.npid, m.npid), kept)

ReceiveConfirm(m, kept) ==
  LET c == conn[m.to][m.npid]
      q == queue[m.to]
  IN  /\ m.command = "Confirm" /\ Known(m)
      /\ Update(m, UpdateExtendedStatus(UpdateAddress(c), TRUE),
                RetirePacket(SetupPing(q, m.npid, m.npid), m.npid, "ConnectAck"),
                FirstPing(m.to, c, q, m.npid, m.npid), kept)

ReceiveFinished(m, kept) ==
  LET c == conn[m.to][m.npid]
  IN  /\ m.command = "Finished" /\ Known(m)
      /\ Update(m, ToInactive(UpdateExtendedStatus(c, FALSE)),
                RetireIfDying(c, queue[m.to], m.npid), Reply(m, "FinishedAck"), kept)

FinishedByUnknown(m, kept) ==
  /\ m.command = "Finished" /\ ~ Known(m)
  /\ net' = Rest(m, kept) \union Reply(m, "FinishedAck")
  /\ UNCHANGED <<conn, queue, asked, inits, stops, refused>>

ReceiveFinishedAck(m, kept) ==
  LET c == conn[m.to][m.npid]
  IN  /\ m.command = "FinishedAck" /\ Known(m)
      /\ Update(m, ToInactive(c),
                RetirePacket(RetireIfDying(c, queue[m.to], m.npid), m.npid, "Finished"),
                {}, kept)

Receive(m, kept) ==
  \/ DropUnknown(m, kept) \/ ReceivePing(m, kept) \/ ReceivePong(m, kept)
  \/ ReceiveInfo(m, kept) \/ ReceiveConnect(m, kept) \/ ReceiveConnectAck(m, kept)
  \/ ReceiveConfirm(m, kept) \/ ReceiveFinished(m, kept) \/ FinishedByUnknown(m, kept)
  \/ ReceiveFinishedAck(m, kept)

-----------------------------------------------------------------------------

Lose(m) ==
  /\ net' = net \ {m}
  /\ UNCHANGED <<conn, queue, asked, inits, stops, refused>>

\* A stranger may send any command at any time.
FromStrangers ==
  [from : Strangers, to : Nodes, command : Commands \union {"SignalInfo"}, npid : Strangers]

Next ==
  \/ \E p \in Nodes : \E q \in Others(p) :
       InitSignaling(p, q) \/ StartSignaling(p, q) \/ InfoRefused(p, q) \/ StopSignaling(p, q)
  \/ \E p \in Nodes : \E n \in 0 .. Len(queue[p]) : HandleQueuedMessages(p, n) \/ TimeOut(p, n)
  \/ \E m \in net, kept \in BOOLEAN : Receive(m, kept)
  \/ \E m \in FromStrangers : m.npid = m.from /\ Receive(m, FALSE)
  \/ \E m \in net : Lose(m)

Spec == Init /\ [][Next]_vars

\* The client's main thread comes back to HandleQueuedMessages for as long as
\* it runs, and a wakeup_time passes: the head of a queue gets its turn.
HeadTurn(p) == \E n \in 1 .. Len(queue[p]) : HandleQueuedMessages(p, n)

\* A datagram sent again and again gets through.
GetsThrough(p, q, command) ==
  \E m \in net : m.from = p /\ m.to = q /\ m.command = command /\ Receive(m, FALSE)

Fairness ==
  \A p \in Nodes :
    /\ WF_vars(HeadTurn(p))
    /\ \A q \in Nodes \ {p} : \A command \in {"Connect", "ConnectAck", "Confirm"} :
         SF_vars(GetsThrough(p, q, command))

FairSpec == Spec /\ Fairness

-----------------------------------------------------------------------------
(* Properties.                                                             *)

Connections == [known : BOOLEAN, status : {"INACTIVE", "PENDING", "ACTIVE"},
                activated : BOOLEAN, addr : BOOLEAN,
                told : {"nothing", "established", "dead"},
                ext : {"nothing", "peer", "mutual", "off"}]

\* The variables keep their types; the queues hold packets of other peers only,
\* and of the kinds that are sent again (never CONFIRM, PONG or FINISHED_ACK).
TypeOK ==
  /\ \A p \in Nodes :
       /\ conn[p] \in [Others(p) -> Connections]
       /\ \A i \in DOMAIN queue[p] :
            /\ queue[p][i] \in Entries /\ queue[p][i].to # p
            /\ queue[p][i].command \in {"Connect", "ConnectAck", "Ping", "Finished"}
       /\ asked[p] \in [Others(p) -> Nat]
       /\ inits[p] \in [Others(p) -> 0 .. MaxInits[p]]
       /\ stops[p] \in [Others(p) -> 0 .. MaxStops[p]]
  /\ net \subseteq Packet
  /\ refused \in BOOLEAN

\* A PENDING connection is pursued: RPCN is being asked where the peer is, or a
\* CONNECT is sent until it is answered (SignalingHandler.cpp:193, 227).
\* Otherwise nothing would ever take it out of PENDING, and InitSignaling does
\* nothing for a PENDING one.
PendingIsPursued ==
  \A p \in Nodes : \A q \in Others(p) :
    conn[p][q].status = "PENDING" /\ ~ refused
      => asked[p][q] > 0 \/ Places(queue[p], q, "Connect") # {}

\* One heartbeat per connection, however many CONNECT_ACKs and CONFIRMs come
\* (451-465), and only for a peer with an address.
OnePingEach ==
  \A p \in Nodes : \A q \in Others(p) :
    LET pings == Places(queue[p], q, "Ping")
    IN  Cardinality(pings) <= 1 /\ (pings # {} => conn[p][q].known /\ conn[p][q].addr)

\* What the game was last told agrees with the connection: it is told of every
\* connection established and of every one that died, unless it stopped the
\* connection itself; and a mutual activation is announced whichever of
\* CONNECT_ACK and CONFIRM came first (115-149).
StatusIsTold ==
  \A p \in Nodes : \A q \in Others(p) :
    LET c == conn[p][q]
    IN  /\ c.status = "ACTIVE" => c.told = "established"
        /\ c.told = "established" /\ stops[p][q] = 0 => c.status = "ACTIVE"
        /\ c.status = "ACTIVE" /\ c.activated => c.ext = "mutual"
        /\ c.activated => c.ext \in {"peer", "mutual"}
        /\ c.ext \in {"peer", "mutual"} /\ stops[p][q] = 0 => c.activated

\* Nobody has stopped a connection, and none times out.
Undisturbed == ~ MayExpire /\ \A p \in Nodes : \A q \in Others(p) : stops[p][q] = 0

\* While nobody stops and nobody times out: if a console believes it is
\* connected, its peer knows, or still repeats the CONNECT_ACK whose CONFIRM
\* will tell it (the three-way handshake, 596-650).
AckIsRepeated ==
  Undisturbed =>
    \A p \in Nodes : \A q \in Nodes \ {p} :
      conn[p][q].status = "ACTIVE" /\ ~ conn[q][p].activated
        => Places(queue[q], p, "ConnectAck") # {}

\* A CONNECT kept in the queue leads to a connection known at both ends, however
\* many datagrams are lost, repeated or overtaken, unless someone stops.
HandshakeCompletes ==
  \A p \in Nodes : \A q \in Nodes \ {p} :
    (Places(queue[p], q, "Connect") # {})
      ~> (~ Undisturbed \/ (conn[p][q].status = "ACTIVE" /\ conn[q][p].activated))

=============================================================================
