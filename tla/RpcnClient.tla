----------------------------- MODULE RpcnClient -----------------------------
(***************************************************************************)
(* CrossPlay's RPCN client (plugins/CrossPlay/src/rpcn/Client.cpp,         *)
(* NPHandler.cpp, CrossPlay.cpp): three threads of the client - one that   *)
(* connects, logs in and drives signaling, one that reads, one that        *)
(* writes - and the game's thread, which opens and closes the plugin and   *)
(* calls its hooks.  The server is external: it greets, answers what it is *)
(* asked in any order, tells of friends, and may hang up at any time.      *)
(* So is PSN, whose events the game fetches through the same hook.         *)
(*                                                                         *)
(* A packet is whole or the connection is lost: ReadExactly and SendPacket *)
(* go on until the last byte, and every way out of them before is an error.*)
(***************************************************************************)
EXTENDS Naturals, Sequences, FiniteSets

CONSTANTS
  Peers,           \* the friends the game opens connections to
  MaxNotes,        \* bound: notifications of the server
  MaxPSN           \* bound: events of PSN

ASSUME BoundsAssumption == IsFiniteSet(Peers) /\ MaxNotes \in Nat /\ MaxPSN \in Nat

VARIABLES
  pc,              \* where each thread is
  connected, authentified, terminate, wantConnection, wantAuthentication,
  serverInfo,      \* Connected, ..., ReceivedServerInfo
  ssl,             \* whether WSSLr and WSSLw are allocated
  link, up, down,  \* the TCP connection, and what is on its way each way
  counter,         \* RequestCounter, less its high word
  id, answer,      \* packet_id of the calls that wait, and what they got
  packets, batch,  \* Packets, and local "packets" of HandleOutput
  packet,          \* what the reader has read
  replies,         \* Replies
  requests,        \* SignalingRequests
  asked,           \* peers whose connection has been opened (Status not INACTIVE)
  friends,         \* whether FriendData is filled
  handler,         \* whether NPBasicEventHandler is set
  events, calls,   \* lengths of EventQueue and NPCallbackQueue
  psnEvents, psnCalls,   \* the same of PSN, inside the platform
  told,            \* callbacks the game has had and not yet followed up
  notes, psnNotes, \* what the server and PSN may still tell (bound)
  np, signaling    \* whether NP and Signaling are allocated

flagVars == <<connected, authentified, terminate, wantConnection, wantAuthentication, serverInfo>>
linkVars == <<ssl, link, up, down>>
callVars == <<counter, id, answer, replies>>
sendVars == <<packets, batch>>
gameVars == <<requests, asked>>
psnVars == <<psnEvents, psnCalls, psnNotes>>
friendVars == <<friends, handler, events, calls, told, notes, psnVars>>
objectVars == <<np, signaling>>
vars == <<pc, flagVars, linkVars, callVars, sendVars, packet, gameVars, friendVars, objectVars>>

Threads == {"main", "reader", "writer", "game"}
Callers == {"main", "game"}        \* the threads that wait for a reply
Command(t) == IF t = "main" THEN "login" ELSE "terminate"

None == [type |-> "none"]
Info == [type |-> "info"]
Note == [type |-> "note"]
Request(i, c) == [id |-> i, cmd |-> c]
Reply(q, ok) == [type |-> "reply", id |-> q.id, cmd |-> q.cmd, ok |-> ok]

\* RequestCounter starts above 2^32; GetRequestID gives numbers below it.
CallID(n) == <<"call", n>>
PeerID(n) == <<"match", n>>

Goto(t, from, to) == pc[t] = from /\ pc' = [pc EXCEPT ![t] = to]

Init ==
  /\ pc = [t \in Threads |-> IF t = "game" THEN "start" ELSE "none"]
  /\ connected = FALSE /\ authentified = FALSE /\ terminate = FALSE
  /\ wantConnection = FALSE /\ wantAuthentication = FALSE /\ serverInfo = FALSE
  /\ ssl = FALSE /\ link = "none" /\ up = {} /\ down = <<>>
  /\ counter = 0 /\ id = [t \in Callers |-> 0] /\ answer = [t \in Callers |-> None]
  /\ packets = <<>> /\ batch = <<>> /\ packet = None /\ replies = {}
  /\ requests = {} /\ asked = {}
  /\ friends = FALSE /\ handler = FALSE /\ events = 0 /\ calls = 0 /\ told = 0 /\ notes = 0
  /\ psnEvents = 0 /\ psnCalls = 0 /\ psnNotes = MaxPSN
  /\ np = FALSE /\ signaling = FALSE

-----------------------------------------------------------------------------
(* ForgeSendReply, by which the main thread logs in and the game's thread  *)
(* takes leave.                                                            *)

\* RequestCounter++ is a read...
ReadCounter(t) ==
  /\ Goto(t, "number", "increment")
  /\ id' = [id EXCEPT ![t] = counter]
  /\ UNCHANGED <<flagVars, linkVars, counter, answer, replies, sendVars, packet, gameVars,
                 friendVars, objectVars>>

\* ...and a write.
WriteCounter(t) ==
  /\ Goto(t, "increment", "forge")
  /\ counter' = id[t] + 1
  /\ UNCHANGED <<flagVars, linkVars, id, answer, replies, sendVars, packet, gameVars,
                 friendVars, objectVars>>

ForgeSend(t) ==
  /\ Goto(t, "forge", "poll")
  /\ packets' = Append(packets, Request(CallID(id[t]), Command(t)))
  /\ UNCHANGED <<flagVars, linkVars, callVars, batch, packet, gameVars, friendVars, objectVars>>

\* Broken: the loop does not look at Connected.
GetReply_Stubborn(t) ==
  /\ Goto(t, "poll", IF ~ terminate THEN "look" ELSE "refused")
  /\ UNCHANGED <<flagVars, linkVars, callVars, sendVars, packet, gameVars, friendVars, objectVars>>

GetReply(t) ==
  /\ Goto(t, "poll", IF connected /\ ~ terminate THEN "look" ELSE "refused")
  /\ UNCHANGED <<flagVars, linkVars, callVars, sendVars, packet, gameVars, friendVars, objectVars>>

\* Broken: the first reply is taken, whosever it is.
CheckForReply_Any(t) ==
  /\ \/ \E r \in replies :
          /\ Goto(t, "look", "answered")
          /\ answer' = [answer EXCEPT ![t] = r]
          /\ replies' = replies \ {r}
     \/ /\ replies = {}
        /\ Goto(t, "look", "poll")
        /\ UNCHANGED <<answer, replies>>
  /\ UNCHANGED <<flagVars, linkVars, counter, id, sendVars, packet, gameVars, friendVars, objectVars>>

CheckForReply(t) ==
  /\ \/ \E r \in replies :
          /\ r.id = CallID(id[t])
          /\ Goto(t, "look", "answered")
          /\ answer' = [answer EXCEPT ![t] = r]
          /\ replies' = replies \ {r}
     \/ /\ \A r \in replies : r.id # CallID(id[t])
        /\ Goto(t, "look", "poll")
        /\ UNCHANGED <<answer, replies>>
  /\ UNCHANGED <<flagVars, linkVars, counter, id, sendVars, packet, gameVars, friendVars, objectVars>>

ForgeSendReply(t) ==
  ReadCounter(t) \/ WriteCounter(t) \/ ForgeSend(t) \/ GetReply(t) \/ CheckForReply(t)

-----------------------------------------------------------------------------
(* ReaderThread.                                                           *)

\* Every call of wolfSSL that is under way when the object is freed.
Undefined(t) ==
  /\ pc[t] = "wolf" /\ ~ ssl
  /\ pc' = [pc EXCEPT ![t] = "undefined"]
  /\ UNCHANGED <<flagVars, linkVars, callVars, sendVars, packet, gameVars, friendVars, objectVars>>

ReaderTop ==
  /\ terminate \/ connected
  /\ Goto("reader", "top", IF terminate THEN "left" ELSE "check")
  /\ UNCHANGED <<flagVars, linkVars, callVars, sendVars, packet, gameVars, friendVars, objectVars>>

\* The head of ReadExactly's loop; on its way out HandleInput disconnects.
\* (A call that begins with WSSLr NULL is an error like any other.)
BeginRead ==
  /\ IF connected /\ ~ terminate /\ ssl
     THEN Goto("reader", "check", "wolf") /\ UNCHANGED connected
     ELSE Goto("reader", "check", "left") /\ connected' = FALSE
  /\ UNCHANGED <<authentified, terminate, wantConnection, wantAuthentication, serverInfo,
                 linkVars, callVars, sendVars, packet, gameVars, friendVars, objectVars>>

\* Nothing yet; after ten seconds of it, eRecv_NoData.
ReadNothing ==
  /\ ssl /\ link = "up" /\ down = <<>>
  /\ \E to \in {"check", "top"} : Goto("reader", "wolf", to)
  /\ UNCHANGED <<flagVars, linkVars, callVars, sendVars, packet, gameVars, friendVars, objectVars>>

ReadPacket ==
  /\ ssl /\ down # <<>>
  /\ Goto("reader", "wolf", "handle")
  /\ packet' = Head(down) /\ down' = Tail(down)
  /\ UNCHANGED <<flagVars, ssl, link, up, callVars, sendVars, gameVars, friendVars, objectVars>>

\* ErrorAndDisconnect, for a broken link or a packet that is not as it should be;
\* the reader is not started again.
ReadFails ==
  /\ ssl
  /\ Goto("reader", "wolf", "left")
  /\ connected' = FALSE
  /\ UNCHANGED <<authentified, terminate, wantConnection, wantAuthentication, serverInfo,
                 linkVars, callVars, sendVars, packet, gameVars, friendVars, objectVars>>

HandleInfo ==
  /\ packet = Info
  /\ Goto("reader", "handle", "top")
  /\ serverInfo' = TRUE /\ packet' = None
  /\ UNCHANGED <<connected, authentified, terminate, wantConnection, wantAuthentication,
                 linkVars, callVars, sendVars, gameVars, friendVars, objectVars>>

\* Replies.insert does nothing when the ID is there.
HandleReply ==
  /\ packet.type = "reply" /\ packet.cmd # "siginfo"
  /\ Goto("reader", "handle", "top")
  /\ replies' = IF \E r \in replies : r.id = packet.id THEN replies ELSE replies \union {packet}
  /\ packet' = None
  /\ UNCHANGED <<flagVars, linkVars, counter, id, answer, sendVars, gameVars, friendVars, objectVars>>

\* The ID is looked up in SignalingRequests and the answer used without a test;
\* then Signaling is called, if the peer was found.
HandleSignalingInfos ==
  /\ packet.type = "reply" /\ packet.cmd = "siginfo"
  /\ IF signaling /\ \E q \in requests : q.id = packet.id
     THEN Goto("reader", "handle", "top")
     ELSE Goto("reader", "handle", "undefined")
  /\ requests' = {q \in requests : q.id # packet.id}
  /\ packet' = None
  /\ UNCHANGED <<flagVars, linkVars, callVars, sendVars, asked, friendVars, objectVars>>

\* FriendStatus and FriendPresenceChanged: an event, or nothing where the name is
\* not found, the news is older than what is known, or the game has no handler.
HandleNote ==
  /\ packet = Note
  /\ \/ /\ friends \/ pc["main"] = "fill"
        /\ handler
        /\ Goto("reader", "handle", IF np THEN "event" ELSE "undefined")
     \/ Goto("reader", "handle", "top")
  /\ packet' = None
  /\ UNCHANGED <<flagVars, linkVars, callVars, sendVars, gameVars, friendVars, objectVars>>

QueueBasicEvent ==
  /\ Goto("reader", "event", "callback")
  /\ events' = events + 1
  /\ UNCHANGED <<flagVars, linkVars, callVars, sendVars, packet, gameVars, friends, handler,
                 calls, told, notes, psnVars, objectVars>>

SendBasicEvent ==
  /\ Goto("reader", "callback", "top")
  /\ calls' = calls + 1
  /\ UNCHANGED <<flagVars, linkVars, callVars, sendVars, packet, gameVars, friends, handler,
                 events, told, notes, psnVars, objectVars>>

Reader ==
  \/ ReaderTop \/ BeginRead \/ ReadNothing \/ ReadPacket \/ ReadFails \/ Undefined("reader")
  \/ HandleInfo \/ HandleReply \/ HandleSignalingInfos \/ HandleNote
  \/ QueueBasicEvent \/ SendBasicEvent

-----------------------------------------------------------------------------
(* WriterThread.                                                           *)

WriterTop ==
  /\ IF terminate
     THEN Goto("writer", "top", "left") /\ UNCHANGED sendVars
     ELSE /\ connected /\ packets # <<>>
          /\ Goto("writer", "top", "check")
          /\ batch' = packets /\ packets' = <<>>
  /\ UNCHANGED <<flagVars, linkVars, callVars, packet, gameVars, friendVars, objectVars>>

\* The head of SendPacket's loop.  What is left of the batch is deleted.
BeginSend ==
  /\ IF connected /\ ~ terminate /\ ssl
     THEN Goto("writer", "check", "wolf") /\ UNCHANGED <<connected, batch>>
     ELSE Goto("writer", "check", "left") /\ connected' = FALSE /\ batch' = <<>>
  /\ UNCHANGED <<authentified, terminate, wantConnection, wantAuthentication, serverInfo,
                 linkVars, callVars, packets, packet, gameVars, friendVars, objectVars>>

Send ==
  /\ ssl /\ link = "up"
  /\ Goto("writer", "wolf", IF Len(batch) = 1 THEN "top" ELSE "check")
  /\ up' = up \union {Head(batch)} /\ batch' = Tail(batch)
  /\ UNCHANGED <<flagVars, ssl, link, down, callVars, packets, packet, gameVars, friendVars,
                 objectVars>>

SendFails ==
  /\ ssl /\ link = "broken"
  /\ Goto("writer", "wolf", "left")
  /\ connected' = FALSE /\ batch' = <<>>
  /\ UNCHANGED <<authentified, terminate, wantConnection, wantAuthentication, serverInfo,
                 linkVars, callVars, packets, packet, gameVars, friendVars, objectVars>>

Writer == WriterTop \/ BeginSend \/ Send \/ SendFails \/ Undefined("writer")

-----------------------------------------------------------------------------
(* MainThread.                                                             *)

MainTop ==
  /\ IF ~ terminate /\ ~ connected /\ wantConnection
     THEN Goto("main", "top", "connect") /\ wantConnection' = FALSE
     ELSE /\ Goto("main", "top", IF terminate THEN "left" ELSE "authenticate")
          /\ UNCHANGED wantConnection
  /\ UNCHANGED <<connected, authentified, terminate, wantAuthentication, serverInfo, linkVars,
                 callVars, sendVars, packet, gameVars, friendVars, objectVars>>

\* No address, no socket, no handshake...
ConnectFails ==
  /\ Goto("main", "connect", "authenticate")
  /\ UNCHANGED <<flagVars, linkVars, callVars, sendVars, packet, gameVars, friendVars, objectVars>>

\* ...or a connection; the server greets with its protocol version.
Connect ==
  /\ Goto("main", "connect", "established")
  /\ ssl' = TRUE /\ link' = "up" /\ down' = <<Info>>
  /\ UNCHANGED <<flagVars, up, callVars, sendVars, packet, gameVars, friendVars, objectVars>>

SetConnected ==
  /\ Goto("main", "established", "await")
  /\ connected' = TRUE
  /\ UNCHANGED <<authentified, terminate, wantConnection, wantAuthentication, serverInfo,
                 linkVars, callVars, sendVars, packet, gameVars, friendVars, objectVars>>

\* What Connect returns, the version's mismatch included, is not looked at.
AwaitServerInfo ==
  /\ serverInfo \/ ~ connected \/ terminate
  /\ Goto("main", "await", "authenticate")
  /\ UNCHANGED <<flagVars, linkVars, callVars, sendVars, packet, gameVars, friendVars, objectVars>>

Authenticate ==
  /\ IF connected /\ wantAuthentication
     THEN Goto("main", "authenticate", "number") /\ wantAuthentication' = FALSE
     ELSE Goto("main", "authenticate", "work") /\ UNCHANGED wantAuthentication
  /\ UNCHANGED <<connected, authentified, terminate, wantConnection, serverInfo, linkVars,
                 callVars, sendVars, packet, gameVars, friendVars, objectVars>>

\* Login, once it has a reply or none.
LoginAnswered ==
  /\ \/ answer["main"] = None /\ Goto("main", "refused", "work")
     \/ answer["main"] # None /\ Goto("main", "answered", IF answer["main"].ok THEN "fill" ELSE "free")
  /\ UNCHANGED <<flagVars, linkVars, callVars, sendVars, packet, gameVars, friendVars, objectVars>>

FillFriends ==
  /\ Goto("main", "fill", "work")
  /\ friends' = TRUE /\ authentified' = TRUE
  /\ UNCHANGED <<connected, terminate, wantConnection, wantAuthentication, serverInfo, linkVars,
                 callVars, sendVars, packet, gameVars, handler, events, calls, told, notes, psnVars,
                 objectVars>>

\* Disconnect: what it frees...
Free == ssl' = FALSE /\ link' = (IF link = "none" THEN "none" ELSE "broken") /\ up' = {} /\ down' = <<>>

\* ...and what it resets.
ResetFlags == connected' = FALSE /\ authentified' = FALSE /\ serverInfo' = FALSE

\* The login was refused: the reader and the writer are still at work.
FreeRefused ==
  /\ Goto("main", "free", "clear")
  /\ Free
  /\ UNCHANGED <<flagVars, callVars, sendVars, packet, gameVars, friendVars, objectVars>>

ClearRefused ==
  /\ Goto("main", "clear", "work")
  /\ ResetFlags
  /\ UNCHANGED <<terminate, wantConnection, wantAuthentication, linkVars, callVars, sendVars,
                 packet, gameVars, friendVars, objectVars>>

\* Pings, HandleIncomingMessage and HandleQueuedMessages (see Signaling).
Work ==
  /\ Goto("main", "work", IF authentified /\ ~ signaling THEN "undefined" ELSE "top")
  /\ UNCHANGED <<flagVars, linkVars, callVars, sendVars, packet, gameVars, friendVars, objectVars>>

Main ==
  \/ MainTop \/ ConnectFails \/ Connect \/ SetConnected \/ AwaitServerInfo \/ Authenticate
  \/ ForgeSendReply("main") \/ LoginAnswered \/ FillFriends \/ FreeRefused \/ ClearRefused
  \/ Work

-----------------------------------------------------------------------------
(* The game's thread: Initialise, the hooks, Close.                        *)

\* The client's threads run before its constructor is through.
Initialise ==
  /\ Goto("game", "start", "construct")
  /\ np' = TRUE /\ signaling' = TRUE
  /\ UNCHANGED <<flagVars, linkVars, callVars, sendVars, packet, gameVars, friendVars>>

StartThreads ==
  /\ pc["game"] = "construct"
  /\ pc' = [t \in Threads |-> IF t = "game" THEN "constructed" ELSE "top"]
  /\ UNCHANGED <<flagVars, linkVars, callVars, sendVars, packet, gameVars, friendVars, objectVars>>

\* ...what is left of it, each write seen by them as it is made.
ConstructReplies ==
  /\ Goto("game", "constructed", "counted")
  /\ counter' = 1 /\ replies' = {}
  /\ UNCHANGED <<flagVars, linkVars, id, answer, sendVars, packet, gameVars, friendVars, objectVars>>

AskConnection ==
  /\ Goto("game", "counted", "wanting")
  /\ wantConnection' = TRUE
  /\ UNCHANGED <<connected, authentified, terminate, wantAuthentication, serverInfo, linkVars,
                 callVars, sendVars, packet, gameVars, friendVars, objectVars>>

AskAuthentication ==
  /\ Goto("game", "wanting", "play")
  /\ wantAuthentication' = TRUE
  /\ UNCHANGED <<connected, authentified, terminate, wantConnection, serverInfo, linkVars,
                 callVars, sendVars, packet, gameVars, friendVars, objectVars>>

RegisterHandler ==
  /\ pc["game"] = "play" /\ ~ handler
  /\ handler' = TRUE
  /\ UNCHANGED <<pc, flagVars, linkVars, callVars, sendVars, packet, gameVars, friends, events,
                 calls, told, notes, psnVars, objectVars>>

\* ActivateConnection for a friend, and InitSignaling: first the request is
\* remembered...
RememberRequest(p) ==
  /\ friends /\ p \notin asked
  /\ Goto("game", "play", "request")
  /\ asked' = asked \union {p}
  /\ requests' = requests \union {[id |-> PeerID(Cardinality(asked) + 1), peer |-> p]}
  /\ UNCHANGED <<flagVars, linkVars, callVars, sendVars, packet, friendVars, objectVars>>

\* ...then it is sent.
RequestSignalingInfos ==
  /\ Goto("game", "request", "play")
  /\ packets' = Append(packets, Request(PeerID(Cardinality(asked)), "siginfo"))
  /\ UNCHANGED <<flagVars, linkVars, callVars, batch, packet, gameVars, friendVars, objectVars>>

\* Broken: the queue is copied and not emptied.
CheckNPCallbacks_Keep ==
  /\ pc["game"] = "play" /\ handler /\ calls > 0
  /\ told' = told + calls
  /\ UNCHANGED <<pc, flagVars, linkVars, callVars, sendVars, packet, gameVars, friends, handler,
                 events, calls, notes, psnVars, objectVars>>

\* CheckCallbacks, once per frame: the game is told of every callback queued...
CheckNPCallbacks ==
  /\ pc["game"] = "play" /\ handler /\ calls > 0
  /\ told' = told + calls /\ calls' = 0
  /\ UNCHANGED <<pc, flagVars, linkVars, callVars, sendVars, packet, gameVars, friends, handler,
                 events, notes, psnVars, objectVars>>

\* ...then, by cellSysutilCheckCallback, of those of PSN, to the same handler.
CheckPSNCallbacks ==
  /\ pc["game"] = "play" /\ psnCalls > 0
  /\ told' = told + psnCalls /\ psnCalls' = 0
  /\ UNCHANGED <<pc, flagVars, linkVars, callVars, sendVars, packet, gameVars, friends, handler,
                 events, calls, notes, psnEvents, psnNotes, objectVars>>

\* Broken: what NP answers is returned, and PSN not asked.
GetBasicEvent_NPOnly ==
  /\ pc["game"] = "play"
  /\ told' = told \/ (told > 0 /\ told' = told - 1)
  /\ events' = IF events = 0 THEN 0 ELSE events - 1
  /\ UNCHANGED <<pc, flagVars, linkVars, callVars, sendVars, packet, gameVars, friends, handler,
                 calls, notes, psnVars, objectVars>>

\* The game follows a callback up, or asks without one.  It is handed the first
\* event of RPCN, if there is any, whoever called; else PSN's.
GetBasicEvent ==
  /\ pc["game"] = "play"
  /\ told' = told \/ (told > 0 /\ told' = told - 1)
  /\ \/ events > 0 /\ events' = events - 1 /\ UNCHANGED psnEvents
     \/ events = 0 /\ psnEvents > 0 /\ psnEvents' = psnEvents - 1 /\ UNCHANGED events
     \/ events = 0 /\ psnEvents = 0 /\ UNCHANGED <<events, psnEvents>>
  /\ UNCHANGED <<pc, flagVars, linkVars, callVars, sendVars, packet, gameVars, friends, handler,
                 calls, notes, psnCalls, psnNotes, objectVars>>

\* Close: the client's destructor takes leave of the server...
Close ==
  /\ Goto("game", "play", "number")
  /\ UNCHANGED <<flagVars, linkVars, callVars, sendVars, packet, gameVars, friendVars, objectVars>>

Terminated ==
  /\ Goto("game", IF answer["game"] = None THEN "refused" ELSE "answered", "join")
  /\ terminate' = TRUE
  /\ UNCHANGED <<connected, authentified, wantConnection, wantAuthentication, serverInfo, linkVars,
                 callVars, sendVars, packet, gameVars, friendVars, objectVars>>

\* Broken: the writer is not waited for.
JoinAndDisconnect_NoWriter ==
  /\ \A t \in {"main", "reader"} : pc[t] = "left"
  /\ Goto("game", "join", "delete")
  /\ Free /\ ResetFlags
  /\ UNCHANGED <<terminate, wantConnection, wantAuthentication, callVars, sendVars, packet,
                 gameVars, friendVars, objectVars>>

\* ...waits for the threads and disconnects...
JoinAndDisconnect ==
  /\ \A t \in Threads \ {"game"} : pc[t] = "left"
  /\ Goto("game", "join", "delete")
  /\ Free /\ ResetFlags
  /\ UNCHANGED <<terminate, wantConnection, wantAuthentication, callVars, sendVars, packet,
                 gameVars, friendVars, objectVars>>

\* ...before what they used is deleted, the events in NP's queue with it.
DeleteObjects ==
  /\ Goto("game", "delete", "closed")
  /\ np' = FALSE /\ signaling' = FALSE /\ events' = 0
  /\ UNCHANGED <<flagVars, linkVars, callVars, sendVars, packet, gameVars, friends, handler, calls,
                 told, notes, psnVars>>

Closing ==
  \/ ForgeSendReply("game") \/ Terminated \/ JoinAndDisconnect \/ DeleteObjects

Game ==
  \/ Initialise \/ StartThreads \/ ConstructReplies \/ AskConnection \/ AskAuthentication
  \/ RegisterHandler \/ \E p \in Peers : RememberRequest(p)
  \/ RequestSignalingInfos \/ CheckNPCallbacks \/ CheckPSNCallbacks \/ GetBasicEvent
  \/ Close \/ Closing

-----------------------------------------------------------------------------
(* The servers: RPCN's, and PSN's.                                         *)

\* Once it has let us in it may tell of friends.
Answer(q, ok) ==
  /\ link = "up" /\ q \in up
  /\ up' = up \ {q}
  /\ down' = Append(down, Reply(q, ok))
  /\ notes' = IF q.cmd = "login" /\ ok THEN MaxNotes ELSE notes
  /\ UNCHANGED <<pc, flagVars, ssl, link, callVars, sendVars, packet, gameVars, friends, handler,
                 events, calls, told, psnVars, objectVars>>

Notify ==
  /\ link = "up" /\ notes > 0
  /\ notes' = notes - 1
  /\ down' = Append(down, Note)
  /\ UNCHANGED <<pc, flagVars, ssl, link, up, callVars, sendVars, packet, gameVars, friends,
                 handler, events, calls, told, psnVars, objectVars>>

HangUp ==
  /\ link = "up"
  /\ link' = "broken"
  /\ UNCHANGED <<pc, flagVars, ssl, up, down, callVars, sendVars, packet, gameVars, friendVars,
                 objectVars>>

\* PSN has news of a friend: the platform queues the event and its callback, for
\* the handler that RegisterContextSensitiveHandler hands on to it.
NotifyPSN ==
  /\ handler /\ psnNotes > 0
  /\ psnNotes' = psnNotes - 1 /\ psnEvents' = psnEvents + 1 /\ psnCalls' = psnCalls + 1
  /\ UNCHANGED <<pc, flagVars, linkVars, callVars, sendVars, packet, gameVars, friends, handler,
                 events, calls, told, notes, objectVars>>

Servers == (\E q \in up, ok \in BOOLEAN : Answer(q, ok)) \/ Notify \/ HangUp \/ NotifyPSN

-----------------------------------------------------------------------------

\* Undefined behaviour ends the model.
Defined == \A t \in Threads : pc[t] # "undefined"

Next == Defined /\ (Main \/ Reader \/ Writer \/ Game \/ Servers)

Spec == Init /\ [][Next]_vars

\* The threads are scheduled, the handshake ends, and the server answers a
\* request or hangs up.  Nothing obliges the game to close.
FairSpec ==
  /\ Spec
  /\ WF_vars(Defined /\ Main) /\ WF_vars(Defined /\ Reader) /\ WF_vars(Defined /\ Writer)
  /\ WF_vars(Defined /\ Closing)
  /\ WF_vars(Defined /\ up # {} /\ (HangUp \/ \E q \in up, ok \in BOOLEAN : Answer(q, ok)))

-----------------------------------------------------------------------------
(* Properties.                                                             *)

CallIDs == {CallID(n) : n \in 0 .. 3}
PeerIDs == {PeerID(n) : n \in 1 .. Cardinality(Peers)}
Requests ==
  {Request(i, Command(t)) : i \in CallIDs, t \in Callers} \union {Request(i, "siginfo") : i \in PeerIDs}
AnswersTo(qs) == {Reply(q, ok) : q \in qs, ok \in BOOLEAN}

\* The places of each thread.
MainPCs ==
  {"none", "top", "connect", "established", "await", "authenticate", "number", "increment", "forge",
   "poll", "look", "answered", "refused", "fill", "free", "clear", "work", "left", "undefined"}
ReaderPCs == {"none", "top", "check", "wolf", "handle", "event", "callback", "left", "undefined"}
WriterPCs == {"none", "top", "check", "wolf", "left", "undefined"}
GamePCs ==
  {"start", "construct", "constructed", "counted", "wanting", "play", "request", "number",
   "increment", "forge", "poll", "look", "answered", "refused", "join", "delete", "closed"}

\* What the fields hold (the client of Client.h, the queues of NPHandler.cpp).
TypeOK ==
  /\ pc \in [Threads -> MainPCs \union ReaderPCs \union WriterPCs \union GamePCs]
  /\ pc["main"] \in MainPCs /\ pc["reader"] \in ReaderPCs
  /\ pc["writer"] \in WriterPCs /\ pc["game"] \in GamePCs
  /\ {connected, authentified, terminate, wantConnection, wantAuthentication, serverInfo, ssl,
      friends, handler, np, signaling} \subseteq BOOLEAN
  /\ link \in {"none", "up", "broken"}
  /\ up \subseteq Requests
  /\ \A i \in DOMAIN down : down[i] \in {Info, Note} \union AnswersTo(Requests)
  /\ counter \in 0 .. 3 /\ id \in [Callers -> 0 .. 3]
  /\ \A t \in Callers : answer[t] = None \/ answer[t] \in AnswersTo(Requests)
  /\ replies \subseteq AnswersTo(Requests)
  /\ \A q \in requests : q.id \in PeerIDs /\ q.peer \in asked
  /\ asked \subseteq Peers
  /\ {events, calls, notes} \subseteq 0 .. MaxNotes
  /\ {psnEvents, psnCalls, psnNotes} \subseteq 0 .. MaxPSN
  /\ told \in 0 .. MaxNotes + MaxPSN

\* The two calls took the same number of the unguarded RequestCounter++.
NumbersShared == id["main"] = id["game"] /\ id["main"] # 0

\* The server refused the login (or what passed for its answer did).
Refused == answer["main"] # None /\ ~ answer["main"].ok

\* Unless the login is refused, no thread is inside wolfSSL when its objects are
\* freed, none finds Signaling or NP deleted, and every signaling answer has its
\* request in SignalingRequests: joining the threads before Disconnect, deleting
\* what they use after the client, and remembering a request before it is sent
\* are enough.  (On a refusal Login itself calls Disconnect beside the reader
\* and the writer.)
DefinedUnlessRefused == Defined \/ Refused

\* A caller of ForgeSendReply is handed the answer to its own request, in whatever
\* order the server answers, as long as the numbers differ.
RepliesAreAnswers ==
  \A t \in Callers : answer[t] # None => answer[t].cmd = Command(t) \/ NumbersShared

\* No event, of RPCN or of PSN, is forgotten: for each that waits in a queue there
\* is a callback still to come or still to be followed up, though NP's events are
\* handed out first, to PSN's callbacks too, before their own callback is queued
\* and when the game asks unasked.  So a game that follows each callback up with
\* one GetBasicEvent empties both queues.
EventsAreAnnounced ==
  events + psnEvents
    <= calls + psnCalls + told + (IF pc["reader"] = "callback" THEN 1 ELSE 0)

\* Close comes back, whatever the server does: the leave-taking ends with an answer
\* or with the connection, and the three threads then leave.
CloseReturns ==
  pc["game"] = "number" ~> pc["game"] = "closed" \/ ~ Defined \/ NumbersShared

=============================================================================
