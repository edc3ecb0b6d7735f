-------------------------- MODULE RpcnClient_proof --------------------------
(***************************************************************************)
(* Proofs about RpcnClient, for any number of friends, notifications and   *)
(* events of PSN: the types, the events the game is told of, whose reply   *)
(* each call is handed, and what is freed and deleted while the threads run.*)
(***************************************************************************)
EXTENDS RpcnClient, FiniteSetTheorems, SequenceTheorems, TLAPS

USE BoundsAssumption DEF BoundsAssumption, Threads, Callers

ClientThreads == {"main", "reader", "writer"}

\* Each thread is in its own function.
PlacesTyped ==
  /\ pc \in [Threads -> MainPCs \union ReaderPCs \union WriterPCs \union GamePCs]
  /\ pc["main"] \in MainPCs /\ pc["reader"] \in ReaderPCs
  /\ pc["writer"] \in WriterPCs /\ pc["game"] \in GamePCs

\* The client's threads run from StartThreads to JoinAndDisconnect, and what
\* they use is there as long.
ThreadsInv ==
  /\ PlacesTyped
  /\ pc["game"] \in {"start", "construct"} => \A t \in ClientThreads : pc[t] = "none"
  /\ pc["game"] \notin {"start", "construct"} => \A t \in ClientThreads : pc[t] # "none"
  /\ pc["game"] \in {"delete", "closed"} => \A t \in ClientThreads : pc[t] = "left"
  /\ pc["game"] \notin {"start", "closed"} => np /\ signaling

-----------------------------------------------------------------------------
(* Where the threads go.                                                   *)

LEMMA CallGoes ==
  ASSUME PlacesTyped, NEW t \in Callers, ForgeSendReply(t)
  PROVE  /\ PlacesTyped' /\ UNCHANGED objectVars
         /\ \A u \in Threads \ {t} : pc'[u] = pc[u]
         /\ pc[t] \in {"number", "increment", "forge", "poll", "look"}
         /\ pc'[t] \in {"increment", "forge", "poll", "look", "refused", "answered"}
<1> USE DEF PlacesTyped, MainPCs, ReaderPCs, WriterPCs, GamePCs, Goto, objectVars
<1>1. CASE ReadCounter(t) \/ WriteCounter(t) \/ ForgeSend(t) \/ GetReply(t)
  BY <1>1 DEF ReadCounter, WriteCounter, ForgeSend, GetReply
<1>2. CASE CheckForReply(t)
  BY <1>2 DEF CheckForReply
<1> QED BY <1>1, <1>2 DEF ForgeSendReply

LEMMA MainGoes ==
  ASSUME PlacesTyped, Main
  PROVE  /\ PlacesTyped' /\ UNCHANGED objectVars
         /\ \A u \in Threads \ {"main"} : pc'[u] = pc[u]
         /\ pc["main"] \notin {"none", "left"} /\ pc'["main"] # "none"
<1> USE DEF PlacesTyped, MainPCs, ReaderPCs, WriterPCs, GamePCs, Goto, objectVars
<1>1. CASE MainTop \/ ConnectFails \/ Connect \/ SetConnected \/ AwaitServerInfo \/ Authenticate
  BY <1>1 DEF MainTop, ConnectFails, Connect, SetConnected, AwaitServerInfo, Authenticate
<1>2. CASE ForgeSendReply("main")
  BY <1>2, CallGoes
<1>3. CASE LoginAnswered \/ FillFriends \/ FreeRefused \/ ClearRefused \/ Work
  BY <1>3 DEF LoginAnswered, FillFriends, FreeRefused, ClearRefused, Work
<1> QED BY <1>1, <1>2, <1>3 DEF Main

LEMMA ReaderGoes ==
  ASSUME PlacesTyped, Reader
  PROVE  /\ PlacesTyped' /\ UNCHANGED objectVars
         /\ \A u \in Threads \ {"reader"} : pc'[u] = pc[u]
         /\ pc["reader"] \notin {"none", "left"} /\ pc'["reader"] # "none"
<1> USE DEF PlacesTyped, MainPCs, ReaderPCs, WriterPCs, GamePCs, Goto, objectVars
<1>1. CASE ReaderTop \/ BeginRead \/ ReadNothing \/ ReadPacket \/ ReadFails \/ Undefined("reader")
  BY <1>1 DEF ReaderTop, BeginRead, ReadNothing, ReadPacket, ReadFails, Undefined
<1>2. CASE HandleInfo \/ HandleReply \/ HandleSignalingInfos
  BY <1>2 DEF HandleInfo, HandleReply, HandleSignalingInfos
<1>3. CASE HandleNote \/ QueueBasicEvent \/ SendBasicEvent
  BY <1>3 DEF HandleNote, QueueBasicEvent, SendBasicEvent
<1> QED BY <1>1, <1>2, <1>3 DEF Reader

LEMMA WriterGoes ==
  ASSUME PlacesTyped, Writer
  PROVE  /\ PlacesTyped' /\ UNCHANGED objectVars
         /\ \A u \in Threads \ {"writer"} : pc'[u] = pc[u]
         /\ pc["writer"] \notin {"none", "left"} /\ pc'["writer"] # "none"
<1> USE DEF PlacesTyped, MainPCs, ReaderPCs, WriterPCs, GamePCs, Goto, objectVars
<1>1. CASE WriterTop \/ BeginSend
  BY <1>1 DEF WriterTop, BeginSend
<1>2. CASE Send \/ SendFails \/ Undefined("writer")
  BY <1>2 DEF Send, SendFails, Undefined
<1> QED BY <1>1, <1>2 DEF Writer

\* The steps of the game's thread that keep within its play and its calls.
Playing == {"play", "request", "number", "increment", "forge", "poll", "look", "refused", "answered", "join"}

GamePlays ==
  \/ RegisterHandler \/ \E p \in Peers : RememberRequest(p)
  \/ RequestSignalingInfos \/ CheckNPCallbacks \/ CheckPSNCallbacks \/ GetBasicEvent \/ Close
  \/ ForgeSendReply("game") \/ Terminated

LEMMA GameGoes ==
  ASSUME PlacesTyped, GamePlays
  PROVE  /\ PlacesTyped' /\ UNCHANGED objectVars
         /\ \A u \in Threads \ {"game"} : pc'[u] = pc[u]
         /\ pc["game"] \in Playing /\ pc'["game"] \in Playing
<1> USE DEF PlacesTyped, MainPCs, ReaderPCs, WriterPCs, GamePCs, Goto, objectVars, Playing
<1>1. CASE RegisterHandler \/ \E p \in Peers : RememberRequest(p)
  BY <1>1 DEF RegisterHandler, RememberRequest
<1>2. CASE RequestSignalingInfos \/ CheckNPCallbacks \/ CheckPSNCallbacks \/ GetBasicEvent \/ Close
  BY <1>2 DEF RequestSignalingInfos, CheckNPCallbacks, CheckPSNCallbacks, GetBasicEvent, Close
<1>3. CASE ForgeSendReply("game")
  BY <1>3, CallGoes
<1>4. CASE Terminated
  BY <1>4 DEF Terminated
<1> QED BY <1>1, <1>2, <1>3, <1>4 DEF GamePlays

LEMMA ServerGoes ==
  ASSUME Servers
  PROVE  UNCHANGED <<pc, objectVars>>
BY DEF Servers, Answer, Notify, HangUp, NotifyPSN, objectVars

\* The constructor's writes beside the threads it has started.
Constructed == ConstructReplies \/ AskConnection \/ AskAuthentication

\* The kinds of steps.
LEMMA Steps ==
  ASSUME [Next]_vars
  PROVE  \/ Main \/ Reader \/ Writer \/ GamePlays \/ Servers
         \/ Initialise \/ StartThreads \/ Constructed \/ JoinAndDisconnect \/ DeleteObjects
         \/ UNCHANGED vars
BY DEF Next, Game, GamePlays, Closing, Constructed

LEMMA ThreadsInit == Init => ThreadsInv
BY DEF Init, ThreadsInv, PlacesTyped, MainPCs, ReaderPCs, WriterPCs, GamePCs, ClientThreads

LEMMA ThreadsStep == ThreadsInv /\ [Next]_vars => ThreadsInv'
<1> SUFFICES ASSUME ThreadsInv, [Next]_vars PROVE ThreadsInv'
  OBVIOUS
<1> USE DEF ThreadsInv, ClientThreads, objectVars
<1>1. CASE Main \/ Reader \/ Writer
  BY <1>1, MainGoes, ReaderGoes, WriterGoes
<1>2. CASE GamePlays
  BY <1>2, GameGoes DEF Playing
<1>3. CASE Servers
  BY <1>3, ServerGoes DEF PlacesTyped
<1>4. CASE Initialise \/ StartThreads \/ Constructed
  BY <1>4 DEF Initialise, StartThreads, Constructed, ConstructReplies, AskConnection,
     AskAuthentication, Goto, PlacesTyped, MainPCs, ReaderPCs, WriterPCs, GamePCs
<1>5. CASE JoinAndDisconnect \/ DeleteObjects
  BY <1>5 DEF JoinAndDisconnect, DeleteObjects, Goto, PlacesTyped, MainPCs, ReaderPCs, WriterPCs, GamePCs
<1>6. CASE UNCHANGED vars
  BY <1>6 DEF vars, PlacesTyped
<1> QED BY <1>1, <1>2, <1>3, <1>4, <1>5, <1>6, Steps

-----------------------------------------------------------------------------
(* The numbers of the calls.                                               *)

\* Where the login and the leave-taking are not yet numbered, not yet counted
\* (RequestCounter not written), not yet in the packets to send.
Early == {"start", "construct", "constructed", "counted", "wanting"}
LoginUnnumbered == wantAuthentication \/ pc["game"] \in Early \/ pc["main"] = "number"
LoginUncounted == LoginUnnumbered \/ pc["main"] = "increment"
LoginUnsent == LoginUncounted \/ pc["main"] = "forge"
LeaveUnnumbered == pc["game"] \in Early \union {"play", "request", "number"}
LeaveUncounted == LeaveUnnumbered \/ pc["game"] = "increment"
LeaveUnsent == LeaveUncounted \/ pc["game"] = "forge"

\* The client asks to log in once, after the game has started it.
AskedOnce ==
  /\ pc["main"] \in {"number", "increment", "forge", "poll", "look"}
       => ~ wantAuthentication /\ pc["game"] \notin Early
  /\ wantAuthentication => pc["game"] \notin Early

CounterInv ==
  /\ counter \in 0 .. 3 /\ id \in [Callers -> 0 .. 3]
  /\ pc["game"] \notin {"start", "construct", "constructed"} => counter >= 1
  /\ LoginUncounted /\ LeaveUncounted => counter <= 1
  /\ LoginUncounted \/ LeaveUncounted => counter <= 2
  /\ pc["main"] = "increment" => id["main"] <= (IF LeaveUncounted THEN 1 ELSE 2)
  /\ pc["game"] = "increment" => id["game"] <= (IF LoginUncounted THEN 1 ELSE 2)
  /\ ~ LoginUnnumbered => id["main"] >= 1

NumberInv == AskedOnce /\ CounterInv

LEMMA NumberInit == Init => NumberInv
BY DEF Init, NumberInv, AskedOnce, CounterInv, Early, LoginUnnumbered, LeaveUnnumbered,
       LoginUncounted, LeaveUncounted

\* The steps that neither ask for the login nor number a call.
Numberless == UNCHANGED <<wantAuthentication, counter, id>>

LEMMA MainNumbers ==
  ASSUME PlacesTyped, Main, ~ Authenticate, ~ ForgeSendReply("main")
  PROVE  /\ Numberless
         /\ pc["main"] \notin {"number", "increment", "forge"}
         /\ pc'["main"] \notin {"number", "increment", "forge", "poll", "look"}
<1> USE DEF PlacesTyped, Goto, Numberless, flagVars, callVars
<1>1. CASE MainTop \/ ConnectFails \/ Connect \/ SetConnected \/ AwaitServerInfo
  BY <1>1 DEF MainTop, ConnectFails, Connect, SetConnected, AwaitServerInfo
<1>2. CASE LoginAnswered \/ FillFriends \/ FreeRefused \/ ClearRefused \/ Work
  BY <1>2 DEF LoginAnswered, FillFriends, FreeRefused, ClearRefused, Work
<1> QED BY <1>1, <1>2 DEF Main

LEMMA OthersNumber ==
  ASSUME Reader \/ Writer \/ Servers
  PROVE  Numberless
<1> USE DEF Numberless, flagVars, callVars
<1>1. CASE Reader
  BY <1>1 DEF Reader, ReaderTop, BeginRead, ReadNothing, ReadPacket, ReadFails, Undefined, HandleInfo,
     HandleReply, HandleSignalingInfos, HandleNote, QueueBasicEvent, SendBasicEvent
<1>2. CASE Writer
  BY <1>2 DEF Writer, WriterTop, BeginSend, Send, SendFails, Undefined
<1>3. CASE Servers
  BY <1>3 DEF Servers, Answer, Notify, HangUp, NotifyPSN, linkVars
<1> QED BY <1>1, <1>2, <1>3

LEMMA GameNumbers ==
  ASSUME PlacesTyped, GamePlays, ~ ForgeSendReply("game")
  PROVE  /\ Numberless
         /\ pc["game"] \notin {"number", "increment", "forge"} \union Early
         /\ pc'["game"] \notin {"increment", "forge"} \union Early
         /\ pc["game"] \in {"play", "request"} <=> pc'["game"] \in {"play", "request", "number"}
<1> USE DEF PlacesTyped, Goto, Numberless, flagVars, callVars, Early
<1>1. CASE RegisterHandler \/ \E p \in Peers : RememberRequest(p)
  BY <1>1 DEF RegisterHandler, RememberRequest
<1>2. CASE RequestSignalingInfos \/ CheckNPCallbacks \/ CheckPSNCallbacks \/ GetBasicEvent \/ Close
  BY <1>2 DEF RequestSignalingInfos, CheckNPCallbacks, CheckPSNCallbacks, GetBasicEvent, Close
<1>3. CASE Terminated
  BY <1>3 DEF Terminated
<1> QED BY <1>1, <1>2, <1>3 DEF GamePlays

\* The calls of ForgeSendReply: each numbers its request once.
LEMMA CallNumbers ==
  ASSUME PlacesTyped, NumberInv, NEW t \in Callers, ForgeSendReply(t)
  PROVE  NumberInv'
<1> USE DEF PlacesTyped, Goto, NumberInv, AskedOnce, flagVars, callVars, Early,
        LoginUnnumbered, LeaveUnnumbered, LoginUncounted, LeaveUncounted
<1>0. t \in {"main", "game"} /\ CounterInv /\ AskedOnce
  OBVIOUS
<1>1. CASE ReadCounter(t)
  BY <1>0, <1>1 DEF ReadCounter, CounterInv
<1>2. CASE WriteCounter(t)
  BY <1>0, <1>2 DEF WriteCounter, CounterInv
<1>3. CASE ForgeSend(t) \/ GetReply(t)
  BY <1>0, <1>3 DEF ForgeSend, GetReply, CounterInv
<1>4. CASE CheckForReply(t)
  BY <1>0, <1>4 DEF CheckForReply, CounterInv
<1> QED BY <1>1, <1>2, <1>3, <1>4 DEF ForgeSendReply

LEMMA NumberStep == ThreadsInv /\ NumberInv /\ [Next]_vars => NumberInv'
<1> SUFFICES ASSUME ThreadsInv, NumberInv, [Next]_vars PROVE NumberInv'
  OBVIOUS
<1>0. PlacesTyped /\ PlacesTyped' /\ AskedOnce /\ CounterInv
  BY ThreadsStep DEF ThreadsInv, NumberInv
<1> USE DEF NumberInv, AskedOnce, CounterInv, Early, LoginUnnumbered, LeaveUnnumbered,
        LoginUncounted, LeaveUncounted
<1>1. ASSUME NEW t \in Callers, ForgeSendReply(t) PROVE NumberInv'
  BY <1>0, <1>1, CallNumbers
<1>2. CASE Authenticate
  BY <1>0, <1>2 DEF Authenticate, Goto, PlacesTyped, callVars
<1>3. CASE Main /\ ~ Authenticate /\ ~ ForgeSendReply("main")
  BY <1>0, <1>3, MainNumbers, MainGoes DEF Numberless
<1>4. CASE Reader \/ Writer \/ Servers
  BY <1>0, <1>4, OthersNumber, ReaderGoes, WriterGoes, ServerGoes DEF Numberless
<1>5. CASE GamePlays /\ ~ ForgeSendReply("game")
  BY <1>0, <1>5, GameNumbers, GameGoes DEF Numberless
<1>6. CASE Initialise \/ StartThreads
  BY <1>0, <1>6 DEF Initialise, StartThreads, Goto, PlacesTyped, ThreadsInv, flagVars, callVars
<1>7. CASE Constructed
  <2>1. CASE ConstructReplies
    BY <1>0, <2>1 DEF ConstructReplies, Goto, PlacesTyped, flagVars
  <2>2. CASE AskConnection
    BY <1>0, <2>2 DEF AskConnection, Goto, PlacesTyped, callVars
  <2>3. CASE AskAuthentication
    <3>1. /\ UNCHANGED <<packets, batch, up, down, packet, counter, id, replies, answer>>
          /\ pc["game"] = "wanting" /\ pc' = [pc EXCEPT !["game"] = "play"]
          /\ wantAuthentication'
      BY <2>3 DEF AskAuthentication, Goto, callVars, linkVars, sendVars
    <3>2. pc'["game"] = "play" /\ \A t \in Threads \ {"game"} : pc'[t] = pc[t]
      BY <1>0, <3>1 DEF PlacesTyped
    <3>3. /\ LoginUnnumbered /\ LoginUnnumbered' /\ LeaveUnnumbered /\ LeaveUnnumbered'
          /\ LoginUncounted /\ LeaveUncounted
      BY <3>1, <3>2
    <3>4. AskedOnce'
      BY <1>0, <3>1, <3>2
    <3>5. CounterInv'
      BY <1>0, <3>1, <3>2, <3>3
    <3> QED BY <3>4, <3>5
  <2> QED BY <1>7, <2>1, <2>2, <2>3 DEF Constructed
<1>8. CASE JoinAndDisconnect \/ DeleteObjects
  BY <1>0, <1>8 DEF JoinAndDisconnect, DeleteObjects, Goto, PlacesTyped, flagVars, callVars
<1>9. CASE UNCHANGED vars
  BY <1>9 DEF vars, flagVars, callVars
<1> QED BY <1>1, <1>2, <1>3, <1>4, <1>5, <1>6, <1>7, <1>8, <1>9, Steps

-----------------------------------------------------------------------------
(* Messages on their way.                                                  *)

Messages == {Info, Note} \union AnswersTo(Requests)
IsReply(m) == m.type = "reply"

\* The request a reply answers.
Asked(m) == Request(m.id, m.cmd)

\* What a queue of requests holds, and the requests that a queue of messages
\* answers; and that each is there once.
In(s) == {s[i] : i \in DOMAIN s}
Once(s) == \A i, j \in DOMAIN s : s[i] = s[j] => i = j
Replied(s) == {Asked(s[i]) : i \in {k \in DOMAIN s : IsReply(s[k])}}
RepliedOnce(s) ==
  \A i, j \in DOMAIN s : IsReply(s[i]) /\ IsReply(s[j]) /\ Asked(s[i]) = Asked(s[j]) => i = j
AskedBy(m) == IF IsReply(m) THEN {Asked(m)} ELSE {}
Notes(s) == {i \in DOMAIN s : s[i] = Note}

LEMMA SeqElements ==
  ASSUME NEW S, NEW s \in Seq(S)
  PROVE  Len(s) \in Nat /\ DOMAIN s = 1 .. Len(s) /\ \A i \in 1 .. Len(s) : s[i] \in S
<1>1. Len(s) \in Nat /\ DOMAIN s = 1 .. Len(s)
  BY LenProperties
<1>2. \A i \in 1 .. Len(s) : s[i] \in S
  BY ElementOfSeq
<1> QED BY <1>1, <1>2

LEMMA AppendElements ==
  ASSUME NEW S, NEW s \in Seq(S), NEW e \in S
  PROVE  /\ Append(s, e) \in Seq(S) /\ Len(s) \in Nat
         /\ DOMAIN s = 1 .. Len(s) /\ DOMAIN Append(s, e) = 1 .. Len(s) + 1
         /\ \A i \in 1 .. Len(s) : Append(s, e)[i] = s[i]
         /\ Append(s, e)[Len(s) + 1] = e
<1>1. Append(s, e) \in Seq(S) /\ Len(Append(s, e)) = Len(s) + 1
  BY AppendProperties
<1>2. /\ \A i \in 1 .. Len(s) : Append(s, e)[i] = s[i]
      /\ Append(s, e)[Len(s) + 1] = e
  BY AppendProperties
<1>3. DOMAIN Append(s, e) = 1 .. Len(Append(s, e))
  BY <1>1, SeqElements
<1> QED BY <1>1, <1>2, <1>3, SeqElements

LEMMA TailElements ==
  ASSUME NEW S, NEW s \in Seq(S), s # <<>>
  PROVE  /\ Head(s) \in S /\ Tail(s) \in Seq(S) /\ Len(s) \in Nat \ {0}
         /\ DOMAIN s = 1 .. Len(s) /\ DOMAIN Tail(s) = 1 .. Len(s) - 1
         /\ \A i \in 1 .. Len(s) - 1 : Tail(s)[i] = s[i + 1]
         /\ s[1] = Head(s)
<1>1. /\ Head(s) \in S /\ Tail(s) \in Seq(S) /\ Len(Tail(s)) = Len(s) - 1
      /\ \A i \in 1 .. Len(Tail(s)) : Tail(s)[i] = s[i + 1]
  BY HeadTailProperties
<1>2. Head(s) = s[1] /\ Len(s) # 0
  BY EmptySeq
<1>3. DOMAIN Tail(s) = 1 .. Len(Tail(s))
  BY <1>1, SeqElements
<1> QED BY <1>1, <1>2, <1>3, SeqElements

LEMMA AppendIn ==
  ASSUME NEW S, NEW s \in Seq(S), NEW e \in S
  PROVE  /\ Append(s, e) \in Seq(S) /\ In(Append(s, e)) = In(s) \union {e}
         /\ Once(s) /\ e \notin In(s) => Once(Append(s, e))
<1> DEFINE p == Append(s, e)
<1>1. /\ p \in Seq(S) /\ Len(s) \in Nat /\ DOMAIN s = 1 .. Len(s) /\ DOMAIN p = 1 .. Len(s) + 1
      /\ \A i \in 1 .. Len(s) : p[i] = s[i]
      /\ p[Len(s) + 1] = e
  BY AppendElements
<1>2. \A i \in DOMAIN p : i \in DOMAIN s \/ i = Len(s) + 1
  BY <1>1
<1> HIDE DEF p
<1>3. In(p) = In(s) \union {e}
  BY <1>1, <1>2 DEF In
<1>4. Once(s) /\ e \notin In(s) => Once(p)
  BY <1>1, <1>2 DEF In, Once
<1> QED BY <1>1, <1>3, <1>4 DEF p

LEMMA TailIn ==
  ASSUME NEW S, NEW s \in Seq(S), s # <<>>
  PROVE  /\ Head(s) \in S /\ Tail(s) \in Seq(S) /\ In(s) = In(Tail(s)) \union {Head(s)}
         /\ Once(s) => Once(Tail(s)) /\ Head(s) \notin In(Tail(s))
<1> DEFINE p == Tail(s)
<1>1. /\ Head(s) \in S /\ p \in Seq(S) /\ Len(s) \in Nat \ {0}
      /\ DOMAIN s = 1 .. Len(s) /\ DOMAIN p = 1 .. Len(s) - 1
      /\ \A i \in 1 .. Len(s) - 1 : p[i] = s[i + 1]
      /\ s[1] = Head(s)
  BY TailElements
<1>2. \A i \in DOMAIN s : i = 1 \/ (i - 1 \in DOMAIN p /\ p[i - 1] = s[i])
  BY <1>1
<1>3. \A i \in DOMAIN p : i + 1 \in DOMAIN s /\ i + 1 # 1 /\ p[i] = s[i + 1]
  BY <1>1
<1> HIDE DEF p
<1>4. In(s) = In(p) \union {Head(s)}
  <2>1. Head(s) \in In(s)
    BY <1>1 DEF In
  <2>2. In(s) \subseteq In(p) \union {Head(s)}
    BY <1>1, <1>2 DEF In
  <2>3. In(p) \subseteq In(s)
    BY <1>1, <1>3 DEF In
  <2> QED BY <2>1, <2>2, <2>3
<1>5. ASSUME Once(s) PROVE Once(p) /\ Head(s) \notin In(p)
  <2>1. Once(p)
    BY <1>1, <1>3, <1>5 DEF Once
  <2>2. Head(s) \notin In(p)
    BY <1>1, <1>3, <1>5 DEF Once, In
  <2> QED BY <2>1, <2>2
<1> QED BY <1>1, <1>4, <1>5 DEF p

LEMMA AppendReplied ==
  ASSUME NEW S, NEW s \in Seq(S), NEW e \in S
  PROVE  /\ Append(s, e) \in Seq(S) /\ Replied(Append(s, e)) = Replied(s) \union AskedBy(e)
         /\ RepliedOnce(s) /\ Replied(s) \intersect AskedBy(e) = {} => RepliedOnce(Append(s, e))
<1> DEFINE p == Append(s, e)
<1>1. /\ p \in Seq(S) /\ Len(s) \in Nat /\ DOMAIN s = 1 .. Len(s) /\ DOMAIN p = 1 .. Len(s) + 1
      /\ \A i \in 1 .. Len(s) : p[i] = s[i]
      /\ p[Len(s) + 1] = e
  BY AppendElements
<1>2. \A i \in DOMAIN p : i \in DOMAIN s \/ i = Len(s) + 1
  BY <1>1
<1> HIDE DEF p
<1>3. Replied(p) = Replied(s) \union AskedBy(e)
  <2>1. Replied(p) \subseteq Replied(s) \union AskedBy(e)
    BY <1>1, <1>2 DEF Replied, AskedBy
  <2>2. Replied(s) \subseteq Replied(p)
    BY <1>1 DEF Replied
  <2>3. AskedBy(e) \subseteq Replied(p)
    BY <1>1 DEF Replied, AskedBy
  <2> QED BY <2>1, <2>2, <2>3
<1>4. ASSUME RepliedOnce(s), Replied(s) \intersect AskedBy(e) = {} PROVE RepliedOnce(p)
  <2>1. \A i \in DOMAIN s : IsReply(s[i]) /\ IsReply(e) => Asked(s[i]) # Asked(e)
    BY <1>4 DEF Replied, AskedBy
  <2> QED BY <1>1, <1>2, <1>4, <2>1 DEF RepliedOnce
<1> QED BY <1>1, <1>3, <1>4 DEF p

LEMMA TailReplied ==
  ASSUME NEW S, NEW s \in Seq(S), s # <<>>
  PROVE  /\ Head(s) \in S /\ Tail(s) \in Seq(S)
         /\ Replied(s) = Replied(Tail(s)) \union AskedBy(Head(s))
         /\ RepliedOnce(s) => /\ RepliedOnce(Tail(s))
                              /\ Replied(Tail(s)) \intersect AskedBy(Head(s)) = {}
<1> DEFINE p == Tail(s)
<1>1. /\ Head(s) \in S /\ p \in Seq(S) /\ Len(s) \in Nat \ {0}
      /\ DOMAIN s = 1 .. Len(s) /\ DOMAIN p = 1 .. Len(s) - 1
      /\ \A i \in 1 .. Len(s) - 1 : p[i] = s[i + 1]
      /\ s[1] = Head(s)
  BY TailElements
<1>2. \A i \in DOMAIN s : i = 1 \/ (i - 1 \in DOMAIN p /\ p[i - 1] = s[i])
  BY <1>1
<1>3. \A i \in DOMAIN p : i + 1 \in DOMAIN s /\ i + 1 # 1 /\ p[i] = s[i + 1]
  BY <1>1
<1> HIDE DEF p
<1>4. Replied(s) = Replied(p) \union AskedBy(Head(s))
  <2>1. AskedBy(Head(s)) \subseteq Replied(s)
    BY <1>1 DEF Replied, AskedBy
  <2>2. ASSUME NEW x \in Replied(s) PROVE x \in Replied(p) \union AskedBy(Head(s))
    <3>1. PICK i \in DOMAIN s : x \in AskedBy(s[i])
      BY <2>2 DEF Replied, AskedBy
    <3>2. CASE i = 1
      BY <1>1, <3>1, <3>2
    <3>3. CASE i - 1 \in DOMAIN p /\ p[i - 1] = s[i]
      BY <3>1, <3>3 DEF Replied, AskedBy
    <3> QED BY <1>2, <3>2, <3>3
  <2>3. Replied(p) \subseteq Replied(s)
    BY <1>1, <1>3 DEF Replied
  <2> QED BY <2>1, <2>2, <2>3
<1>5. ASSUME RepliedOnce(s) PROVE RepliedOnce(p) /\ Replied(p) \intersect AskedBy(Head(s)) = {}
  <2>1. RepliedOnce(p)
    BY <1>1, <1>3, <1>5 DEF RepliedOnce
  <2>2. \A i \in DOMAIN p : IsReply(p[i]) /\ IsReply(Head(s)) => Asked(p[i]) # Asked(Head(s))
    BY <1>1, <1>3, <1>5 DEF RepliedOnce
  <2> QED BY <2>1, <2>2 DEF Replied, AskedBy
<1> QED BY <1>1, <1>4, <1>5 DEF p

LEMMA NotesFinite ==
  ASSUME NEW S, NEW s \in Seq(S)
  PROVE  IsFiniteSet(Notes(s)) /\ Cardinality(Notes(s)) \in Nat
<1>1. 1 \in Int /\ Len(s) \in Int /\ Notes(s) \subseteq 1 .. Len(s)
  BY SeqElements DEF Notes
<1>2. IsFiniteSet(1 .. Len(s))
  BY <1>1, FS_Interval, Zenon
<1> QED BY <1>1, <1>2, FS_Subset, FS_CardinalityType

LEMMA AppendNotes ==
  ASSUME NEW S, NEW s \in Seq(S), NEW e \in S
  PROVE  /\ e # Note => Notes(Append(s, e)) = Notes(s)
         /\ e = Note => Cardinality(Notes(Append(s, e))) = Cardinality(Notes(s)) + 1
<1> DEFINE p == Append(s, e)
           n == Len(s) + 1
<1>1. /\ Len(s) \in Nat /\ DOMAIN s = 1 .. Len(s) /\ DOMAIN p = 1 .. Len(s) + 1
      /\ \A i \in 1 .. Len(s) : p[i] = s[i]
      /\ p[Len(s) + 1] = e
  BY AppendElements
<1>2. /\ n \notin DOMAIN s /\ DOMAIN p = DOMAIN s \union {n} /\ p[n] = e
      /\ \A i \in DOMAIN s : p[i] = s[i]
  BY <1>1
<1> HIDE DEF p, n
<1>3. e # Note => Notes(p) = Notes(s)
  BY <1>2 DEF Notes
<1>4. e = Note => Notes(p) = Notes(s) \union {n} /\ n \notin Notes(s)
  BY <1>2 DEF Notes
<1>5. IsFiniteSet(Notes(s))
  BY NotesFinite
<1>6. n \notin Notes(s) => Cardinality(Notes(s) \union {n}) = Cardinality(Notes(s)) + 1
  BY <1>5, FS_AddElement
<1> QED BY <1>3, <1>4, <1>6 DEF p

LEMMA TailNotes ==
  ASSUME NEW S, NEW s \in Seq(S), s # <<>>
  PROVE  /\ Cardinality(Notes(s)) = Cardinality(Notes(Tail(s))) + (IF Head(s) = Note THEN 1 ELSE 0)
         /\ Notes(s) = {} => Notes(Tail(s)) = {} /\ Head(s) # Note
<1> DEFINE p == Tail(s)
           T == Notes(s) \ {1}
           f == [i \in Notes(p) |-> i + 1]
<1>1. /\ p \in Seq(S) /\ Len(s) \in Nat \ {0}
      /\ DOMAIN s = 1 .. Len(s) /\ DOMAIN p = 1 .. Len(s) - 1
      /\ \A i \in 1 .. Len(s) - 1 : p[i] = s[i + 1]
      /\ s[1] = Head(s)
  BY TailElements
<1>2. \A i \in DOMAIN s : i = 1 \/ (i - 1 \in DOMAIN p /\ p[i - 1] = s[i] /\ (i - 1) + 1 = i)
  BY <1>1
<1>3. \A i \in DOMAIN p : i + 1 \in DOMAIN s /\ i + 1 # 1 /\ p[i] = s[i + 1]
  BY <1>1
<1>i. \A i, j \in DOMAIN p : i + 1 = j + 1 => i = j
  BY <1>1
<1> HIDE DEF p
<1>4. f \in [Notes(p) -> T]
  BY <1>3 DEF Notes
<1>5. \A i, j \in Notes(p) : f[i] = f[j] => i = j
  BY <1>i DEF Notes
<1>6. ASSUME NEW t \in T PROVE \E i \in Notes(p) : f[i] = t
  <2>1. t - 1 \in Notes(p) /\ (t - 1) + 1 = t
    BY <1>2 DEF Notes
  <2> QED BY <2>1
<1>7. ExistsBijection(Notes(p), T)
  <2> HIDE DEF f, T
  <2>0. f \in Surjection(Notes(p), T)
    BY <1>4, <1>6, Zenon DEF Surjection
  <2>1. f \in Injection(Notes(p), T)
    BY <1>4, <1>5, Zenon DEF Injection, IsInjective
  <2> QED BY <2>0, <2>1 DEF ExistsBijection, Bijection
<1>8. IsFiniteSet(Notes(p)) /\ Cardinality(Notes(p)) \in Nat
  BY <1>1, NotesFinite
<1> HIDE DEF f, T
<1>9. Cardinality(T) = Cardinality(Notes(p)) /\ IsFiniteSet(T)
  BY <1>7, <1>8, FS_Bijection
<1>10. CASE Head(s) = Note
  <2>1. Notes(s) = T \union {1} /\ 1 \notin T
    BY <1>1, <1>10 DEF T, Notes
  <2>2. Cardinality(T \union {1}) = Cardinality(T) + 1
    BY <1>9, <2>1, FS_AddElement
  <2> QED BY <1>8, <1>9, <1>10, <2>1, <2>2 DEF p
<1>11. CASE Head(s) # Note
  <2>1. Notes(s) = T
    BY <1>1, <1>11 DEF T, Notes
  <2>2. T = {} => Notes(p) = {}
    BY <1>4
  <2> QED BY <1>8, <1>9, <1>11, <2>1, <2>2 DEF p
<1> QED BY <1>10, <1>11

-----------------------------------------------------------------------------
(* What is decided stays decided.                                          *)

\* The login has no answer yet.
LoginWaits == LoginUnsent \/ pc["main"] \in {"poll", "look"}

\* A call that has its number keeps it, and one that is sent is not sent again.
Settled ==
  /\ LoginWaits' => LoginWaits
  /\ LoginUnsent' => LoginUnsent
  /\ LeaveUnsent' => LeaveUnsent
  /\ ~ LoginUnnumbered => ~ LoginUnnumbered' /\ id'["main"] = id["main"]
  /\ ~ LeaveUnnumbered => ~ LeaveUnnumbered' /\ id'["game"] = id["game"]

LEMMA CallSettled ==
  ASSUME ThreadsInv, NumberInv, NEW t \in Callers, ForgeSendReply(t)
  PROVE  Settled
<1> USE DEF Settled, LoginWaits, LoginUnsent, LeaveUnsent, LoginUncounted, LeaveUncounted,
        LoginUnnumbered, LeaveUnnumbered, Early, Goto, flagVars, callVars
<1>0. t \in {"main", "game"} /\ PlacesTyped /\ AskedOnce /\ CounterInv
  BY DEF ThreadsInv, NumberInv
<1>1. CASE ReadCounter(t) \/ WriteCounter(t)
  BY <1>0, <1>1 DEF ReadCounter, WriteCounter, AskedOnce, CounterInv, PlacesTyped
<1>2. CASE ForgeSend(t) \/ GetReply(t)
  BY <1>0, <1>2 DEF ForgeSend, GetReply, PlacesTyped
<1>3. CASE CheckForReply(t)
  BY <1>0, <1>3 DEF CheckForReply, PlacesTyped
<1> QED BY <1>1, <1>2, <1>3 DEF ForgeSendReply

LEMMA StepSettled ==
  ASSUME ThreadsInv, NumberInv, [Next]_vars
  PROVE  Settled
<1>0. PlacesTyped /\ AskedOnce /\ CounterInv
  BY DEF ThreadsInv, NumberInv
<1> USE DEF Settled, LoginWaits, LoginUnsent, LeaveUnsent, LoginUncounted, LeaveUncounted,
        LoginUnnumbered, LeaveUnnumbered, Early
<1>1. ASSUME NEW t \in Callers, ForgeSendReply(t) PROVE Settled
  BY <1>1, CallSettled
<1>2. CASE Authenticate
  BY <1>0, <1>2 DEF Authenticate, Goto, PlacesTyped, AskedOnce, callVars
<1>3. CASE Main /\ ~ Authenticate /\ ~ ForgeSendReply("main")
  BY <1>0, <1>3, MainNumbers, MainGoes DEF Numberless
<1>4. CASE Reader \/ Writer \/ Servers
  BY <1>0, <1>4, OthersNumber, ReaderGoes, WriterGoes, ServerGoes DEF Numberless
<1>5. CASE GamePlays /\ ~ ForgeSendReply("game")
  BY <1>0, <1>5, GameNumbers, GameGoes DEF Numberless
<1>6. CASE Initialise \/ StartThreads
  BY <1>0, <1>6 DEF Initialise, StartThreads, Goto, PlacesTyped, ThreadsInv, flagVars, callVars
<1>7. CASE Constructed
  BY <1>0, <1>7 DEF Constructed, ConstructReplies, AskConnection, AskAuthentication, Goto, PlacesTyped,
     flagVars, callVars
<1>8. CASE JoinAndDisconnect \/ DeleteObjects
  BY <1>0, <1>8 DEF JoinAndDisconnect, DeleteObjects, Goto, PlacesTyped, flagVars, callVars
<1>9. CASE UNCHANGED vars
  BY <1>9 DEF vars, flagVars, callVars
<1> QED BY <1>1, <1>2, <1>3, <1>4, <1>5, <1>6, <1>7, <1>8, <1>9, Steps

-----------------------------------------------------------------------------
(* The way of a request: queued, in the writer's batch, with the server,   *)
(* answered, in the reader's hand, kept for the call.                      *)

Unanswered == In(packets) \union In(batch) \union up
InTransit == Unanswered \union Replied(down) \union AskedBy(packet)
RequestIDs == {s.id : s \in requests}
Answers == {answer[t] : t \in Callers} \ {None}

FlowTyped ==
  /\ packets \in Seq(Requests) /\ batch \in Seq(Requests) /\ up \in SUBSET Requests
  /\ down \in Seq(Messages) /\ packet \in Messages \union {None}
  /\ replies \in SUBSET AnswersTo(Requests)
  /\ answer \in [Callers -> AnswersTo(Requests) \union {None}]
  /\ pc["writer"] \in {"check", "wolf"} => batch # <<>>

\* A request is in one place, once.
Separate(P, B, U, D, H) ==
  /\ P \intersect (B \union U \union D \union H) = {}
  /\ B \intersect (U \union D \union H) = {}
  /\ U \intersect (D \union H) = {}
  /\ D \intersect H = {}

OnceInv ==
  /\ Once(packets) /\ Once(batch) /\ RepliedOnce(down)
  /\ Separate(In(packets), In(batch), up, Replied(down), AskedBy(packet))

\* It is the login, the leave-taking or one for a peer whose entry waits in
\* SignalingRequests.
Own(q) ==
  \/ q.cmd = "login" /\ q.id = CallID(id["main"]) /\ ~ LoginUnsent
  \/ q.cmd = "terminate" /\ q.id = CallID(id["game"]) /\ ~ LeaveUnsent

Expected(q) == q.cmd = "siginfo" /\ q.id \in RequestIDs

OwnInv ==
  /\ \A q \in InTransit : Own(q) \/ Expected(q)
  /\ \A r \in replies \union Answers : Own(r)
  /\ \A t \in Callers : answer[t] # None => answer[t].id = CallID(id[t])
  /\ LoginWaits => answer["main"] = None
  /\ LeaveUnsent => answer["game"] = None

\* The entries of SignalingRequests; the one about to be asked for is new.
AskedInv ==
  /\ asked \in SUBSET Peers
  /\ \A s \in requests : s.peer \in asked /\ \E n \in 1 .. Cardinality(asked) : s.id = PeerID(n)
  /\ pc["game"] = "request" =>
       /\ PeerID(Cardinality(asked)) \in RequestIDs
       /\ Cardinality(asked) \in 1 .. Cardinality(Peers)
       /\ Request(PeerID(Cardinality(asked)), "siginfo") \notin InTransit

FlowInv == FlowTyped /\ OnceInv /\ OwnInv /\ AskedInv

LEMMA IDsApart ==
  ASSUME NEW m \in Nat, NEW n \in Nat
  PROVE  /\ PeerID(m) = PeerID(n) => m = n
         /\ CallID(m) = CallID(n) => m = n
         /\ PeerID(m) # CallID(n)
BY DEF PeerID, CallID

LEMMA MessageKinds ==
  /\ ~ IsReply(Info) /\ ~ IsReply(Note) /\ ~ IsReply(None)
  /\ AskedBy(Info) = {} /\ AskedBy(Note) = {} /\ AskedBy(None) = {}
  /\ Info # Note /\ None # Note
  /\ \A q \in Requests, ok \in BOOLEAN :
       /\ Reply(q, ok) \in AnswersTo(Requests) /\ Reply(q, ok) \in Messages
       /\ Reply(q, ok) # Note /\ Reply(q, ok) # None
       /\ Asked(Reply(q, ok)) = q /\ AskedBy(Reply(q, ok)) = {q}
<1>1. /\ Info.type = "info" /\ Note.type = "note" /\ None.type = "none"
  BY DEF Info, Note, None
<1>2. ASSUME NEW q \in Requests, NEW ok \in BOOLEAN
      PROVE  /\ Reply(q, ok) \in AnswersTo(Requests) /\ Reply(q, ok).type = "reply"
             /\ Asked(Reply(q, ok)) = q
  <2>1. q = Request(q.id, q.cmd)
    BY DEF Requests, Request
  <2>2. Reply(q, ok).id = q.id /\ Reply(q, ok).cmd = q.cmd /\ Reply(q, ok).type = "reply"
    BY DEF Reply
  <2> QED BY <2>1, <2>2 DEF Asked, AnswersTo
<1> QED BY <1>1, <1>2 DEF IsReply, AskedBy, Messages

LEMMA RequestKinds ==
  /\ \A t \in Callers : \A n \in 0 .. 3 : Request(CallID(n), Command(t)) \in Requests
  /\ \A n \in 1 .. Cardinality(Peers) : Request(PeerID(n), "siginfo") \in Requests
  /\ \A i, c : Request(i, c).id = i /\ Request(i, c).cmd = c
  /\ \A q \in Requests : q = Request(q.id, q.cmd)
<1>1. \A t \in Callers : \A n \in 0 .. 3 : Request(CallID(n), Command(t)) \in Requests
  BY DEF Requests, CallIDs
<1>2. \A n \in 1 .. Cardinality(Peers) : Request(PeerID(n), "siginfo") \in Requests
  BY DEF Requests, PeerIDs
<1>3. \A q \in Requests : q = Request(q.id, q.cmd)
  BY DEF Requests, Request
<1> QED BY <1>1, <1>2, <1>3 DEF Request

LEMMA ReplyKinds ==
  ASSUME NEW r \in AnswersTo(Requests)
  PROVE  /\ IsReply(r) /\ Asked(r) \in Requests /\ AskedBy(r) = {Asked(r)} /\ r # None /\ r # Note
         /\ Asked(r).id = r.id /\ Asked(r).cmd = r.cmd
<1>1. PICK q \in Requests, ok \in BOOLEAN : r = Reply(q, ok)
  BY DEF AnswersTo
<1>2. r.type = "reply"
  BY <1>1 DEF Reply
<1> QED BY <1>1, <1>2, MessageKinds, RequestKinds DEF IsReply, Asked

LEMMA TransitTyped ==
  ASSUME FlowTyped
  PROVE  InTransit \subseteq Requests
<1>1. In(packets) \subseteq Requests /\ In(batch) \subseteq Requests
  BY SeqElements DEF FlowTyped, In
<1>2. \A m \in Messages \union {None} : IsReply(m) => Asked(m) \in Requests
  BY MessageKinds, ReplyKinds DEF Messages
<1>3. Replied(down) \subseteq Requests
  <2>1. \A i \in DOMAIN down : down[i] \in Messages
    BY SeqElements DEF FlowTyped
  <2> QED BY <1>2, <2>1 DEF Replied
<1>4. AskedBy(packet) \subseteq Requests
  BY <1>2 DEF FlowTyped, AskedBy
<1> QED BY <1>1, <1>3, <1>4 DEF FlowTyped, InTransit, Unanswered

LEMMA EmptyHolds ==
  /\ In(<<>>) = {} /\ Once(<<>>)
  /\ Replied(<<>>) = {} /\ RepliedOnce(<<>>) /\ Notes(<<>>) = {}
  /\ \A S : <<>> \in Seq(S)
BY DEF In, Once, Replied, RepliedOnce, Notes

LEMMA OwnSettled ==
  ASSUME ThreadsInv, NumberInv, [Next]_vars
  PROVE  \A q : Own(q) => Own(q)'
BY StepSettled DEF Settled, Own, LoginUnsent, LeaveUnsent, LoginUncounted, LeaveUncounted

\* Where nothing new is on its way and no answer is handed out.
LEMMA OwnCarried ==
  ASSUME ThreadsInv, NumberInv, FlowInv, [Next]_vars,
         InTransit' \subseteq InTransit, RequestIDs \subseteq RequestIDs',
         replies' \subseteq replies, answer' = answer
  PROVE  OwnInv'
<1>1. \A q : Own(q) => Own(q)'
  BY OwnSettled
<1>2. Settled
  BY StepSettled
<1>3. \A q \in InTransit' : Own(q)' \/ Expected(q)'
  BY <1>1 DEF FlowInv, OwnInv, Expected
<1>4. \A r \in (replies \union Answers)' : Own(r)'
  BY <1>1 DEF FlowInv, OwnInv, Answers
<1>5. \A t \in Callers : answer'[t] # None => answer'[t].id = CallID(id'[t])
  BY <1>2 DEF FlowInv, OwnInv, Settled, LoginWaits, LoginUnsent, LeaveUnsent, LoginUncounted, LeaveUncounted
<1> QED BY <1>2, <1>3, <1>4, <1>5 DEF FlowInv, OwnInv, Settled

LEMMA AskedCarried ==
  ASSUME AskedInv, InTransit' \subseteq InTransit, UNCHANGED gameVars,
         pc'["game"] = "request" => pc["game"] = "request"
  PROVE  AskedInv'
BY DEF AskedInv, RequestIDs, gameVars

LEMMA SeparateCarried ==
  ASSUME FlowInv,
         Once(packets'), Once(batch'), RepliedOnce(down'),
         In(packets') \subseteq In(packets), In(batch') \subseteq In(batch), up' \subseteq up,
         Replied(down') \subseteq Replied(down), AskedBy(packet') \subseteq AskedBy(packet)
  PROVE  OnceInv' /\ InTransit' \subseteq InTransit /\ Unanswered' \subseteq Unanswered
BY DEF FlowInv, OnceInv, Separate, InTransit, Unanswered

-----------------------------------------------------------------------------
(* The steps of the way.                                                   *)

LEMMA WriterTakes ==
  ASSUME ThreadsInv, FlowInv, Writer
  PROVE  /\ FlowTyped' /\ OnceInv' /\ InTransit' \subseteq InTransit /\ Unanswered' \subseteq Unanswered
         /\ UNCHANGED <<replies, answer, gameVars>>
<1> USE DEF FlowInv, FlowTyped, OnceInv, InTransit, Unanswered
<1>0. PlacesTyped
  BY DEF ThreadsInv
<1>1. CASE WriterTop
  <2>1. /\ UNCHANGED <<up, down, packet, replies, answer, gameVars>>
        /\ \/ UNCHANGED sendVars /\ pc'["writer"] = "left"
           \/ packets # <<>> /\ batch' = packets /\ packets' = <<>>
    BY <1>0, <1>1 DEF WriterTop, Goto, PlacesTyped, linkVars, callVars
  <2>2. CASE UNCHANGED sendVars /\ pc'["writer"] = "left"
    BY <2>1, <2>2 DEF sendVars
  <2>3. CASE packets # <<>> /\ batch' = packets /\ packets' = <<>>
    <3>1. FlowTyped'
      BY <2>1, <2>3
    <3>2. OnceInv' /\ InTransit' \subseteq InTransit /\ Unanswered' \subseteq Unanswered
      BY <2>1, <2>3, EmptyHolds DEF Separate
    <3> QED BY <2>1, <3>1, <3>2
  <2> QED BY <2>1, <2>2, <2>3
<1>2. CASE BeginSend \/ SendFails \/ Undefined("writer")
  <2>1. /\ UNCHANGED <<packets, up, down, packet, replies, answer, gameVars>>
        /\ \/ batch' = batch /\ pc["writer"] \in {"check", "wolf"}
           \/ batch' = <<>> /\ pc'["writer"] = "left"
    BY <1>0, <1>2 DEF BeginSend, SendFails, Undefined, Goto, PlacesTyped, linkVars, callVars, sendVars
  <2>2. In(batch') \subseteq In(batch) /\ Once(batch')
    BY <2>1, EmptyHolds
  <2>3. FlowTyped'
    <3>1. batch' \in Seq(Requests) /\ (pc'["writer"] \in {"check", "wolf"} => batch' # <<>>)
      BY <2>1, EmptyHolds
    <3> QED BY <2>1, <3>1
  <2>4. OnceInv' /\ InTransit' \subseteq InTransit /\ Unanswered' \subseteq Unanswered
    BY <2>1, <2>2, SeparateCarried
  <2> QED BY <2>1, <2>3, <2>4
<1>3. CASE Send
  <2>1. /\ UNCHANGED <<packets, down, packet, replies, answer, gameVars>>
        /\ up' = up \union {Head(batch)} /\ batch' = Tail(batch)
        /\ pc["writer"] = "wolf" /\ pc'["writer"] = (IF Len(batch) = 1 THEN "top" ELSE "check")
    BY <1>0, <1>3 DEF Send, Goto, PlacesTyped, linkVars, callVars, sendVars
  <2>2. /\ Head(batch) \in Requests /\ Tail(batch) \in Seq(Requests)
        /\ In(batch) = In(Tail(batch)) \union {Head(batch)}
        /\ Once(Tail(batch)) /\ Head(batch) \notin In(Tail(batch))
    BY <2>1, TailIn
  <2>3. pc'["writer"] \in {"check", "wolf"} => Tail(batch) # <<>>
    <3>1. batch # <<>>
      BY <2>1
    <3>2. Len(Tail(batch)) = Len(batch) - 1 /\ Len(batch) \in Nat
      BY <3>1, HeadTailProperties, LenProperties
    <3>3. Len(batch) # 1 => Len(Tail(batch)) # 0
      BY <3>2
    <3> QED BY <2>1, <3>3, EmptySeq
  <2>4. FlowTyped'
    BY <2>1, <2>2, <2>3
  <2>5. OnceInv' /\ InTransit' \subseteq InTransit /\ Unanswered' \subseteq Unanswered
    BY <2>1, <2>2 DEF Separate
  <2> QED BY <2>1, <2>4, <2>5
<1> QED BY <1>1, <1>2, <1>3 DEF Writer

\* The connection ends or begins, and what was on its way is lost.
LEMMA LinkLoses ==
  ASSUME ThreadsInv, FlowInv, Connect \/ FreeRefused \/ JoinAndDisconnect
  PROVE  /\ FlowTyped' /\ OnceInv' /\ InTransit' \subseteq InTransit /\ Unanswered' \subseteq Unanswered
         /\ UNCHANGED <<replies, answer, gameVars>>
         /\ pc'["game"] = "request" => pc["game"] = "request"
<1>1. /\ UNCHANGED <<sendVars, packet, replies, answer, gameVars>>
      /\ up' \subseteq up /\ down' \in {<<>>, <<Info>>}
      /\ pc'["game"] = "request" => pc["game"] = "request"
      /\ pc'["writer"] = pc["writer"]
  BY DEF Connect, FreeRefused, JoinAndDisconnect, Free, Goto, ThreadsInv, PlacesTyped, linkVars, callVars
<1>2. Replied(<<Info>>) = {} /\ RepliedOnce(<<Info>>) /\ <<Info>> \in Seq(Messages)
  <2>1. Info \in Messages /\ ~ IsReply(Info)
    BY MessageKinds DEF Messages
  <2>2. DOMAIN <<Info>> = {1} /\ <<Info>>[1] = Info
    OBVIOUS
  <2> QED BY <2>1, <2>2 DEF Replied, RepliedOnce
<1>3. Replied(down') = {} /\ RepliedOnce(down') /\ down' \in Seq(Messages)
  BY <1>1, <1>2, EmptyHolds
<1>4. FlowTyped'
  BY <1>1, <1>3 DEF FlowInv, FlowTyped, sendVars
<1>5. OnceInv' /\ InTransit' \subseteq InTransit /\ Unanswered' \subseteq Unanswered
  <2>1. Once(packets') /\ Once(batch')
    BY <1>1 DEF FlowInv, OnceInv, sendVars
  <2>2. In(packets') \subseteq In(packets) /\ In(batch') \subseteq In(batch)
    BY <1>1 DEF sendVars
  <2> QED BY <1>1, <1>3, <2>1, <2>2, SeparateCarried
<1> QED BY <1>1, <1>4, <1>5

LEMMA ServerAnswers ==
  ASSUME ThreadsInv, FlowInv, Servers
  PROVE  /\ FlowTyped' /\ OnceInv' /\ InTransit' \subseteq InTransit /\ Unanswered' \subseteq Unanswered
         /\ UNCHANGED <<pc, replies, answer, gameVars>>
<1> USE DEF FlowInv
<1>1. ASSUME NEW q \in up, NEW ok \in BOOLEAN, Answer(q, ok)
      PROVE  /\ FlowTyped' /\ OnceInv' /\ InTransit' \subseteq InTransit /\ Unanswered' \subseteq Unanswered
         /\ UNCHANGED <<pc, replies, answer, gameVars>>
  <2>1. /\ UNCHANGED <<pc, sendVars, packet, replies, answer, gameVars>>
        /\ up' = up \ {q} /\ down' = Append(down, Reply(q, ok))
    BY <1>1 DEF Answer, callVars
  <2>2. q \in Requests /\ Reply(q, ok) \in Messages /\ AskedBy(Reply(q, ok)) = {q}
    BY MessageKinds DEF FlowTyped
  <2>3. Replied(down) \intersect AskedBy(Reply(q, ok)) = {}
    BY <2>2 DEF OnceInv, Separate
  <2>4. down' \in Seq(Messages) /\ Replied(down') = Replied(down) \union {q} /\ RepliedOnce(down')
    <3>1. down \in Seq(Messages) /\ RepliedOnce(down)
      BY DEF FlowTyped, OnceInv
    <3>2. \A m \in Messages : Replied(down) \intersect AskedBy(m) = {} =>
            /\ Append(down, m) \in Seq(Messages) /\ RepliedOnce(Append(down, m))
            /\ Replied(Append(down, m)) = Replied(down) \union AskedBy(m)
      BY <3>1, AppendReplied
    <3> QED BY <2>1, <2>2, <2>3, <3>2
  <2>5. FlowTyped'
    BY <2>1, <2>4 DEF FlowTyped, sendVars
  <2>6. OnceInv' /\ InTransit' \subseteq InTransit /\ Unanswered' \subseteq Unanswered
    BY <2>1, <2>4 DEF OnceInv, Separate, InTransit, Unanswered, sendVars
  <2> QED BY <2>1, <2>5, <2>6
<1>2. CASE Notify
  <2>1. /\ UNCHANGED <<pc, sendVars, up, packet, replies, answer, gameVars>>
        /\ down' = Append(down, Note)
    BY <1>2 DEF Notify, callVars
  <2>2. Note \in Messages /\ AskedBy(Note) = {}
    BY MessageKinds DEF Messages
  <2>3. down' \in Seq(Messages) /\ Replied(down') = Replied(down) /\ RepliedOnce(down')
    <3>1. down \in Seq(Messages) /\ RepliedOnce(down)
      BY DEF FlowTyped, OnceInv
    <3>2. Replied(down) \intersect AskedBy(Note) = {}
      BY <2>2
    <3>3. /\ Append(down, Note) \in Seq(Messages) /\ RepliedOnce(Append(down, Note))
          /\ Replied(Append(down, Note)) = Replied(down) \union AskedBy(Note)
      BY <2>2, <3>1, <3>2, AppendReplied
    <3> QED BY <2>1, <2>2, <3>3
  <2>4. FlowTyped'
    BY <2>1, <2>3 DEF FlowTyped, sendVars
  <2>5. OnceInv' /\ InTransit' \subseteq InTransit /\ Unanswered' \subseteq Unanswered
    BY <2>1, <2>3 DEF OnceInv, Separate, InTransit, Unanswered, sendVars
  <2> QED BY <2>1, <2>4, <2>5
<1>3. CASE HangUp
  <2>1. UNCHANGED <<pc, sendVars, up, down, packet, replies, answer, gameVars>>
    BY <1>3 DEF HangUp, callVars
  <2> QED BY <2>1 DEF FlowTyped, OnceInv, Separate, InTransit, Unanswered, sendVars
<1>4. CASE NotifyPSN
  <2>1. UNCHANGED <<pc, sendVars, up, down, packet, replies, answer, gameVars>>
    BY <1>4 DEF NotifyPSN, linkVars, callVars
  <2> QED BY <2>1 DEF FlowTyped, OnceInv, Separate, InTransit, Unanswered, sendVars
<1> QED BY <1>1, <1>2, <1>3, <1>4 DEF Servers

LEMMA ReaderReads ==
  ASSUME ThreadsInv, FlowInv, Reader
  PROVE  /\ FlowTyped' /\ OnceInv' /\ InTransit' \subseteq InTransit /\ Unanswered' \subseteq Unanswered
         /\ UNCHANGED <<answer, asked>>
         /\ replies' \subseteq replies \/ HandleReply
         /\ requests' = requests \/ HandleSignalingInfos
<1>0. PlacesTyped /\ pc'["writer"] = pc["writer"]
  BY ReaderGoes DEF ThreadsInv
<1>1. CASE ReadPacket
  <2>1. /\ UNCHANGED <<sendVars, up, replies, answer, gameVars>>
        /\ down # <<>> /\ packet' = Head(down) /\ down' = Tail(down)
    BY <1>1 DEF ReadPacket, callVars
  <2>2. down \in Seq(Messages) /\ RepliedOnce(down)
    BY DEF FlowInv, FlowTyped, OnceInv
  <2>3. /\ packet' \in Messages /\ down' \in Seq(Messages)
        /\ Replied(down) = Replied(down') \union AskedBy(packet')
        /\ RepliedOnce(down') /\ Replied(down') \intersect AskedBy(packet') = {}
    BY <2>1, <2>2, TailReplied
  <2>4. FlowTyped'
    BY <1>0, <2>1, <2>3 DEF FlowInv, FlowTyped, sendVars
  <2>5. OnceInv' /\ InTransit' \subseteq InTransit /\ Unanswered' \subseteq Unanswered
    BY <2>1, <2>3 DEF FlowInv, OnceInv, Separate, InTransit, Unanswered, sendVars
  <2> QED BY <2>1, <2>4, <2>5 DEF gameVars
<1>2. CASE HandleInfo \/ HandleReply \/ HandleSignalingInfos \/ HandleNote
  <2>1. /\ UNCHANGED <<sendVars, up, down, answer, asked>> /\ packet' = None
        /\ replies' = replies \/ HandleReply
        /\ requests' = requests \/ HandleSignalingInfos
    BY <1>2 DEF HandleInfo, HandleReply, HandleSignalingInfos, HandleNote, linkVars, callVars, gameVars
  <2>2. replies' \in SUBSET AnswersTo(Requests)
    <3>1. CASE HandleReply
      <4>1. packet.type = "reply" /\ (replies' = replies \/ replies' = replies \union {packet})
        BY <3>1 DEF HandleReply
      <4>2. packet \in AnswersTo(Requests)
        BY <4>1, MessageKinds DEF FlowInv, FlowTyped, Messages, IsReply
      <4> QED BY <4>1, <4>2 DEF FlowInv, FlowTyped
    <3> QED BY <2>1, <3>1 DEF FlowInv, FlowTyped
  <2>3. FlowTyped'
    BY <1>0, <2>1, <2>2 DEF FlowInv, FlowTyped, sendVars
  <2>4. AskedBy(packet') = {}
    BY <2>1, MessageKinds
  <2>5. OnceInv' /\ InTransit' \subseteq InTransit /\ Unanswered' \subseteq Unanswered
    BY <2>1, <2>4 DEF FlowInv, OnceInv, Separate, InTransit, Unanswered, sendVars
  <2> QED BY <2>1, <2>3, <2>5
<1>3. CASE ReaderTop \/ BeginRead \/ ReadNothing \/ ReadFails \/ Undefined("reader")
           \/ QueueBasicEvent \/ SendBasicEvent
  <2>1. UNCHANGED <<sendVars, up, down, packet, replies, answer, gameVars>>
    BY <1>3 DEF ReaderTop, BeginRead, ReadNothing, ReadFails, Undefined, QueueBasicEvent, SendBasicEvent,
       linkVars, callVars
  <2> QED BY <1>0, <2>1
          DEF FlowInv, FlowTyped, OnceInv, Separate, InTransit, Unanswered, sendVars, gameVars
<1> QED BY <1>1, <1>2, <1>3 DEF Reader

LEMMA ReaderFlow ==
  ASSUME ThreadsInv, NumberInv, FlowInv, [Next]_vars, Reader
  PROVE  FlowInv'
<1>0. /\ FlowTyped' /\ OnceInv' /\ InTransit' \subseteq InTransit /\ UNCHANGED <<answer, asked>>
      /\ replies' \subseteq replies \/ HandleReply
      /\ requests' = requests \/ HandleSignalingInfos
  BY ReaderReads
<1>g. pc'["game"] = pc["game"] /\ PlacesTyped
  BY ReaderGoes DEF ThreadsInv
<1>own. (\A q : Own(q) => Own(q)') /\ Settled
  BY OwnSettled, StepSettled
<1>1. CASE ~ HandleReply /\ ~ HandleSignalingInfos
  <2>1. OwnInv'
    BY <1>0, <1>1, OwnCarried DEF RequestIDs
  <2>2. AskedInv'
    BY <1>0, <1>1, <1>g, AskedCarried DEF gameVars, FlowInv
  <2> QED BY <1>0, <2>1, <2>2 DEF FlowInv
<1>2. CASE HandleReply
  <2>1. /\ packet.type = "reply" /\ packet.cmd # "siginfo"
        /\ replies' \subseteq replies \union {packet} /\ requests' = requests
    BY <1>2 DEF HandleReply, gameVars
  <2>2. packet \in AnswersTo(Requests)
    BY <2>1, MessageKinds DEF FlowInv, FlowTyped, Messages, IsReply
  <2>3. Own(packet)
    <3>1. Asked(packet) \in InTransit /\ Asked(packet).id = packet.id /\ Asked(packet).cmd = packet.cmd
      BY <2>2, ReplyKinds DEF InTransit
    <3>2. Own(Asked(packet))
      BY <2>1, <3>1 DEF FlowInv, OwnInv, Expected
    <3> QED BY <3>1, <3>2 DEF Own
  <2>4. \A r \in (replies \union Answers)' : Own(r)
    BY <1>0, <2>1, <2>3 DEF FlowInv, OwnInv, Answers
  <2>5. \A q \in InTransit' : Own(q)' \/ Expected(q)'
    BY <1>0, <1>own, <2>1 DEF FlowInv, OwnInv, Expected, RequestIDs
  <2>6. \A t \in Callers : answer'[t] # None => answer'[t].id = CallID(id'[t])
    BY <1>0, <1>2 DEF HandleReply, FlowInv, OwnInv
  <2>7. OwnInv'
    BY <1>0, <1>own, <2>4, <2>5, <2>6 DEF FlowInv, OwnInv, Settled
  <2>8. AskedInv'
    BY <1>0, <2>1, <1>g, AskedCarried DEF gameVars, FlowInv
  <2> QED BY <1>0, <2>7, <2>8 DEF FlowInv
<1>3. CASE HandleSignalingInfos
  <2>1. /\ packet.type = "reply" /\ packet.cmd = "siginfo" /\ packet' = None
        /\ requests' = {q \in requests : q.id # packet.id}
        /\ UNCHANGED <<sendVars, up, down, replies, id>>
    BY <1>3 DEF HandleSignalingInfos, linkVars, callVars
  <2>2. packet \in AnswersTo(Requests)
    BY <2>1, MessageKinds DEF FlowInv, FlowTyped, Messages, IsReply
  <2> DEFINE mine == Asked(packet)
  <2>3. mine.id = packet.id /\ mine.cmd = "siginfo" /\ AskedBy(packet) = {mine} /\ mine \in Requests
    BY <2>1, <2>2, ReplyKinds
  <2>4. InTransit \subseteq Requests
    BY TransitTyped DEF FlowInv
  <2>5. mine \in InTransit /\ mine \notin InTransit'
    <3>1. AskedBy(packet') = {}
      BY <2>1, MessageKinds
    <3> QED BY <2>1, <2>3, <3>1 DEF FlowInv, OnceInv, Separate, InTransit, Unanswered, sendVars
  <2> HIDE DEF mine
  <2>6. \A q \in InTransit : q.cmd = "siginfo" /\ q # mine => q.id # packet.id
    BY <2>3, <2>4, RequestKinds
  <2>7. \A i \in RequestIDs : i # packet.id => i \in RequestIDs'
    BY <2>1 DEF RequestIDs
  <2>8. \A q \in InTransit' : Own(q)' \/ Expected(q)'
    BY <1>0, <1>own, <2>5, <2>6, <2>7 DEF FlowInv, OwnInv, Expected
  <2>9. \A r \in (replies \union Answers)' : Own(r)
    BY <1>0, <2>1 DEF FlowInv, OwnInv, Answers
  <2>10. OwnInv'
    BY <1>0, <1>own, <2>1, <2>8, <2>9 DEF FlowInv, OwnInv, Settled
  <2>11. AskedInv'
    <3>1. /\ asked' = asked /\ asked \in SUBSET Peers
          /\ \A s \in requests' : s.peer \in asked /\ \E n \in 1 .. Cardinality(asked) : s.id = PeerID(n)
      BY <1>0, <2>1 DEF FlowInv, AskedInv
    <3>2. ASSUME pc'["game"] = "request"
          PROVE  /\ PeerID(Cardinality(asked)) \in RequestIDs'
                 /\ Cardinality(asked) \in 1 .. Cardinality(Peers)
                 /\ Request(PeerID(Cardinality(asked)), "siginfo") \notin InTransit
      <4> DEFINE i == PeerID(Cardinality(asked))
      <4>1. /\ i \in RequestIDs /\ Request(i, "siginfo") \notin InTransit
            /\ Cardinality(asked) \in 1 .. Cardinality(Peers)
        BY <1>g, <3>2 DEF FlowInv, AskedInv
      <4> HIDE DEF i
      <4>2. mine = Request(packet.id, "siginfo")
        BY <2>3, RequestKinds
      <4>3. i # packet.id
        BY <2>5, <4>1, <4>2
      <4> QED BY <2>7, <4>1, <4>3 DEF i
    <3> QED BY <1>0, <3>1, <3>2 DEF AskedInv
  <2> QED BY <1>0, <2>10, <2>11 DEF FlowInv
<1> QED BY <1>1, <1>2, <1>3 DEF Reader

\* Neither what is on its way nor what the writer has in hand.
FlowUntouched ==
  /\ UNCHANGED <<sendVars, up, down, packet>>
  /\ pc'["writer"] \in {"check", "wolf"} => pc["writer"] \in {"check", "wolf"}

LEMMA FlowStays ==
  ASSUME FlowInv, FlowUntouched, replies' \in SUBSET AnswersTo(Requests),
         answer' \in [Callers -> AnswersTo(Requests) \union {None}]
  PROVE  FlowTyped' /\ OnceInv' /\ InTransit' = InTransit /\ Unanswered' = Unanswered
BY DEF FlowInv, FlowUntouched, FlowTyped, OnceInv, Separate, InTransit, Unanswered, sendVars

\* A request that is on its way nowhere is queued.
LEMMA RequestQueued ==
  ASSUME FlowInv, NEW q \in Requests, q \notin InTransit, packets' = Append(packets, q),
         UNCHANGED <<batch, up, down, packet, replies, answer>>, pc'["writer"] = pc["writer"]
  PROVE  FlowTyped' /\ OnceInv' /\ InTransit' = InTransit \union {q} /\ Unanswered' = Unanswered \union {q}
<1>1. packets \in Seq(Requests) /\ Once(packets) /\ q \notin In(packets)
  BY DEF FlowInv, FlowTyped, OnceInv, InTransit, Unanswered
<1>2. packets' \in Seq(Requests) /\ In(packets') = In(packets) \union {q} /\ Once(packets')
  BY <1>1, AppendIn
<1>3. FlowTyped'
  BY <1>2 DEF FlowInv, FlowTyped
<1>4. OnceInv' /\ InTransit' = InTransit \union {q} /\ Unanswered' = Unanswered \union {q}
  BY <1>2 DEF FlowInv, OnceInv, Separate, InTransit, Unanswered
<1> QED BY <1>3, <1>4

LEMMA CallFlow ==
  ASSUME ThreadsInv, NumberInv, FlowInv, [Next]_vars, NEW t \in Callers, ForgeSendReply(t)
  PROVE  FlowInv'
<1>0. /\ t \in {"main", "game"} /\ PlacesTyped
      /\ pc'["writer"] = pc["writer"]
      /\ pc'["game"] = "request" => pc["game"] = "request"
      /\ t = "main" => pc'["game"] = pc["game"]
      /\ UNCHANGED gameVars
  <2>1. UNCHANGED gameVars
    BY DEF ForgeSendReply, ReadCounter, WriteCounter, ForgeSend, GetReply, CheckForReply
  <2> QED BY <2>1, CallGoes DEF ThreadsInv
<1>own. (\A q : Own(q) => Own(q)') /\ Settled
  BY OwnSettled, StepSettled
<1>1. CASE ReadCounter(t) \/ WriteCounter(t) \/ GetReply(t)
  <2>1. FlowUntouched /\ UNCHANGED <<replies, answer>>
    BY <1>0, <1>1 DEF ReadCounter, WriteCounter, GetReply, FlowUntouched, linkVars, callVars
  <2>2. FlowTyped' /\ OnceInv' /\ InTransit' = InTransit
    BY <2>1, FlowStays DEF FlowInv, FlowTyped
  <2>3. OwnInv'
    BY <1>0, <2>1, <2>2, OwnCarried DEF RequestIDs, gameVars
  <2>4. AskedInv'
    BY <1>0, <2>2, AskedCarried DEF FlowInv
  <2> QED BY <2>2, <2>3, <2>4 DEF FlowInv
<1>2. CASE ForgeSend(t)
  <2>q. PICK q : q = Request(CallID(id[t]), Command(t))
    OBVIOUS
  <2>1. /\ packets' = Append(packets, q) /\ pc[t] = "forge" /\ pc'[t] = "poll"
        /\ UNCHANGED <<batch, up, down, packet, replies, answer, id, wantAuthentication>>
    BY <1>0, <1>2, <2>q DEF ForgeSend, Goto, PlacesTyped, linkVars, callVars, flagVars
  <2>2. id[t] \in 0 .. 3
    BY DEF NumberInv, CounterInv
  <2>3. q \in Requests /\ q.id = CallID(id[t]) /\ q.cmd = Command(t)
    BY <2>2, <2>q, RequestKinds
  <2>4. Command("main") = "login" /\ Command("game") = "terminate"
    BY DEF Command
  <2>5. /\ t = "main" => LoginUnsent
        /\ t = "game" => LeaveUnsent
    BY <2>1 DEF LoginUnsent, LeaveUnsent
  <2>6. q \notin InTransit
    BY <1>0, <2>3, <2>4, <2>5 DEF FlowInv, OwnInv, Own, Expected
  <2>7. FlowTyped' /\ OnceInv' /\ InTransit' = InTransit \union {q}
    BY <1>0, <2>1, <2>3, <2>6, RequestQueued
  <2>8. Own(q)'
    <3>1. t = "main" => ~ LoginUnsent'
      BY <1>0, <2>1, <1>own
         DEF NumberInv, AskedOnce, LoginUnsent, LoginUncounted, LoginUnnumbered, ThreadsInv
    <3>2. t = "game" => ~ LeaveUnsent'
      BY <2>1 DEF LeaveUnsent, LeaveUncounted, LeaveUnnumbered, Early
    <3> QED BY <1>0, <2>1, <2>3, <2>4, <3>1, <3>2 DEF Own
  <2>9. OwnInv'
    <3>1. \A p \in InTransit' : Own(p)' \/ Expected(p)'
      BY <1>own, <1>0, <2>7, <2>8 DEF FlowInv, OwnInv, Expected, RequestIDs, gameVars
    <3>2. \A r \in (replies \union Answers)' : Own(r)'
      BY <1>own, <2>1 DEF FlowInv, OwnInv, Answers
    <3> QED BY <1>own, <2>1, <3>1, <3>2 DEF FlowInv, OwnInv, Settled
  <2>10. AskedInv'
    <3>1. q.cmd # "siginfo"
      BY <1>0, <2>3, <2>4
    <3>2. \A n : q # Request(n, "siginfo")
      BY <3>1, RequestKinds
    <3> QED BY <1>0, <2>7, <3>2 DEF FlowInv, AskedInv, RequestIDs, gameVars
  <2> QED BY <2>7, <2>9, <2>10 DEF FlowInv
<1>3. CASE CheckForReply(t)
  <2>1. /\ FlowUntouched /\ id' = id /\ pc[t] = "look"
        /\ \/ UNCHANGED <<replies, answer>>
           \/ /\ pc'[t] = "answered"
              /\ \E r \in replies : /\ r.id = CallID(id[t]) /\ replies' = replies \ {r}
                                    /\ answer' = [answer EXCEPT ![t] = r]
    BY <1>0, <1>3 DEF CheckForReply, Goto, PlacesTyped, FlowUntouched, linkVars
  <2>2. CASE UNCHANGED <<replies, answer>>
    <3>1. FlowTyped' /\ OnceInv' /\ InTransit' = InTransit
      BY <2>1, <2>2, FlowStays DEF FlowInv, FlowTyped
    <3>2. OwnInv'
      BY <1>0, <2>2, <3>1, OwnCarried DEF RequestIDs, gameVars
    <3>3. AskedInv'
      BY <1>0, <3>1, AskedCarried DEF FlowInv
    <3> QED BY <3>1, <3>2, <3>3 DEF FlowInv
  <2>3. ASSUME NEW r \in replies, r.id = CallID(id[t]), replies' = replies \ {r},
               answer' = [answer EXCEPT ![t] = r], pc'[t] = "answered"
        PROVE  FlowInv'
    <3>0. r \in AnswersTo(Requests) /\ Own(r)
      BY <2>3 DEF FlowInv, FlowTyped, OwnInv
    <3>1. /\ replies' \in SUBSET AnswersTo(Requests)
          /\ answer' \in [Callers -> AnswersTo(Requests) \union {None}]
          /\ answer'[t] = r /\ \A u \in Callers \ {t} : answer'[u] = answer[u]
      BY <2>3, <3>0 DEF FlowInv, FlowTyped
    <3>2. FlowTyped' /\ OnceInv' /\ InTransit' = InTransit
      BY <2>1, <3>1, FlowStays
    <3>3. \A p \in InTransit' : Own(p)' \/ Expected(p)'
      BY <1>own, <1>0, <3>2 DEF FlowInv, OwnInv, Expected, RequestIDs, gameVars
    <3>4. \A p \in (replies \union Answers)' : Own(p)'
      <4>1. Answers' \subseteq Answers \union {r}
        BY <3>1 DEF Answers
      <4>2. \A p \in replies \union Answers \union {r} : Own(p)'
        BY <1>own, <3>0 DEF FlowInv, OwnInv
      <4> QED BY <2>3, <4>1, <4>2
    <3>5. \A u \in Callers : answer'[u] # None => answer'[u].id = CallID(id'[u])
      BY <2>1, <2>3, <3>1 DEF FlowInv, OwnInv
    <3>6. (LoginWaits => answer["main"] = None)' /\ (LeaveUnsent => answer["game"] = None)'
      <4>1. CASE t = "main"
        <5>1. ~ LoginWaits'
          <6>1. wantAuthentication' = wantAuthentication
            BY <1>3 DEF CheckForReply, flagVars
          <6> QED BY <1>0, <2>1, <2>3, <4>1, <6>1
                  DEF LoginWaits, LoginUnsent, LoginUncounted, LoginUnnumbered, NumberInv, AskedOnce
        <5> QED BY <1>own, <3>1, <4>1, <5>1 DEF Settled, FlowInv, OwnInv
      <4>2. CASE t = "game"
        <5>1. ~ LeaveUnsent'
          BY <2>3, <4>2 DEF LeaveUnsent, LeaveUncounted, LeaveUnnumbered, Early
        <5> QED BY <1>own, <3>1, <4>2, <5>1 DEF Settled, FlowInv, OwnInv
      <4> QED BY <1>0, <4>1, <4>2
    <3>7. OwnInv'
      BY <3>3, <3>4, <3>5, <3>6 DEF OwnInv
    <3>8. AskedInv'
      BY <1>0, <3>2, AskedCarried DEF FlowInv
    <3> QED BY <3>2, <3>7, <3>8 DEF FlowInv
  <2> QED BY <2>1, <2>2, <2>3
<1> QED BY <1>1, <1>2, <1>3 DEF ForgeSendReply

\* The steps that leave the way alone, or only lose what was on it.
LEMMA QuietFlow ==
  ASSUME ThreadsInv, NumberInv, FlowInv, [Next]_vars,
         FlowTyped', OnceInv', InTransit' \subseteq InTransit,
         replies' \subseteq replies, answer' = answer, UNCHANGED gameVars,
         pc'["game"] = "request" => pc["game"] = "request"
  PROVE  FlowInv'
<1>1. OwnInv'
  BY OwnCarried DEF RequestIDs, gameVars
<1>2. AskedInv'
  BY AskedCarried DEF FlowInv
<1> QED BY <1>1, <1>2 DEF FlowInv

LEMMA UntouchedFlow ==
  ASSUME ThreadsInv, NumberInv, FlowInv, [Next]_vars, FlowUntouched,
         replies' \subseteq replies, answer' = answer, UNCHANGED gameVars,
         pc'["game"] = "request" => pc["game"] = "request"
  PROVE  FlowInv'
<1>1. replies' \in SUBSET AnswersTo(Requests) /\ answer' \in [Callers -> AnswersTo(Requests) \union {None}]
  BY DEF FlowInv, FlowTyped
<1>2. FlowTyped' /\ OnceInv' /\ InTransit' \subseteq InTransit
  BY <1>1, FlowStays
<1> QED BY <1>2, QuietFlow

LEMMA ClientFlow ==
  ASSUME ThreadsInv, NumberInv, FlowInv, [Next]_vars, Main \/ Writer \/ Servers
  PROVE  FlowInv'
<1>0. PlacesTyped
  BY DEF ThreadsInv
<1>1. CASE ForgeSendReply("main")
  BY <1>1, CallFlow
<1>2. CASE Writer
  <2>1. pc'["game"] = pc["game"]
    BY <1>0, <1>2, WriterGoes
  <2> QED BY <1>2, <2>1, WriterTakes, QuietFlow
<1>3. CASE Servers
  BY <1>3, ServerAnswers, QuietFlow
<1>4. CASE Connect \/ FreeRefused
  BY <1>4, LinkLoses, QuietFlow
<1>5. CASE Main /\ ~ ForgeSendReply("main") /\ ~ Connect /\ ~ FreeRefused
  <2>1. UNCHANGED <<sendVars, up, down, packet, replies, answer, gameVars>>
    BY <1>5 DEF Main, MainTop, ConnectFails, SetConnected, AwaitServerInfo, Authenticate, LoginAnswered,
       FillFriends, ClearRefused, Work, linkVars, callVars
  <2>2. pc'["game"] = pc["game"] /\ pc'["writer"] = pc["writer"]
    BY <1>0, <1>5, MainGoes
  <2>3. FlowUntouched
    BY <2>1, <2>2 DEF FlowUntouched
  <2> QED BY <2>1, <2>2, <2>3, UntouchedFlow
<1> QED BY <1>1, <1>2, <1>3, <1>4, <1>5

LEMMA AskedCounted ==
  ASSUME AskedInv
  PROVE  /\ Cardinality(asked) \in Nat /\ Cardinality(asked) <= Cardinality(Peers)
         /\ Cardinality(Peers) \in Nat
         /\ \A p \in Peers \ asked : /\ Cardinality(asked \union {p}) = Cardinality(asked) + 1
                                     /\ Cardinality(asked) + 1 <= Cardinality(Peers)
<1>1. asked \subseteq Peers
  BY DEF AskedInv
<1>2. \A S \in SUBSET Peers : IsFiniteSet(S) /\ Cardinality(S) \in Nat /\ Cardinality(S) <= Cardinality(Peers)
  BY FS_Subset, FS_CardinalityType
<1>3. \A p \in Peers \ asked : Cardinality(asked \union {p}) = Cardinality(asked) + 1
  BY <1>1, <1>2, FS_AddElement
<1> QED BY <1>1, <1>2, <1>3

\* The entry is made before the request for it is queued, and its number is
\* above those of all requests on their way.
LEMMA PeerFlow ==
  ASSUME ThreadsInv, NumberInv, FlowInv, [Next]_vars,
         RequestSignalingInfos \/ \E p \in Peers : RememberRequest(p)
  PROVE  FlowInv'
<1>0. PlacesTyped /\ AskedInv /\ (\A q : Own(q) => Own(q)') /\ Settled
  BY OwnSettled, StepSettled DEF ThreadsInv, FlowInv
<1>1. ASSUME NEW p \in Peers, RememberRequest(p) PROVE FlowInv'
  <2> DEFINE n == Cardinality(asked)
             i == PeerID(n + 1)
  <2>1. /\ p \notin asked /\ asked' = asked \union {p}
        /\ requests' = requests \union {[id |-> i, peer |-> p]}
        /\ pc'["game"] = "request" /\ pc'["writer"] = pc["writer"]
        /\ UNCHANGED <<sendVars, up, down, packet, replies, answer, id>>
    BY <1>0, <1>1 DEF RememberRequest, Goto, PlacesTyped, linkVars, callVars
  <2>2. n \in Nat /\ Cardinality(asked') = n + 1 /\ n + 1 <= Cardinality(Peers) /\ Cardinality(Peers) \in Nat
    BY <1>0, <2>1, AskedCounted
  <2>3. FlowTyped' /\ OnceInv' /\ InTransit' = InTransit
    <3>1. FlowUntouched
      BY <2>1 DEF FlowUntouched
    <3> QED BY <2>1, <3>1, FlowStays DEF FlowInv, FlowTyped
  <2>4. RequestIDs' = RequestIDs \union {i}
    <3>1. [id |-> i, peer |-> p].id = i
      OBVIOUS
    <3> HIDE DEF i
    <3> QED BY <2>1, <3>1 DEF RequestIDs
  <2>5. \A k \in RequestIDs : \E m \in 1 .. n : k = PeerID(m)
    BY <1>0 DEF AskedInv, RequestIDs
  <2>6. i \notin RequestIDs
    BY <2>2, <2>5, IDsApart
  <2> HIDE DEF i
  <2>7. OwnInv'
    BY <2>1, <2>3, <2>4, OwnCarried
  <2>8. Request(i, "siginfo") \notin InTransit
    <3>1. Request(i, "siginfo").cmd = "siginfo" /\ Request(i, "siginfo").id = i
      BY RequestKinds
    <3> QED BY <2>6, <3>1 DEF FlowInv, OwnInv, Own, Expected
  <2>9. \A s \in requests' : s.peer \in asked' /\ \E m \in 1 .. n + 1 : s.id = PeerID(m)
    <3>1. ASSUME NEW s \in requests PROVE s.peer \in asked' /\ \E m \in 1 .. n + 1 : s.id = PeerID(m)
      <4>1. s.peer \in asked /\ \E m \in 1 .. n : s.id = PeerID(m)
        BY <1>0 DEF AskedInv
      <4>2. \A m \in 1 .. n : m \in 1 .. n + 1
        BY <2>2
      <4> QED BY <2>1, <4>1, <4>2
    <3>2. n + 1 \in 1 .. n + 1
      BY <2>2
    <3>3. /\ [id |-> i, peer |-> p].peer \in asked'
          /\ \E m \in 1 .. n + 1 : [id |-> i, peer |-> p].id = PeerID(m)
      BY <2>1, <3>2 DEF i
    <3> QED BY <2>1, <3>1, <3>3
  <2>10. AskedInv'
    <3>1. asked' \in SUBSET Peers /\ n + 1 \in 1 .. Cardinality(Peers)
      BY <1>0, <2>1, <2>2 DEF AskedInv
    <3>2. PeerID(n + 1) \in RequestIDs' /\ Request(PeerID(n + 1), "siginfo") \notin InTransit'
      BY <2>3, <2>4, <2>8 DEF i
    <3> QED BY <2>2, <2>9, <3>1, <3>2 DEF AskedInv
  <2> QED BY <2>3, <2>7, <2>10 DEF FlowInv
<1>2. CASE RequestSignalingInfos
  <2>q. PICK q : q = Request(PeerID(Cardinality(asked)), "siginfo")
    OBVIOUS
  <2>1. /\ packets' = Append(packets, q) /\ pc["game"] = "request" /\ pc'["game"] = "play"
        /\ pc'["writer"] = pc["writer"]
        /\ UNCHANGED <<batch, up, down, packet, replies, answer, id, gameVars>>
    BY <1>0, <1>2, <2>q DEF RequestSignalingInfos, Goto, PlacesTyped, linkVars, callVars
  <2>2. /\ q \in Requests /\ q \notin InTransit /\ Expected(q)
    BY <1>0, <2>1, <2>q, RequestKinds DEF AskedInv, Expected
  <2>3. FlowTyped' /\ OnceInv' /\ InTransit' = InTransit \union {q}
    BY <2>1, <2>2, RequestQueued
  <2>4. OwnInv'
    <3>1. \A p \in InTransit' : Own(p)' \/ Expected(p)'
      BY <1>0, <2>1, <2>2, <2>3 DEF FlowInv, OwnInv, Expected, RequestIDs, gameVars
    <3>2. \A r \in (replies \union Answers)' : Own(r)'
      BY <1>0, <2>1 DEF FlowInv, OwnInv, Answers
    <3> QED BY <1>0, <2>1, <3>1, <3>2 DEF FlowInv, OwnInv, Settled
  <2>5. AskedInv'
    BY <1>0, <2>1 DEF AskedInv, gameVars
  <2> QED BY <2>3, <2>4, <2>5 DEF FlowInv
<1> QED BY <1>1, <1>2

LEMMA FlowStep == ThreadsInv /\ NumberInv /\ FlowInv /\ [Next]_vars => FlowInv'
<1> SUFFICES ASSUME ThreadsInv, NumberInv, FlowInv, [Next]_vars PROVE FlowInv'
  OBVIOUS
<1>0. PlacesTyped
  BY DEF ThreadsInv
<1>1. CASE Main \/ Writer \/ Servers
  BY <1>1, ClientFlow
<1>2. CASE Reader
  BY <1>2, ReaderFlow
<1>3. CASE ForgeSendReply("game")
  BY <1>3, CallFlow
<1>4. CASE RequestSignalingInfos \/ \E p \in Peers : RememberRequest(p)
  BY <1>4, PeerFlow
<1>5. CASE JoinAndDisconnect
  BY <1>5, LinkLoses, QuietFlow
<1>6. CASE RegisterHandler \/ CheckNPCallbacks \/ CheckPSNCallbacks \/ GetBasicEvent \/ Close \/ Terminated
  <2>1. /\ UNCHANGED <<sendVars, up, down, packet, replies, answer, gameVars>>
        /\ pc'["writer"] = pc["writer"] /\ (pc'["game"] = "request" => pc["game"] = "request")
    BY <1>0, <1>6 DEF RegisterHandler, CheckNPCallbacks, CheckPSNCallbacks, GetBasicEvent, Close,
       Terminated, Goto, PlacesTyped,
       linkVars, callVars
  <2> QED BY <2>1, UntouchedFlow DEF FlowUntouched
<1>7. CASE Initialise \/ StartThreads \/ Constructed \/ DeleteObjects
  <2>1. /\ UNCHANGED <<sendVars, up, down, packet, answer, gameVars>> /\ replies' \subseteq replies
        /\ pc'["writer"] \in {pc["writer"], "top"} /\ (pc'["game"] = "request" => pc["game"] = "request")
    BY <1>0, <1>7 DEF Initialise, StartThreads, Constructed, ConstructReplies, AskConnection,
       AskAuthentication, DeleteObjects, Goto, PlacesTyped,
       linkVars, callVars
  <2> QED BY <2>1, UntouchedFlow DEF FlowUntouched
<1>8. CASE UNCHANGED vars
  <2>1. UNCHANGED <<pc, sendVars, up, down, packet, replies, answer, gameVars>>
    BY <1>8 DEF vars, linkVars, callVars
  <2> QED BY <2>1, UntouchedFlow DEF FlowUntouched
<1> QED BY <1>1, <1>2, <1>3, <1>4, <1>5, <1>6, <1>7, <1>8, Steps DEF GamePlays

LEMMA FlowInit == Init => FlowInv
<1> SUFFICES ASSUME Init PROVE FlowInv
  OBVIOUS
<1>1. /\ packets = <<>> /\ batch = <<>> /\ up = {} /\ down = <<>> /\ packet = None /\ replies = {}
      /\ answer = [t \in Callers |-> None] /\ requests = {} /\ asked = {}
      /\ pc["writer"] = "none" /\ pc["game"] = "start"
  BY DEF Init
<1>2. In(packets) = {} /\ In(batch) = {} /\ Replied(down) = {} /\ AskedBy(packet) = {}
  BY <1>1, EmptyHolds, MessageKinds
<1>3. FlowTyped
  BY <1>1, EmptyHolds DEF FlowTyped
<1>4. OnceInv
  BY <1>1, <1>2, EmptyHolds DEF OnceInv, Separate
<1>5. OwnInv
  BY <1>1, <1>2 DEF OwnInv, InTransit, Unanswered, Answers
<1>6. AskedInv
  BY <1>1 DEF AskedInv
<1> QED BY <1>3, <1>4, <1>5, <1>6 DEF FlowInv

-----------------------------------------------------------------------------
(* Notifications, events and callbacks.                                    *)

\* The server has not answered the login, and so tells of nobody yet.
LoginUnanswered == LoginUnsent \/ \E q \in Unanswered : q.cmd = "login"

One(p) == IF p THEN 1 ELSE 0

\* A notification the server may still send, has sent, or that the reader holds.
Load ==
  notes + Cardinality(Notes(down)) + One(packet = Note) + One(pc["reader"] = "event")

\* A callback of a notification that is on its way to the game; one of PSN's,
\* or one the game has been told.
OwnCalls == One(pc["reader"] = "callback") + calls
OtherCalls == psnNotes + psnCalls + told

CountsTyped ==
  /\ notes \in Nat /\ events \in Nat /\ calls \in Nat /\ told \in Nat
  /\ psnNotes \in Nat /\ psnEvents \in Nat /\ psnCalls \in Nat

\* With m and q the bounds of the servers' news: l of it on its way, e events of NP and
\* w callbacks, o other callbacks; n news, f events and c callbacks of PSN; t of all told.
Bounded(m, q, l, e, w, o, n, f, c, t) ==
  /\ l + e <= m
  /\ l + w <= m
  /\ l + w + o <= m + q
  /\ n + f <= q /\ n + c <= q
  /\ e + f <= w + c + t

CountsBounded ==
  Bounded(MaxNotes, MaxPSN, Load, events, OwnCalls, OtherCalls, psnNotes, psnEvents, psnCalls, told)

\* RPCN has told nothing, and the reader has no part of it in hand.
Untold ==
  /\ Notes(down) = {} /\ packet # Note /\ pc["reader"] \notin {"event", "callback"}
  /\ notes = 0 /\ events = 0 /\ calls = 0 /\ OtherCalls <= MaxPSN

NotesInv == CountsTyped /\ CountsBounded /\ (LoginUnanswered => Untold)

CountsStay == UNCHANGED <<notes, events, calls, told, psnEvents, psnCalls, psnNotes>>

LEMMA LoginAnsweredOnce ==
  ASSUME ThreadsInv, NumberInv, FlowInv, [Next]_vars
  PROVE  LoginUnanswered' => LoginUnanswered
<1>s. LoginUnsent' => LoginUnsent
  BY StepSettled DEF Settled
<1> SUFFICES \A q \in Unanswered' : q.cmd = "login" => q \in Unanswered \/ LoginUnsent
  BY <1>s DEF LoginUnanswered
<1>0. packets \in Seq(Requests) /\ PlacesTyped
  BY DEF FlowInv, FlowTyped, ThreadsInv
<1>1. CASE Reader \/ Writer \/ Servers
  BY <1>1, ReaderReads, WriterTakes, ServerAnswers
<1>2. CASE Connect \/ FreeRefused \/ JoinAndDisconnect
  <2>1. sendVars' = sendVars /\ up' \subseteq up
    BY <1>2 DEF Connect, FreeRefused, JoinAndDisconnect, Free
  <2> QED BY <2>1 DEF Unanswered, sendVars
<1>3. ASSUME NEW t \in Callers, ForgeSend(t)
      PROVE  \A q \in Unanswered' : q.cmd = "login" => q \in Unanswered \/ LoginUnsent
  <2>q. PICK r : r = Request(CallID(id[t]), Command(t))
    OBVIOUS
  <2>1. packets' = Append(packets, r) /\ UNCHANGED <<batch, up>> /\ pc[t] = "forge"
    BY <1>3, <2>q DEF ForgeSend, Goto, linkVars
  <2>2. r \in Requests /\ r.cmd = Command(t)
    <3>1. id[t] \in 0 .. 3
      BY DEF NumberInv, CounterInv
    <3> QED BY <2>q, <3>1, RequestKinds
  <2>3. In(packets') = In(packets) \union {r}
    BY <1>0, <2>1, <2>2, AppendIn
  <2>4. t = "main" => LoginUnsent
    BY <2>1 DEF LoginUnsent
  <2>5. t = "game" => r.cmd # "login"
    BY <2>2 DEF Command
  <2> QED BY <2>1, <2>3, <2>4, <2>5 DEF Unanswered
<1>4. CASE RequestSignalingInfos
  <2>q. PICK r : r = Request(PeerID(Cardinality(asked)), "siginfo")
    OBVIOUS
  <2>1. packets' = Append(packets, r) /\ UNCHANGED <<batch, up>> /\ pc["game"] = "request"
    BY <1>4, <2>q DEF RequestSignalingInfos, Goto, linkVars
  <2>2. r \in Requests /\ r.cmd = "siginfo"
    BY <2>1, <2>q, RequestKinds DEF FlowInv, AskedInv
  <2>3. In(packets') = In(packets) \union {r}
    BY <1>0, <2>1, <2>2, AppendIn
  <2> QED BY <2>1, <2>2, <2>3 DEF Unanswered
<1>5. ASSUME NEW t \in Callers, ForgeSendReply(t), ~ ForgeSend(t)
      PROVE  \A q \in Unanswered' : q.cmd = "login" => q \in Unanswered \/ LoginUnsent
  <2>1. sendVars' = sendVars /\ up' = up
    BY <1>5 DEF ForgeSendReply, ReadCounter, WriteCounter, GetReply, CheckForReply, linkVars
  <2> QED BY <2>1 DEF Unanswered, sendVars
<1>6. CASE Main /\ ~ ForgeSendReply("main") /\ ~ Connect /\ ~ FreeRefused
  <2>1. sendVars' = sendVars /\ up' = up
    BY <1>6 DEF Main, MainTop, ConnectFails, SetConnected, AwaitServerInfo, Authenticate, LoginAnswered,
       FillFriends, ClearRefused, Work, linkVars
  <2> QED BY <2>1 DEF Unanswered, sendVars
<1>7. CASE GamePlays /\ ~ ForgeSendReply("game") /\ ~ RequestSignalingInfos
  <2>1. sendVars' = sendVars /\ up' = up
    BY <1>7 DEF GamePlays, RegisterHandler, RememberRequest, CheckNPCallbacks, CheckPSNCallbacks,
       GetBasicEvent, Close,
       Terminated, linkVars
  <2> QED BY <2>1 DEF Unanswered, sendVars
<1>8. CASE Initialise \/ StartThreads \/ Constructed \/ DeleteObjects \/ UNCHANGED vars
  <2>1. sendVars' = sendVars /\ up' = up
    BY <1>8 DEF Initialise, StartThreads, Constructed, ConstructReplies, AskConnection,
       AskAuthentication, DeleteObjects, vars, linkVars
  <2> QED BY <2>1 DEF Unanswered, sendVars
<1> QED BY <1>1, <1>2, <1>3, <1>4, <1>5, <1>6, <1>7, <1>8, Steps

LEMMA LoadLost ==
  \A m, q, l, e, w, o, n, f, c, t, l2 \in Nat :
    Bounded(m, q, l, e, w, o, n, f, c, t) /\ l2 <= l => Bounded(m, q, l2, e, w, o, n, f, c, t)
BY DEF Bounded

LEMMA EventQueued ==
  \A m, q, l, e, w, o, n, f, c, t, l2, e2, w2 \in Nat :
    Bounded(m, q, l, e, w, o, n, f, c, t) /\ l2 + 1 = l /\ e2 = e + 1 /\ w2 = w + 1
      => Bounded(m, q, l2, e2, w2, o, n, f, c, t)
BY DEF Bounded

LEMMA CallsTold ==
  \A m, q, l, e, w, o, n, f, c, t, w2, o2, t2 \in Nat :
    Bounded(m, q, l, e, w, o, n, f, c, t) /\ w2 + o2 = w + o /\ w2 <= w /\ w2 + t2 = w + t
      => Bounded(m, q, l, e, w2, o2, n, f, c, t2)
BY DEF Bounded

LEMMA EventTaken ==
  \A m, q, l, e, w, o, n, f, c, t, e2, o2, f2, t2 \in Nat :
    /\ Bounded(m, q, l, e, w, o, n, f, c, t)
    /\ e2 <= e /\ f2 <= f /\ o2 <= o /\ t2 + 1 >= t
    /\ e2 + f2 = 0 \/ e2 + f2 + 1 = e + f
    => Bounded(m, q, l, e2, w, o2, n, f2, c, t2)
BY DEF Bounded

LEMMA LoadCounts ==
  ASSUME FlowTyped, CountsTyped
  PROVE  Load \in Nat /\ notes <= Load /\ Cardinality(Notes(down)) \in Nat
<1>1. Cardinality(Notes(down)) \in Nat
  BY NotesFinite DEF FlowTyped
<1> QED BY <1>1 DEF CountsTyped, Load, One

\* Where the events and callbacks stay and at most a notification is lost.
LEMMA LoadSinks ==
  ASSUME FlowTyped, NotesInv, CountsStay, Load' \in Nat, Load' <= Load, OwnCalls' = OwnCalls,
         LoginUnanswered' => /\ LoginUnanswered
                             /\ Notes(down') = {} /\ packet' # Note
                             /\ pc'["reader"] \notin {"event", "callback"}
  PROVE  NotesInv'
<1>1. /\ notes' = notes /\ events' = events /\ calls' = calls /\ told' = told
      /\ psnEvents' = psnEvents /\ psnCalls' = psnCalls /\ psnNotes' = psnNotes
  BY DEF CountsStay
<1>t. CountsTyped /\ CountsBounded
  BY DEF NotesInv
<1>2. CountsTyped' /\ OtherCalls' = OtherCalls
  BY <1>1, <1>t DEF CountsTyped, OtherCalls
<1>3. OtherCalls \in Nat /\ OwnCalls \in Nat /\ Load \in Nat
  BY <1>t, LoadCounts DEF CountsTyped, OtherCalls, OwnCalls, One
<1>4. LoginUnanswered' => Untold'
  BY <1>1, <1>2 DEF NotesInv, Untold
<1>5. CountsBounded'
  <2>1. Bounded(MaxNotes, MaxPSN, Load', events, OwnCalls, OtherCalls, psnNotes, psnEvents,
                psnCalls, told)
    BY <1>3, <1>t, LoadLost DEF CountsBounded, CountsTyped
  <2> QED BY <1>1, <1>2, <2>1 DEF CountsBounded
<1> QED BY <1>2, <1>4, <1>5 DEF NotesInv

\* The steps that tell the game of nothing.
LEMMA NotesCarried ==
  ASSUME ThreadsInv, NumberInv, FlowInv, NotesInv, [Next]_vars, CountsStay,
         Notes(down') \in {Notes(down), {}}, packet' \in {packet, None},
         pc'["reader"] = pc["reader"]
           \/ (pc["reader"] # "callback" /\ pc'["reader"] \notin {"event", "callback"})
  PROVE  NotesInv'
<1>1. LoginUnanswered' => LoginUnanswered
  BY LoginAnsweredOnce
<1>2. Cardinality(Notes(down)) \in Nat /\ Cardinality({}) = 0
  BY NotesFinite, FS_EmptySet DEF FlowInv, FlowTyped
<1>3. Cardinality(Notes(down')) \in Nat /\ Cardinality(Notes(down')) <= Cardinality(Notes(down))
  BY <1>2
<1>4. None # Note
  BY MessageKinds
<1>5. Load' \in Nat /\ Load' <= Load
  BY <1>2, <1>3, <1>4 DEF NotesInv, CountsTyped, CountsStay, Load, One
<1>6. OwnCalls' = OwnCalls
  BY DEF OwnCalls, One, CountsStay
<1>7. LoginUnanswered' => /\ LoginUnanswered
                          /\ Notes(down') = {} /\ packet' # Note
                          /\ pc'["reader"] \notin {"event", "callback"}
  BY <1>1, <1>4 DEF NotesInv, Untold
<1> QED BY <1>5, <1>6, <1>7, LoadSinks DEF FlowInv

\* What the servers send: RPCN's notifications only once the login is answered.
LEMMA ServerNotes ==
  ASSUME ThreadsInv, NumberInv, FlowInv, NotesInv, [Next]_vars, Servers
  PROVE  NotesInv'
<1>0. /\ down \in Seq(Messages) /\ Cardinality(Notes(down)) \in Nat
      /\ CountsTyped /\ CountsBounded /\ Load \in Nat
  BY NotesFinite, LoadCounts DEF FlowInv, FlowTyped, NotesInv
<1>l. LoginUnanswered' => LoginUnanswered
  BY LoginAnsweredOnce
<1>1. ASSUME NEW q \in up, NEW ok \in BOOLEAN, Answer(q, ok) PROVE NotesInv'
  <2>1. /\ UNCHANGED <<pc, packets, batch, packet, events, calls, told, psnEvents, psnCalls, psnNotes,
                       id, wantAuthentication>>
        /\ up' = up \ {q} /\ down' = Append(down, Reply(q, ok))
        /\ notes' = IF q.cmd = "login" /\ ok THEN MaxNotes ELSE notes
    BY <1>1 DEF Answer, callVars, sendVars, flagVars, psnVars
  <2>2. q \in Requests /\ Reply(q, ok) \in Messages /\ Reply(q, ok) # Note
    BY MessageKinds DEF FlowInv, FlowTyped
  <2>3. Notes(down') = Notes(down)
    BY <1>0, <2>1, <2>2, AppendNotes
  <2>o. OwnCalls' = OwnCalls /\ OtherCalls' = OtherCalls
    BY <2>1 DEF OwnCalls, OtherCalls
  <2>4. CASE q.cmd = "login"
    <3>1. LoginUnanswered
      BY <2>4 DEF LoginUnanswered, Unanswered
    <3>2. /\ notes = 0 /\ Notes(down) = {} /\ packet # Note
          /\ pc["reader"] \notin {"event", "callback"}
          /\ events = 0 /\ calls = 0 /\ OtherCalls <= MaxPSN
      BY <3>1 DEF NotesInv, Untold
    <3>3. ~ LoginUnanswered'
      <4>1. Own(q) /\ q = Request(q.id, "login")
        BY <2>2, <2>4, RequestKinds DEF FlowInv, OwnInv, InTransit, Unanswered, Expected
      <4>2. ~ LoginUnsent'
        BY <2>1, <2>4, <4>1 DEF Own, LoginUnsent, LoginUncounted, LoginUnnumbered
      <4>3. ASSUME NEW r \in Unanswered', r.cmd = "login" PROVE FALSE
        <5>1. r \in Unanswered /\ r # q
          BY <2>1, <4>3 DEF Unanswered, FlowInv, OnceInv, Separate
        <5>2. Own(r) /\ r \in Requests
          BY <4>3, <5>1, TransitTyped DEF FlowInv, OwnInv, InTransit, Expected
        <5>3. r = Request(r.id, "login") /\ r.id = q.id
          BY <2>4, <4>1, <4>3, <5>2, RequestKinds DEF Own
        <5> QED BY <4>1, <5>1, <5>3
      <4> QED BY <4>2, <4>3 DEF LoginUnanswered
    <3>4. Cardinality(Notes(down')) = 0
      BY <2>3, <3>2, FS_EmptySet
    <3>5. notes' \in Nat /\ notes' <= MaxNotes
      BY <2>1, <3>2
    <3>6. Load' = notes' /\ OwnCalls' = 0
      BY <2>1, <2>o, <3>2, <3>4, <3>5 DEF Load, OwnCalls, One
    <3>7. CountsTyped'
      BY <1>0, <2>1, <3>5 DEF CountsTyped
    <3>8. OtherCalls' \in Nat /\ OtherCalls' <= MaxPSN
      BY <1>0, <2>o, <3>2 DEF CountsTyped, OtherCalls
    <3>9. events' = 0
      BY <2>1, <3>2
    <3>10. CountsBounded'
      BY <1>0, <2>1, <2>o, <3>5, <3>6, <3>8, <3>9 DEF CountsBounded, Bounded
    <3> QED BY <3>3, <3>7, <3>10 DEF NotesInv
  <2>5. CASE q.cmd # "login"
    <3>1. CountsStay
      BY <2>1, <2>5 DEF CountsStay
    <3> QED BY <2>1, <2>3, <3>1, NotesCarried
  <2> QED BY <2>4, <2>5
<1>2. CASE Notify
  <2>1. /\ UNCHANGED <<pc, packet, events, calls, told, psnEvents, psnCalls, psnNotes>>
        /\ notes > 0 /\ notes' = notes - 1 /\ down' = Append(down, Note)
    BY <1>2 DEF Notify, psnVars
  <2>2. Note \in Messages
    BY DEF Messages
  <2>3. Cardinality(Notes(down')) = Cardinality(Notes(down)) + 1
    BY <1>0, <2>1, <2>2, AppendNotes
  <2>4. ~ LoginUnanswered'
    BY <1>0, <1>l, <2>1 DEF NotesInv, Untold
  <2>5. CountsTyped' /\ Load' = Load
    BY <1>0, <2>1, <2>3 DEF CountsTyped, Load, One
  <2>6. OwnCalls' = OwnCalls /\ OtherCalls' = OtherCalls
    BY <2>1 DEF OwnCalls, OtherCalls
  <2>7. CountsBounded'
    BY <1>0, <2>1, <2>5, <2>6 DEF CountsBounded, Bounded
  <2> QED BY <2>4, <2>5, <2>7 DEF NotesInv
<1>3. CASE HangUp
  <2>1. CountsStay /\ UNCHANGED <<pc, packet, down>>
    BY <1>3 DEF HangUp, friendVars, psnVars, CountsStay
  <2> QED BY <2>1, NotesCarried
<1>4. CASE NotifyPSN
  <2>1. /\ UNCHANGED <<pc, packet, down, events, calls, told, notes>>
        /\ psnNotes > 0 /\ psnNotes' = psnNotes - 1
        /\ psnEvents' = psnEvents + 1 /\ psnCalls' = psnCalls + 1
    BY <1>4 DEF NotifyPSN, linkVars
  <2>2. Load' = Load /\ OwnCalls' = OwnCalls
    BY <2>1 DEF Load, OwnCalls
  <2>3. CountsTyped' /\ OtherCalls' = OtherCalls /\ OwnCalls \in Nat
    BY <1>0, <2>1 DEF CountsTyped, OtherCalls, OwnCalls, One
  <2>4. CountsBounded'
    BY <1>0, <2>1, <2>2, <2>3 DEF CountsBounded, Bounded, CountsTyped
  <2>5. Untold => Untold'
    BY <2>1, <2>3 DEF Untold
  <2> QED BY <1>l, <2>3, <2>4, <2>5 DEF NotesInv
<1> QED BY <1>1, <1>2, <1>3, <1>4 DEF Servers

LEMMA ReaderNotes ==
  ASSUME ThreadsInv, NumberInv, FlowInv, NotesInv, [Next]_vars, Reader
  PROVE  NotesInv'
<1>0. /\ down \in Seq(Messages) /\ Cardinality(Notes(down)) \in Nat /\ PlacesTyped
      /\ CountsTyped /\ CountsBounded /\ Load \in Nat /\ FlowTyped
  BY NotesFinite, LoadCounts DEF FlowInv, FlowTyped, ThreadsInv, NotesInv
<1>l. LoginUnanswered' => LoginUnanswered
  BY LoginAnsweredOnce
<1>1. CASE ReadPacket
  <2>1. /\ CountsStay
        /\ pc["reader"] = "wolf" /\ pc'["reader"] = "handle"
        /\ down # <<>> /\ packet' = Head(down) /\ down' = Tail(down)
    BY <1>0, <1>1 DEF ReadPacket, Goto, PlacesTyped, friendVars, psnVars, CountsStay
  <2> DEFINE held == IF packet' = Note THEN 1 ELSE 0
  <2>2. /\ Cardinality(Notes(down)) = Cardinality(Notes(down')) + held
        /\ Notes(down) = {} => Notes(down') = {} /\ packet' # Note
    BY <1>0, <2>1, TailNotes
  <2>3. Cardinality(Notes(down')) \in Nat
    <3>1. down' \in Seq(Messages)
      BY <1>0, <2>1, TailIn
    <3> QED BY <3>1, NotesFinite
  <2>4. Load' \in Nat /\ Load' <= Load
    <3>1. Load = notes + Cardinality(Notes(down)) + One(packet = Note)
      BY <1>0, <2>1 DEF CountsTyped, Load, One
    <3>2. Load' = notes + Cardinality(Notes(down')) + held
      BY <1>0, <2>1, <2>3 DEF CountsTyped, CountsStay, Load, One
    <3>3. held \in Nat /\ One(packet = Note) \in Nat /\ notes \in Nat
      BY <1>0 DEF One, CountsTyped
    <3> HIDE DEF held
    <3> QED BY <1>0, <2>2, <2>3, <3>1, <3>2, <3>3, SMTT(60)
  <2>5. OwnCalls' = OwnCalls
    BY <2>1 DEF OwnCalls, One, CountsStay
  <2>6. LoginUnanswered => Notes(down) = {}
    BY DEF NotesInv, Untold
  <2>7. LoginUnanswered' => /\ LoginUnanswered
                            /\ Notes(down') = {} /\ packet' # Note
                            /\ pc'["reader"] \notin {"event", "callback"}
    BY <1>l, <2>1, <2>2, <2>6
  <2> QED BY <1>0, <2>1, <2>4, <2>5, <2>7, LoadSinks
<1>2. CASE HandleNote
  <2>1. /\ CountsStay /\ down' = down /\ packet = Note /\ packet' = None
        /\ pc["reader"] = "handle" /\ pc'["reader"] \in {"event", "top", "undefined"}
    BY <1>0, <1>2 DEF HandleNote, Goto, PlacesTyped, friendVars, linkVars, psnVars, CountsStay
  <2>2. None # Note
    BY MessageKinds
  <2>3. Load' \in Nat /\ Load' <= Load
    BY <1>0, <2>1, <2>2 DEF CountsTyped, CountsStay, Load, One
  <2>4. ~ LoginUnanswered'
    BY <1>l, <2>1 DEF NotesInv, Untold
  <2>5. OwnCalls' = OwnCalls
    BY <2>1 DEF OwnCalls, One, CountsStay
  <2> QED BY <1>0, <2>1, <2>3, <2>4, <2>5, LoadSinks
<1>3. CASE QueueBasicEvent
  <2>1. /\ UNCHANGED <<notes, calls, told, psnEvents, psnCalls, psnNotes, down, packet>>
        /\ events' = events + 1
        /\ pc["reader"] = "event" /\ pc'["reader"] = "callback"
    BY <1>0, <1>3 DEF QueueBasicEvent, Goto, PlacesTyped, linkVars, psnVars
  <2>2. /\ Load' + 1 = Load /\ Load' \in Nat
        /\ OwnCalls' = OwnCalls + 1 /\ OwnCalls \in Nat
    BY <1>0, <2>1 DEF CountsTyped, Load, OwnCalls, One
  <2>3. OtherCalls' = OtherCalls /\ OtherCalls \in Nat /\ CountsTyped'
    BY <1>0, <2>1 DEF OtherCalls, CountsTyped
  <2>4. ~ LoginUnanswered'
    BY <1>l, <2>1 DEF NotesInv, Untold
  <2>5. CountsBounded'
    <3>1. /\ Load \in Nat /\ events \in Nat /\ events' \in Nat /\ psnNotes \in Nat
          /\ psnEvents \in Nat /\ psnCalls \in Nat /\ told \in Nat /\ OwnCalls' \in Nat
      BY <1>0, <2>1, <2>2 DEF CountsTyped
    <3>2. Bounded(MaxNotes, MaxPSN, Load, events, OwnCalls, OtherCalls, psnNotes, psnEvents,
                  psnCalls, told)
      BY <1>0 DEF CountsBounded
    <3>3. Load' + 1 = Load /\ events' = events + 1 /\ OwnCalls' = OwnCalls + 1
      BY <2>1, <2>2
    <3>4. Bounded(MaxNotes, MaxPSN, Load', events', OwnCalls', OtherCalls, psnNotes, psnEvents,
                  psnCalls, told)
      BY <2>2, <2>3, <3>1, <3>2, <3>3, EventQueued
    <3> QED BY <2>1, <2>3, <3>4 DEF CountsBounded
  <2> QED BY <2>3, <2>4, <2>5 DEF NotesInv
<1>4. CASE SendBasicEvent
  <2>1. /\ UNCHANGED <<notes, events, told, psnEvents, psnCalls, psnNotes, down, packet>>
        /\ calls' = calls + 1
        /\ pc["reader"] = "callback" /\ pc'["reader"] = "top"
    BY <1>0, <1>4 DEF SendBasicEvent, Goto, PlacesTyped, linkVars, psnVars
  <2>2. Load' = Load /\ OwnCalls' = OwnCalls /\ CountsTyped'
    BY <1>0, <2>1 DEF CountsTyped, Load, OwnCalls, One
  <2>3. OtherCalls' = OtherCalls
    BY <2>1 DEF OtherCalls
  <2>4. ~ LoginUnanswered'
    BY <1>l, <2>1 DEF NotesInv, Untold
  <2>5. CountsBounded'
    BY <1>0, <2>1, <2>2, <2>3 DEF CountsBounded, Bounded
  <2> QED BY <2>2, <2>4, <2>5 DEF NotesInv
<1>5. CASE ReaderTop \/ BeginRead \/ ReadNothing \/ ReadFails \/ Undefined("reader")
           \/ HandleInfo \/ HandleReply \/ HandleSignalingInfos
  <2>1. /\ CountsStay /\ down' = down /\ packet' \in {packet, None}
        /\ pc["reader"] # "callback" /\ pc'["reader"] \notin {"event", "callback"}
    BY <1>0, <1>5 DEF ReaderTop, BeginRead, ReadNothing, ReadFails, Undefined, HandleInfo, HandleReply,
       HandleSignalingInfos, Goto, PlacesTyped, friendVars, linkVars, psnVars, CountsStay
  <2> QED BY <2>1, NotesCarried
<1> QED BY <1>1, <1>2, <1>3, <1>4, <1>5 DEF Reader

\* The game is told, and fetches an event.
LEMMA GameNotes ==
  ASSUME ThreadsInv, NumberInv, FlowInv, NotesInv, [Next]_vars,
         CheckNPCallbacks \/ CheckPSNCallbacks \/ GetBasicEvent \/ DeleteObjects
  PROVE  NotesInv'
<1>0. /\ PlacesTyped /\ CountsTyped /\ CountsBounded /\ Load \in Nat
      /\ (LoginUnanswered' => LoginUnanswered)
  BY LoginAnsweredOnce, LoadCounts DEF ThreadsInv, FlowInv, NotesInv
<1>1. UNCHANGED <<notes, psnNotes, down, packet>> /\ pc'["reader"] = pc["reader"]
  BY <1>0 DEF CheckNPCallbacks, CheckPSNCallbacks, GetBasicEvent, DeleteObjects, Goto, PlacesTyped,
     linkVars, psnVars
<1>2. Load' = Load
  BY <1>1 DEF Load
<1>3. CASE CheckNPCallbacks
  <2>1. UNCHANGED <<events, psnEvents, psnCalls>> /\ calls > 0 /\ told' = told + calls /\ calls' = 0
    BY <1>3 DEF CheckNPCallbacks, psnVars
  <2>2. ~ LoginUnanswered'
    BY <1>0, <2>1 DEF NotesInv, Untold, CountsTyped
  <2>3. /\ OwnCalls' + OtherCalls' = OwnCalls + OtherCalls /\ OwnCalls' <= OwnCalls
        /\ OwnCalls' + told' = OwnCalls + told /\ CountsTyped'
        /\ OwnCalls \in Nat /\ OwnCalls' \in Nat /\ OtherCalls \in Nat /\ OtherCalls' \in Nat
    BY <1>0, <1>1, <2>1 DEF CountsTyped, OwnCalls, OtherCalls, One
  <2>4. CountsBounded'
    <3>1. /\ Load \in Nat /\ events \in Nat /\ psnNotes \in Nat /\ psnEvents \in Nat
          /\ psnCalls \in Nat /\ told \in Nat /\ told' \in Nat
      BY <1>0, <2>3 DEF CountsTyped
    <3>2. Bounded(MaxNotes, MaxPSN, Load, events, OwnCalls, OtherCalls, psnNotes, psnEvents,
                  psnCalls, told)
      BY <1>0 DEF CountsBounded
    <3>3. Bounded(MaxNotes, MaxPSN, Load, events, OwnCalls', OtherCalls', psnNotes, psnEvents,
                  psnCalls, told')
      BY <2>3, <3>1, <3>2, CallsTold
    <3> QED BY <1>1, <1>2, <2>1, <3>3 DEF CountsBounded
  <2> QED BY <2>2, <2>3, <2>4 DEF NotesInv
<1>4. CASE CheckPSNCallbacks
  <2>1. UNCHANGED <<events, psnEvents, calls>> /\ told' = told + psnCalls /\ psnCalls' = 0
    BY <1>4 DEF CheckPSNCallbacks
  <2>2. OwnCalls' = OwnCalls /\ OtherCalls' = OtherCalls /\ CountsTyped' /\ OwnCalls \in Nat
    BY <1>0, <1>1, <2>1 DEF CountsTyped, OwnCalls, OtherCalls, One
  <2>3. CountsBounded'
    BY <1>0, <1>1, <1>2, <2>1, <2>2 DEF CountsBounded, Bounded, CountsTyped
  <2>4. Untold => Untold'
    BY <1>1, <2>1, <2>2 DEF Untold
  <2> QED BY <1>0, <2>2, <2>3, <2>4 DEF NotesInv
<1>5. CASE GetBasicEvent
  <2>1. /\ UNCHANGED <<calls, psnCalls>>
        /\ told' = told \/ (told > 0 /\ told' = told - 1)
        /\ \/ events > 0 /\ events' = events - 1 /\ psnEvents' = psnEvents
           \/ events = 0 /\ events' = 0 /\ psnEvents > 0 /\ psnEvents' = psnEvents - 1
           \/ events = 0 /\ events' = 0 /\ psnEvents = 0 /\ psnEvents' = 0
    BY <1>5 DEF GetBasicEvent
  <2>2. /\ told' \in Nat /\ told' <= told /\ events' \in Nat /\ events' <= events
        /\ psnEvents' \in Nat /\ psnEvents' <= psnEvents
    BY <1>0, <2>1 DEF CountsTyped
  <2>3. OwnCalls' = OwnCalls /\ OwnCalls \in Nat /\ psnCalls' = psnCalls
    BY <1>0, <1>1, <2>1 DEF OwnCalls, One, CountsTyped
  <2>4. CountsTyped'
    BY <1>0, <1>1, <2>1, <2>2 DEF CountsTyped
  <2>5. OtherCalls' <= OtherCalls /\ OtherCalls' \in Nat /\ OtherCalls \in Nat
    <3>1. /\ OtherCalls' = psnNotes + psnCalls + told' /\ OtherCalls = psnNotes + psnCalls + told
          /\ psnNotes + psnCalls \in Nat /\ told \in Nat
      BY <1>0, <1>1, <2>3 DEF OtherCalls, CountsTyped
    <3>2. \A k, t, u \in Nat : u <= t => k + u <= k + t /\ k + u \in Nat /\ k + t \in Nat
      OBVIOUS
    <3> QED BY <2>2, <3>1, <3>2
  <2>6. \/ events' + psnEvents' = 0
        \/ events' + psnEvents' + 1 = events + psnEvents
    BY <1>0, <2>1 DEF CountsTyped
  <2>7. CountsBounded'
    <3>1. told' + 1 >= told
      BY <1>0, <2>1 DEF CountsTyped
    <3>2. /\ Load \in Nat /\ events \in Nat /\ psnNotes \in Nat /\ psnEvents \in Nat
          /\ psnCalls \in Nat /\ told \in Nat
      BY <1>0 DEF CountsTyped
    <3>3. Bounded(MaxNotes, MaxPSN, Load, events, OwnCalls, OtherCalls, psnNotes, psnEvents,
                  psnCalls, told)
      BY <1>0 DEF CountsBounded
    <3>4. Bounded(MaxNotes, MaxPSN, Load, events', OwnCalls, OtherCalls', psnNotes, psnEvents',
                  psnCalls, told')
      BY <2>2, <2>3, <2>5, <2>6, <3>1, <3>2, <3>3, EventTaken
    <3> QED BY <1>1, <1>2, <2>3, <3>4 DEF CountsBounded
  <2>8. Untold => Untold'
    <3>1. Untold => events' = 0
      BY <1>0, <2>1 DEF Untold
    <3>2. OtherCalls <= MaxPSN => OtherCalls' <= MaxPSN
      BY <2>5
    <3> QED BY <1>1, <2>1, <3>1, <3>2 DEF Untold
  <2> QED BY <1>0, <2>4, <2>7, <2>8 DEF NotesInv
<1>6. CASE DeleteObjects
  <2>1. UNCHANGED <<told, calls, psnEvents, psnCalls>> /\ events' = 0
    BY <1>6 DEF DeleteObjects, psnVars
  <2>2. OwnCalls' = OwnCalls /\ OtherCalls' = OtherCalls /\ CountsTyped' /\ OwnCalls \in Nat
    BY <1>0, <1>1, <2>1 DEF CountsTyped, OwnCalls, OtherCalls, One
  <2>3. CountsBounded'
    BY <1>0, <1>1, <1>2, <2>1, <2>2 DEF CountsBounded, Bounded, CountsTyped
  <2>4. Untold => Untold'
    BY <1>1, <2>1, <2>2 DEF Untold
  <2> QED BY <1>0, <2>2, <2>3, <2>4 DEF NotesInv
<1> QED BY <1>3, <1>4, <1>5, <1>6

LEMMA NotesStep == ThreadsInv /\ NumberInv /\ FlowInv /\ NotesInv /\ [Next]_vars => NotesInv'
<1> SUFFICES ASSUME ThreadsInv, NumberInv, FlowInv, NotesInv, [Next]_vars PROVE NotesInv'
  OBVIOUS
<1>0. PlacesTyped
  BY DEF ThreadsInv
<1>1. CASE Reader \/ Servers
  BY <1>1, ReaderNotes, ServerNotes
<1>2. CASE Connect \/ FreeRefused \/ JoinAndDisconnect
  <2>1. /\ CountsStay /\ packet' = packet /\ down' \in {<<>>, <<Info>>}
        /\ pc'["reader"] = pc["reader"]
    BY <1>0, <1>2 DEF Connect, FreeRefused, JoinAndDisconnect, Free, Goto, PlacesTyped, friendVars,
       psnVars, CountsStay
  <2>2. Notes(<<Info>>) = {}
    <3>1. DOMAIN <<Info>> = {1} /\ <<Info>>[1] = Info
      OBVIOUS
    <3> QED BY <3>1, MessageKinds DEF Notes
  <2> QED BY <2>1, <2>2, EmptyHolds, NotesCarried
<1>3. ASSUME CountsStay, UNCHANGED <<down, packet>>,
             pc'["reader"] = pc["reader"]
               \/ (pc["reader"] # "callback" /\ pc'["reader"] = "top")
      PROVE  NotesInv'
  BY <1>3, NotesCarried
<1>4. ASSUME NEW t \in Callers, ForgeSendReply(t) PROVE NotesInv'
  <2>1. CountsStay /\ UNCHANGED <<down, packet>>
    BY <1>4 DEF ForgeSendReply, ReadCounter, WriteCounter, ForgeSend, GetReply, CheckForReply, linkVars,
       friendVars, psnVars, CountsStay
  <2> QED BY <1>0, <1>3, <1>4, <2>1, CallGoes
<1>5. CASE Main /\ ~ ForgeSendReply("main") /\ ~ Connect /\ ~ FreeRefused
  <2>1. CountsStay /\ UNCHANGED <<down, packet>>
    BY <1>5 DEF Main, MainTop, ConnectFails, SetConnected, AwaitServerInfo, Authenticate, LoginAnswered,
       FillFriends, ClearRefused, Work, linkVars, friendVars, psnVars, CountsStay
  <2> QED BY <1>0, <1>3, <1>5, <2>1, MainGoes
<1>6. CASE Writer
  <2>1. CountsStay /\ UNCHANGED <<down, packet>>
    BY <1>6 DEF Writer, WriterTop, BeginSend, Send, SendFails, Undefined, linkVars, friendVars, psnVars, CountsStay
  <2> QED BY <1>0, <1>3, <1>6, <2>1, WriterGoes
<1>7. CASE CheckNPCallbacks \/ CheckPSNCallbacks \/ GetBasicEvent \/ DeleteObjects
  BY <1>7, GameNotes
<1>8. CASE RegisterHandler \/ RequestSignalingInfos \/ Close \/ Terminated \/ \E p \in Peers : RememberRequest(p)
  <2>1. CountsStay /\ UNCHANGED <<down, packet>> /\ pc'["reader"] = pc["reader"]
    BY <1>0, <1>8 DEF RegisterHandler, RequestSignalingInfos, Close, Terminated, RememberRequest, Goto, PlacesTyped,
       linkVars, friendVars, psnVars, CountsStay
  <2> QED BY <1>3, <2>1
<1>9. CASE Initialise \/ StartThreads \/ Constructed \/ UNCHANGED vars
  <2>1. CountsStay /\ UNCHANGED <<down, packet>>
    BY <1>9 DEF Initialise, StartThreads, Constructed, ConstructReplies, AskConnection, AskAuthentication,
       vars, linkVars, friendVars, psnVars, CountsStay
  <2>2. \/ pc'["reader"] = pc["reader"]
        \/ (pc["reader"] # "callback" /\ pc'["reader"] = "top")
    BY <1>0, <1>9 DEF Initialise, StartThreads, Constructed, ConstructReplies, AskConnection,
       AskAuthentication, vars, Goto, PlacesTyped, ThreadsInv, ClientThreads
  <2> QED BY <1>3, <2>1, <2>2
<1> QED BY <1>1, <1>2, <1>4, <1>5, <1>6, <1>7, <1>8, <1>9, Steps DEF GamePlays

-----------------------------------------------------------------------------
(* What is freed while the threads run.                                    *)

\* Only a refusal frees the wolfSSL objects beside the reader and the writer.
WolfInv ==
  /\ pc["reader"] = "wolf" \/ pc["writer"] = "wolf" => ssl \/ Refused
  /\ pc["main"] \in {"free", "clear"} => Refused
  /\ Defined \/ Refused

LEMMA RefusedStays ==
  ASSUME ThreadsInv, FlowInv, [Next]_vars
  PROVE  Refused => Refused'
<1>0. (LoginWaits => answer["main"] = None) /\ answer \in [Callers -> AnswersTo(Requests) \union {None}]
  BY DEF FlowInv, FlowTyped, OwnInv
<1>1. CASE Reader \/ Writer \/ Servers
  BY <1>1, ReaderReads, WriterTakes, ServerAnswers DEF Refused
<1>2. ASSUME NEW t \in Callers, ForgeSendReply(t) PROVE Refused => Refused'
  <2>1. UNCHANGED answer \/ (pc[t] = "look" /\ \E r : answer' = [answer EXCEPT ![t] = r])
    BY <1>2 DEF ForgeSendReply, ReadCounter, WriteCounter, ForgeSend, GetReply, CheckForReply, Goto,
       callVars
  <2>2. pc["main"] = "look" => ~ Refused
    BY <1>0 DEF LoginWaits, Refused
  <2>3. Refused => answer'["main"] = answer["main"]
    BY <1>0, <2>1, <2>2
  <2> QED BY <2>3 DEF Refused
<1>3. CASE Main /\ ~ ForgeSendReply("main")
  <2>1. answer' = answer
    BY <1>3 DEF Main, MainTop, ConnectFails, Connect, SetConnected, AwaitServerInfo, Authenticate,
       LoginAnswered, FillFriends, FreeRefused, ClearRefused, Work, callVars
  <2> QED BY <2>1 DEF Refused
<1>4. CASE GamePlays /\ ~ ForgeSendReply("game")
  <2>1. answer' = answer
    BY <1>4 DEF GamePlays, RegisterHandler, RememberRequest, RequestSignalingInfos, CheckNPCallbacks,
       CheckPSNCallbacks, GetBasicEvent, Close, Terminated, callVars
  <2> QED BY <2>1 DEF Refused
<1>5. CASE Initialise \/ StartThreads \/ Constructed \/ JoinAndDisconnect \/ DeleteObjects \/ UNCHANGED vars
  <2>1. answer' = answer
    BY <1>5 DEF Initialise, StartThreads, Constructed, ConstructReplies, AskConnection,
       AskAuthentication, JoinAndDisconnect, DeleteObjects, vars, callVars
  <2> QED BY <2>1 DEF Refused
<1> QED BY <1>1, <1>2, <1>3, <1>4, <1>5, Steps

LEMMA WolfStep == ThreadsInv /\ NumberInv /\ FlowInv /\ WolfInv /\ [Next]_vars => WolfInv'
<1> SUFFICES ASSUME ThreadsInv, NumberInv, FlowInv, WolfInv, [Next]_vars PROVE WolfInv'
  OBVIOUS
<1>0. PlacesTyped /\ PlacesTyped' /\ (Refused => Refused')
  BY RefusedStays, ThreadsStep DEF ThreadsInv
<1>d. /\ \A t \in ClientThreads : pc[t] \notin {"none", "left"} => np /\ signaling
      /\ pc["game"] # "undefined"
  BY DEF ThreadsInv, ClientThreads, PlacesTyped, GamePCs
<1>t. Threads = ClientThreads \union {"game"}
  BY DEF ClientThreads
<1>1. CASE UNCHANGED vars
  <2>1. UNCHANGED <<pc, ssl, answer>>
    BY <1>1 DEF vars, linkVars, callVars
  <2> QED BY <2>1 DEF WolfInv, Refused, Defined
<1>2. ASSUME Defined PROVE WolfInv'
  <2>0. \A t \in Threads : pc[t] # "undefined"
    BY <1>2 DEF Defined
  <2>1. ASSUME UNCHANGED ssl, pc'["main"] \notin {"free", "clear"} \/ pc'["main"] = pc["main"],
               pc'["reader"] # "wolf" \/ pc'["reader"] = pc["reader"],
               pc'["writer"] # "wolf" \/ pc'["writer"] = pc["writer"],
               \A t \in ClientThreads : pc'[t] # "undefined"
        PROVE  WolfInv'
    <3>1. Defined'
      BY <1>0, <1>t, <2>1 DEF Defined, PlacesTyped, GamePCs
    <3> QED BY <1>0, <2>1, <3>1 DEF WolfInv
  <2>2. ASSUME NEW t \in Callers, ForgeSendReply(t) PROVE WolfInv'
    <3>1. UNCHANGED ssl
      BY <2>2 DEF ForgeSendReply, ReadCounter, WriteCounter, ForgeSend, GetReply, CheckForReply, linkVars
    <3>2. /\ \A u \in Threads \ {t} : pc'[u] = pc[u]
          /\ pc'[t] \notin {"free", "clear", "undefined", "wolf"}
      BY <1>0, <2>2, CallGoes
    <3> QED BY <1>t, <2>0, <2>1, <3>1, <3>2 DEF ClientThreads
  <2>3. CASE MainTop \/ ConnectFails \/ Connect \/ SetConnected \/ AwaitServerInfo \/ Authenticate \/ FillFriends
    <3>1. /\ (ssl => ssl') /\ pc'["main"] \notin {"free", "clear", "undefined"}
          /\ pc'["reader"] = pc["reader"] /\ pc'["writer"] = pc["writer"]
      BY <1>0, <2>3 DEF MainTop, ConnectFails, Connect, SetConnected, AwaitServerInfo, Authenticate,
         FillFriends, Goto, PlacesTyped, linkVars
    <3>2. Defined'
      BY <1>0, <1>t, <2>0, <3>1 DEF Defined, ClientThreads, PlacesTyped, GamePCs
    <3> QED BY <1>0, <3>1, <3>2 DEF WolfInv
  <2>4. CASE LoginAnswered \/ FreeRefused \/ ClearRefused
    <3>1. /\ Refused \/ (ssl' = ssl /\ pc'["main"] \notin {"free", "clear"})
          /\ pc'["main"] # "undefined" /\ pc'["reader"] = pc["reader"] /\ pc'["writer"] = pc["writer"]
      BY <1>0, <2>4 DEF LoginAnswered, FreeRefused, ClearRefused, WolfInv, Refused, Goto, PlacesTyped,
         linkVars
    <3>2. Defined'
      BY <1>0, <1>t, <2>0, <3>1 DEF Defined, ClientThreads, PlacesTyped, GamePCs
    <3> QED BY <1>0, <3>1, <3>2 DEF WolfInv
  <2>5. CASE Work
    <3>1. pc["main"] = "work" /\ ssl' = ssl /\ pc'["main"] = "top"
          /\ pc'["reader"] = pc["reader"] /\ pc'["writer"] = pc["writer"]
      BY <1>0, <1>d, <2>5 DEF Work, Goto, PlacesTyped, linkVars, ClientThreads
    <3> QED BY <2>0, <2>1, <3>1 DEF ClientThreads
  <2>6. CASE Reader
    <3>0. \A u \in Threads \ {"reader"} : pc'[u] = pc[u]
      BY <1>0, <2>6, ReaderGoes
    <3>1. CASE Undefined("reader")
      <4>1. Refused
        BY <3>1 DEF Undefined, WolfInv
      <4> QED BY <1>0, <3>0, <4>1 DEF WolfInv
    <3>2. CASE HandleSignalingInfos
      <4>1. packet.type = "reply" /\ packet.cmd = "siginfo" /\ pc["reader"] = "handle" /\ ssl' = ssl
        BY <3>2 DEF HandleSignalingInfos, Goto, linkVars
      <4>2. packet \in AnswersTo(Requests)
        BY <4>1, MessageKinds DEF FlowInv, FlowTyped, Messages, IsReply
      <4>3. Asked(packet) \in InTransit /\ Asked(packet).cmd = "siginfo" /\ Asked(packet).id = packet.id
        BY <4>1, <4>2, ReplyKinds DEF InTransit
      <4>4. packet.id \in RequestIDs
        BY <4>3 DEF FlowInv, OwnInv, Own, Expected
      <4>5. signaling /\ \E q \in requests : q.id = packet.id
        BY <1>d, <4>1, <4>4 DEF ClientThreads, RequestIDs
      <4>6. pc'["reader"] = "top"
        BY <1>0, <3>2, <4>5 DEF HandleSignalingInfos, Goto, PlacesTyped
      <4> QED BY <2>0, <2>1, <3>0, <4>1, <4>6 DEF ClientThreads
    <3>3. CASE HandleNote
      <4>1. ssl' = ssl /\ pc["reader"] = "handle" /\ pc'["reader"] \in {"top", "event"}
        BY <1>0, <1>d, <3>3 DEF HandleNote, Goto, PlacesTyped, linkVars, ClientThreads
      <4> QED BY <2>0, <2>1, <3>0, <4>1 DEF ClientThreads
    <3>4. CASE BeginRead
      <4>1. ssl' = ssl /\ (ssl \/ pc'["reader"] = "left") /\ pc'["reader"] \in {"wolf", "left"}
        BY <1>0, <3>4 DEF BeginRead, Goto, PlacesTyped, linkVars
      <4>2. Defined'
        BY <1>0, <1>t, <2>0, <3>0, <4>1 DEF Defined, ClientThreads
      <4> QED BY <1>0, <3>0, <4>1, <4>2 DEF WolfInv
    <3>5. CASE ReaderTop \/ ReadNothing \/ ReadPacket \/ ReadFails \/ HandleInfo \/ HandleReply
               \/ QueueBasicEvent \/ SendBasicEvent
      <4>1. ssl' = ssl /\ pc'["reader"] \notin {"wolf", "undefined"}
        BY <1>0, <3>5 DEF ReaderTop, ReadNothing, ReadPacket, ReadFails, HandleInfo, HandleReply,
           QueueBasicEvent, SendBasicEvent, Goto, PlacesTyped, linkVars
      <4> QED BY <2>0, <2>1, <3>0, <4>1 DEF ClientThreads
    <3> QED BY <2>6, <3>1, <3>2, <3>3, <3>4, <3>5 DEF Reader
  <2>7. CASE Writer
    <3>0. \A u \in Threads \ {"writer"} : pc'[u] = pc[u]
      BY <1>0, <2>7, WriterGoes
    <3>1. CASE Undefined("writer")
      <4>1. Refused
        BY <3>1 DEF Undefined, WolfInv
      <4> QED BY <1>0, <3>0, <4>1 DEF WolfInv
    <3>2. CASE BeginSend
      <4>1. ssl' = ssl /\ (ssl \/ pc'["writer"] = "left") /\ pc'["writer"] \in {"wolf", "left"}
        BY <1>0, <3>2 DEF BeginSend, Goto, PlacesTyped, linkVars
      <4>2. Defined'
        BY <1>0, <1>t, <2>0, <3>0, <4>1 DEF Defined, ClientThreads
      <4> QED BY <1>0, <3>0, <4>1, <4>2 DEF WolfInv
    <3>3. CASE WriterTop \/ Send \/ SendFails
      <4>1. ssl' = ssl /\ pc'["writer"] \notin {"wolf", "undefined"}
        BY <1>0, <3>3 DEF WriterTop, Send, SendFails, Goto, PlacesTyped, linkVars
      <4> QED BY <2>0, <2>1, <3>0, <4>1 DEF ClientThreads
    <3> QED BY <2>7, <3>1, <3>2, <3>3 DEF Writer
  <2>8. CASE GamePlays /\ ~ ForgeSendReply("game")
    <3>1. ssl' = ssl
      BY <2>8 DEF GamePlays, RegisterHandler, RememberRequest, RequestSignalingInfos, CheckNPCallbacks,
         CheckPSNCallbacks, GetBasicEvent, Close, Terminated, linkVars
    <3> QED BY <1>0, <2>0, <2>1, <2>8, <3>1, GameGoes DEF ClientThreads
  <2>9. CASE Servers
    <3>1. ssl' = ssl /\ pc' = pc
      BY <2>9 DEF Servers, Answer, Notify, HangUp, NotifyPSN, linkVars
    <3> QED BY <2>0, <2>1, <3>1 DEF ClientThreads
  <2>10. CASE Initialise \/ StartThreads \/ Constructed \/ DeleteObjects
    <3>1. ssl' = ssl /\ \A t \in ClientThreads : pc'[t] \in {pc[t], "top"}
      BY <1>0, <2>10 DEF Initialise, StartThreads, Constructed, ConstructReplies, AskConnection,
         AskAuthentication, DeleteObjects, Goto, PlacesTyped, linkVars, ClientThreads
    <3> QED BY <2>0, <2>1, <3>1 DEF ClientThreads
  <2>11. CASE JoinAndDisconnect
    <3>1. \A t \in ClientThreads : pc'[t] = "left"
      BY <1>0, <2>11 DEF JoinAndDisconnect, Goto, PlacesTyped, ClientThreads
    <3>2. Defined'
      BY <1>0, <1>t, <3>1 DEF Defined, PlacesTyped, GamePCs
    <3> QED BY <3>1, <3>2 DEF WolfInv, ClientThreads
  <2> QED BY <1>1, <2>2, <2>3, <2>4, <2>5, <2>6, <2>7, <2>8, <2>9, <2>10, <2>11, Steps DEF Main
<1> QED BY <1>1, <1>2 DEF Next

-----------------------------------------------------------------------------
(* The theorems.                                                           *)

FlagsTyped ==
  /\ connected \in BOOLEAN /\ authentified \in BOOLEAN /\ terminate \in BOOLEAN
  /\ wantConnection \in BOOLEAN /\ wantAuthentication \in BOOLEAN /\ serverInfo \in BOOLEAN
  /\ ssl \in BOOLEAN /\ friends \in BOOLEAN /\ handler \in BOOLEAN
  /\ np \in BOOLEAN /\ signaling \in BOOLEAN
  /\ link \in {"none", "up", "broken"}

LEMMA FlagsStep == FlagsTyped /\ [Next]_vars => FlagsTyped'
<1> SUFFICES ASSUME FlagsTyped, [Next]_vars PROVE FlagsTyped'
  OBVIOUS
<1> USE DEF FlagsTyped, flagVars, linkVars, friendVars, psnVars, objectVars
<1>1. ASSUME NEW t \in Callers, ForgeSendReply(t) PROVE FlagsTyped'
  BY <1>1 DEF ForgeSendReply, ReadCounter, WriteCounter, ForgeSend, GetReply, CheckForReply
<1>2. CASE Main
  <2>1. CASE ConnectFails \/ AwaitServerInfo \/ LoginAnswered \/ Work
    BY <2>1 DEF ConnectFails, AwaitServerInfo, LoginAnswered, Work
  <2>2. CASE MainTop
    BY <2>2, ZenonT(60) DEF MainTop
  <2>3. CASE Connect
    BY <2>3, ZenonT(60) DEF Connect
  <2>4. CASE SetConnected
    BY <2>4, ZenonT(60) DEF SetConnected
  <2>5. CASE Authenticate
    BY <2>5, ZenonT(60) DEF Authenticate
  <2>6. CASE FillFriends
    BY <2>6, ZenonT(60) DEF FillFriends
  <2>7. CASE FreeRefused
    BY <2>7, ZenonT(60) DEF FreeRefused, Free
  <2>8. CASE ClearRefused
    BY <2>8, ZenonT(60) DEF ClearRefused, ResetFlags
  <2> QED BY <1>2, <1>1, <2>1, <2>2, <2>3, <2>4, <2>5, <2>6, <2>7, <2>8 DEF Main, Callers
<1>3. CASE Reader
  <2>1. CASE ReaderTop \/ ReadNothing \/ ReadPacket \/ Undefined("reader") \/ HandleReply \/
    HandleSignalingInfos \/ HandleNote \/ QueueBasicEvent \/ SendBasicEvent
    BY <2>1 DEF ReaderTop, ReadNothing, ReadPacket, Undefined, HandleReply, HandleSignalingInfos,
      HandleNote, QueueBasicEvent, SendBasicEvent
  <2>2. CASE BeginRead
    BY <2>2, ZenonT(60) DEF BeginRead
  <2>3. CASE ReadFails
    BY <2>3, ZenonT(60) DEF ReadFails
  <2>4. CASE HandleInfo
    BY <2>4, ZenonT(60) DEF HandleInfo
  <2> QED BY <1>3, <2>1, <2>2, <2>3, <2>4 DEF Reader
<1>4. CASE Writer
  <2>1. CASE WriterTop \/ Send \/ Undefined("writer")
    BY <2>1 DEF WriterTop, Send, Undefined
  <2>2. CASE BeginSend
    BY <2>2, ZenonT(60) DEF BeginSend
  <2>3. CASE SendFails
    BY <2>3, ZenonT(60) DEF SendFails
  <2> QED BY <1>4, <2>1, <2>2, <2>3 DEF Writer
<1>5. CASE Game
  <2>1. CASE StartThreads \/ RequestSignalingInfos \/ CheckNPCallbacks \/ CheckPSNCallbacks \/ GetBasicEvent \/ Close
    BY <2>1 DEF StartThreads, RequestSignalingInfos, CheckNPCallbacks, CheckPSNCallbacks,
       GetBasicEvent, Close
  <2>2. CASE Initialise
    BY <2>2, ZenonT(60) DEF Initialise
  <2>3. CASE Constructed
    <3>1. CASE ConstructReplies
      BY <3>1, ZenonT(60) DEF ConstructReplies
    <3>2. CASE AskConnection
      BY <3>2, ZenonT(60) DEF AskConnection
    <3>3. CASE AskAuthentication
      BY <3>3, ZenonT(60) DEF AskAuthentication
    <3> QED BY <2>3, <3>1, <3>2, <3>3 DEF Constructed
  <2>4. CASE RegisterHandler
    BY <2>4, ZenonT(60) DEF RegisterHandler
  <2>5. CASE Terminated
    BY <2>5, ZenonT(60) DEF Terminated
  <2>6. CASE JoinAndDisconnect
    BY <2>6, ZenonT(60) DEF JoinAndDisconnect, Free, ResetFlags
  <2>7. CASE DeleteObjects
    BY <2>7, ZenonT(60) DEF DeleteObjects
  <2>8. ASSUME NEW p \in Peers, RememberRequest(p) PROVE FlagsTyped'
    BY <2>8 DEF RememberRequest
  <2> QED BY <1>5, <1>1, <2>1, <2>2, <2>3, <2>4, <2>5, <2>6, <2>7, <2>8
          DEF Game, Closing, Callers, Constructed
<1>6. CASE Servers
  BY <1>6 DEF Servers, Answer, Notify, HangUp, NotifyPSN, linkVars
<1>7. CASE UNCHANGED vars
  BY <1>7 DEF vars
<1> QED BY <1>2, <1>3, <1>4, <1>5, <1>6, <1>7 DEF Next

\* The inductive invariant: who runs, which numbers the calls have, where each
\* request is, what the server may still tell, what is freed.
IInv == ThreadsInv /\ NumberInv /\ FlowInv /\ NotesInv /\ WolfInv /\ FlagsTyped

LEMMA Invariant == Spec => []IInv
<1>1. Init => IInv
  <2> SUFFICES ASSUME Init PROVE IInv
    OBVIOUS
  <2>1. ThreadsInv /\ NumberInv /\ FlowInv
    BY ThreadsInit, NumberInit, FlowInit
  <2>2. NotesInv
    <3>1. /\ notes = 0 /\ events = 0 /\ calls = 0 /\ told = 0 /\ pc["reader"] = "none"
          /\ psnNotes = MaxPSN /\ psnEvents = 0 /\ psnCalls = 0
          /\ packet # Note /\ Notes(down) = {}
      BY EmptyHolds, MessageKinds DEF Init
    <3> QED BY <3>1, FS_EmptySet DEF NotesInv, CountsTyped, CountsBounded, Bounded, Untold, Load,
                 OwnCalls, OtherCalls, One
  <2>3. WolfInv
    BY DEF Init, WolfInv, Defined
  <2>4. FlagsTyped
    BY DEF Init, FlagsTyped
  <2> QED BY <2>1, <2>2, <2>3, <2>4 DEF IInv
<1>2. IInv /\ [Next]_vars => IInv'
  BY ThreadsStep, NumberStep, FlowStep, NotesStep, WolfStep, FlagsStep DEF IInv
<1> QED BY <1>1, <1>2, PTL DEF Spec

\* The fields and queues of the client keep their types: RequestCounter is
\* taken by two calls only, the requests to the server are one per friend, and
\* no more events and callbacks are queued than the server has told of.
THEOREM TypeCorrect == Spec => []TypeOK
<1>1. IInv => TypeOK
  <2> SUFFICES ASSUME IInv PROVE TypeOK
    OBVIOUS
  <2>0. /\ PlacesTyped /\ CounterInv /\ FlowTyped /\ AskedInv /\ NotesInv /\ FlagsTyped
    BY DEF IInv, ThreadsInv, NumberInv, FlowInv
  <2>1. /\ pc \in [Threads -> MainPCs \union ReaderPCs \union WriterPCs \union GamePCs]
        /\ pc["main"] \in MainPCs /\ pc["reader"] \in ReaderPCs
        /\ pc["writer"] \in WriterPCs /\ pc["game"] \in GamePCs
    BY <2>0 DEF PlacesTyped
  <2>2. \A i \in DOMAIN down : down[i] \in {Info, Note} \union AnswersTo(Requests)
    BY <2>0, SeqElements DEF FlowTyped, Messages
  <2>3. \A t \in Callers : answer[t] = None \/ answer[t] \in AnswersTo(Requests)
    BY <2>0 DEF FlowTyped
  <2>4. \A q \in requests : q.id \in PeerIDs /\ q.peer \in asked
    <3>1. \A n \in 1 .. Cardinality(asked) : n \in 1 .. Cardinality(Peers)
      BY <2>0, AskedCounted
    <3> QED BY <2>0, <3>1 DEF AskedInv, PeerIDs
  <2>5. /\ {events, calls, notes} \subseteq 0 .. MaxNotes
        /\ {psnEvents, psnCalls, psnNotes} \subseteq 0 .. MaxPSN
        /\ told \in 0 .. MaxNotes + MaxPSN
    <3>1. Load \in Nat /\ notes <= Load /\ CountsTyped /\ CountsBounded
      BY <2>0, LoadCounts DEF NotesInv
    <3>2. OwnCalls \in Nat /\ calls <= OwnCalls
      BY <3>1 DEF CountsTyped, OwnCalls, One
    <3>3. OtherCalls \in Nat /\ told <= OtherCalls
      BY <3>1 DEF CountsTyped, OtherCalls
    <3> QED BY <3>1, <3>2, <3>3 DEF CountsTyped, CountsBounded, Bounded
  <2> QED BY <2>0, <2>1, <2>2, <2>3, <2>4, <2>5 DEF TypeOK, FlowTyped, AskedInv, CounterInv, FlagsTyped
<1> QED BY <1>1, Invariant, PTL

\* No event of RPCN or PSN is forgotten: each that waits has a callback to come or
\* to be followed up, whoever's callback the game follows up and whichever queue
\* GetBasicEvent serves it from.
THEOREM EventsAnnounced == Spec => []EventsAreAnnounced
<1>1. IInv => EventsAreAnnounced
  <2> SUFFICES ASSUME IInv PROVE EventsAreAnnounced
    OBVIOUS
  <2>1. CountsTyped /\ events + psnEvents <= OwnCalls + psnCalls + told
    BY DEF IInv, NotesInv, CountsBounded, Bounded
  <2> QED BY <2>1 DEF CountsTyped, OwnCalls, One, EventsAreAnnounced
<1> QED BY <1>1, Invariant, PTL

\* ForgeSendReply hands each caller the answer to its own request, in whatever
\* order the answers come, unless the two calls took the same number.
THEOREM RepliesMatched == Spec => []RepliesAreAnswers
<1>1. IInv => RepliesAreAnswers
  <2> SUFFICES ASSUME IInv, NEW t \in Callers, answer[t] # None, answer[t].cmd # Command(t)
               PROVE  NumbersShared
    BY DEF RepliesAreAnswers
  <2>1. Own(answer[t]) /\ answer[t].id = CallID(id[t])
    BY DEF IInv, FlowInv, OwnInv, Answers
  <2>2. CounterInv
    BY DEF IInv, NumberInv
  <2>3. id["main"] \in Nat /\ id["game"] \in Nat
    BY <2>2 DEF CounterInv
  <2>4. CallID(id["main"]) = CallID(id["game"])
    BY <2>1 DEF Own, Command
  <2>5. ~ LoginUnsent
    <3>1. CASE t = "main"
      BY <3>1 DEF IInv, FlowInv, OwnInv, LoginWaits
    <3>2. CASE t = "game"
      BY <2>1, <3>2 DEF Own, Command
    <3> QED BY <3>1, <3>2
  <2>6. id["main"] >= 1
    BY <2>2, <2>5 DEF CounterInv, LoginUnsent, LoginUncounted
  <2> QED BY <2>3, <2>4, <2>6, IDsApart DEF NumbersShared
<1> QED BY <1>1, Invariant, PTL

\* Unless the login is refused, no thread is inside wolfSSL when its objects are
\* freed, none finds Signaling or NP deleted, and each signaling answer finds
\* its entry in SignalingRequests.
THEOREM UndefinedOnlyIfRefused == Spec => []DefinedUnlessRefused
<1>1. IInv => DefinedUnlessRefused
  BY DEF IInv, WolfInv, DefinedUnlessRefused
<1> QED BY <1>1, Invariant, PTL

=============================================================================
