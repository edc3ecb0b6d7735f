--------------------------- MODULE ResourceSystem ---------------------------
(***************************************************************************)
(* The reimplementation of the game's resource system (CWLib/src/          *)
(* ResourceSystem.cpp, Resource.cpp, SerialiseCW.cpp): the main thread     *)
(* asks for resources and deserialises them; the loading thread and the    *)
(* slow thread fetch their bytes.  What goes from queue to queue is a      *)
(* serialised resource (CSR).                                              *)
(*                                                                         *)
(* A queue is a CPriorityQueue (see JobManager); the order it keeps does   *)
(* not matter here and is left out.  gResourceCS makes LoadResource,       *)
(* UnloadResource and SetResourceError steps of their own.                 *)
(*                                                                         *)
(* FLAGS_UNSHARED is not modelled for resources in gResourceArray: nothing *)
(* sets it, and the search (ResourceSystem.cpp:104) would not end.         *)
(***************************************************************************)
EXTENDS Integers, Sequences, FiniteSets, FiniteSetsExt

CONSTANTS
  Resources,       \* numbers, in the order of gResourceArray
  Temporary,       \* those created with FLAGS_TEMPORARY, which are not in it
  Asks,            \* what the code outside asks LoadResource for
  Waits,           \* the arguments of BlockUntilResourcesLoaded
  MaxUnloads,      \* bound: calls of UnloadResource
  MaxCopies,       \* bound: copies of a CSR in CSRsDone
  MayClose         \* whether the system may be closed

\* A priority is [level, dont, load]: its number, STREAM_PRIORITY_DONT_DESERIALISE
\* and the absence of STREAM_PRIORITY_DONT_LOAD.
Priorities == [level : 1 .. 5, dont : BOOLEAN, load : BOOLEAN]

ASSUME ResourcesAssumption ==
  Resources \subseteq Nat /\ IsFiniteSet(Resources) /\ Temporary \subseteq Resources

ASSUME InputsAssumption ==
  /\ Asks \subseteq Resources \X Priorities
  /\ Waits \subseteq Seq(Resources)
  /\ MaxUnloads \in Nat /\ MaxCopies \in Nat /\ MayClose \in BOOLEAN

VARIABLES
  state,           \* LoadState; "none" before the resource is created
  csr,             \* CSR of each resource
  prio,            \* Priority of each resource
  staging, slow,   \* CSRsForStaging, CSRsForSlow
  done,            \* CSRsDone: the copies of each CSR
  tpc, hand,       \* where the two threads are, and local variable "csr"
  pc,              \* where the main thread is
  wait, at,        \* "resources" and "i" of the two blocking functions
  loading, error,  \* locals of BlockUntilResourcesLoaded
  failed,          \* local "error" of BlockUntilLoaded_
  popped, res,     \* locals "csr" and "res" of ResourceSystemPumpWork
  loads, unloads,  \* calls so far (bounds)
  quit,            \* gWantQuit
  strayed          \* history: FindResourceInList has answered with a resource
                   \* that has nothing to do with the CSR

dataVars == <<state, csr, prio, staging, slow, done, loads, strayed>>
threadVars == <<tpc, hand>>
blockVars == <<wait, at, loading, error, failed>>
mainVars == <<pc, blockVars, popped, res>>
vars == <<dataVars, threadVars, mainVars, unloads, quit>>

Threads == {"loader", "slow"}

\* A resource is loaded again only after it has been unloaded.
MaxLoads == MaxUnloads + 1
None == [of |-> 0, load |-> 0]
CSRs == {[of |-> r, load |-> n] : r \in Resources, n \in 1 .. MaxLoads}
NoResource == -1

Immediate == [level |-> 1, dont |-> FALSE, load |-> TRUE]
Ended == {"loaded", "error"}

Init ==
  /\ state = [r \in Resources |-> "none"]
  /\ csr = [r \in Resources |-> None]
  /\ prio = [r \in Resources |-> [level |-> 5, dont |-> FALSE, load |-> TRUE]]
  /\ staging = {} /\ slow = {}
  /\ done = [c \in CSRs |-> 0]
  /\ tpc = [t \in Threads |-> "pop"] /\ hand = [t \in Threads |-> None]
  /\ pc = "idle"
  /\ wait = <<>> /\ at = 1 /\ loading = FALSE /\ error = FALSE /\ failed = FALSE
  /\ popped = None /\ res = NoResource
  /\ loads = [r \in Resources |-> 0] /\ unloads = 0
  /\ quit = FALSE /\ strayed = FALSE

-----------------------------------------------------------------------------
(* gResourceArray.                                                         *)

Listed == {r \in Resources \ Temporary : state[r] # "none"}

\* FindResourceInList(csr): by descriptor, then by CSR through the whole array.
\* The loop leaves the LAST element in "res" when no element has that CSR.
FindResource(c) ==
  LET holders == {r \in Listed : csr[r] = c}
  IN  CASE holders # {} -> Min(holders)
        [] holders = {} /\ Listed # {} -> Max(Listed)
        [] OTHER -> NoResource

Strays(c) == Listed # {} /\ \A r \in Listed : csr[r] # c

\* SetResourceError(csr, error).
SetResourceError(c) ==
  LET r == FindResource(c)
  IN  /\ IF r = NoResource THEN UNCHANGED <<state, csr>>
         ELSE state' = [state EXCEPT ![r] = "error"] /\ csr' = [csr EXCEPT ![r] = None]
      /\ strayed' = (strayed \/ Strays(c))

-----------------------------------------------------------------------------
(* LoadResource.                                                           *)

\* A resource that is not in the array yet is created, unloaded.
StateSeen(r) == IF state[r] = "none" THEN "unloaded" ELSE state[r]

BeginLoad(r, p) ==
  LET c == [of |-> r, load |-> loads[r] + 1]
  IN  /\ p.load /\ StateSeen(r) = "unloaded"
      /\ loads' = [loads EXCEPT ![r] = @ + 1]
      /\ state' = [state EXCEPT ![r] = "loading"]
      /\ csr' = [csr EXCEPT ![r] = c]
      /\ prio' = [prio EXCEPT ![r] = p]
      /\ staging' = staging \union {c}
      /\ UNCHANGED <<slow, done, strayed>>

\* A resource left for later is handed to the pump again, but only if it is
\* once more to be left for later.
Resubmit(r, p) ==
  /\ p.load /\ state[r] = "pending" /\ p.dont /\ prio[r].dont
  /\ csr[r] \in CSRs => done[csr[r]] < MaxCopies
  /\ prio' = [prio EXCEPT ![r] = p]
  /\ done' = IF csr[r] = None THEN done ELSE [done EXCEPT ![csr[r]] = @ + 1]
  /\ UNCHANGED <<state, csr, staging, slow, loads, strayed>>

Hasten(r, p) ==
  /\ p.load /\ state[r] = "loading" /\ p.level < prio[r].level
  /\ prio' = [prio EXCEPT ![r] = p]
  /\ UNCHANGED <<state, csr, staging, slow, done, loads, strayed>>

\* Nothing to do, but to create it.
LeaveAsItIs(r, p) ==
  /\ \/ ~ p.load
     \/ state[r] \in Ended
     \/ state[r] = "pending" /\ ~ (p.dont /\ prio[r].dont)
     \/ state[r] = "loading" /\ p.level >= prio[r].level
  /\ state' = [state EXCEPT ![r] = StateSeen(r)]
  /\ UNCHANGED <<csr, prio, staging, slow, done, loads, strayed>>

LoadResource(r, p) ==
  BeginLoad(r, p) \/ Resubmit(r, p) \/ Hasten(r, p) \/ LeaveAsItIs(r, p)

Ask(r, p) ==
  /\ pc \in {"idle", "deserialise"}
  /\ r \in Temporary => state[r] = "none"
  /\ LoadResource(r, p)
  /\ UNCHANGED <<threadVars, mainVars, unloads, quit>>

\* Broken: an entry is taken out of CSRsDone that is not there.
Unload_NotFound(r) ==
  /\ pc = "idle" /\ unloads < MaxUnloads /\ state[r] # "none"
  /\ unloads' = unloads + 1
  /\ staging' = staging \ {csr[r]} /\ slow' = slow \ {csr[r]}
  /\ done' = [c \in CSRs |-> IF c = csr[r] THEN done[c] - 1 ELSE done[c]]
  /\ csr' = [csr EXCEPT ![r] = None]
  /\ state' = [state EXCEPT ![r] = "unloaded"]
  /\ UNCHANGED <<prio, loads, strayed, threadVars, mainVars, quit>>

\* UnloadResource: Erase takes one entry out of a queue, and a CSR that a
\* thread holds is not in any.
Unload(r) ==
  /\ pc = "idle" /\ unloads < MaxUnloads /\ state[r] # "none"
  /\ unloads' = unloads + 1
  /\ staging' = staging \ {csr[r]} /\ slow' = slow \ {csr[r]}
  /\ done' = [c \in CSRs |-> IF c = csr[r] /\ done[c] > 0 THEN done[c] - 1 ELSE done[c]]
  /\ csr' = [csr EXCEPT ![r] = None]
  /\ state' = [state EXCEPT ![r] = "unloaded"]
  /\ UNCHANGED <<prio, loads, strayed, threadVars, mainVars, quit>>

-----------------------------------------------------------------------------
(* MainLoadingThread and MainSlowThread.                                   *)

InQueue(t) == IF t = "loader" THEN staging ELSE slow

Goto(t, from, to) == tpc[t] = from /\ tpc' = [tpc EXCEPT ![t] = to]

PopQueue(t) ==
  /\ pc \notin {"join", "closed"}
  /\ Goto(t, "pop", "test")
  /\ \E c \in InQueue(t) :
       /\ hand' = [hand EXCEPT ![t] = c]
       /\ staging' = IF t = "loader" THEN staging \ {c} ELSE staging
       /\ slow' = IF t = "slow" THEN slow \ {c} ELSE slow
  /\ UNCHANGED <<state, csr, prio, done, loads, strayed, mainVars, unloads, quit>>

\* Broken: the load is given up and the resource is not told.
TestQuit_Quiet(t) ==
  /\ Goto(t, "test", IF quit THEN "pop" ELSE "read")
  /\ hand' = IF quit THEN [hand EXCEPT ![t] = None] ELSE hand
  /\ UNCHANGED <<dataVars, mainVars, unloads, quit>>

\* WantQuit: the load is given up.
TestQuit(t) ==
  /\ Goto(t, "test", IF quit THEN "pop" ELSE "read")
  /\ IF quit THEN SetResourceError(hand[t]) /\ hand' = [hand EXCEPT ![t] = None]
             ELSE UNCHANGED <<state, csr, strayed, hand>>
  /\ UNCHANGED <<prio, staging, slow, done, loads, mainVars, unloads, quit>>

\* The bytes have been read...
Deliver(t) ==
  /\ Goto(t, "read", "pop")
  /\ done' = [done EXCEPT ![hand[t]] = @ + 1]
  /\ hand' = [hand EXCEPT ![t] = None]
  /\ UNCHANGED <<state, csr, prio, staging, slow, loads, strayed, mainVars, unloads, quit>>

\* Broken: the loop (766-797) is not left, and the CSR is taken for read as well.
PassToSlow_Twice ==
  /\ Goto("loader", "read", "pop")
  /\ slow' = slow \union {hand["loader"]}
  /\ done' = [done EXCEPT ![hand["loader"]] = @ + 1]
  /\ hand' = [hand EXCEPT !["loader"] = None]
  /\ UNCHANGED <<state, csr, prio, staging, loads, strayed, mainVars, unloads, quit>>

\* ...or are in a slow archive or a loose file...
PassToSlow ==
  /\ Goto("loader", "read", "pop")
  /\ slow' = slow \union {hand["loader"]}
  /\ hand' = [hand EXCEPT !["loader"] = None]
  /\ UNCHANGED <<state, csr, prio, staging, done, loads, strayed, mainVars, unloads, quit>>

\* ...or cannot be had.
FailToRead(t) ==
  /\ Goto(t, "read", "pop")
  /\ SetResourceError(hand[t])
  /\ hand' = [hand EXCEPT ![t] = None]
  /\ UNCHANGED <<prio, staging, slow, done, loads, mainVars, unloads, quit>>

Leave(t) ==
  /\ pc = "join"
  /\ Goto(t, "pop", "left")
  /\ UNCHANGED <<dataVars, hand, mainVars, unloads, quit>>

ThreadStep(t) ==
  \/ PopQueue(t) \/ TestQuit(t) \/ Deliver(t) \/ FailToRead(t) \/ Leave(t)
  \/ t = "loader" /\ PassToSlow

-----------------------------------------------------------------------------
(* BlockUntilResourcesLoaded and BlockUntilLoaded_.                        *)

Waited == wait[at]

Block(rs) ==
  /\ pc = "idle"
  /\ \A i \in DOMAIN rs : state[rs[i]] # "none"
  /\ wait' = rs /\ at' = 1
  /\ loading' = FALSE /\ error' = FALSE /\ failed' = FALSE
  /\ pc' = IF Len(rs) = 1 /\ state[rs[1]] = "loaded" THEN "return" ELSE "request"
  /\ UNCHANGED <<dataVars, threadVars, popped, res, unloads, quit>>

\* One turn of the first loop.  Its second condition compares a number below
\* 65536 with a flag above it: every resource is asked for.
Request ==
  /\ pc = "request" /\ at <= Len(wait)
  /\ at' = at + 1
  /\ IF state[Waited] = "error"
     THEN error' = TRUE /\ UNCHANGED <<loading, dataVars>>
     ELSE /\ loading' = (loading \/ state[Waited] # "loaded")
          /\ LoadResource(Waited, Immediate)
          /\ UNCHANGED error
  /\ UNCHANGED <<threadVars, pc, wait, failed, popped, res, unloads, quit>>

Requested ==
  /\ pc = "request" /\ at > Len(wait)
  /\ at' = 1
  /\ pc' = IF loading THEN "check" ELSE "return"
  /\ UNCHANGED <<dataVars, threadVars, wait, loading, error, failed, popped, res, unloads, quit>>

\* CheckWaitingResources: looks no further than the first that is not loaded.
NotLoaded == {i \in DOMAIN wait : state[wait[i]] # "loaded"}

\* Broken: a check of the first resource only.
Check_First ==
  /\ pc = "check"
  /\ failed' = (state[wait[1]] = "error")
  /\ pc' = IF state[wait[1]] = "loaded" THEN "return" ELSE "turn"
  /\ UNCHANGED <<dataVars, threadVars, wait, at, loading, error, popped, res, unloads, quit>>

Check ==
  /\ pc = "check"
  /\ failed' = (NotLoaded # {} /\ state[wait[Min(NotLoaded)]] = "error")
  /\ pc' = IF NotLoaded = {} THEN "return" ELSE "turn"
  /\ UNCHANGED <<dataVars, threadVars, wait, at, loading, error, popped, res, unloads, quit>>

\* Broken: a resource that failed is waited for.
Turn_LoadedOnly ==
  /\ pc = "turn" /\ at <= Len(wait)
  /\ IF state[Waited] = "loaded" THEN at' = at + 1 /\ UNCHANGED pc
                                 ELSE pc' = "pump" /\ UNCHANGED at
  /\ UNCHANGED <<dataVars, threadVars, wait, loading, error, failed, popped, res, unloads, quit>>

\* The loop over the resources; "failed" is what the last check found.
Turn ==
  /\ pc = "turn" /\ at <= Len(wait)
  /\ IF state[Waited] \in Ended THEN at' = at + 1 /\ UNCHANGED pc
                                ELSE pc' = "pump" /\ UNCHANGED at
  /\ UNCHANGED <<dataVars, threadVars, wait, loading, error, failed, popped, res, unloads, quit>>

NoneLeft ==
  /\ pc = "turn" /\ at > Len(wait)
  /\ pc' = "return"
  /\ UNCHANGED <<dataVars, threadVars, blockVars, popped, res, unloads, quit>>

\* What the caller gets.
Answer == ~ failed /\ ~ error

Return ==
  /\ pc = "return"
  /\ pc' = "idle" /\ wait' = <<>> /\ at' = 1
  /\ loading' = FALSE /\ error' = FALSE /\ failed' = FALSE
  /\ UNCHANGED <<dataVars, threadVars, popped, res, unloads, quit>>

-----------------------------------------------------------------------------
(* ResourceSystemPump, by the main thread, within the wait.                *)

PopDone ==
  /\ pc = "pump"
  /\ \E c \in CSRs :
       /\ done[c] > 0
       /\ done' = [done EXCEPT ![c] = @ - 1]
       /\ popped' = c
  /\ pc' = "find"
  /\ UNCHANGED <<state, csr, prio, staging, slow, loads, strayed, threadVars, blockVars, res,
                 unloads, quit>>

\* Nothing for five milliseconds.
PumpTimesOut ==
  /\ pc = "pump" /\ \A c \in CSRs : done[c] = 0
  /\ pc' = "check"
  /\ UNCHANGED <<dataVars, threadVars, blockVars, popped, res, unloads, quit>>

\* After a piece of work the pump goes on until eleven milliseconds are over.
PumpGoesOn == pc' \in {"pump", "check"} /\ popped' = None /\ res' = NoResource

Discard ==
  /\ pc = "find" /\ FindResource(popped) = NoResource
  /\ pc' = "check" /\ popped' = None /\ res' = NoResource
  /\ UNCHANGED <<dataVars, threadVars, blockVars, unloads, quit>>

\* The resource found gets the CSR.  (The two assignments are not one critical
\* section; only a CSR that strays could come between them.)
Attach ==
  LET r == FindResource(popped)
  IN  /\ pc = "find" /\ r # NoResource
      /\ state' = [state EXCEPT ![r] = "pending"]
      /\ csr' = [csr EXCEPT ![r] = popped]
      /\ strayed' = (strayed \/ Strays(popped))
      /\ IF prio[r].dont THEN PumpGoesOn
                         ELSE pc' = "begin" /\ res' = r /\ UNCHANGED popped
      /\ UNCHANGED <<prio, staging, slow, done, loads, threadVars, blockVars, unloads, quit>>

\* SerialiseResource: refuses a resource that another thread has failed since.
BeginDeserialise ==
  /\ pc = "begin"
  /\ IF csr[res] = None \/ state[res] = "error"
     THEN /\ state' = [state EXCEPT ![res] = "error"]
          /\ csr' = [csr EXCEPT ![res] = None]
          /\ PumpGoesOn
     ELSE /\ state' = [state EXCEPT ![res] = "loading"]
          /\ pc' = "deserialise"
          /\ UNCHANGED <<csr, popped, res>>
  /\ UNCHANGED <<prio, staging, slow, done, loads, strayed, threadVars, blockVars, unloads, quit>>

EndDeserialise ==
  /\ pc = "deserialise"
  /\ \E s \in Ended : state' = [state EXCEPT ![res] = s]
  /\ csr' = [csr EXCEPT ![res] = None]
  /\ PumpGoesOn
  /\ UNCHANGED <<prio, staging, slow, done, loads, strayed, threadVars, blockVars, unloads, quit>>

-----------------------------------------------------------------------------
(* SystemClose and CloseResourceSystem.                                    *)

WantQuit ==
  /\ pc = "idle" /\ MayClose
  /\ quit' = TRUE /\ pc' = "closing"
  /\ UNCHANGED <<dataVars, threadVars, blockVars, popped, res, unloads>>

AbortQueues ==
  /\ pc = "closing"
  /\ pc' = "join"
  /\ UNCHANGED <<dataVars, threadVars, blockVars, popped, res, unloads, quit>>

\* The joins, and UnloadAllResources.
Close ==
  /\ pc = "join" /\ \A t \in Threads : tpc[t] = "left"
  /\ pc' = "closed"
  /\ LET gone == {csr[r] : r \in Listed}
     IN  /\ staging' = staging \ gone /\ slow' = slow \ gone
         /\ done' = [c \in CSRs |-> IF c \in gone /\ done[c] > 0 THEN done[c] - 1 ELSE done[c]]
  /\ csr' = [r \in Resources |-> IF r \in Listed THEN None ELSE csr[r]]
  /\ state' = [r \in Resources |-> IF r \in Listed THEN "unloaded" ELSE state[r]]
  /\ UNCHANGED <<prio, loads, strayed, threadVars, blockVars, popped, res, unloads, quit>>

-----------------------------------------------------------------------------

\* What the main thread does once it waits, or closes.
MainStep ==
  \/ Request \/ Requested \/ Check \/ Turn \/ NoneLeft \/ Return
  \/ PopDone \/ PumpTimesOut \/ Discard \/ Attach \/ BeginDeserialise \/ EndDeserialise
  \/ AbortQueues \/ Close

Next ==
  \/ \E a \in Asks : Ask(a[1], a[2])
  \/ \E r \in Resources : Unload(r)
  \/ \E rs \in Waits : Block(rs)
  \/ MainStep
  \/ WantQuit
  \/ \E t \in Threads : ThreadStep(t)

Spec == Init /\ [][Next]_vars

\* The threads are scheduled.  Nothing obliges the main thread to ask, to wait
\* or to close.
FairSpec == Spec /\ WF_vars(MainStep) /\ \A t \in Threads : WF_vars(ThreadStep(t))

-----------------------------------------------------------------------------
(* Properties.                                                             *)

States == {"none", "unloaded", "loading", "pending", "loaded", "error"}
WaitPCs == {"request", "check", "turn", "pump", "find", "begin", "deserialise"}

\* The variables keep their types; a thread, and the pump, hold a CSR just as
\* long as they work on it.
TypeOK ==
  /\ state \in [Resources -> States]
  /\ csr \in [Resources -> CSRs \union {None}]
  /\ prio \in [Resources -> Priorities]
  /\ staging \subseteq CSRs /\ slow \subseteq CSRs
  /\ done \in [CSRs -> Nat]
  /\ tpc \in [Threads -> {"pop", "test", "read", "left"}]
  /\ hand \in [Threads -> CSRs \union {None}]
  /\ \A t \in Threads : hand[t] = None <=> tpc[t] \in {"pop", "left"}
  /\ pc \in WaitPCs \union {"idle", "return", "closing", "join", "closed"}
  /\ wait \in Seq(Resources) /\ at \in 1 .. Len(wait) + 1
  /\ loading \in BOOLEAN /\ error \in BOOLEAN /\ failed \in BOOLEAN
  /\ popped \in CSRs \union {None}
  /\ popped = None <=> pc \notin {"find", "begin", "deserialise"}
  /\ res \in Resources \union {NoResource}
  /\ res = NoResource <=> pc \notin {"begin", "deserialise"}
  /\ loads \in [Resources -> 0 .. MaxLoads] /\ unloads \in 0 .. MaxUnloads
  /\ quit \in BOOLEAN /\ strayed \in BOOLEAN

\* Where a CSR is.
Copies(c) ==
  done[c] + Cardinality({t \in Threads : hand[t] = c})
          + Cardinality({q \in {"staging", "slow", "pump"} :
                           CASE q = "staging" -> c \in staging
                             [] q = "slow"    -> c \in slow
                             [] q = "pump"    -> c = popped})

\* A resource that is loading is being loaded: its CSR is in one queue or in
\* one pair of hands, and in no two, however the main thread asks again, hastens
\* it or unloads it meanwhile.  Otherwise it would never be loaded, since
\* LoadResource does nothing for a resource that is loading (260-294).
LoadingIsUnderWay ==
  ~ strayed =>
    \A r \in Listed :
      state[r] = "loading" => csr[r] # None /\ Copies(csr[r]) = 1

\* A load ends once: nothing a thread still does, and no copy of a CSR left in
\* CSRsDone, changes a resource that was loaded or failed, until it is unloaded.
EndedStaysEnded ==
  [][~ strayed' =>
       \A r \in Resources : state[r] \in Ended => state'[r] \in {state[r], "unloaded"}]_vars

\* What BlockUntilResourcesLoaded answers: no resource is left to wait for, and
\* "false" only if one of them failed.  (It may answer "true" although one
\* failed: when that happens after the last check and before the next turn of
\* the loop, BlockUntilLoaded_ leaves with the error flag of the check.)
AnswerIsSound ==
  pc = "return" /\ ~ strayed =>
    /\ \A i \in DOMAIN wait : state[wait[i]] \in Ended
    /\ ~ Answer => \E i \in DOMAIN wait : state[wait[i]] = "error"

\* The resources nobody will ever finish: a streamed one that was put aside
\* (Resubmit asks for the flag where it should ask for its absence), and a
\* temporary one, which the pump does not find.
Stuck(r) == r \in Temporary \/ (state[r] = "pending" /\ prio[r].dont)

\* The wait ends, unless it is for a resource nobody will finish.
WaitsEnd ==
  (pc \in WaitPCs) ~> (\/ pc = "return" \/ strayed
                       \/ \E i \in DOMAIN wait : Stuck(wait[i]))

\* A serialised resource that no resource waits for is "discarded - not needed"
\* (567): what a resource is deserialised from was read for it.
UnwantedIsDiscarded == \A r \in Resources : csr[r] # None => csr[r].of = r

=============================================================================
