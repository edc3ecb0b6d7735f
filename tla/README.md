# Verification of cwml / CWLib

`cwml` is a mod loader for LittleBigPlanet (PS3, Vita and a Win32 development
target) in C++. It carries reimplementations of parts of the game's engine
(`src/code/CoreLib`, `src/code/CWLib`, `src/code/Ib`), a plugin loader with hot
reload (`src/code/cwml`) and plugins, of which CrossPlay
(`src/plugins/CrossPlay`) replaces the console's network by an RPCN client with
its own peer-to-peer signaling. This directory holds TLA+ models of it, the TLC
configurations that check them and the proofs that TLAPS checks. All paths
below are relative to the repository.

## 1. Inventory

| Component | State it keeps | Operations | What makes it correct |
|---|---|---|---|
| Priority queue and semaphore (`CoreLib/include/fifo.h`, `src/cell/fifo.cpp`, `src/win32/fifo.cpp`) | a vector sorted by key, a critical section, a semaphore, an `Abort` flag | `Push`, `Pop`/`Peek`, `Erase`, `CountIf`, `Abort`, `WaitAndDecrement` | order, no lost or spurious wake-up, waiters leave at shutdown |
| Job manager (`CoreLib/src/JobManager.cpp`) | `WorkQueue`, `ActiveQueue`, `NextUniqueJobID`, worker threads | `EnqueueJob`, worker loop, the two counts, destructor | each job runs once, most urgent first; counts are exact; the destructor returns |
| Decompression streams (`CoreLib/src/Serialise.cpp`, `CompressionJob.cpp`) | list of jobs, `CurJob`, `PendingInit`, `OutstandingBuffers`, a semaphore per stream | `LoadCompressionData`, `PumpDecompression`, `WaitForHead`, `ReadWrite`, `CleanupDecompression`, `DecompressJob` | bytes in order whatever order the workers finish in; bounded buffers; reads return; no buffer freed under a worker |
| Signaling (`plugins/CrossPlay/src/rpcn/SignalingHandler.cpp`) | a connection per peer, a queue of packets to repeat, callbacks for the game, requests RPCN has yet to answer | `InitSignaling`, `StartSignaling`, `StopSignaling`, `HandleIncomingMessage`, `HandleQueuedMessages` | a handshake over a lossy network that completes; the game told of every change |
| RPCN client (`rpcn/Client.cpp`, `NPHandler.cpp`, `CrossPlay.cpp`) | sockets, request and reply tables, event queues, three threads | connect, login, request and reply, events, disconnect, close | a reply reaches the call that asked; calls return when the connection is lost; nothing is used after it is deleted |
| Resource system (`CWLib/src/ResourceSystem.cpp`, `Resource.cpp`, `SerialiseCW.cpp`) | resource array, load state of each, four queues of serialised resources | `LoadResource`, the loader and slow threads, `ResourceSystemPump`, `BlockUntil...` | a wanted resource is loaded or failed, once; no lost request |
| Writable cache (`CWLib/src/Fart.cpp`, `FartLazy.cpp`) | a table of entries and a circular store, in a file; reader counts | `Put`, `GetReader`, `FileRead`, `CloseReader`, `Unlink`, `OpenCache` | what was put stays intact; a load gives what was asked for; recovery after a crash |
| Read-only archives (`CWLib/src/FartRO.cpp`) | a sorted table | `Find`, `GetReader` | every entry found |
| Plugin loader (`cwml/src/cwml.cpp`) | module states, reload flags, a thread that watches files | load, open, update, reload, close, unload | plugins called in order; a changed file is loaded |
| Script VM (`CWLib/src/vm/*`) | activation records, a working area shared by all calls, program counter | enter, instructions, call, return, exception | each call has variables of its own; frames stay inside the area |
| File database (`CWLib/src/GuidHashMap.cpp`) | a table, a sorted prefix, a tail | load, find | every entry found |
| Core containers and reference counts (`vector.h`, `refcount.*`, `Allocator.cpp`) | sizes, counts | insert, erase, resize; `CopyFrom`, `AddRef`, `Release` | no element lost, count equals references |
| Reflection (`Serialise.h`, `thing.cpp`, `Variable.cpp`) | a revision and a cursor | varint, ZigZag, per-type reflection | reading inverts writing |
| Game patches, UI, build files (`Patchwork`, `Ib/src/cell`, `evanspoker`, `Spuge`, `pctest1`) | hooks into the game's binary | | not modelled, see 12 |
| Vendored code (`src/sdk`) | zlib and headers of the platforms | | not modelled, see 12 |

How they interact. The resource loader reads files through the archives and
the file database; a resource that is compressed is read through a
decompression stream, whose blocks are jobs of the job manager, whose queues
are the priority queue. The plugin loader loads CrossPlay into the game; the
game's calls reach `CrossPlay.cpp`, which passes them to signaling and the RPCN
client; the client's main thread drives signaling's timers, and RPCN's replies
start it. All of it shares memory under critical sections; there are no
messages but the datagrams of signaling and the TCP stream to RPCN.

What is hard in it: threads that touch a queue and its semaphore in two steps;
workers that finish in any order; shutdown against waiting threads; waits that
time out; datagrams lost, repeated and overtaken; replies that come after the
state they were asked for has changed; files that are overwritten while they
are read, and a crash in between; a file rewritten while it is being loaded;
calls whose frames share one piece of memory. `PROJECT.json` lists every hazard at its line.

## 2. Plan

Each stage is a module (or two), its TLC run, and what is worth proving of it.

1. `PriorityQueue`, `JobPool`, `JobManager`: everything else in CWLib runs on
   them. Checked; every safety property proved, and that the manager implements
   `JobPool`.
2. `DecompressionStream`, composed with `JobPool`. Checked; every safety property
   proved.
3. `Signaling`. Checked; every safety property proved.
4. `ResourceSystem`: main, loader and slow threads. Checked; every safety property
   proved. Left: the order of priorities, saving, and what closing leaves behind.
5. `RpcnClient`: the client's threads, its request tables and its end. Checked;
   every safety property proved.
6. `PluginLoader` with the reload thread. Checked; both safety properties proved.
7. `LazyCache`: the circular store, crashes between two writes, recovery. Checked;
   every safety property proved.
8. `ScriptCalls`, `ScriptContext`: the interpreter's calls. Checked; nesting and
   the refinement proved.

What is planned no further, and why, is in section 12. No module has a `RECURSIVE`
operator: loops are folds, sets or recursive functions over a range of numbers, so
that they can be proved about.

## 3. Job manager (`PriorityQueue`, `JobPool`, `JobManager`)

`PriorityQueue` gives `Push` (the `lower_bound` insertion of `fifo.h`), `Pop`,
`EraseFirst` on sequences. `JobManager` has one action per atomic access of the
code: a critical section, a semaphore operation, or an unlocked read or write.

| Code | Actions |
|---|---|
| `EnqueueJob` | `IncrementID`, `ReadID`, `PushActive`, `InsertWork`, `CheckAbort`, `Post` |
| `WorkerThreadFunction`, `Pop`, `WaitAndDecrement` | `TestAborted`, `TakeToken`, `AnswerWait`, `PeekEmpty`/`PeekJob`, `Run`, `Erase` |
| `DoAbort`, destructor | `RaiseFlag`, `PostTokens`, `Join` |

`INCREMENT_32(NextUniqueJobID)` expands to a complete statement, so the counter
is incremented and then read again: two callers can be given the same ID, and a
worker erases the first entry of `ActiveQueue` with its job's ID. The model
keeps that, and the properties say what is true all the same:
`IDsDistinctPerCaller`, and `CountsAreExact` (of both counting queries) as long
as no two IDs have met.

The two platforms differ in `DoAbort`. The cell code raises the flag and posts
the 1000 tokens; the Win32 code posts first. `FlagFirst` selects one.
With the cell order, `PeekersFindWork` and `ShutdownCompletes` hold. With the
Win32 order a worker can take a shutdown token before the flag is up, find no
work and wait again; if the workers used up all the tokens the join would not
return. What holds in both orders is `JoinReturnsIfTokensRemain`, and it is what
the Win32 run is there for; the safety properties are checked in the other.

`JobPool` is the abstract specification: jobs wait, run and finish, at most
once, most urgent first. The run checks `ImplementsPool`, with `waiting`,
`running` and `finished` read off the queue, the workers and the history.

*Runs.* `job_manager_cell` and `job_manager_win32`: two callers (one calls twice), two
workers, priorities 0 and 1, two shutdown tokens. Two callers are enough for a
shared ID, two workers for erasing one another's entries, a second call for a
caller that meets its own earlier job. Two tokens for two workers is the
tightest instance of the code's 1000 for 4 and 2 (`TokensAssumption`); fewer
tokens only make shutdown harder. `EnqueueJob` is not begun after the
destructor has returned, where it would use freed memory.

*Fairness.* Weak, per thread: threads are scheduled and jobs return. Nothing
obliges a caller to call or the destructor to begin.

## 4. Decompression (`DecompressionStream`)

One reader thread over a list of blocks, and the pool of `JobPool` in its
concrete use (`INSTANCE`, so the composition rests on the refinement of section
3). Blocks have a size, are packed or stored, and are sound or damaged. The
bytes delivered are recorded as `<<block, position>>`; `Bytes` are those of a set of
blocks, so that a sum of sizes is a cardinality.

| Code | Actions |
|---|---|
| `LoadCompressionData` | `Load` |
| `PumpDecompression` | `Dispatch`, `PumpEnds` |
| `WaitForHead` | `TakeToken`, `TimeOut`, `TestHead`, `HeadWasReady`, `ReturnTokens` |
| `ReadWrite`, `GetData` | `BeginRead`, `ReadRaw`, `Copy`, `Advance`, `EndRead` |
| `CleanupDecompression` | `Close` |
| `DecompressJob` | `StartJob`, `WriteResult`, `PostDone`, `TouchFreed` |

What the model brings to light, and keeps:

- A worker writes `Result` and only then calls `job.Done->Increment()`. The
  reader tests `Result`, so it can finalise the head, pass it and free it in
  between; closing the stream does the same to blocks still in work. The worker
  then touches freed memory: `pc = "undefined"`, where the model ends. What does
  hold is `FreedAfterWritten`: no buffer goes while a worker inflates into it,
  as long as the stream is open.
- A stored block is read from the start of the vector, not from its own place:
  `DeliveredInOrder` speaks of the packed blocks only.
- `destLen` is not initialised before `uncompress`: a sound block may fail.

*Run.* `decompression_stream`: five streams of up to four blocks (all packed; a stored one
among them; a damaged one; one of size zero, which is refused; none), a window
of two units, a pool of two, reads of 0 to 2 bytes. The window holds less than
the stream, so that the pump stops and goes on; a block of size 2 overruns it,
as in the code, which tests before it adds. Reads of two bytes span blocks and
end inside them.

*Fairness.* Weak for the reader once it has begun a read and for each block's
worker: `ReadsReturn` says a read that has begun ends.

## 5. Signaling (`Signaling`)

Every handler holds `DataMutex`, so each is one step. Datagrams under way are a
set: they may be delivered in any order, lost (`Lose`) and delivered again
(`kept`). `Nodes` run this code; `Strangers` send any command at any time
under their own name. Time is abstracted: how many queued packets are due, and
whose minute is over, is free.

| Code | Actions |
|---|---|
| `InitSignaling`, `StartSignaling`, `StopSignaling` | the same names |
| the reply of RPCN, `Client.cpp` 602-639 | `StartSignaling`, `InfoRefused` |
| `HandleQueuedMessages` (with `ReschedulePacket`, which moves the entry while the iterator stands on it) | `HandleQueuedMessages(p, n)`, `TimeOut(p, n)` |
| `HandleIncomingMessage` | one `Receive...` action per command, `DropUnknown`, `FinishedByUnknown` |

Callbacks reach the game in order, so `told` and `ext` of a connection are what
it will have been told last.

What the model brings to light, and keeps:

- `SetupPing` sends back the packet just received, under the peer's own name.
  The peer does not find itself in its table and drops it (`DropUnknown`): no
  ping between two consoles of this code is answered.
- An error in answer to a signaling request leaves the connection `PENDING`,
  and `InitSignaling` does nothing for a pending one. `PendingIsPursued` holds
  up to such an answer (`refused`).
- A pass over the queue ends at an entry of a dead connection that is not a
  ping: what stands behind it is not sent again. `TimeOut` is that pass.
- `FINISHED_ACK` carries nothing that ties it to a connection: a late one
  closes a connection that has been opened again.

*Runs.* `signaling_pair`: two consoles open connections to each other, at once
or one after the other, nobody stops; checks `AckIsRepeated` and
`HandshakeCompletes`. A queue of at most 2 packets: a `CONNECT` that would make
the queue longer is lost, which the network may do anyway.
`signaling_any_peer`: one console, a stranger that sends anything, two opens, two
stops, time-outs, a queue of up to 4; checks the safety invariants. A single
console is enough for them because they speak of one console's state, and the
stranger sends more than a second console would.

*Fairness.* The main thread comes back to the queue (weak fairness of
`HeadTurn`); a datagram that is sent again and again gets through (strong
fairness per pair and command), without which no handshake completes.

## 6. Resource system (`ResourceSystem`)

This is the reimplementation that the Win32 build uses. The main thread asks for
resources, waits for them and deserialises them; the loading thread and the slow
thread fetch bytes. What moves between the queues is a serialised resource (CSR),
here the resource it was made for and a number. `gResourceCS` makes
`LoadResource`, `UnloadResource` and `SetResourceError` one step each; the pump
and the waits take a step for each look at shared state.

| Code | Actions |
|---|---|
| `LoadResource`, also from a reference met while deserialising | `Ask`, by `BeginLoad`, `Resubmit`, `Hasten` or `LeaveAsItIs` |
| `UnloadResource` | `Unload` |
| `MainLoadingThread`, `MainSlowThread` | `PopQueue`, `TestQuit`, `Deliver`, `PassToSlow`, `FailToRead`, `Leave` |
| `BlockUntilResourcesLoaded`, `BlockUntilLoaded_`, `CheckWaitingResources` | `Block`, `Request`, `Requested`, `Check`, `Turn`, `NoneLeft`, `Return` |
| `ResourceSystemPump`, `ResourceSystemPumpWork`, `DeserialiseResource` | `PopDone`, `PumpTimesOut`, `Discard`, `Attach`, `BeginDeserialise`, `EndDeserialise` |
| `SystemClose`, `CloseResourceSystem` | `WantQuit`, `AbortQueues`, `Close` |

A queue is a set, `CSRsDone` a number of copies of each CSR (`Resubmit` may put
a second one in): the order of a queue is what `JobManager` is about, and
nothing here depends on it. The outcome of reading and of deserialising is free.
The program sets the quit flag in `SystemClose`, when the main thread neither
loads nor waits, so the tests of the flag in `LoadResource` and in the waits
never succeed and are left out; those of the two threads are there. The early
return of `LoadResource` for a resource that may be created (`can_create`, lines
326-328) is left out too: every call in `src/` passes `false`
(`ResourceSystem.h` 98 and 106, `SerialiseCW.cpp` 37).

What the model brings to light, and keeps:

- `FindResourceInList(csr)` leaves the last element of the array in its result
  when nothing matches, so a CSR nobody wants is given to that element: its state
  is overwritten and it is deserialised from another resource's bytes, or fails
  for another's error. Unloading a resource while a thread reads it does it, and
  so does every load of a temporary resource, which is not in the array at all.
  The run `resource_stale_csr` finds it violating `UnwantedIsDiscarded` (the log
  message at line 567 says "discarded - not needed"). The history variable
  `strayed` is true from then on, and the other properties hold up to then.
- A streamed resource that was put aside (`DONT_DESERIALISE`) is handed to the
  pump again only by a request that puts it aside again; a wait for it never
  ends. `WaitsEnd` leaves such resources out by name (`Stuck`).
- `BlockUntilLoaded_` answers `true` although a resource failed, if it failed
  between the last check and the next turn of the loop. `AnswerIsSound` says what
  the answer does mean.

*Runs.* `resource_system`: an ordinary, a streamed and a temporary resource, waits
for one and for two, one call of `UnloadResource` at any idle moment, closing. The
temporary one is what the pump cannot find, and one unload is enough for a CSR
to become stale and for the resource to be loading again meanwhile, so the
answers, the ends and the waits are checked while old CSRs are still about.
`resource_stale_csr`: the violation above. The second copy of a CSR in `CSRsDone`
(`MaxCopies = 2`) is the first that can be left over.

*Fairness.* The threads are scheduled, and the main thread goes on once it
waits; nothing obliges it to ask, wait or close.

## 7. RPCN client (`RpcnClient`)

Four threads and two servers. The client's main thread connects, logs in and then
drives signaling; its reader and writer move whole packets; the game's thread
opens CrossPlay, calls its hooks and closes it. A step is one critical section,
or one unlocked access to what another thread writes.

| Code | Actions |
|---|---|
| `ForgeSendReply` (from `Login` and from `TerminateConnection`) | `ReadCounter`, `WriteCounter`, `ForgeSend`, `GetReply`, `CheckForReply` |
| `ReaderThread`, `HandleInput` | `ReaderTop`, `BeginRead`, `ReadNothing`, `ReadPacket`, `ReadFails`, `HandleInfo`, `HandleReply`, `HandleSignalingInfos`, `HandleNote`, `QueueBasicEvent`, `SendBasicEvent` |
| `WriterThread`, `HandleOutput` | `WriterTop`, `BeginSend`, `Send`, `SendFails` |
| `MainThread`, `Connect`, `Login`, `Disconnect` | `MainTop`, `ConnectFails`, `Connect`, `SetConnected`, `AwaitServerInfo`, `Authenticate`, `LoginAnswered`, `FillFriends`, `FreeRefused`, `ClearRefused`, `Work` |
| `CrossPlay` `Initialise`, its hooks, `Close`; the client's constructor and destructor | `Initialise`, `StartThreads`, `ConstructReplies`, `AskConnection`, `AskAuthentication`, `RegisterHandler`, `RememberRequest`, `RequestSignalingInfos`, `CheckNPCallbacks`, `CheckPSNCallbacks`, `GetBasicEvent`, `Close`, `Terminated`, `JoinAndDisconnect`, `DeleteObjects` |
| RPCN's server and PSN (external) | `Answer`, `Notify`, `HangUp`, `NotifyPSN` |

PSN shares the game's handler with RPCN. `RegisterContextSensitiveHandler` keeps
the handler for RPCN's callbacks and registers the same one with the platform
(`CrossPlay.cpp` 136-143); `CheckCallbacks` tells it of RPCN's callbacks
(`CheckNPCallbacks`) and then, by `cellSysutilCheckCallback`, of PSN's
(`CheckPSNCallbacks`); and the `GetBasicEvent` hook (145-151) hands out NP's
`EventQueue` first and asks the platform only when it is empty. So a callback of
either may fetch an event of the other, and an event of RPCN may be fetched
before its own callback is queued. `told` counts the callbacks of both that the
game has had and not followed up, and the game may call the hook without having
been told at all. `EventsAreAnnounced` says what is left: for every event that
waits in either queue a callback is still to come or to be followed up, so a game
that makes one call per callback leaves no event behind. (That each callback
finds an event when it is followed up would be wrong: a call out of turn takes
it.) The platform's queues are external, taken as first-in-first-out counts, one
callback per event.

What is undefined in the code (a thread inside wolfSSL while its objects are
freed, a deleted object, a signaling answer without its request) is a place
`"undefined"` at which the model ends.

What the model brings to light, and keeps:

- A refused login calls `Disconnect` on the main thread while the reader and the
  writer are inside wolfSSL. `DefinedUnlessRefused` says that this is the only
  way to something undefined.
- `RequestCounter++` is not guarded: a login and a leave-taking at the same time
  can take the same number. One reply then serves for both, or the second is
  dropped by `Replies.insert` and its caller waits for ever. `RepliesAreAnswers`
  and `CloseReturns` hold as long as the numbers differ (`NumbersShared`).
- Reader and writer leave at the first failure, and `WantConnection` is never
  set again: a console that lost the connection stays offline until the game
  restarts it.
- The result of `Connect` is not looked at: a server of another version is
  talked to all the same. `ErrorAndDisconnect` leaves `Authentified` set.
- `ReadMutex` and `WriteMutex` are never taken by the two threads they are named
  for.
- The constructor starts the threads and then writes what they read, one field
  after the other: the main thread may connect between `WantConnection` and
  `WantAuthentication`, and logs in on a later turn.
- The reader leaves for a malformed packet as for a broken link (`ReadFails`),
  and `HandleNote` makes no event of a name that is not found, of news older than
  what is known, or while the game has no handler.

Left out: that `Login` fills `FriendData` while the reader may look a friend up
in it, and the functions that lack a `return` (`Login`, `TerminateConnection`,
`SendBasicEvent`), taken to return as they were meant to. The early return of
`Login` on an empty name or password (`Client.cpp` 944-945) cannot be taken:
`Initialise` makes no client unless `gNPID` and `gPassword` are set
(`CrossPlay.cpp` 182-214), and a string option is set when it is not empty
(`cwml/Config.h` 130).

*Runs.* `rpcn_client`: one peer, so that a login, a request for its address and a
leave-taking are under way together and can be answered out of order; one
notification, the least that brings the reader to the event queue while the
others log in, are refused or close. `rpcn_events`: no peer, two notifications of
RPCN and two events of PSN, the least for which the callbacks and events of both
sources, and of different notifications, can meet.

*Fairness.* Each thread is scheduled, and the server answers a request or hangs
up (a dead connection is broken by TCP's own time-out); nothing obliges the game
to close, but what it then does goes on. `CloseReturns` needs the three threads
to see the flags, and the reply or the loss of the connection to arrive.

## 8. Plugin loader (`PluginLoader`)

The game's thread loads, opens, updates, reloads, closes and unloads plugins in
loops over the list; the reload thread looks at one file after the other. They
share `State`, `WasChangedLastTick`, `WantReload` and `Terminate` without a lock,
so every access is a step. A file is the number of its last write; somebody may
write it at any time.

| Code | Actions |
|---|---|
| `LoadPlugins`, `OpenModLoader` | `StatFirst`, `LoadFirst`, `NeedsRebuildPatch`, `OpenFirst`, `StartReloadHandler` |
| `PerFrameUpdate`, `CheckReloadFlag` | `BeginFrame`, `Update`, `TestFlag`, `ClearFlag`, `CloseForReload`, `UnloadForReload`, `Reload`, `Reopen` |
| `CloseModLoader` | `Stop`, `CloseReloadHandler`, `ClosePlugin`, `UnloadPlugin` |
| `ReloadHandler` | `TestTerminate`, `Look`, `Stat`, `Mark` |
| the file's author (external) | `Write` |

`LoadModule`, `OpenPlugin` and `UnloadModule` are operators, with each way a
plugin can fail as an outcome.

What the model brings to light, and keeps:

- This is the code under `CWML_HOT_RELOAD`, which no build file of the
  repository defines, and the hook of `UpdateModLoader` is commented out
  (`cwml.cpp` 508): the model is of what the code does when it is built in.
- `FileStat` is taken to differ whenever the content does, and a deleted file
  counts as one more version. A file that changes without a change of size and
  time would not be seen.
- When the patch must be rebuilt, plugins are loaded but not opened, and no
  reload thread is started (`NeedsRebuildPatch`).
- `ClosePlugins` leaves `State` at `Open`; only the unloading that follows makes
  that harmless. `WarmUpModLoader` allocates the context a second time, and
  `OpenPlugin` lacks a `return`; neither is in the model.

*Run.* `plugin_loader`: two plugins, one written twice and one once. Two plugins
make the two loops stand at different ones; a second write can come while the
first is being loaded, which is where a version could be forgotten.

*Fairness.* Both threads are scheduled, and the game draws frames until it
stops, which nothing obliges it to. `FileIsLoaded` says that what is on disk
comes to be loaded (or tried), unless the game stops or the thread was never
started.

## 9. Writable cache (`LazyCache`)

One file: a table of entries, then the bytes of resources, written round. A
write goes to the system's cache; `fats` and `cells` hold what each entry and
each cell may turn out to be after a crash, and `FileSync` leaves one choice. A
`Put` is split at its writes, so that reads (which hold no lock) and crashes
come between them.

| Code | Actions |
|---|---|
| `Put` with `RemoveFilesThatOverlap`, `RewriteFAT` | `BeginPut`, `WriteBytes`, `WriteEntry`, `Sync` |
| `FileLoad`, `SResourceReader`, `GetReader`, `CloseReader` | `GetReader`, `FileRead`, `FileClose`, `Destroy` |
| `Unlink` | `Unlink` |
| `OpenCache` | `Restart`, `Crash` |

`RemoveFilesThatOverlap` is a loop over the slots with a `goto` that begins it again
behind a locked entry. `Turn` is one turn or one such jump, on the loop's local
variables; the loop is `Turns` of them, which proves to be enough (section 11, lemma
`LoopEnds`); a turn after the end changes nothing.

What the model brings to light, and keeps:

- However many slots it has, the cache keeps two files at most (`AtMostTwoFiles`):
  the scan keeps the first file it may and frees every later one, because what
  it compares with `fseq` is the cache's own `Sequence`, which is above every
  entry's. The store is correct and nearly empty.
- The scan erases entries with open readers when they do not overlap; a reader
  keeps its offset and goes on. When a locked entry does overlap, the code means
  to begin again behind it, which in the checked instance never comes about.
  `LoadsAreSound` says the loads are sound all the same.
- Every reader is closed twice, by `FileLoad` and by its destructor, since
  `Owner` stays set: the count goes down twice, stopped at 0.
- Reopening frees the first slot if its file lies at the beginning, and then
  every later one. An unlinked entry can be there again after a crash.
- `CloseReader` is always told that the read succeeded: a corrupted entry is
  never unlinked, only refused by the comparison of hashes, each time.

Nothing in the repository calls `Put` or `Unlink`; the model calls them as the
interface allows. `~0ul` is compared with a `u32`, which assumes a 32-bit
`long`, as on the consoles. `WriteHead` wraps at 2^32, outside `MaxHead`. The
cached file handles are left out: they do not change what is read.

`Restart` is an opening that succeeds. Of the early returns of `OpenCache`, a file
that cannot be opened (277-278) leaves `_CacheFile` invalid: nothing of that session
reaches the disk, which is no step of the model. A file that cannot be brought to its
size and a table that cannot be read in full (283-284) are taken not to happen:
the code then goes on with entries it did not read, in the second case with
`WriteHead` right behind the table, and a later `Put` may write over files that are
still listed.

*Run.* `lazy_cache`: files of one and of two cells, three slots, a store of four
cells behind a table of one, two readers, three puts and two openings. Three
puts are the least for a file that is overwritten while another is read; a file
of two cells can be torn by a crash or by a `Put` that fails half way.
No fairness: there is no liveness to state of a store without threads.

## 10. Script calls (`ScriptCalls`, `ScriptContext`)

`ScriptCalls` is what a script's author relies on: a stack of calls, each with
variables of its own, arguments handed over, a value returned to one of the
caller's variables. `ScriptContext` is the interpreter: activation records that
point into one working area, where the frame of a callee begins where the
caller's ends and the arguments are written there before the call.

| Code | Actions |
|---|---|
| `TryInvokeSync`, `PrepareFunction`, `PushFunctionX` | `Enter`, `EnterFails` |
| `Run`: branches; constants, moves, operations and native calls | `Branch`; `Assign` |
| `Run`: `IT_ARG` | `Arg`, `ArgBeyond` |
| `Run`: `IT_CALL`, `PushFunction`, `GetState` | `Call`, `CallBeyond`, `StackOverflow` |
| `Run`: `IT_RET` | `Return` |
| `HandleScriptException` | `Raise` |

The bytecode is any that keeps to its function: branches inside it, operands
among its variables, a return or branch at the end. What an operation computes
is any value. The refinement mapping reads the frames off the working area, so
`ImplementsCalls` says that no call disturbs another's variables, however
they nest.

What the model brings to light, and keeps:

- `PushFunction` means to zero the callee's locals but clears `SavedStack`,
  where nothing is read: locals begin with what the area held. `ScriptCalls`
  therefore leaves them open. The `memset` may go beyond the vector's capacity
  (`CallBeyond`: `"undefined"`, where the model ends).
- `IT_ARG` writes behind the frame without looking where the area ends; the test
  for overflow comes with the call (`ArgBeyond`).
- The arguments of a function entered from outside are never copied (the
  `switch` in `PrepareFunction` is empty); `Enter` gives them any value.
- The bound on cycles compares `1 > num_cycles + 2` and never stops a run;
  `Finished` and `CanYield` are not looked at, so a script that loops holds the
  main thread. No property says that a script ends.
- What `Run` copies back to `SavedStack` is the start of the area, not the
  frame's; nothing reads it, and the model leaves it out. `TryInvokeSync`
  returns false in every case and leaks the context; `IT_DEC_I` falls through
  into the next case. Neither moves a frame.

Scripts run one at a time on the main thread, so the pool of working areas
hands out the same one each time: a second run begins in the remains of the
first.

*Run.* `script_calls`: an area of four cells, functions of one and two variables
and one of five that never fits, two runs. Four cells hold up to four nested
calls and are overrun by the next; the second run is what meets the remains.

## 11. Proofs

The first part of `JobManager_proof` is about `PriorityQueue`, for all values:
`PushProperties` (the result is one longer, with the new entry at its lower
bound and the others in order around it), and `PushValues`, `PopProperties` and
`EraseFirstProperties` for the rest.

Then it proves, for any number of callers, workers, requests and
calls, under `ThreadsAssumption`, `BoundsAssumption` and `TokensAssumption`:

- `TypeCorrect`: `Spec => []TypeOK`;
- `WakeupsAreExact`: `Spec => []WakeupsMatchWork`;
- `PeekersAlwaysFindWork`: `Spec => []PeekersFindWork`.

The inductive invariant is `TypeInv /\ WakeInv`. `TypeInv` is `TypeOK` with
what it needs to be kept: a thread that is in the middle of a job does hold one
(so that `job[c].Priority` means something). `WakeInv` is `WakeupsMatchWork`,
`PeekersFindWork` and `FlagFollowsCloser`, which says that the flag is raised
only by a closer that has begun and, in the cell order, that it is up as soon as
the closer has begun. The last is what makes the other two inductive:
`WakeupsMatchWork` says nothing once the closer has begun, so a worker sent to
the queue at that time must be shown to find an entry another way; with the
flag up nobody new gets past `AnswerWait`, and each worker at `peek` takes one
entry and leaves. `StepWakeInv` has one step per kind of action, over lemmas on
the size of the set of threads at a place when one thread moves.

The same module goes on to:

- `PoolImplemented`: `Spec => ImplementsPool`;
- `CallerIDsDistinct`: `Spec => []IDsDistinctPerCaller`;
- `CountsExact`: `Spec => []CountsAreExact`.

The refinement needs `CallInv`: which call each thread works on (`CallersOwn`), that
a job that is queued, held or finished was handed over by its caller and is in one
of those places (`HandedOver`, `Apart`), and that the queue is sorted by the
jobs' own priorities (`InOrder`), so that the entry taken is the most urgent. An ID
is never above the counter, and below it while its caller is between increment and
read (`IDsBounded`); without that a caller's next ID could be its last.
`CountsAreExact` speaks of a time when all IDs differ, but they may be equal
meanwhile and the jobs have finished since. `CountInv` therefore says
what is kept even then: for each ID there are as many entries of `ActiveQueue` as
unfinished jobs, since an erasure takes one entry of the ID, whichever it is.

`DecompressionStream_proof` proves for any streams, window, pool and reads, under
`StreamsAssumption` and `SizesAssumption`:

- `TypeCorrect`, `WindowIsKept`, `HeadDispatched`, `OrderKept`, `FreedLate`,
  `WakeupsSuffice`: `Spec => []P` for `TypeOK`, `OutstandingIsExact`,
  `HeadIsDispatched`, `DeliveredInOrder`, `FreedAfterWritten`, `WakeupsCoverBlocks`.

The invariant is `TypeOK /\ PlaceInv /\ BlockInv /\ OutstandingIsExact /\
DeliveryInv /\ WakeInv`. `PlaceInv` says what the reader knows at each place of
`WaitForHead` (after a test that succeeded the head is finalised, and stays so);
`BlockInv` that the list is cut in two by the reader and the pump: what is behind the
reader is finalised, what is ahead of the pump is untouched. `DeliveryInv` counts the
bytes delivered: they end where the reader stands. `WakeInv` is stronger
than `WakeupsCoverBlocks` at the place where a wait ends: one of the tokens it
took was for the block it waited for, and is not given back.

`Signaling_proof` proves for any consoles, strangers and bounds, under
`PeersAssumption` and `BoundsAssumption`:

- `TypeCorrect`, `PendingPursued`, `PingsAreSingle`, `GameIsTold`,
  `AcksAreRepeated`: `Spec => []P` for `TypeOK`, `PendingIsPursued`, `OnePingEach`,
  `StatusIsTold`, `AckIsRepeated`.

Its first half is about the queue. `RetireAllPackets` and `QueuePass` are loops,
written as recursive functions. `LoopExists` says that the function a loop of n turns
stands for exists, and `AfterTurns` that what each turn keeps holds at the end (by the least number
that would break it, so without an induction theorem). With them `AllRetired`
and `Passed` say what the two loops leave of a queue of any length: a pass sends
entries of the queue only, and leaves the same entries in another order. `SignalInv`
has `PeerOK` for each pair, which is three of the properties with what is queued
in terms of `Has`, and `DatagramOK`: a `CONNECT`, `CONNECT_ACK` or `CONFIRM` bears
its sender's own name, which is what makes the peer a packet came from the peer it
speaks of. `AckIsRepeated` is kept only together with the rest of `Steady`: while
nobody has stopped, no `FINISHED` is on its way or queued, and a
`CONNECT_ACK` that is still on its way, however old, was sent by one that repeats it or has
had the `CONFIRM`. `ChangeKeeps` says once what a handler about one peer has to show;
each handler then has one lemma.

`PluginLoader_proof` proves for any number of plugins and writes, under
`BoundsAssumption`:

- `TypeCorrect`: `Spec => []TypeOK`;
- `UpdatePursued`: `Spec => []UpdateIsPursued`;
- `OrderKept`: `Spec => CallsInOrder`.

`UpdateIsPursued` is not inductive alone. `PursuitInv` adds that what was seen or
loaded is never ahead of the file (`Past`: a look at the file cannot come out
older than what is loaded), and that the reload thread is started last
(`StartedLast`: while the first loops run, nobody else looks at the files). `CallsInOrder` is a property
of steps; it needs to know of each plugin which functions may have been called
by its state and by where the loops stand: `LifeOf(p)`, with `LoopsFromFirst`,
which says that between two loops the index stands at the first plugin.

`RpcnClient_proof` proves for any peers, notifications and events of PSN, under
`BoundsAssumption`:

- `TypeCorrect`, `EventsAnnounced`, `RepliesMatched`, `UndefinedOnlyIfRefused`:
  `Spec => []P` for `TypeOK`, `EventsAreAnnounced`, `RepliesAreAnswers`,
  `DefinedUnlessRefused`.

`ThreadsInv` says from when to when the client's threads run, and that what they
use is there as long. `NumberInv` bounds the counter by the two calls that can take
a number: each happens once. `FlowInv` follows a request: it is in one
place of the writer's queue, the batch, the line up, the line down and the reader's
hands, and it is the login's, the leave-taking's, or that of a peer whose entry
waits in `SignalingRequests`. Only so is it known that a reply finds its caller and an
address its entry. `NotesInv` counts notifications along the same way, down to the two
queues of the game (`Load` is what has not got there): with PSN's events and
callbacks beside them the counts stay in bounds (`CountsBounded`, of which `EventsAreAnnounced` is the last
part), and before the login is answered RPCN has told nothing (`Untold`), so the
answer may begin the count. The bounds are lemmas about numbers (`EventQueued`,
`CallsTold`, `EventTaken`, `LoadLost`), used at the steps that move a count. `WolfInv` says that the objects of wolfSSL are there whenever a
thread is inside, unless the login was refused.

`ResourceSystem_proof` proves for any resources, requests and waits, under
`ResourcesAssumption` and `InputsAssumption`:

- `TypeCorrect`: `Spec => []TypeOK`;
- `LoadsUnderWay`: `Spec => []LoadingIsUnderWay`;
- `EndedKept`: `Spec => EndedStaysEnded`;
- `AnswersSound`: `Spec => []AnswerIsSound`.

`TypeInv` adds to `TypeOK` that a resource is loaded once more than it is unloaded
(`LoadsInv`), which keeps the numbers of CSRs in their range. `PlaceInv` holds
whatever strays: a resource has a CSR just while it is loading or pending; a CSR
that is anywhere was made by a load that has begun (`Fresh`), so a new one is
nowhere yet; it is in one queue or one thread's hand (`FrontOnce`), or it has
been read and never comes back to a thread (`FrontOrBack`). `LoadInv` holds until a
CSR strays: each resource has its own CSR (`Mine`); that of a loading resource
is in one place (`UnderWay`); what is pending is streamed, except the
resource the pump has in hand (`AsideInv`); and that one nobody else touches
(`PumpInv`). `AsideInv` is what keeps a second copy in `CSRsDone` harmless: only a
resource that is put aside gets one, and it is not loading. A resource that has
ended has no CSR, so nobody finds it by one: that is `EndedKept` (lemma
`EndsOnce`). `AnswerInv` says for each place of the wait which of the
resources are over; `EndsOnce` is what lets a check of one resource stay true while
the loop goes on to the next.

`ScriptContext_proof` proves for any functions, values and sizes, under
`ScriptAssumption`:

- `Nesting`: `Spec => []FramesNest`;
- `CallsImplemented`: `Spec => ImplementsCalls`.

`NestInv` adds to `FramesNest` the types of a running script and `Apart`: of any
two frames, not only neighbours, the later begins behind the earlier. It follows
from nesting by an induction over the depth that the step proof carries along
instead. The refinement (`RefInv` is `NestInv` with the types of the working area)
rests on three facts: a write inside the last frame changes the locals of that
frame only (`Apart`); a write behind it changes none, and is found as an argument
by the callee, whose frame begins there; and a return writes one variable of the
frame below. One lemma per kind of instruction shows the step of `ScriptCalls`
it is; the others leave the mapped variables as they were.

`LazyCache_proof` proves for any files, readers, slots and sizes, under
`CacheAssumption`:

- `LoopEnds`, `PutLeaves`, `OpenLeaves`: what `RemoveFilesThatOverlap` does to any table;
- `TypeCorrect`, `CacheInvariant`: `Spec => []P` for `TypeOK` and `CacheInv`;
- `SyncedIntact`, `SoundLoads`, `TwoFiles`: `Spec => []P` for `SyncedEntriesIntact`,
  `LoadsAreSound`, `AtMostTwoFiles`.

The loop first. A jump goes to the end of an entry the place was within, so that
entry is behind for good; `TurnsLeft` counts the live entries that end further
on, times the slots, plus the slots this pass has yet to look at, and each turn makes it
less. It begins at `Turns` at most, so `Turns` turns reach the end, where what
each of them keeps holds: entries are erased and never made (`ErasesOnly`); a Put keeps
the file of the first slot or none, and its own slot is one of the first two
(`PutScan`); opening keeps the first slot or leaves nothing (`OpenScan`).

`CacheInv` has four parts. `TableInv`: the third slot is free now and after any
crash (`TwoSlots`, from which `AtMostTwoFiles` follows); no entry is numbered above the
cache's `Sequence`; a safe entry (one whose Put has returned) is what a crash
leaves too, and ends before the place of the next write (`Settled`). `DiskInv`: so are
its bytes. `PutInv`: a Put under way has the slot behind every other file and a
place at or behind the last one, and what it has written is there. `LoadsInv`: a
reader has the place its entry had, or the bytes.

`Settled` is not kept by opening without `Ordered`. `OpenCache` takes the
next place from the last slot of an increasing run of numbers, and a crash
may combine an old entry of one slot with a new one of the other. `Ordered` says of
any such combination that if the earlier is safe the later lies behind it, and if the
later is safe the earlier has a lower number: so the run ends at or after every safe
entry, and what is written next is behind them. With `head` wrong by
one entry (the mutant `WriteEntry_KeepHead`) the next Put writes over a file.

Only model-checked: liveness (`JobsFinish`, `ShutdownCompletes`,
`JoinReturnsIfTokensRemain`, `ReadsReturn`, `HandshakeCompletes`, `WaitsEnd`,
`CloseReturns`, `FileIsLoaded`), which rests on fairness and is out of the
prover's reach; and `JobPool` and `ScriptCalls` by themselves, which have no property of
their own: they are what is implemented.

## 12. Not modelled, and why

- Read-only archives (`FartRO`): a sorted table that is searched and never
  changed. (`CFartRO::Find` reads through `end()` for a hash behind the last, and
  the reader it makes has no `Owner`: visible in the code without a model.)
- The file database: read once, sorted and searched with `std` algorithms; no
  code of the repository adds to the unsorted tail that its search allows for.
- Serialisation primitives and the reflection of game data: arithmetic on one
  value and field after field, without state or an order of steps.
- Containers and reference counts: bookkeeping of single operations, and counts
  changed by one atomic instruction. The growth policy is in `ScriptContext`,
  where it matters.
- Critical sections and threads: wrappers of system calls; each model takes a
  section for a step and a thread for a process.
- Strings, paths, hashing, text: nothing a state model tells apart.
- Hooks into the game's binary (`Ib`, `Patchwork`), loaders, test programs, the
  build files; vendored zlib and platform headers in `src/sdk`, which are most
  of the lines of the repository and not this program's logic.
- Inside the components that are modelled, the parts their notes in
  `PROJECT.json` name: statistics of signaling, pings, saving of resources, the
  script VM's object tables and instance layouts, and what each instruction
  computes.

Wording, logging, formatting and the layout of packets are abstracted: no
property is about them. `PROJECT.json` maps each definition to its lines and
lists each hazard, with the properties that cover it or the reason none does.
