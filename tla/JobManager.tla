----------------------------- MODULE JobManager -----------------------------
(***************************************************************************)
(* CJobManager (CoreLib/src/JobManager.cpp) over two CPriorityQueues and   *)
(* their CMMSemaphores (CoreLib/src/fifo.h, cell/fifo.cpp,                 *)
(* win32/fifo.cpp).                                                        *)
(*                                                                         *)
(* Callers are the threads that call EnqueueJob, Workers the threads of    *)
(* the pool, and the Closer is the thread that runs ~CJobManager.  A step  *)
(* is one atomic access of the code: a critical section of a queue, an     *)
(* operation of a semaphore, or a read or write of a shared word that no   *)
(* lock protects (NextUniqueJobID, CMMSemaphore::Abort).                   *)
(***************************************************************************)
EXTENDS PriorityQueue

CONSTANTS
  Callers,         \* threads that enqueue jobs
  Workers,         \* threads of the pool
  Closer,          \* the thread that destroys the manager
  Requests,        \* what the callers ask for: <<caller, priority, tag>>
  MaxCalls,        \* bound: calls of EnqueueJob by each caller
  AbortTokens,     \* the tokens DoAbort posts (1000 in the code)
  FlagFirst        \* TRUE: cell/fifo.cpp (flag, then post);
                   \* FALSE: win32/fifo.cpp (post, then flag)

ASSUME ThreadsAssumption ==
  /\ Callers \intersect Workers = {}
  /\ Closer \notin Callers \union Workers
  /\ IsFiniteSet(Callers) /\ IsFiniteSet(Workers)

ASSUME BoundsAssumption ==
  /\ \A r \in Requests : r[1] \in Callers /\ r[2] \in Int
  /\ MaxCalls \in [Callers -> Nat]
  /\ AbortTokens \in Nat
  /\ FlagFirst \in BOOLEAN

\* Enough tokens to wake every worker at shutdown; the pools of the code
\* have 4 and 2 threads (CWLib/src/SystemCommon.cpp:202).
ASSUME TokensAssumption == Cardinality(Workers) <= AbortTokens

VARIABLES
  queue,           \* WorkQueue.Q and ActiveQueue.Q
  sem,             \* tokens of the two queues' semaphores
  abort,           \* WorkQueue.sem.Abort; ActiveQueue is never aborted
  nextID,          \* NextUniqueJobID
  pc,              \* where each thread is
  job,             \* local variable "job" of EnqueueJob and of the worker loop
  calls,           \* calls of EnqueueJob each caller has begun (bound)
  finished         \* history: the jobs whose function has returned

vars == <<queue, sem, abort, nextID, pc, job, calls, finished>>

Queues == {"active", "work"}

\* EnqueueJob pushes 191 - prio: the most urgent job has the smallest key.
QueueKey(prio) == 191 - prio

Calls == UNION {{c} \X (1 .. MaxCalls[c]) : c \in Callers}

Threads == Callers \union Workers \union {Closer}
CallerPCs == {"idle", "readID", "pushActive", "insertWork", "checkAbort", "post"}
WorkerPCs == {"loop", "wait", "woken", "peek", "run", "erase", "exited"}
CloserPCs == {"idle", "flag", "post", "join", "closed"}

Priorities == {r[2] : r \in Requests}
Tags == {r[3] : r \in Requests}

\* SJob; "call" names the EnqueueJob call it belongs to (Function and
\* UserData are fixed by it).
Job == [JobID : Nat, Tag : Tags, Priority : Priorities, call : Calls]

NoJob == [call |-> "none"]

-----------------------------------------------------------------------------

Init ==
  /\ queue = [q \in Queues |-> <<>>]
  /\ sem = [q \in Queues |-> 0]
  /\ abort = FALSE
  /\ nextID = 1
  /\ pc = [t \in Threads |->
             IF t \in Workers THEN "loop" ELSE "idle"]
  /\ job = [t \in Callers \union Workers |-> NoJob]
  /\ calls = [c \in Callers |-> 0]
  /\ finished = {}

Goto(t, from, to) == pc[t] = from /\ pc' = [pc EXCEPT ![t] = to]

-----------------------------------------------------------------------------
(* EnqueueJob, by caller c.                                                *)

\* Broken: the counter is read and not incremented.
IncrementID_Keep(c, prio, tag) ==
  /\ pc[Closer] # "closed"
  /\ calls[c] < MaxCalls[c]
  /\ Goto(c, "idle", "readID")
  /\ calls' = [calls EXCEPT ![c] = @ + 1]
  /\ job' = [job EXCEPT ![c] = [JobID |-> nextID, Tag |-> tag, Priority |-> prio,
                                call |-> <<c, calls[c] + 1>>]]
  /\ UNCHANGED <<queue, sem, abort, nextID, finished>>

\* INCREMENT_32(NextUniqueJobID), a complete statement because the macro ends
\* in a semicolon: the job gets the old value, for now.
IncrementID(c, prio, tag) ==
  /\ pc[Closer] # "closed"
  /\ calls[c] < MaxCalls[c]
  /\ Goto(c, "idle", "readID")
  /\ calls' = [calls EXCEPT ![c] = @ + 1]
  /\ job' = [job EXCEPT ![c] = [JobID |-> nextID, Tag |-> tag, Priority |-> prio,
                                call |-> <<c, calls[c] + 1>>]]
  /\ nextID' = nextID + 1
  /\ UNCHANGED <<queue, sem, abort, finished>>

\* job.JobID = NextUniqueJobID + 1: a second, separate read of the counter.
ReadID(c) ==
  /\ Goto(c, "readID", "pushActive")
  /\ job' = [job EXCEPT ![c].JobID = nextID + 1]
  /\ UNCHANGED <<queue, sem, abort, nextID, calls, finished>>

\* ActiveQueue.Push.  Nobody waits on this queue's semaphore or aborts it, so
\* its Increment commutes with every other step and is taken with the insert.
PushActive(c) ==
  /\ Goto(c, "pushActive", "insertWork")
  /\ queue' = [queue EXCEPT !["active"] = Push(@, QueueKey(job[c].Priority), job[c])]
  /\ sem' = [sem EXCEPT !["active"] = @ + 1]
  /\ UNCHANGED <<abort, nextID, job, calls, finished>>

\* WorkQueue.Push: the critical section...
InsertWork(c) ==
  /\ Goto(c, "insertWork", "checkAbort")
  /\ queue' = [queue EXCEPT !["work"] = Push(@, QueueKey(job[c].Priority), job[c])]
  /\ UNCHANGED <<sem, abort, nextID, job, calls, finished>>

\* ...and Increment, outside the lock: the flag is read, then the token posted.
CheckAbort(c) ==
  /\ Goto(c, "checkAbort", IF abort THEN "idle" ELSE "post")
  /\ job' = [job EXCEPT ![c] = IF abort THEN NoJob ELSE @]
  /\ UNCHANGED <<queue, sem, abort, nextID, calls, finished>>

\* Broken: the token is not posted.
Post_Lost(c) ==
  /\ Goto(c, "post", "idle")
  /\ job' = [job EXCEPT ![c] = NoJob]
  /\ UNCHANGED <<queue, sem, abort, nextID, calls, finished>>

Post(c) ==
  /\ Goto(c, "post", "idle")
  /\ sem' = [sem EXCEPT !["work"] = @ + 1]
  /\ job' = [job EXCEPT ![c] = NoJob]
  /\ UNCHANGED <<queue, abort, nextID, calls, finished>>

-----------------------------------------------------------------------------
(* WorkerThreadFunction, by worker w.                                      *)

\* Broken: a worker that never looks at the flag.
TestAborted_Never(w) ==
  /\ Goto(w, "loop", "wait")
  /\ UNCHANGED <<queue, sem, abort, nextID, job, calls, finished>>

TestAborted(w) ==
  /\ Goto(w, "loop", IF abort THEN "exited" ELSE "wait")
  /\ UNCHANGED <<queue, sem, abort, nextID, job, calls, finished>>

\* Broken: a wait that does not wait for a token.
TakeToken_NoWait(w) ==
  /\ Goto(w, "wait", "woken")
  /\ sem' = [sem EXCEPT !["work"] = @ - 1]
  /\ UNCHANGED <<queue, abort, nextID, job, calls, finished>>

\* sys_semaphore_wait returns with a token taken...
TakeToken(w) ==
  /\ sem["work"] > 0
  /\ Goto(w, "wait", "woken")
  /\ sem' = [sem EXCEPT !["work"] = @ - 1]
  /\ UNCHANGED <<queue, abort, nextID, job, calls, finished>>

\* Broken: the answer does not depend on the flag.
AnswerWait_Always(w) ==
  /\ Goto(w, "woken", "peek")
  /\ UNCHANGED <<queue, sem, abort, nextID, job, calls, finished>>

\* ...and WaitAndDecrement answers !Abort, read after that.
AnswerWait(w) ==
  /\ Goto(w, "woken", IF abort THEN "loop" ELSE "peek")
  /\ UNCHANGED <<queue, sem, abort, nextID, job, calls, finished>>

\* Peek(pop = true), the second half of Pop: false if the queue is empty.
PeekEmpty(w) ==
  /\ queue["work"] = <<>>
  /\ Goto(w, "peek", "loop")
  /\ UNCHANGED <<queue, sem, abort, nextID, job, calls, finished>>

PeekJob(w) ==
  /\ queue["work"] # <<>>
  /\ Goto(w, "peek", "run")
  /\ job' = [job EXCEPT ![w] = Head(queue["work"]).value]
  /\ queue' = [queue EXCEPT !["work"] = Pop(@)]
  /\ UNCHANGED <<sem, abort, nextID, calls, finished>>

Run(w) ==
  /\ Goto(w, "run", "erase")
  /\ finished' = finished \union {job[w]}
  /\ UNCHANGED <<queue, sem, abort, nextID, job, calls>>

\* SJobIDMatches: any entry with the same ID will do.
Matches(q, id) == {i \in DOMAIN q : q[i].value.JobID = id}

Erase(w) ==
  /\ Goto(w, "erase", "loop")
  /\ queue' = [queue EXCEPT !["active"] = EraseFirst(@, Matches(@, job[w].JobID))]
  /\ job' = [job EXCEPT ![w] = NoJob]
  /\ UNCHANGED <<sem, abort, nextID, calls, finished>>

-----------------------------------------------------------------------------
(* ~CJobManager, by the Closer: WorkQueue.Abort() and the joins.  The two  *)
(* halves of DoAbort come in the order of the platform.                    *)

RaiseFlag ==
  /\ IF FlagFirst THEN Goto(Closer, "idle", "post")
                  ELSE Goto(Closer, "flag", "join")
  /\ abort' = TRUE
  /\ UNCHANGED <<queue, sem, nextID, job, calls, finished>>

\* Broken: one token for all the workers.
PostTokens_One ==
  /\ IF FlagFirst THEN Goto(Closer, "post", "join")
                  ELSE Goto(Closer, "idle", "flag")
  /\ sem' = [sem EXCEPT !["work"] = @ + 1]
  /\ UNCHANGED <<queue, abort, nextID, job, calls, finished>>

PostTokens ==
  /\ IF FlagFirst THEN Goto(Closer, "post", "join")
                  ELSE Goto(Closer, "idle", "flag")
  /\ sem' = [sem EXCEPT !["work"] = @ + AbortTokens]
  /\ UNCHANGED <<queue, abort, nextID, job, calls, finished>>

Join ==
  /\ \A w \in Workers : pc[w] = "exited"
  /\ Goto(Closer, "join", "closed")
  /\ UNCHANGED <<queue, sem, abort, nextID, job, calls, finished>>

-----------------------------------------------------------------------------

EnqueueStep(c) ==
  ReadID(c) \/ PushActive(c) \/ InsertWork(c) \/ CheckAbort(c) \/ Post(c)

WorkerStep(w) ==
  \/ TestAborted(w) \/ TakeToken(w) \/ AnswerWait(w)
  \/ PeekEmpty(w) \/ PeekJob(w) \/ Run(w) \/ Erase(w)

CloserStep == RaiseFlag \/ PostTokens \/ Join

Next ==
  \/ \E r \in Requests : IncrementID(r[1], r[2], r[3])
  \/ \E c \in Callers : EnqueueStep(c)
  \/ \E w \in Workers : WorkerStep(w)
  \/ CloserStep

Spec == Init /\ [][Next]_vars

(***************************************************************************)
(* Threads are scheduled, and a job's function returns.  Nothing obliges   *)
(* a caller to enqueue or the Closer to begin; once the destructor has     *)
(* begun it goes on.                                                       *)
(***************************************************************************)
FairSpec ==
  /\ Spec
  /\ \A c \in Callers : WF_vars(EnqueueStep(c))
  /\ \A w \in Workers : WF_vars(WorkerStep(w))
  /\ WF_vars(pc[Closer] # "idle" /\ CloserStep)

-----------------------------------------------------------------------------
(* Properties.                                                             *)

Callers_at(S) == {c \in Callers : pc[c] \in S}
Workers_at(S) == {w \in Workers : pc[w] \in S}

\* The variables keep their types: no semaphore goes below zero, and every
\* thread is somewhere in its own function.
TypeOK ==
  /\ queue \in [Queues -> Seq([priority : Int, value : Job])]
  /\ sem \in [Queues -> Nat]
  /\ abort \in BOOLEAN
  /\ nextID \in Nat
  /\ pc \in [Threads -> CallerPCs \union WorkerPCs \union CloserPCs]
  /\ \A c \in Callers : pc[c] \in CallerPCs
  /\ \A w \in Workers : pc[w] \in WorkerPCs
  /\ pc[Closer] \in CloserPCs
  /\ job \in [Callers \union Workers -> Job \union {NoJob}]
  /\ calls \in [Callers -> Nat]
  /\ finished \in SUBSET Job

\* The jobs whose EnqueueJob has put them in ActiveQueue and whose worker has
\* not yet erased them.
Unfinished ==
  {job[c] : c \in Callers_at({"insertWork"})}
  \union Values(queue["work"])
  \union {job[w] : w \in Workers_at({"run", "erase"})}

\* Every job some call has made up to now (with the ID it will keep).
Made ==
  Unfinished \union finished \union {job[c] : c \in Callers_at({"pushActive"})}

(***************************************************************************)
(* Push and Pop update the queue and its semaphore in two steps each, in   *)
(* opposite orders.  Until shutdown begins no wake-up is lost and none is  *)
(* spurious: the entries of WorkQueue are the tokens, plus those taken by  *)
(* workers that have yet to look, plus those callers have yet to post.     *)
(***************************************************************************)
WakeupsMatchWork ==
  pc[Closer] = "idle" =>
    Len(queue["work"]) = sem["work"]
                         + Cardinality(Workers_at({"woken", "peek"}))
                         + Cardinality(Callers_at({"checkAbort", "post"}))

(***************************************************************************)
(* With the cell order of DoAbort, a worker that WaitAndDecrement sent to  *)
(* the queue finds an entry there, at shutdown as well: the shutdown       *)
(* tokens never pass for work.                                             *)
(***************************************************************************)
PeekersFindWork ==
  FlagFirst => Len(queue["work"]) >= Cardinality(Workers_at({"peek"}))

(***************************************************************************)
(* CountJobsWithJobID: although two calls may get the same ID and a worker *)
(* erases the first entry with its job's ID, not its own, the number of    *)
(* entries with an ID is the number of unfinished jobs that got it.        *)
(* CountJobsWithTag: the same for tags as long as no two calls have got    *)
(* the same ID.  (When two have, a worker may erase the other job's entry, *)
(* and the count for its tag falls while that job still waits or runs.)    *)
(***************************************************************************)
IDsDistinct == \A j, k \in Made : j.JobID = k.JobID => j = k

CountsAreExact ==
  /\ \A id \in {j.JobID : j \in Made} :
       Cardinality(Matches(queue["active"], id))
         = Cardinality({j \in Unfinished : j.JobID = id})
  /\ IDsDistinct => Values(queue["active"]) = Unfinished

(***************************************************************************)
(* The two reads of NextUniqueJobID let two threads get the same ID, but   *)
(* never one thread twice.                                                 *)
(***************************************************************************)
IDsDistinctPerCaller ==
  \A j, k \in Made : j.call[1] = k.call[1] /\ j.JobID = k.JobID => j = k

(***************************************************************************)
(* The pool the callers see: JobPool, with a job waiting while it is in    *)
(* WorkQueue and running while a worker holds it and has not called it.    *)
(***************************************************************************)
PoolJob(j) == [call |-> j.call, key |-> QueueKey(j.Priority)]

Pool == INSTANCE JobPool WITH
  Jobs     <- [call : Calls, key : {QueueKey(p) : p \in Priorities}],
  waiting  <- {PoolJob(j) : j \in Values(queue["work"])},
  running  <- {PoolJob(job[w]) : w \in Workers_at({"run"})},
  finished <- {PoolJob(j) : j \in finished}

\* The threads, queues and semaphores implement the pool: each job runs at
\* most once, on one worker, most urgent first.
ImplementsPool == Pool!Spec

(***************************************************************************)
(* Every job that reaches WorkQueue is run, unless the manager is being    *)
(* shut down.                                                              *)
(***************************************************************************)
JobsFinish ==
  \A call \in Calls :
    (\E j \in Values(queue["work"]) : j.call = call)
      ~> (abort \/ \E j \in finished : j.call = call)

(***************************************************************************)
(* The destructor's joins return: every worker sees the flag, wherever the *)
(* abort caught it.                                                        *)
(***************************************************************************)
ShutdownCompletes == (pc[Closer] # "idle") ~> (pc[Closer] = "closed")

(***************************************************************************)
(* With the win32 order the workers may use up the shutdown tokens before  *)
(* the flag is raised, and then the join never returns (ShutdownCompletes  *)
(* fails).  What remains true in either order: the join returns if, once   *)
(* the flag is up, there is a token for each worker that still waits.      *)
(***************************************************************************)
JoinReturnsIfTokensRemain ==
  (pc[Closer] = "join" /\ sem["work"] >= Cardinality(Workers_at({"loop", "wait"})))
    ~> (pc[Closer] = "closed")

=============================================================================
