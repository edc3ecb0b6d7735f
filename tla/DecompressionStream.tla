------------------------ MODULE DecompressionStream ------------------------
(***************************************************************************)
(* CReflectionLoadVector (CoreLib/src/Serialise.cpp) reading a compressed  *)
(* resource: one reader thread walks a list of DecompressionJobs           *)
(* (CoreLib/src/CompressionJob.cpp), hands them to the job pool as far     *)
(* ahead as a window of buffer space allows, and waits for the job at the  *)
(* head on a semaphore that the workers post and whose wait times out.     *)
(*                                                                         *)
(* The pool is what JobPool promises of it; JobManager is shown to         *)
(* implement that.  Jobs are numbered by their place in the list; a worker *)
(* writes a job's result, then posts the semaphore.                        *)
(***************************************************************************)
EXTENDS Integers, Sequences, FiniteSets, FiniteSetsExt

CONSTANTS
  Streams,         \* what LoadCompressionData may find: sequences of blocks
  Window,          \* 0x80000 in the code, in bytes of output
  PoolSize,        \* threads of gJobManager
  RawBytes,        \* what is left of the vector when a header is not accepted
  MaxRead          \* bound: the longest ReadWrite

\* A block is [size |-> original size, packed |-> BOOLEAN, sound |-> BOOLEAN]:
\* stored as it is unless packed, and sound if it inflates to its size.
ASSUME StreamsAssumption ==
  \A s \in Streams :
    s \in Seq([size : Nat, packed : BOOLEAN, sound : BOOLEAN])

ASSUME SizesAssumption ==
  Window \in Nat \ {0} /\ PoolSize \in Nat \ {0} /\ MaxRead \in Nat /\ RawBytes \in Nat

VARIABLES
  blocks,          \* the list of jobs: Next leads from i to i + 1
  state,           \* State of each job
  result,          \* UncompressResult->Result of each job
  offset,          \* Offset of each job
  cur,             \* CurJob: a place in the list, NULL past its end
  pending,         \* PendingInit
  outstanding,     \* OutstandingBuffers
  sem,             \* tokens of *Sem
  cycles,          \* local variable of WaitForHead
  need,            \* size, what ReadWrite has yet to deliver
  pc,              \* where the reader is; "undefined" once a worker has touched
                   \* a job already freed, and then nothing more is modelled
  raw,             \* bytes from LoadPos to the end of the vector
  delivered,       \* history: the bytes delivered, <<block, position>>
  waiting, running, finished                \* the pool's jobs

readerVars == <<cur, pending, outstanding, cycles, need, pc, raw, delivered>>
poolVars == <<waiting, running, finished>>
vars == <<blocks, state, result, offset, sem, readerVars, poolVars>>

Blocks == DOMAIN blocks
Null == Len(blocks) + 1

\* What EnqueueForDecompress submits; all jobs have priority 1000.
PoolJob(b) == [block |-> b, key |-> 191 - 1000]

MaxBlocks == Max({Len(s) : s \in Streams})
Pool == INSTANCE JobPool WITH Jobs <- {PoolJob(b) : b \in 1 .. MaxBlocks}

\* A worker's result.  destLen is not initialised, so uncompress may take a
\* sound block's buffer for too small.
Outcomes(b) == IF blocks[b].sound THEN {"success", "failure"} ELSE {"failure"}

\* Nobody holds a job behind both CurJob and PendingInit.
Freed(b) == b < cur /\ b < pending

-----------------------------------------------------------------------------

Init ==
  /\ blocks \in Streams
  /\ state = [b \in Blocks |-> IF blocks[b].packed THEN "begin" ELSE "done"]
  /\ result = [b \in Blocks |-> "pending"]
  /\ offset = [b \in Blocks |-> 0]
  /\ cur = Null /\ pending = Null /\ outstanding = 0
  /\ sem = 0 /\ cycles = 0 /\ need = 0 /\ raw = RawBytes
  /\ pc = "load"
  /\ delivered = <<>>
  /\ Pool!Init

\* LoadCompressionData: a header that lists no block, or one of size zero,
\* leaves CurJob NULL, and the caller (SerialiseCW.cpp:185) goes on reading
\* the vector as it is.
Accepted == blocks # <<>> /\ \A b \in Blocks : blocks[b].size > 0

Load ==
  /\ pc = "load"
  /\ IF Accepted THEN cur' = 1 /\ pending' = 1 /\ pc' = "loadPump"
                 ELSE pc' = "raw" /\ UNCHANGED <<cur, pending>>
  /\ UNCHANGED <<blocks, state, result, offset, sem, poolVars,
                 outstanding, cycles, need, raw, delivered>>

-----------------------------------------------------------------------------
(* PumpDecompression, entered from LoadCompressionData, from the wait loop *)
(* and from ReadWrite's step to the next block.                            *)

Pumping == {"loadPump", "waitPump"}

\* Broken: a stored block's buffer is counted as well.
Dispatch_CountAll ==
  /\ pc \in Pumping
  /\ outstanding < Window /\ pending # Null
  /\ outstanding' = outstanding + blocks[pending].size
  /\ IF state[pending] = "begin"
     THEN /\ result' = [result EXCEPT ![pending] = "pending"]
          /\ state' = [state EXCEPT ![pending] = "working"]
          /\ Pool!Submit(PoolJob(pending))
     ELSE UNCHANGED <<result, state, poolVars>>
  /\ pending' = pending + 1
  /\ UNCHANGED <<blocks, offset, cur, sem, cycles, need, pc, raw, delivered>>

\* One turn of the loop: a stored block is passed over, a packed one gets its
\* buffer and goes to the pool.
Dispatch ==
  /\ pc \in Pumping
  /\ outstanding < Window /\ pending # Null
  /\ IF state[pending] = "begin"
     THEN /\ outstanding' = outstanding + blocks[pending].size
          /\ result' = [result EXCEPT ![pending] = "pending"]
          /\ state' = [state EXCEPT ![pending] = "working"]
          /\ Pool!Submit(PoolJob(pending))
     ELSE UNCHANGED <<outstanding, result, state, poolVars>>
  /\ pending' = pending + 1
  /\ UNCHANGED <<blocks, offset, cur, sem, cycles, need, pc, raw, delivered>>

PumpEnds ==
  /\ outstanding >= Window \/ pending = Null
  /\ \/ pc = "loadPump" /\ pc' = "idle"
     \/ pc = "waitPump" /\ pc' = "head"
  /\ UNCHANGED <<blocks, state, result, offset, sem, poolVars,
                 cur, pending, outstanding, cycles, need, raw, delivered>>

-----------------------------------------------------------------------------
(* WaitForHead.                                                            *)

HeadReady == cur \in Blocks => state[cur] = "done"

\* WaitAndDecrement(1) takes a token...
TakeToken ==
  /\ pc = "head" /\ ~ HeadReady
  /\ sem > 0
  /\ sem' = sem - 1
  /\ cycles' = cycles + 1
  /\ pc' = "test"
  /\ UNCHANGED <<blocks, state, result, offset, poolVars,
                 cur, pending, outstanding, need, raw, delivered>>

\* ...or finds none for a millisecond; the loop goes on all the same.
TimeOut ==
  /\ pc = "head" /\ ~ HeadReady
  /\ sem = 0
  /\ pc' = "test"
  /\ UNCHANGED <<blocks, state, result, offset, sem, poolVars,
                 cur, pending, outstanding, cycles, need, raw, delivered>>

IsFinished(b) ==
  CASE state[b] = "working" -> result[b] # "pending"
    [] OTHER                -> state[b] = "done"

\* Broken: a head that has not failed is taken for finished.
TestHead_NotFailed ==
  /\ pc = "test"
  /\ state' = [state EXCEPT ![cur] = "done"]
  /\ pc' = IF result[cur] # "failure" THEN "waited" ELSE "waitFailed"
  /\ UNCHANGED <<blocks, result, offset, sem, poolVars,
                 cur, pending, outstanding, cycles, need, raw, delivered>>

\* Finalise, if the head is finished; otherwise once more round the loop.
TestHead ==
  /\ pc = "test"
  /\ IF IsFinished(cur)
     THEN /\ state' = [state EXCEPT ![cur] = "done"]
          /\ pc' = IF result[cur] = "success" THEN "waited" ELSE "waitFailed"
     ELSE pc' = "waitPump" /\ UNCHANGED state
  /\ UNCHANGED <<blocks, result, offset, sem, poolVars,
                 cur, pending, outstanding, cycles, need, raw, delivered>>

HeadWasReady ==
  /\ pc = "head" /\ HeadReady
  /\ pc' = IF cur = Null THEN "waitFailed" ELSE "waited"
  /\ UNCHANGED <<blocks, state, result, offset, sem, poolVars,
                 cur, pending, outstanding, cycles, need, raw, delivered>>

\* Broken: the tokens taken while waiting are kept.
ReturnTokens_Keep ==
  /\ pc \in {"waited", "waitFailed"}
  /\ cycles' = 0
  /\ pc' = IF pc = "waited" THEN "copy" ELSE "failed"
  /\ UNCHANGED <<blocks, state, result, offset, poolVars, sem,
                 cur, pending, outstanding, need, raw, delivered>>

\* All tokens taken but one go back: they were posted for later blocks.
ReturnTokens ==
  /\ pc \in {"waited", "waitFailed"}
  /\ sem' = sem + (IF cycles > 1 THEN cycles - 1 ELSE 0)
  /\ cycles' = 0
  /\ pc' = IF pc = "waited" THEN "copy" ELSE "failed"
  /\ UNCHANGED <<blocks, state, result, offset, poolVars,
                 cur, pending, outstanding, need, raw, delivered>>

-----------------------------------------------------------------------------
(* ReadWrite.                                                              *)

BeginRead(n) ==
  /\ pc = "idle"
  /\ need' = n
  /\ pc' = "head"
  /\ UNCHANGED <<blocks, state, result, offset, sem, poolVars,
                 cur, pending, outstanding, cycles, raw, delivered>>

\* With CurJob NULL: straight from the vector.
ReadRaw(n) ==
  /\ pc = "raw"
  /\ IF n <= raw THEN raw' = raw - n /\ UNCHANGED pc
                 ELSE pc' = "failed" /\ UNCHANGED raw
  /\ UNCHANGED <<blocks, state, result, offset, sem, poolVars,
                 cur, pending, outstanding, cycles, need, delivered>>

EndRead ==
  /\ pc = "copy" /\ need = 0
  /\ pc' = "idle"
  /\ UNCHANGED <<blocks, state, result, offset, sem, poolVars,
                 cur, pending, outstanding, cycles, need, raw, delivered>>

Remaining == blocks[cur].size - offset[cur]

\* GetData(d, n).  A packed block's bytes come from its Buffer; a stored one's
\* from the START of the vector, not from the block's own place in it, which
\* is written as block 0.
Taken(n) ==
  [i \in 1 .. n |-> <<IF blocks[cur].packed THEN cur ELSE 0, offset[cur] + i>>]

\* Broken: Offset does not advance.
Copy_SamePlace ==
  /\ pc = "copy" /\ need > 0 /\ Remaining > 0
  /\ LET n == Min({need, Remaining})
     IN  /\ delivered' = delivered \o [i \in 1 .. n |-> <<cur, i>>]
         /\ offset' = [offset EXCEPT ![cur] = @ + n]
         /\ need' = need - n
  /\ UNCHANGED <<blocks, state, result, sem, poolVars,
                 cur, pending, outstanding, cycles, pc, raw>>

\* Broken: a copy that does not stop where the block ends.
Copy_PastEnd ==
  /\ pc = "copy" /\ need > 0 /\ Remaining > 0
  /\ delivered' = delivered \o Taken(need)
  /\ offset' = [offset EXCEPT ![cur] = @ + need]
  /\ need' = 0
  /\ UNCHANGED <<blocks, state, result, sem, poolVars,
                 cur, pending, outstanding, cycles, pc, raw>>

Copy ==
  /\ pc = "copy" /\ need > 0 /\ Remaining > 0
  /\ LET n == Min({need, Remaining})
     IN  /\ delivered' = delivered \o Taken(n)
         /\ offset' = [offset EXCEPT ![cur] = @ + n]
         /\ need' = need - n
  /\ UNCHANGED <<blocks, state, result, sem, poolVars,
                 cur, pending, outstanding, cycles, pc, raw>>

\* Broken: the space of the block left behind is not given back.
Advance_KeepBuffer ==
  /\ pc = "copy" /\ need > 0 /\ Remaining = 0
  /\ cur' = cur + 1
  /\ pc' = "waitPump"
  /\ UNCHANGED <<blocks, state, result, offset, sem, poolVars,
                 outstanding, pending, cycles, need, raw, delivered>>

\* Broken: the next block is waited for before the pump has run.
Advance_NoPump ==
  /\ pc = "copy" /\ need > 0 /\ Remaining = 0
  /\ outstanding' = outstanding - (IF blocks[cur].packed THEN blocks[cur].size ELSE 0)
  /\ cur' = cur + 1
  /\ pc' = "head"
  /\ UNCHANGED <<blocks, state, result, offset, sem, poolVars,
                 pending, cycles, need, raw, delivered>>

Advance ==
  /\ pc = "copy" /\ need > 0 /\ Remaining = 0
  /\ outstanding' = outstanding - (IF blocks[cur].packed THEN blocks[cur].size ELSE 0)
  /\ cur' = cur + 1
  /\ pc' = "waitPump"
  /\ UNCHANGED <<blocks, state, result, offset, sem, poolVars,
                 pending, cycles, need, raw, delivered>>

\* CleanupDecompression and the destructor: the callers come here when the
\* resource has been read, or when a read has failed.
Close ==
  /\ pc \in {"idle", "raw", "failed"}
  /\ cur' = Null /\ pending' = Null
  /\ pc' = "closed"
  /\ UNCHANGED <<blocks, state, result, offset, sem, poolVars,
                 outstanding, cycles, need, raw, delivered>>

-----------------------------------------------------------------------------
(* DecompressJob, on a thread of the pool.  A thread that goes on with a   *)
(* job already freed is undefined behaviour, where the model ends.         *)

StartJob(b) ==
  /\ pc # "undefined"
  /\ Cardinality(running) < PoolSize
  /\ Pool!Start(PoolJob(b))
  /\ UNCHANGED <<blocks, state, result, offset, sem, readerVars>>

WriteResult(b) ==
  /\ PoolJob(b) \in running /\ result[b] = "pending" /\ ~ Freed(b)
  /\ \E r \in Outcomes(b) : result' = [result EXCEPT ![b] = r]
  /\ UNCHANGED <<blocks, state, offset, sem, readerVars, poolVars>>

\* job.Done->Increment(), and the function returns.
PostDone(b) ==
  /\ PoolJob(b) \in running /\ result[b] # "pending" /\ ~ Freed(b)
  /\ sem' = sem + 1
  /\ Pool!Finish(PoolJob(b))
  /\ UNCHANGED <<blocks, state, result, offset, readerVars>>

TouchFreed(b) ==
  /\ PoolJob(b) \in running /\ Freed(b) /\ pc # "undefined"
  /\ pc' = "undefined"
  /\ UNCHANGED <<blocks, state, result, offset, sem, poolVars,
                 cur, pending, outstanding, cycles, need, raw, delivered>>

-----------------------------------------------------------------------------

\* What the reader does once a read, or the load, has begun.
ReaderStep ==
  \/ Load \/ Dispatch \/ PumpEnds
  \/ TakeToken \/ TimeOut \/ TestHead \/ HeadWasReady \/ ReturnTokens
  \/ EndRead \/ Copy \/ Advance

WorkerStep(b) == StartJob(b) \/ WriteResult(b) \/ PostDone(b) \/ TouchFreed(b)

Next ==
  \/ ReaderStep
  \/ \E n \in 0 .. MaxRead : BeginRead(n) \/ ReadRaw(n)
  \/ Close
  \/ \E b \in 1 .. MaxBlocks : WorkerStep(b)

Spec == Init /\ [][Next]_vars

\* The reader and the pool's threads are scheduled; nothing obliges the
\* caller to read on or to close.
FairSpec ==
  /\ Spec
  /\ WF_vars(ReaderStep)
  /\ \A b \in 1 .. MaxBlocks : WF_vars(WorkerStep(b))

-----------------------------------------------------------------------------
(* Properties.                                                             *)

\* The variables keep their types, and the places of the stream their order:
\* no block is read past its end (Serialise.cpp:95) and the pump is never
\* behind the reader.
TypeOK ==
  /\ blocks \in Streams
  /\ state \in [Blocks -> {"begin", "working", "done"}]
  /\ result \in [Blocks -> {"pending", "success", "failure"}]
  /\ offset \in [Blocks -> Nat] /\ \A b \in Blocks : offset[b] <= blocks[b].size
  /\ cur \in 1 .. Null /\ pending \in cur .. Null
  /\ outstanding \in Nat /\ sem \in Nat /\ cycles \in Nat
  /\ need \in 0 .. MaxRead /\ raw \in 0 .. RawBytes
  /\ pc \in {"load", "loadPump", "idle", "raw", "head", "test", "waitPump",
             "waited", "waitFailed", "copy", "failed", "closed", "undefined"}
  /\ delivered \in Seq((0 .. Null) \X Nat)
  /\ waiting \union running \union finished \subseteq {PoolJob(b) : b \in Blocks}

Posted == {b \in Blocks : PoolJob(b) \in finished}
Finalised == {b \in Blocks : blocks[b].packed /\ state[b] = "done"}

(***************************************************************************)
(* Heads are finalised in order while workers post in any order, a wait    *)
(* may time out, and surplus tokens are handed back: still every block     *)
(* that was posted and not yet finalised has a token that will wake the    *)
(* reader, or will be covered by a worker that is about to post.           *)
(***************************************************************************)
WakeupsCoverBlocks ==
  sem + cycles + Cardinality(Finalised \ Posted) >= Cardinality(Posted \ Finalised)

\* The bytes of the blocks in S, by block and position from 1.
Bytes(s, S) == UNION {{b} \X (1 .. s[b].size) : b \in S}

(***************************************************************************)
(* OutstandingBuffers, which is kept by two functions, is the space of the *)
(* packed blocks handed out and not yet left behind, and the window is     *)
(* overrun by less than one block.                                         *)
(***************************************************************************)
OutstandingIsExact ==
  LET held == {b \in cur .. pending - 1 : blocks[b].packed}
  IN  pc \notin {"closed", "undefined"} =>
        /\ outstanding = Cardinality(Bytes(blocks, held))
        /\ \E b \in held \union {0} :
              outstanding < Window + (IF b = 0 THEN 0 ELSE blocks[b].size)

\* The reader never waits for a job that nobody has been given.
HeadIsDispatched ==
  pc \in {"head", "test"} /\ cur # Null => cur < pending /\ state[cur] # "begin"

\* How many bytes of the resource come before those of block b.
Before(s, b) == Cardinality(Bytes(s, 1 .. b - 1))

(***************************************************************************)
(* Whatever reads it is asked in and however the workers finish, each byte *)
(* the stream delivers is the next one of the resource, if it belongs to a *)
(* packed block, and that block was inflated successfully.                 *)
(***************************************************************************)
DeliveredInOrder ==
  /\ Len(delivered) <= Cardinality(Bytes(blocks, Blocks))
  /\ \A b \in Blocks : \A k \in 1 .. blocks[b].size :
       LET i == Before(blocks, b) + k
       IN  i <= Len(delivered) /\ blocks[b].packed
             => delivered[i] = <<b, k>> /\ result[b] = "success"

\* While the stream is open, a job is freed only after its worker has written
\* the result, so no worker inflates into a buffer that is gone.
FreedAfterWritten ==
  Accepted /\ pc \notin {"load", "closed", "undefined"} =>
    \A b \in Blocks : Freed(b) /\ blocks[b].packed => result[b] # "pending"

\* A read that has begun ends, with its bytes or with an error (unless a
\* worker has touched a freed job, after which anything may happen).
ReadsReturn ==
  (pc \in {"head", "test", "waitPump", "waited", "waitFailed", "copy"})
    ~> (pc \in {"idle", "failed", "undefined"})

=============================================================================
