--------------------- MODULE DecompressionStream_proof ---------------------
(***************************************************************************)
(* Proofs of the safety invariants of DecompressionStream, for any streams *)
(* and sizes.                                                              *)
(***************************************************************************)
EXTENDS DecompressionStream, FiniteSetTheorems, SequenceTheorems, TLAPS

\* The stream has been accepted and is open; pc is "failed" until it is closed.
Opened == Accepted /\ pc \notin {"load", "closed", "undefined"}

\* Where the reader stands in the list.
PlaceInv ==
  /\ ~ Accepted => pc \in {"load", "raw", "failed", "closed", "undefined"}
  /\ pc = "raw" => ~ Accepted
  /\ pc = "load" \/ ~ Accepted => cur = Null /\ outstanding = 0 /\ delivered = <<>>
  /\ pc \in {"load", "loadPump", "idle", "raw", "copy"} => cycles = 0
  /\ pc \in {"idle", "head", "test", "waited", "copy"} => cur = Null \/ cur < pending
  /\ pc \in {"test", "waited", "copy"} => cur # Null
  /\ pc = "test" => state[cur] # "done"
  /\ pc \in {"waited", "copy"} => state[cur] = "done"
  /\ pc \in {"head", "waitPump"} /\ cycles > 0 => cur # Null /\ state[cur] # "done"

\* What is behind the reader is done, and what is ahead of the pump is untouched.
BlockInv ==
  \A b \in Blocks :
    /\ ~ blocks[b].packed => state[b] = "done"
    /\ blocks[b].packed /\ state[b] = "done" =>
         /\ result[b] # "pending"
         /\ result[b] = "success" \/ pc \in {"waitFailed", "failed", "closed", "undefined"}
    /\ pc = "load" => offset[b] = 0 /\ (blocks[b].packed => state[b] = "begin")
    /\ Opened => /\ b < pending => state[b] # "begin"
                 /\ b >= pending /\ blocks[b].packed => state[b] = "begin"
                 /\ b < cur => state[b] = "done"
                 /\ b > cur => offset[b] = 0

\* What has been delivered ends where the reader stands, and comes from finalised blocks.
DeliveryInv ==
  /\ Opened => Len(delivered) = Before(blocks, cur) + (IF cur = Null THEN 0 ELSE offset[cur])
  /\ \A b \in Blocks : \A k \in 1 .. blocks[b].size :
       Before(blocks, b) + k <= Len(delivered) => state[b] = "done"
  /\ DeliveredInOrder

\* A wait that took tokens and finalised its block has one that it need not give back.
WakeInv ==
  sem + cycles + Cardinality(Finalised)
    >= Cardinality(Posted) + (IF pc \in {"waited", "waitFailed"} /\ cycles > 0 THEN 1 ELSE 0)

IInv == TypeOK /\ PlaceInv /\ BlockInv /\ OutstandingIsExact /\ DeliveryInv /\ WakeInv

-----------------------------------------------------------------------------
(* The space of a set of blocks.                                           *)

LEMMA Interval == \A m \in Nat : IsFiniteSet(1 .. m) /\ Cardinality(1 .. m) = m
<1> TAKE m \in Nat
<1>0. 1 \in Int /\ m \in Int
  OBVIOUS
<1>1. IsFiniteSet(1 .. m) /\ Cardinality(1 .. m) = IF 1 > m THEN 0 ELSE m - 1 + 1
  BY <1>0, FS_Interval, Zenon
<1> QED BY <1>1

\* A set of blocks has finitely many bytes.
LEMMA BytesFinite ==
  ASSUME NEW n \in Nat, NEW s, \A b \in 1 .. n : s[b].size \in Nat,
         NEW S \in SUBSET (1 .. n)
  PROVE  IsFiniteSet(S) /\ IsFiniteSet(Bytes(s, S)) /\ Cardinality(Bytes(s, S)) \in Nat
<1> DEFINE f == [b \in S |-> {b} \X (1 .. s[b].size)]
           T == {{b} \X (1 .. s[b].size) : b \in S}
<1>1. IsFiniteSet(S)
  BY Interval, FS_Subset
<1>2. f \in Surjection(S, T)
  BY DEF Surjection
<1>3. IsFiniteSet(T)
  BY <1>1, <1>2, FS_Surjection
<1>4. \A b \in S : IsFiniteSet({b} \X (1 .. s[b].size))
  <2> TAKE b \in S
  <2>1. IsFiniteSet({b}) /\ IsFiniteSet(1 .. s[b].size)
    BY FS_Singleton, Interval
  <2> QED BY <2>1, FS_Product
<1>5. IsFiniteSet(UNION T)
  BY <1>3, <1>4, FS_UNION
<1> QED BY <1>1, <1>5, FS_CardinalityType DEF Bytes

\* A block that joins the set adds its size.
LEMMA BytesAdd ==
  ASSUME NEW n \in Nat, NEW s, \A b \in 1 .. n : s[b].size \in Nat,
         NEW S \in SUBSET (1 .. n), NEW b \in (1 .. n) \ S
  PROVE  Cardinality(Bytes(s, S \union {b})) = Cardinality(Bytes(s, S)) + s[b].size
<1> DEFINE B == {b} \X (1 .. s[b].size)
<1>1. Bytes(s, S \union {b}) = Bytes(s, S) \union B
  BY DEF Bytes
<1>2. Bytes(s, S) \intersect B = {}
  BY DEF Bytes
<1>3. IsFiniteSet(B) /\ Cardinality(B) = s[b].size
  <2>1. IsFiniteSet({b}) /\ Cardinality({b}) = 1
    BY FS_Singleton
  <2>2. IsFiniteSet(1 .. s[b].size) /\ Cardinality(1 .. s[b].size) = s[b].size
    BY Interval
  <2> QED BY <2>1, <2>2, FS_Product, SMTT(60)
<1>4. IsFiniteSet(Bytes(s, S)) /\ Cardinality(Bytes(s, S)) \in Nat
  BY BytesFinite
<1>5. Cardinality(Bytes(s, S) \intersect B) = 0
  BY <1>2, FS_EmptySet
<1> HIDE DEF B
<1>6. Cardinality(Bytes(s, S) \union B)
        = Cardinality(Bytes(s, S)) + Cardinality(B) - Cardinality(Bytes(s, S) \intersect B)
  BY <1>3, <1>4, FS_Union, Zenon
<1>7. s[b].size \in Nat
  OBVIOUS
<1>8. Cardinality(Bytes(s, S \union {b})) = Cardinality(Bytes(s, S)) + Cardinality(B) - 0
  BY <1>1, <1>5, <1>6, Zenon
<1> QED BY <1>3, <1>4, <1>7, <1>8

\* The blocks before b + 1 are the blocks before b, and b; what comes before a
\* block counts for the blocks behind it.
LEMMA BeforeProperties ==
  ASSUME NEW n \in Nat, NEW s, \A b \in 1 .. n : s[b].size \in Nat
  PROVE  /\ \A b \in 1 .. n + 1 : Before(s, b) \in Nat
         /\ \A b \in 1 .. n : Before(s, b + 1) = Before(s, b) + s[b].size
         /\ \A b, c \in 1 .. n + 1 : b <= c => Before(s, b) <= Before(s, c)
         /\ Before(s, 1) = 0
         /\ Before(s, n + 1) = Cardinality(Bytes(s, 1 .. n))
<1>1. ASSUME NEW b \in 1 .. n + 1 PROVE Before(s, b) \in Nat /\ 1 .. b - 1 \in SUBSET (1 .. n)
  <2>1. 1 .. b - 1 \in SUBSET (1 .. n)
    OBVIOUS
  <2> QED BY <2>1, BytesFinite DEF Before
<1>2. ASSUME NEW b \in 1 .. n PROVE Before(s, b + 1) = Before(s, b) + s[b].size
  <2>1. 1 .. b = (1 .. b - 1) \union {b} /\ b \notin 1 .. b - 1
    OBVIOUS
  <2>2. 1 .. b - 1 \in SUBSET (1 .. n) /\ b \in (1 .. n) \ (1 .. b - 1)
    OBVIOUS
  <2> DEFINE S == 1 .. b - 1
  <2>3. Cardinality(Bytes(s, S \union {b})) = Cardinality(Bytes(s, S)) + s[b].size
    <3>1. S \in SUBSET (1 .. n) /\ b \in (1 .. n) \ S
      BY <2>2
    <3> HIDE DEF S
    <3> QED BY <3>1, BytesAdd
  <2>4. (b + 1) - 1 = b
    OBVIOUS
  <2> QED BY <2>1, <2>3, <2>4 DEF Before
<1>3. ASSUME NEW b \in 1 .. n + 1, NEW c \in 1 .. n + 1, b <= c
      PROVE  Before(s, b) <= Before(s, c)
  <2>1. 1 .. c - 1 \in SUBSET (1 .. n) /\ 1 .. b - 1 \subseteq 1 .. c - 1
    BY <1>3
  <2> DEFINE S == 1 .. b - 1
             T == 1 .. c - 1
  <2> HIDE DEF S, T
  <2>2. IsFiniteSet(Bytes(s, T))
    BY <2>1, BytesFinite DEF T
  <2>3. Bytes(s, S) \subseteq Bytes(s, T)
    BY <2>1 DEF Bytes, S, T
  <2>4. Cardinality(Bytes(s, S)) <= Cardinality(Bytes(s, T))
    BY <2>2, <2>3, FS_Subset
  <2> QED BY <2>4 DEF Before, S, T
<1>4. Before(s, 1) = 0
  <2>1. Bytes(s, 1 .. 1 - 1) = {}
    BY DEF Bytes
  <2> QED BY <2>1, FS_EmptySet DEF Before
<1>5. (n + 1) - 1 = n
  OBVIOUS
<1> QED BY <1>1, <1>2, <1>3, <1>4, <1>5 DEF Before

-----------------------------------------------------------------------------
(* What the types say.                                                     *)

LEMMA MinOfTwo ==
  \A m, n \in Nat : Min({m, n}) = IF m <= n THEN m ELSE n
<1> TAKE m, n \in Nat
<1> DEFINE x == IF m <= n THEN m ELSE n
<1>1. x \in {m, n} /\ \A y \in {m, n} : x <= y
  OBVIOUS
<1>2. \A z \in {m, n} : (\A y \in {m, n} : z <= y) => z = x
  OBVIOUS
<1> HIDE DEF x
<1>3. Min({m, n}) = x
  BY <1>1, <1>2 DEF Min
<1> QED BY <1>3 DEF x

\* The job of the pool names its block.
LEMMA JobsDistinct == \A b, c : PoolJob(b) = PoolJob(c) => b = c
<1> TAKE b, c
<1>1. PoolJob(b).block = b /\ PoolJob(c).block = c
  BY DEF PoolJob
<1> QED BY <1>1

LEMMA StreamTyped ==
  ASSUME blocks \in Streams
  PROVE  /\ Len(blocks) \in Nat
         /\ Blocks = 1 .. Len(blocks) /\ Null = Len(blocks) + 1
         /\ \A b \in Blocks : blocks[b].size \in Nat /\ blocks[b].packed \in BOOLEAN
<1> DEFINE B == [size : Nat, packed : BOOLEAN, sound : BOOLEAN]
<1>1. blocks \in Seq(B)
  BY StreamsAssumption
<1>2. \A x \in B : x.size \in Nat /\ x.packed \in BOOLEAN
  OBVIOUS
<1> HIDE DEF B
<1>3. Len(blocks) \in Nat /\ Blocks = 1 .. Len(blocks)
  BY <1>1, LenProperties DEF Blocks
<1>4. \A b \in 1 .. Len(blocks) : blocks[b] \in B
  BY <1>1, ElementOfSeq
<1> QED BY <1>2, <1>3, <1>4 DEF Null

\* A block whose job is in the pool is a block of the stream.
LEMMA PoolBlocks ==
  ASSUME TypeOK, NEW b, PoolJob(b) \in waiting \union running \union finished
  PROVE  b \in Blocks
<1>1. PoolJob(b) \in {PoolJob(c) : c \in Blocks}
  BY DEF TypeOK
<1> QED BY <1>1, JobsDistinct

\* The actions change nothing but these.
LEMMA StreamStays == [Next]_vars => blocks' = blocks
<1> SUFFICES ASSUME [Next]_vars PROVE blocks' = blocks
  OBVIOUS
<1>1. ReaderStep => blocks' = blocks
  BY DEF ReaderStep, Load, Dispatch, PumpEnds, TakeToken, TimeOut, TestHead, HeadWasReady,
     ReturnTokens, EndRead, Copy, Advance
<1>2. ASSUME NEW b, WorkerStep(b) PROVE blocks' = blocks
  BY <1>2 DEF WorkerStep, StartJob, WriteResult, PostDone, TouchFreed
<1>3. ASSUME NEW n, BeginRead(n) \/ ReadRaw(n) PROVE blocks' = blocks
  BY <1>3 DEF BeginRead, ReadRaw
<1>4. Close => blocks' = blocks
  BY DEF Close
<1>5. UNCHANGED vars => blocks' = blocks
  BY DEF vars
<1> QED BY <1>1, <1>2, <1>3, <1>4, <1>5 DEF Next

-----------------------------------------------------------------------------
(* Types.                                                                  *)

LEMMA TypeInit == Init => TypeOK
<1> SUFFICES ASSUME Init PROVE TypeOK
  OBVIOUS
<1>1. blocks \in Streams
  BY DEF Init
<1>2. waiting = {} /\ running = {} /\ finished = {}
  BY DEF Init, Pool!Init
<1>3. state \in [Blocks -> {"begin", "working", "done"}]
  BY DEF Init
<1>4. delivered \in Seq((0 .. Null) \X Nat)
  BY EmptySeq DEF Init
<1>5. cur \in 1 .. Null /\ pending \in cur .. Null
  BY <1>1, StreamTyped DEF Init
<1>6. offset \in [Blocks -> Nat] /\ \A b \in Blocks : offset[b] <= blocks[b].size
  BY <1>1, StreamTyped DEF Init
<1> QED BY <1>1, <1>2, <1>3, <1>4, <1>5, <1>6, SizesAssumption DEF Init, TypeOK

LEMMA TypeStep == IInv /\ [Next]_vars => TypeOK'
<1> SUFFICES ASSUME IInv, [Next]_vars PROVE TypeOK'
  OBVIOUS
<1> DEFINE PoolOK == waiting \union running \union finished \subseteq {PoolJob(b) : b \in Blocks}
<1>0. /\ TypeOK /\ blocks \in Streams /\ blocks' = blocks
      /\ Blocks' = Blocks /\ Null' = Null
      /\ Len(blocks) \in Nat
      /\ Blocks = 1 .. Len(blocks) /\ Null = Len(blocks) + 1
      /\ \A b \in Blocks : blocks[b].size \in Nat /\ blocks[b].packed \in BOOLEAN
  BY StreamStays, StreamTyped DEF IInv, TypeOK, Blocks, Null
<1>1. CASE Load
  BY <1>0, <1>1 DEF TypeOK, Load, Accepted, poolVars
<1>2. CASE Dispatch
  <2>1. pending \in Blocks /\ pending + 1 \in cur .. Null
    BY <1>0, <1>2 DEF TypeOK, Dispatch
  <2>2. PoolOK'
    <3>1. waiting' \union running' \union finished'
            \subseteq waiting \union running \union finished \union {PoolJob(pending)}
      BY <1>2 DEF Dispatch, Pool!Submit, poolVars
    <3> QED BY <1>0, <2>1, <3>1 DEF TypeOK
  <2> HIDE DEF PoolOK
  <2>3. /\ state' \in [Blocks -> {"begin", "working", "done"}]
        /\ result' \in [Blocks -> {"pending", "success", "failure"}]
    BY <1>0, <1>2, <2>1 DEF TypeOK, Dispatch
  <2>4. outstanding' \in Nat
    BY <1>0, <1>2, <2>1 DEF TypeOK, Dispatch
  <2> QED BY <1>0, <1>2, <2>1, <2>2, <2>3, <2>4 DEF TypeOK, Dispatch, PoolOK
<1>3. CASE PumpEnds
  BY <1>0, <1>3 DEF TypeOK, PumpEnds, poolVars
<1>4. CASE TakeToken
  BY <1>0, <1>4 DEF TypeOK, TakeToken, poolVars
<1>5. CASE TimeOut
  BY <1>0, <1>5 DEF TypeOK, TimeOut, poolVars
<1>6. CASE TestHead
  <2>1. state' \in [Blocks -> {"begin", "working", "done"}]
    BY <1>0, <1>6 DEF TypeOK, TestHead
  <2> QED BY <1>0, <1>6, <2>1 DEF TypeOK, TestHead, poolVars
<1>7. CASE HeadWasReady
  BY <1>0, <1>7 DEF TypeOK, HeadWasReady, poolVars
<1>8. CASE ReturnTokens
  BY <1>0, <1>8 DEF TypeOK, ReturnTokens, poolVars
<1>9. CASE EndRead
  BY <1>0, <1>9 DEF TypeOK, EndRead, poolVars
<1>10. CASE Copy
  <2> DEFINE n == Min({need, Remaining})
  <2>1. cur \in Blocks
    BY <1>0, <1>10 DEF TypeOK, IInv, PlaceInv, Copy
  <2>2. Remaining \in Nat /\ Remaining = blocks[cur].size - offset[cur] /\ need \in Nat
    <3>1. offset[cur] \in Nat /\ offset[cur] <= blocks[cur].size /\ blocks[cur].size \in Nat
      BY <1>0, <2>1 DEF TypeOK
    <3>2. need \in Nat
      BY <1>0, SizesAssumption DEF TypeOK
    <3> QED BY <3>1, <3>2 DEF Remaining
  <2>3. n \in Nat /\ n <= Remaining /\ n <= need
    BY <2>2, MinOfTwo
  <2> HIDE DEF n
  <2>4. offset' = [offset EXCEPT ![cur] = @ + n] /\ need' = need - n
        /\ delivered' = delivered \o Taken(n)
    BY <1>10 DEF Copy, n
  <2>5. offset' \in [Blocks -> Nat] /\ \A b \in Blocks : offset'[b] <= blocks[b].size
    <3>1. offset[cur] \in Nat /\ offset[cur] <= blocks[cur].size
          /\ offset \in [Blocks -> Nat] /\ \A b \in Blocks : offset[b] <= blocks[b].size
      BY <1>0, <2>1 DEF TypeOK
    <3>2. offset[cur] + n \in Nat /\ offset[cur] + n <= blocks[cur].size
      BY <1>0, <2>1, <2>2, <2>3, <3>1
    <3> QED BY <2>1, <2>4, <3>1, <3>2
  <2>6. delivered' \in Seq((0 .. Null) \X Nat)
    <3>1. \A i \in 1 .. n : <<IF blocks[cur].packed THEN cur ELSE 0, offset[cur] + i>>
                              \in (0 .. Null) \X Nat
      BY <1>0, <2>1, <2>3 DEF TypeOK
    <3>2. Taken(n) \in Seq((0 .. Null) \X Nat)
      BY <2>3, <3>1, IsASeq DEF Taken
    <3> QED BY <1>0, <2>4, <3>2, ConcatProperties DEF TypeOK
  <2>7. need' \in 0 .. MaxRead
    BY <1>0, <2>2, <2>3, <2>4, SizesAssumption DEF TypeOK
  <2> QED BY <1>0, <1>10, <2>5, <2>6, <2>7 DEF TypeOK, Copy, poolVars
<1>11. CASE Advance
  <2>1. cur \in Blocks /\ cur < pending
    BY <1>0, <1>11 DEF TypeOK, IInv, PlaceInv, Advance
  <2>2. outstanding' \in Nat
    <3> DEFINE held == {b \in cur .. pending - 1 : blocks[b].packed}
    <3>1. held \in SUBSET (1 .. Len(blocks)) /\ held \ {cur} \in SUBSET (1 .. Len(blocks))
      BY <1>0, <2>1 DEF TypeOK
    <3>2. outstanding = Cardinality(Bytes(blocks, held))
      BY <1>11 DEF IInv, OutstandingIsExact, Advance
    <3>3. CASE blocks[cur].packed
      <4>1. cur \in held /\ held = (held \ {cur}) \union {cur}
        BY <1>0, <2>1, <3>3 DEF TypeOK
      <4> HIDE DEF held
      <4>2. Cardinality(Bytes(blocks, (held \ {cur}) \union {cur}))
              = Cardinality(Bytes(blocks, held \ {cur})) + blocks[cur].size
        <5> DEFINE S == held \ {cur}
        <5>1. S \in SUBSET (1 .. Len(blocks)) /\ cur \in (1 .. Len(blocks)) \ S
          BY <1>0, <2>1, <3>1
        <5> HIDE DEF S
        <5>2. Cardinality(Bytes(blocks, S \union {cur})) = Cardinality(Bytes(blocks, S)) + blocks[cur].size
          BY <1>0, <5>1, BytesAdd
        <5> QED BY <5>2 DEF S
      <4>3. Cardinality(Bytes(blocks, held \ {cur})) \in Nat
        BY <1>0, <3>1, BytesFinite
      <4>4. outstanding' = outstanding - blocks[cur].size
        BY <1>11, <3>3 DEF Advance
      <4>5. outstanding = Cardinality(Bytes(blocks, held \ {cur})) + blocks[cur].size
        BY <3>2, <4>1, <4>2
      <4> QED BY <1>0, <2>1, <4>3, <4>4, <4>5
    <3>4. CASE ~ blocks[cur].packed
      BY <1>0, <1>11, <3>4 DEF TypeOK, Advance
    <3> QED BY <3>3, <3>4
  <2> QED BY <1>0, <1>11, <2>1, <2>2 DEF TypeOK, Advance, poolVars
<1>12. CASE \E n \in 0 .. MaxRead : BeginRead(n) \/ ReadRaw(n)
  <2>1. PICK n \in 0 .. MaxRead : BeginRead(n) \/ ReadRaw(n)
    BY <1>12
  <2>2. CASE BeginRead(n)
    BY <1>0, <2>2 DEF TypeOK, BeginRead, poolVars
  <2>3. CASE ReadRaw(n)
    <3>1. raw' \in 0 .. RawBytes
      BY <1>0, <2>3, SizesAssumption DEF TypeOK, ReadRaw
    <3> QED BY <1>0, <2>3, <3>1 DEF TypeOK, ReadRaw, poolVars
  <2> QED BY <2>1, <2>2, <2>3
<1>13. CASE Close
  BY <1>0, <1>13 DEF TypeOK, Close, poolVars
<1>14. ASSUME NEW b \in 1 .. MaxBlocks, WorkerStep(b) PROVE TypeOK'
  <2>1. CASE StartJob(b)
    <3>1. PoolOK'
      <4>1. waiting' \union running' \union finished' \subseteq waiting \union running \union finished
        BY <2>1 DEF StartJob, Pool!Start
      <4> QED BY <1>0, <4>1 DEF TypeOK
    <3> HIDE DEF PoolOK
    <3> QED BY <1>0, <2>1, <3>1 DEF TypeOK, StartJob, readerVars, PoolOK
  <2>2. CASE WriteResult(b)
    <3>1. b \in Blocks
      BY <1>0, <2>2, PoolBlocks DEF WriteResult
    <3>2. result' \in [Blocks -> {"pending", "success", "failure"}]
      BY <1>0, <2>2, <3>1 DEF TypeOK, WriteResult, Outcomes
    <3> QED BY <1>0, <2>2, <3>2 DEF TypeOK, WriteResult, readerVars, poolVars
  <2>3. CASE PostDone(b)
    <3>1. PoolOK'
      <4>1. waiting' \union running' \union finished' \subseteq waiting \union running \union finished
        BY <2>3 DEF PostDone, Pool!Finish
      <4> QED BY <1>0, <4>1 DEF TypeOK
    <3> HIDE DEF PoolOK
    <3> QED BY <1>0, <2>3, <3>1, SMTT(60) DEF TypeOK, PostDone, readerVars, PoolOK
  <2>4. CASE TouchFreed(b)
    BY <1>0, <2>4 DEF TypeOK, TouchFreed, poolVars
  <2> QED BY <1>14, <2>1, <2>2, <2>3, <2>4 DEF WorkerStep
<1>15. CASE UNCHANGED vars
  BY <1>0, <1>15 DEF TypeOK, vars, readerVars, poolVars
<1> QED BY <1>1, <1>2, <1>3, <1>4, <1>5, <1>6, <1>7, <1>8, <1>9, <1>10, <1>11, <1>12, <1>13,
           <1>14, <1>15 DEF Next, ReaderStep

-----------------------------------------------------------------------------
(* The reader's place.                                                     *)

\* What TypeOK and StreamStays say of a step, as the lemmas below use it.
LEMMA StepTyped ==
  ASSUME TypeOK, [Next]_vars
  PROVE  /\ blocks' = blocks /\ Blocks' = Blocks /\ Null' = Null /\ Accepted' = Accepted
         /\ Len(blocks) \in Nat
         /\ Blocks = 1 .. Len(blocks) /\ Null = Len(blocks) + 1
         /\ \A b \in Blocks : blocks[b].size \in Nat /\ blocks[b].packed \in BOOLEAN
         /\ state \in [Blocks -> {"begin", "working", "done"}]
         /\ result \in [Blocks -> {"pending", "success", "failure"}]
         /\ offset \in [Blocks -> Nat] /\ \A b \in Blocks : offset[b] <= blocks[b].size
         /\ cur \in 1 .. Null /\ pending \in cur .. Null
         /\ outstanding \in Nat /\ sem \in Nat /\ cycles \in Nat /\ need \in Nat
<1>1. blocks' = blocks /\ Blocks' = Blocks /\ Null' = Null /\ Accepted' = Accepted
  BY StreamStays DEF Blocks, Null, Accepted
<1>2. need \in Nat
  BY SizesAssumption DEF TypeOK
<1> QED BY <1>1, <1>2, StreamTyped DEF TypeOK

\* A pump that ends has gone past the head, or there is none.
LEMMA PumpPassesHead ==
  ASSUME TypeOK, OutstandingIsExact, PumpEnds
  PROVE  cur = Null \/ cur < pending
<1>1. Len(blocks) \in Nat /\ cur \in 1 .. Null /\ pending \in cur .. Null /\ Null = Len(blocks) + 1
  BY StreamTyped DEF TypeOK
<1>2. CASE cur = pending
  <2>1. {b \in cur .. pending - 1 : blocks[b].packed} = {}
    BY <1>1, <1>2
  <2>2. outstanding = Cardinality(Bytes(blocks, {}))
    BY <2>1 DEF OutstandingIsExact, PumpEnds
  <2>3. outstanding = 0
    BY <2>2, FS_EmptySet DEF Bytes
  <2> QED BY <1>2, <2>3, SizesAssumption DEF PumpEnds
<1> QED BY <1>1, <1>2

LEMMA PlaceStep == IInv /\ [Next]_vars => PlaceInv'
<1> SUFFICES ASSUME IInv, [Next]_vars PROVE PlaceInv'
  OBVIOUS
<1>0. TypeOK /\ PlaceInv /\ BlockInv /\ OutstandingIsExact
  BY DEF IInv
<1>t. /\ blocks' = blocks /\ Blocks' = Blocks /\ Null' = Null /\ Accepted' = Accepted
      /\ Len(blocks) \in Nat
      /\ Blocks = 1 .. Len(blocks) /\ Null = Len(blocks) + 1
      /\ state \in [Blocks -> {"begin", "working", "done"}]
      /\ cur \in 1 .. Null /\ pending \in cur .. Null /\ cycles \in Nat
  BY <1>0, StepTyped
<1>1. CASE Load
  BY <1>0, <1>t, <1>1 DEF PlaceInv, Load
<1>2. CASE Dispatch
  BY <1>0, <1>t, <1>2 DEF PlaceInv, Dispatch, Pumping
<1>3. CASE PumpEnds
  <2>1. cur = Null \/ cur < pending
    BY <1>0, <1>3, PumpPassesHead
  <2> QED BY <1>0, <1>t, <1>3, <2>1 DEF PlaceInv, PumpEnds
<1>4. CASE TakeToken
  BY <1>0, <1>t, <1>4 DEF PlaceInv, TakeToken, HeadReady
<1>5. CASE TimeOut
  BY <1>0, <1>t, <1>5 DEF PlaceInv, TimeOut, HeadReady
<1>6. CASE TestHead
  BY <1>0, <1>t, <1>6 DEF PlaceInv, TestHead
<1>7. CASE HeadWasReady
  BY <1>0, <1>t, <1>7 DEF PlaceInv, HeadWasReady, HeadReady
<1>8. CASE ReturnTokens
  BY <1>0, <1>t, <1>8 DEF PlaceInv, ReturnTokens
<1>9. CASE EndRead
  BY <1>0, <1>t, <1>9 DEF PlaceInv, EndRead
<1>10. CASE Copy
  BY <1>0, <1>t, <1>10 DEF PlaceInv, Copy
<1>11. CASE Advance
  BY <1>0, <1>t, <1>11 DEF PlaceInv, Advance
<1>12. CASE \E n \in 0 .. MaxRead : BeginRead(n) \/ ReadRaw(n)
  BY <1>0, <1>t, <1>12 DEF PlaceInv, BeginRead, ReadRaw
<1>13. CASE Close
  BY <1>0, <1>t, <1>13 DEF PlaceInv, Close
<1>14. ASSUME NEW b \in 1 .. MaxBlocks, WorkerStep(b) PROVE PlaceInv'
  BY <1>0, <1>t, <1>14 DEF PlaceInv, WorkerStep, StartJob, WriteResult, PostDone, TouchFreed, readerVars
<1>15. CASE UNCHANGED vars
  BY <1>0, <1>t, <1>15 DEF PlaceInv, vars, readerVars
<1> QED BY <1>1, <1>2, <1>3, <1>4, <1>5, <1>6, <1>7, <1>8, <1>9, <1>10, <1>11, <1>12, <1>13,
           <1>14, <1>15 DEF Next, ReaderStep

LEMMA BlockStep == IInv /\ [Next]_vars => BlockInv'
<1> SUFFICES ASSUME IInv, [Next]_vars PROVE BlockInv'
  OBVIOUS
<1>0. TypeOK /\ PlaceInv /\ BlockInv
  BY DEF IInv
<1>t. /\ blocks' = blocks /\ Blocks' = Blocks /\ Null' = Null /\ Accepted' = Accepted
      /\ Len(blocks) \in Nat
      /\ Blocks = 1 .. Len(blocks) /\ Null = Len(blocks) + 1
      /\ state \in [Blocks -> {"begin", "working", "done"}]
      /\ result \in [Blocks -> {"pending", "success", "failure"}]
      /\ offset \in [Blocks -> Nat]
      /\ cur \in 1 .. Null /\ pending \in cur .. Null
  BY <1>0, StepTyped
<1>1. CASE Load
  BY <1>0, <1>t, <1>1 DEF PlaceInv, BlockInv, Opened, Load
<1>2. CASE Dispatch
  BY <1>0, <1>t, <1>2 DEF PlaceInv, BlockInv, Opened, Dispatch, Pumping
<1>3. CASE PumpEnds
  BY <1>0, <1>t, <1>3 DEF PlaceInv, BlockInv, Opened, PumpEnds
<1>4. CASE TakeToken
  BY <1>0, <1>t, <1>4 DEF PlaceInv, BlockInv, Opened, TakeToken
<1>5. CASE TimeOut
  BY <1>0, <1>t, <1>5 DEF PlaceInv, BlockInv, Opened, TimeOut
<1>6. CASE TestHead
  BY <1>0, <1>t, <1>6 DEF PlaceInv, BlockInv, Opened, TestHead, IsFinished
<1>7. CASE HeadWasReady
  BY <1>0, <1>t, <1>7 DEF PlaceInv, BlockInv, Opened, HeadWasReady
<1>8. CASE ReturnTokens
  BY <1>0, <1>t, <1>8 DEF PlaceInv, BlockInv, Opened, ReturnTokens
<1>9. CASE EndRead
  BY <1>0, <1>t, <1>9 DEF PlaceInv, BlockInv, Opened, EndRead
<1>10. CASE Copy
  <2>1. \A b \in Blocks : b > cur => offset'[b] = offset[b]
    BY <1>t, <1>10 DEF Copy
  <2> QED BY <1>0, <1>t, <1>10, <2>1 DEF PlaceInv, BlockInv, Opened, Copy
<1>11. CASE Advance
  BY <1>0, <1>t, <1>11 DEF PlaceInv, BlockInv, Opened, Advance
<1>12. CASE \E n \in 0 .. MaxRead : BeginRead(n) \/ ReadRaw(n)
  BY <1>0, <1>t, <1>12 DEF PlaceInv, BlockInv, Opened, BeginRead, ReadRaw
<1>13. CASE Close
  BY <1>0, <1>t, <1>13 DEF PlaceInv, BlockInv, Opened, Close
<1>14. ASSUME NEW b \in 1 .. MaxBlocks, WorkerStep(b) PROVE BlockInv'
  <2>1. CASE WriteResult(b)
    <3>1. b \in Blocks
      BY <1>0, <2>1, PoolBlocks DEF WriteResult
    <3>2. \A c \in Blocks : result[c] # "pending" => result'[c] = result[c]
      BY <1>t, <2>1 DEF WriteResult
    <3> QED BY <1>0, <1>t, <2>1, <3>2 DEF PlaceInv, BlockInv, Opened, WriteResult, readerVars
  <2>2. CASE ~ WriteResult(b)
    BY <1>0, <1>t, <1>14, <2>2
       DEF PlaceInv, BlockInv, Opened, WorkerStep, StartJob, PostDone, TouchFreed, readerVars
  <2> QED BY <2>1, <2>2
<1>15. CASE UNCHANGED vars
  BY <1>0, <1>t, <1>15 DEF PlaceInv, BlockInv, Opened, vars, readerVars
<1> QED BY <1>1, <1>2, <1>3, <1>4, <1>5, <1>6, <1>7, <1>8, <1>9, <1>10, <1>11, <1>12, <1>13,
           <1>14, <1>15 DEF Next, ReaderStep

-----------------------------------------------------------------------------
(* The window.                                                             *)

Held == {b \in cur .. pending - 1 : blocks[b].packed}

LEMMA WindowStep == IInv /\ [Next]_vars => OutstandingIsExact'
<1> SUFFICES ASSUME IInv, [Next]_vars PROVE OutstandingIsExact'
  OBVIOUS
<1>0. TypeOK /\ PlaceInv /\ BlockInv /\ OutstandingIsExact
  BY DEF IInv
<1>t. /\ blocks' = blocks /\ Blocks' = Blocks /\ Null' = Null /\ Accepted' = Accepted
      /\ Len(blocks) \in Nat
      /\ Blocks = 1 .. Len(blocks) /\ Null = Len(blocks) + 1
      /\ \A b \in Blocks : blocks[b].size \in Nat /\ blocks[b].packed \in BOOLEAN
      /\ cur \in 1 .. Null /\ pending \in cur .. Null
      /\ outstanding \in Nat
  BY <1>0, StepTyped
<1>h. /\ Held \in SUBSET (1 .. Len(blocks))
      /\ IsFiniteSet(Bytes(blocks, Held)) /\ Cardinality(Bytes(blocks, Held)) \in Nat
  <2>1. Held \in SUBSET (1 .. Len(blocks))
    BY <1>t DEF Held
  <2> QED BY <1>t, <2>1, BytesFinite
<1>e. pc \notin {"closed", "undefined"} =>
        /\ outstanding = Cardinality(Bytes(blocks, Held))
        /\ \E b \in Held \union {0} : outstanding < Window + (IF b = 0 THEN 0 ELSE blocks[b].size)
  BY <1>0 DEF OutstandingIsExact, Held
<1>g. SUFFICES ASSUME pc' \notin {"closed", "undefined"}
               PROVE  /\ outstanding' = Cardinality(Bytes(blocks, Held'))
                      /\ \E b \in Held' \union {0} :
                            outstanding' < Window + (IF b = 0 THEN 0 ELSE blocks[b].size)
  BY <1>t DEF OutstandingIsExact, Held
<1>q. ASSUME UNCHANGED <<cur, pending, outstanding>>, pc \notin {"closed", "undefined"}
      PROVE  /\ outstanding' = Cardinality(Bytes(blocks, Held'))
             /\ \E b \in Held' \union {0} :
                   outstanding' < Window + (IF b = 0 THEN 0 ELSE blocks[b].size)
  <2>1. Held' = Held
    BY <1>t, <1>q DEF Held
  <2> QED BY <1>e, <1>q, <2>1
<1>1. CASE Load
  <2>1. CASE Accepted
    <3>1. Held' = {} /\ outstanding' = 0
      BY <1>0, <1>t, <1>1, <2>1 DEF PlaceInv, Load, Held
    <3>2. Cardinality(Bytes(blocks, {})) = 0
      BY FS_EmptySet DEF Bytes
    <3> QED BY <3>1, <3>2, SizesAssumption
  <2>2. CASE ~ Accepted
    BY <1>1, <1>q, <2>2 DEF Load
  <2> QED BY <2>1, <2>2
<1>2. CASE Dispatch
  <2>1. pending \in Blocks /\ pc \notin {"closed", "undefined"} /\ Accepted
    BY <1>0, <1>t, <1>2 DEF Dispatch, Pumping, PlaceInv
  <2>2. blocks[pending].packed <=> state[pending] = "begin"
    BY <1>0, <1>t, <1>2, <2>1 DEF BlockInv, Opened, Dispatch, Pumping
  <2>3. CASE blocks[pending].packed
    <3>1. Held' = Held \union {pending} /\ pending \notin Held
      BY <1>t, <1>2, <2>1, <2>3 DEF Dispatch, Held
    <3>2. outstanding' = outstanding + blocks[pending].size
      BY <1>2, <2>2, <2>3 DEF Dispatch
    <3>3. pending \in (1 .. Len(blocks)) \ Held
      BY <1>t, <2>1, <3>1
    <3>4. Cardinality(Bytes(blocks, Held \union {pending}))
            = Cardinality(Bytes(blocks, Held)) + blocks[pending].size
      BY <1>t, <1>h, <3>3, BytesAdd
    <3>5. outstanding < Window /\ pending # 0
      BY <1>t, <1>2, <2>1 DEF Dispatch
    <3>6. outstanding' < Window + (IF pending = 0 THEN 0 ELSE blocks[pending].size)
      BY <1>t, <2>1, <3>2, <3>5, SizesAssumption
    <3> QED BY <1>e, <2>1, <3>1, <3>2, <3>4, <3>6
  <2>4. CASE ~ blocks[pending].packed
    <3>1. Held' = Held /\ outstanding' = outstanding
      BY <1>t, <1>2, <2>1, <2>2, <2>4 DEF Dispatch, Held
    <3> QED BY <1>e, <2>1, <3>1
  <2> QED BY <2>3, <2>4
<1>3. CASE PumpEnds
  BY <1>3, <1>q DEF PumpEnds
<1>4. CASE TakeToken \/ TimeOut
  BY <1>4, <1>q DEF TakeToken, TimeOut
<1>6. CASE TestHead
  BY <1>6, <1>q DEF TestHead
<1>7. CASE HeadWasReady
  BY <1>7, <1>q DEF HeadWasReady
<1>8. CASE ReturnTokens
  BY <1>8, <1>q DEF ReturnTokens
<1>9. CASE EndRead \/ Copy
  BY <1>9, <1>q DEF EndRead, Copy
<1>11. CASE Advance
  <2>1. cur \in Blocks /\ cur < pending /\ pc = "copy"
    BY <1>0, <1>t, <1>11 DEF PlaceInv, Advance
  <2>2. Held' = Held \ {cur}
    BY <1>t, <1>11, <2>1 DEF Advance, Held
  <2>3. PICK b \in Held \union {0} : outstanding < Window + (IF b = 0 THEN 0 ELSE blocks[b].size)
    BY <1>e, <2>1
  <2>4. CASE blocks[cur].packed
    <3> DEFINE S == Held \ {cur}
    <3>1. S \in SUBSET (1 .. Len(blocks)) /\ cur \in (1 .. Len(blocks)) \ S /\ Held = S \union {cur}
      BY <1>t, <1>h, <2>1, <2>4 DEF Held
    <3> HIDE DEF S
    <3>2. Cardinality(Bytes(blocks, S \union {cur})) = Cardinality(Bytes(blocks, S)) + blocks[cur].size
      BY <1>t, <3>1, BytesAdd
    <3>3. Cardinality(Bytes(blocks, S)) \in Nat
      BY <1>t, <3>1, BytesFinite
    <3>4. outstanding' = outstanding - blocks[cur].size
      BY <1>11, <2>4 DEF Advance
    <3>5. outstanding = Cardinality(Bytes(blocks, S)) + blocks[cur].size
      BY <1>e, <2>1, <3>1, <3>2
    <3>6. outstanding' = Cardinality(Bytes(blocks, S)) /\ blocks[cur].size \in Nat
      BY <1>t, <2>1, <3>3, <3>4, <3>5
    <3>7. CASE b = cur
      <4>1. outstanding' < Window + (IF 0 = 0 THEN 0 ELSE blocks[0].size)
        BY <1>t, <2>1, <2>3, <3>4, <3>6, <3>7, SizesAssumption
      <4> QED BY <2>2, <3>6, <4>1 DEF S
    <3>8. CASE b # cur
      <4>1. b \in Held' \union {0}
        BY <2>2, <2>3, <3>8
      <4> DEFINE d == IF b = 0 THEN 0 ELSE blocks[b].size
      <4>2. d \in Nat /\ outstanding < Window + d
        BY <1>t, <1>h, <2>3
      <4> HIDE DEF d
      <4>3. outstanding' < Window + d
        BY <1>t, <3>4, <3>6, <4>2, SizesAssumption
      <4> QED BY <2>2, <3>6, <4>1, <4>3 DEF S, d
    <3> QED BY <3>7, <3>8
  <2>5. CASE ~ blocks[cur].packed
    <3>1. Held' = Held /\ outstanding' = outstanding
      BY <1>t, <1>11, <2>2, <2>5 DEF Advance, Held
    <3> QED BY <1>e, <2>1, <3>1
  <2> QED BY <2>4, <2>5
<1>12. CASE \E n \in 0 .. MaxRead : BeginRead(n) \/ ReadRaw(n)
  BY <1>12, <1>q DEF BeginRead, ReadRaw
<1>13. CASE Close
  BY <1>13, <1>g DEF Close
<1>14. ASSUME NEW b \in 1 .. MaxBlocks, WorkerStep(b)
       PROVE  /\ outstanding' = Cardinality(Bytes(blocks, Held'))
              /\ \E c \in Held' \union {0} :
                    outstanding' < Window + (IF c = 0 THEN 0 ELSE blocks[c].size)
  BY <1>14, <1>g, <1>q DEF WorkerStep, StartJob, WriteResult, PostDone, TouchFreed, readerVars
<1>15. CASE UNCHANGED vars
  BY <1>15, <1>g, <1>q DEF vars, readerVars
<1> QED BY <1>1, <1>2, <1>3, <1>4, <1>6, <1>7, <1>8, <1>9, <1>11, <1>12, <1>13, <1>14, <1>15
        DEF Next, ReaderStep

-----------------------------------------------------------------------------
(* The bytes delivered.                                                    *)

\* A step that delivers nothing and stays in place.
LEMMA DeliveryStays ==
  ASSUME DeliveryInv, BlockInv, blocks' = blocks, delivered' = delivered,
         Opened' => Opened /\ UNCHANGED <<cur, offset>>,
         \A b \in Blocks : state[b] = "done" =>
           state'[b] = "done" /\ (blocks[b].packed => result'[b] = result[b])
  PROVE  DeliveryInv'
<1>1. Blocks' = Blocks /\ Null' = Null
  BY DEF Blocks, Null
<1>2. Opened' => Len(delivered') = Before(blocks', cur') + (IF cur' = Null' THEN 0 ELSE offset'[cur'])
  BY <1>1 DEF DeliveryInv
<1>3. \A b \in Blocks : \A k \in 1 .. blocks[b].size :
        Before(blocks, b) + k <= Len(delivered) => state'[b] = "done"
  BY DEF DeliveryInv
<1>4. ASSUME NEW b \in Blocks, NEW k \in 1 .. blocks[b].size,
             Before(blocks, b) + k <= Len(delivered), blocks[b].packed
      PROVE  delivered[Before(blocks, b) + k] = <<b, k>> /\ result'[b] = "success"
  <2>1. state[b] = "done"
    BY <1>4 DEF DeliveryInv
  <2>2. delivered[Before(blocks, b) + k] = <<b, k>> /\ result[b] = "success"
    BY <1>4 DEF DeliveryInv, DeliveredInOrder
  <2> QED BY <1>4, <2>1, <2>2
<1>5. Len(delivered) <= Cardinality(Bytes(blocks, Blocks))
  BY DEF DeliveryInv, DeliveredInOrder
<1> QED BY <1>1, <1>2, <1>3, <1>4, <1>5 DEF DeliveryInv, DeliveredInOrder

\* Of the bytes a copy appends, the i-th of the resource is of the head.
LEMMA CopyDelivers ==
  ASSUME IInv, Copy
  PROVE  DeliveryInv'
<1> DEFINE n == Min({need, Remaining})
           L == Len(delivered)
<1>0. TypeOK /\ PlaceInv /\ BlockInv /\ DeliveryInv /\ Copy /\ [Next]_vars
  BY DEF IInv, Next, ReaderStep
<1>t. /\ blocks' = blocks /\ Blocks' = Blocks /\ Null' = Null /\ Accepted' = Accepted
      /\ Len(blocks) \in Nat
      /\ Blocks = 1 .. Len(blocks) /\ Null = Len(blocks) + 1
      /\ \A b \in Blocks : blocks[b].size \in Nat /\ blocks[b].packed \in BOOLEAN
      /\ offset \in [Blocks -> Nat] /\ \A b \in Blocks : offset[b] <= blocks[b].size
      /\ cur \in 1 .. Null /\ need \in Nat
  BY <1>0, StepTyped
<1>1. cur \in Blocks /\ cur # Null /\ state[cur] = "done" /\ Opened /\ pc = "copy"
  BY <1>0, <1>t DEF PlaceInv, Copy, Opened
<1>2. /\ offset[cur] \in Nat /\ blocks[cur].size \in Nat
      /\ Remaining = blocks[cur].size - offset[cur] /\ Remaining \in Nat /\ need \in Nat
  BY <1>t, <1>1 DEF Remaining
<1>3. n \in Nat /\ n <= Remaining
  BY <1>2, MinOfTwo
<1>4. /\ offset' = [offset EXCEPT ![cur] = @ + n]
      /\ delivered' = delivered \o Taken(n)
      /\ UNCHANGED <<state, result, cur, pc>>
  BY <1>0 DEF Copy
<1> HIDE DEF n
<1>5. /\ \A b \in 1 .. Len(blocks) + 1 : Before(blocks, b) \in Nat
      /\ \A b \in 1 .. Len(blocks) : Before(blocks, b + 1) = Before(blocks, b) + blocks[b].size
      /\ \A b, c \in 1 .. Len(blocks) + 1 : b <= c => Before(blocks, b) <= Before(blocks, c)
      /\ Before(blocks, Len(blocks) + 1) = Cardinality(Bytes(blocks, 1 .. Len(blocks)))
  BY <1>t, BeforeProperties
<1>6. L = Before(blocks, cur) + offset[cur] /\ L \in Nat
  BY <1>0, <1>1, <1>t, <1>5, <1>2 DEF DeliveryInv
<1> DEFINE D == (0 .. Null) \X Nat
<1>7. /\ Len(delivered') = L + n
      /\ \A i \in 1 .. L : delivered'[i] = delivered[i]
      /\ \A i \in L + 1 .. L + n : delivered'[i] = Taken(n)[i - L]
  <2>1. \A i \in 1 .. n : <<IF blocks[cur].packed THEN cur ELSE 0, offset[cur] + i>> \in D
    BY <1>t, <1>1, <1>2, <1>3, SMTT(60)
  <2>2. Taken(n) \in Seq(D) /\ Len(Taken(n)) = n
    BY <1>3, <2>1, IsASeq DEF Taken
  <2>3. delivered \in Seq(D)
    BY <1>0 DEF TypeOK
  <2>4. /\ Len(delivered \o Taken(n)) = Len(delivered) + Len(Taken(n))
        /\ \A i \in 1 .. Len(delivered) + Len(Taken(n)) : (delivered \o Taken(n))[i] =
             IF i <= Len(delivered) THEN delivered[i] ELSE Taken(n)[i - Len(delivered)]
    <3> HIDE DEF D
    <3> QED BY <2>2, <2>3, ConcatProperties
  <2> QED BY <1>3, <1>4, <1>6, <2>2, <2>4, SMTT(60)
<1>l. L = Len(delivered)
  OBVIOUS
<1> HIDE DEF L
<1>8. ASSUME NEW b \in Blocks, NEW k \in 1 .. blocks[b].size,
             Before(blocks, b) + k \in L + 1 .. L + n
      PROVE  b = cur /\ k = offset[cur] + (Before(blocks, b) + k - L)
  <2> DEFINE B == Before(blocks, b)
             C == Before(blocks, cur)
             Bnext == Before(blocks, b + 1)
             Cnext == Before(blocks, cur + 1)
             size == blocks[b].size
  <2>1. b \in Nat /\ cur \in Nat /\ k \in Nat /\ k >= 1 /\ k <= size /\ size \in Nat
    BY <1>t, <1>1
  <2>2. /\ b \in 1 .. Len(blocks) /\ b \in 1 .. Len(blocks) + 1 /\ b + 1 \in 1 .. Len(blocks) + 1
        /\ cur \in 1 .. Len(blocks) /\ cur \in 1 .. Len(blocks) + 1 /\ cur + 1 \in 1 .. Len(blocks) + 1
    BY <1>t, <1>1
  <2>3. B \in Nat /\ C \in Nat /\ Bnext = B + size /\ Cnext = C + blocks[cur].size
    BY <1>5, <2>2
  <2>4. b < cur => Bnext <= C
    BY <1>5, <2>1, <2>2
  <2>5. b > cur => Cnext <= B
    BY <1>5, <2>1, <2>2
  <2>6. L = C + offset[cur] /\ B + k \in L + 1 .. L + n
    BY <1>6, <1>8
  <2> HIDE DEF B, C, Bnext, Cnext, size
  <2>7. B + k > C + offset[cur] /\ B + k <= C + blocks[cur].size
    BY <1>2, <1>3, <2>1, <2>3, <2>6
  <2>8. ~ (b < cur) /\ ~ (b > cur)
    BY <1>2, <2>1, <2>3, <2>4, <2>5, <2>7
  <2>9. b = cur
    BY <2>1, <2>8
  <2>10. B = C
    BY <2>9 DEF B, C
  <2>11. k = offset[cur] + (B + k - L)
    BY <1>2, <1>6, <2>1, <2>3, <2>6, <2>10
  <2> QED BY <2>9, <2>11 DEF B
<1>9. ASSUME NEW b \in Blocks, NEW k \in 1 .. blocks[b].size,
             Before(blocks, b) + k <= Len(delivered')
      PROVE  /\ state[b] = "done"
             /\ blocks[b].packed => delivered'[Before(blocks, b) + k] = <<b, k>> /\ result[b] = "success"
  <2>0. /\ Before(blocks, b) \in Nat /\ k \in Nat
        /\ Before(blocks, b) + k \in Nat /\ Before(blocks, b) + k >= 1
    BY <1>t, <1>5
  <2>1. CASE Before(blocks, b) + k <= L
    BY <1>0, <1>6, <1>7, <1>l, <2>0, <2>1 DEF DeliveryInv, DeliveredInOrder
  <2>2. CASE ~ (Before(blocks, b) + k <= L)
    <3> DEFINE i == Before(blocks, b) + k
    <3>1. Before(blocks, b) + k \in L + 1 .. L + n
      BY <1>3, <1>6, <1>7, <1>9, <2>0, <2>2
    <3>2. b = cur /\ k = offset[cur] + (Before(blocks, b) + k - L)
      BY <1>8, <3>1
    <3>3. i - L \in 1 .. n /\ delivered'[i] = Taken(n)[i - L]
      BY <1>3, <1>6, <1>7, <3>1, SMTT(60)
    <3>i. i = Before(blocks, b) + k
      OBVIOUS
    <3> HIDE DEF i
    <3>4. blocks[cur].packed => delivered'[i] = <<cur, offset[cur] + (i - L)>>
      BY <3>3 DEF Taken
    <3>5. blocks[cur].packed => result[cur] = "success"
      BY <1>0, <1>1 DEF BlockInv
    <3>6. k = offset[cur] + (i - L)
      BY <1>2, <1>6, <2>0, <3>2, <3>i
    <3>7. state[b] = "done"
      BY <1>1, <3>2
    <3>8. blocks[b].packed => delivered'[i] = <<b, k>> /\ result[b] = "success"
      BY <3>2, <3>4, <3>5, <3>6
    <3> QED BY <3>7, <3>8, <3>i
  <2> QED BY <2>1, <2>2
<1>10. offset'[cur] = offset[cur] + n /\ Len(delivered') = Before(blocks, cur) + offset'[cur]
  BY <1>1, <1>2, <1>3, <1>4, <1>5, <1>6, <1>7, <1>t
<1>11. Len(delivered') <= Cardinality(Bytes(blocks, Blocks))
  <2>1. /\ Before(blocks, cur + 1) = Before(blocks, cur) + blocks[cur].size
        /\ Before(blocks, cur + 1) <= Before(blocks, Len(blocks) + 1)
    <3>1. /\ cur \in 1 .. Len(blocks) /\ cur + 1 <= Len(blocks) + 1
          /\ cur + 1 \in 1 .. Len(blocks) + 1 /\ Len(blocks) + 1 \in 1 .. Len(blocks) + 1
      BY <1>t, <1>1
    <3> QED BY <1>5, <3>1
  <2>2. Before(blocks, cur) \in Nat /\ Before(blocks, Len(blocks) + 1) \in Nat
    BY <1>t, <1>1, <1>5
  <2>3. Len(delivered') <= Before(blocks, Len(blocks) + 1)
    BY <1>2, <1>3, <1>6, <1>7, <2>1, <2>2, SMTT(60)
  <2> QED BY <1>t, <1>5, <2>3
<1>12. Opened' => Len(delivered') = Before(blocks', cur') + (IF cur' = Null' THEN 0 ELSE offset'[cur'])
  BY <1>1, <1>4, <1>10, <1>t
<1> QED BY <1>4, <1>9, <1>11, <1>12, <1>t DEF DeliveryInv, DeliveredInOrder

LEMMA DeliveryStep == IInv /\ [Next]_vars => DeliveryInv'
<1> SUFFICES ASSUME IInv, [Next]_vars PROVE DeliveryInv'
  OBVIOUS
<1>0. TypeOK /\ PlaceInv /\ BlockInv /\ DeliveryInv
  BY DEF IInv
<1>t. /\ blocks' = blocks /\ Blocks' = Blocks /\ Null' = Null /\ Accepted' = Accepted
      /\ Len(blocks) \in Nat
      /\ Blocks = 1 .. Len(blocks) /\ Null = Len(blocks) + 1
      /\ \A b \in Blocks : blocks[b].size \in Nat /\ blocks[b].packed \in BOOLEAN
      /\ state \in [Blocks -> {"begin", "working", "done"}]
      /\ result \in [Blocks -> {"pending", "success", "failure"}]
      /\ offset \in [Blocks -> Nat] /\ \A b \in Blocks : offset[b] <= blocks[b].size
      /\ cur \in 1 .. Null /\ pending \in cur .. Null
  BY <1>0, StepTyped
<1>q. ASSUME UNCHANGED <<state, result, delivered>>, Opened' => Opened /\ UNCHANGED <<cur, offset>>
      PROVE  DeliveryInv'
  BY <1>0, <1>q, <1>t, DeliveryStays
<1>1. CASE Load
  <2>1. Before(blocks, 1) = 0
    BY <1>t, BeforeProperties
  <2>2. delivered = <<>> /\ delivered' = <<>> /\ UNCHANGED <<state, result, offset>>
    BY <1>0, <1>1 DEF PlaceInv, Load
  <2>3. Opened' => cur' = 1 /\ 1 \in Blocks /\ offset[1] = 0
    <3>1. Opened' => Accepted
      BY <1>t DEF Opened
    <3>2. Accepted => Len(blocks) # 0
      BY <1>0, StreamsAssumption, EmptySeq DEF Accepted, TypeOK
    <3>3. Accepted => 1 \in Blocks /\ offset[1] = 0
      BY <1>0, <1>1, <1>t, <3>2 DEF BlockInv, Load
    <3> QED BY <1>1, <3>1, <3>3 DEF Load
  <2>4. Opened' => Len(delivered') = Before(blocks', cur') + (IF cur' = Null' THEN 0 ELSE offset'[cur'])
    BY <1>t, <2>1, <2>2, <2>3
  <2> QED BY <1>0, <1>t, <2>2, <2>4 DEF DeliveryInv, DeliveredInOrder
<1>2. CASE Dispatch
  <2>1. \A b \in Blocks : state[b] = "done" => state'[b] = "done" /\ result'[b] = result[b]
    BY <1>t, <1>2 DEF Dispatch
  <2>2. Opened' => Opened
    BY <1>2, <1>t DEF Opened, Dispatch
  <2> QED BY <1>0, <1>2, <1>t, <2>1, <2>2, DeliveryStays DEF Dispatch
<1>3. CASE PumpEnds
  BY <1>3, <1>q, <1>t DEF PumpEnds, Opened
<1>4. CASE TakeToken \/ TimeOut
  BY <1>4, <1>q, <1>t DEF TakeToken, TimeOut, Opened
<1>6. CASE TestHead
  <2>1. \A b \in Blocks : state[b] = "done" => state'[b] = "done"
    BY <1>t, <1>6 DEF TestHead
  <2>2. Opened' => Opened
    BY <1>6, <1>t DEF Opened, TestHead
  <2> QED BY <1>0, <1>6, <1>t, <2>1, <2>2, DeliveryStays DEF TestHead
<1>7. CASE HeadWasReady
  BY <1>7, <1>q, <1>t DEF HeadWasReady, Opened
<1>8. CASE ReturnTokens
  BY <1>8, <1>q, <1>t DEF ReturnTokens, Opened
<1>9. CASE EndRead
  BY <1>9, <1>q, <1>t DEF EndRead, Opened
<1>10. CASE Copy
  BY <1>10, CopyDelivers
<1>11. CASE Advance
  <2>1. cur \in Blocks /\ cur # Null /\ Opened
    BY <1>0, <1>11, <1>t DEF PlaceInv, Advance, Opened
  <2>2. Len(delivered) = Before(blocks, cur) + offset[cur] /\ offset[cur] = blocks[cur].size
    <3>1. offset[cur] \in Nat /\ blocks[cur].size \in Nat
      BY <1>t, <2>1
    <3>2. offset[cur] = blocks[cur].size
      BY <1>11, <3>1 DEF Advance, Remaining
    <3> QED BY <1>0, <2>1, <3>2 DEF DeliveryInv
  <2>3. Before(blocks, cur + 1) = Before(blocks, cur) + blocks[cur].size /\ Before(blocks, cur) \in Nat
        /\ Before(blocks, cur + 1) \in Nat
    <3>1. cur \in 1 .. Len(blocks) /\ cur \in 1 .. Len(blocks) + 1 /\ cur + 1 \in 1 .. Len(blocks) + 1
      BY <1>t, <2>1
    <3>2. \A b \in 1 .. Len(blocks) : blocks[b].size \in Nat
      BY <1>t
    <3> QED BY <1>t, <3>1, <3>2, BeforeProperties
  <2>4. cur + 1 # Null => offset[cur + 1] = 0
    BY <1>0, <1>t, <2>1 DEF BlockInv
  <2>5. Len(delivered') = Before(blocks', cur') + (IF cur' = Null' THEN 0 ELSE offset'[cur'])
    BY <1>11, <1>t, <2>2, <2>3, <2>4 DEF Advance
  <2> QED BY <1>0, <1>11, <1>t, <2>5 DEF DeliveryInv, DeliveredInOrder, Advance
<1>12. CASE \E n \in 0 .. MaxRead : BeginRead(n) \/ ReadRaw(n)
  <2>1. PICK n \in 0 .. MaxRead : BeginRead(n) \/ ReadRaw(n)
    BY <1>12
  <2>2. UNCHANGED <<state, result, delivered, cur, offset>>
    BY <2>1 DEF BeginRead, ReadRaw
  <2>3. Opened' => Opened
    BY <1>0, <2>1, <1>t DEF BeginRead, ReadRaw, Opened, PlaceInv
  <2> QED BY <1>q, <2>2, <2>3
<1>13. CASE Close
  BY <1>13, <1>q DEF Close, Opened
<1>14. ASSUME NEW b \in 1 .. MaxBlocks, WorkerStep(b) PROVE DeliveryInv'
  <2>1. CASE WriteResult(b)
    <3>1. b \in Blocks /\ result[b] = "pending"
      BY <1>0, <2>1, PoolBlocks DEF WriteResult
    <3>2. \A c \in Blocks : c # b => result'[c] = result[c]
      BY <1>t, <2>1, <3>1 DEF WriteResult
    <3>3. ~ (blocks[b].packed /\ state[b] = "done")
      BY <1>0, <3>1 DEF BlockInv
    <3>4. \A c \in Blocks : state[c] = "done" =>
            state'[c] = "done" /\ (blocks[c].packed => result'[c] = result[c])
      BY <2>1, <3>2, <3>3 DEF WriteResult
    <3>5. UNCHANGED <<blocks, delivered, cur, offset, pc>>
      BY <2>1 DEF WriteResult, readerVars
    <3> QED BY <1>0, <1>t, <3>4, <3>5, DeliveryStays DEF Opened
  <2>2. CASE ~ WriteResult(b)
    <3>1. UNCHANGED <<state, result, delivered, cur, offset>> /\ pc' \in {pc, "undefined"}
      BY <1>14, <2>2 DEF WorkerStep, StartJob, PostDone, TouchFreed, readerVars
    <3> QED BY <1>q, <1>t, <3>1 DEF Opened
  <2> QED BY <2>1, <2>2
<1>15. CASE UNCHANGED vars
  BY <1>15, <1>q, <1>t DEF vars, readerVars, Opened
<1> QED BY <1>1, <1>2, <1>3, <1>4, <1>6, <1>7, <1>8, <1>9, <1>10, <1>11, <1>12, <1>13,
           <1>14, <1>15 DEF Next, ReaderStep

-----------------------------------------------------------------------------
(* The tokens of the semaphore.                                            *)

LEMMA CountsTyped ==
  ASSUME TypeOK
  PROVE  /\ IsFiniteSet(Finalised) /\ Cardinality(Finalised) \in Nat
         /\ IsFiniteSet(Posted) /\ Cardinality(Posted) \in Nat
<1>1. IsFiniteSet(Blocks)
  BY StreamTyped, Interval DEF TypeOK
<1>2. Finalised \subseteq Blocks /\ Posted \subseteq Blocks
  BY DEF Finalised, Posted
<1> QED BY <1>1, <1>2, FS_Subset, FS_CardinalityType

LEMMA WakeStep == IInv /\ [Next]_vars => WakeInv'
<1> SUFFICES ASSUME IInv, [Next]_vars PROVE WakeInv'
  OBVIOUS
<1>0. TypeOK /\ PlaceInv /\ BlockInv /\ WakeInv
  BY DEF IInv
<1>t. /\ blocks' = blocks /\ Blocks' = Blocks /\ Null' = Null
      /\ Blocks = 1 .. Len(blocks) /\ Null = Len(blocks) + 1 /\ Len(blocks) \in Nat
      /\ state \in [Blocks -> {"begin", "working", "done"}]
      /\ cur \in 1 .. Null /\ pending \in cur .. Null
      /\ sem \in Nat /\ cycles \in Nat
  BY <1>0, StepTyped
<1>f. /\ IsFiniteSet(Finalised) /\ Cardinality(Finalised) \in Nat
      /\ IsFiniteSet(Posted) /\ Cardinality(Posted) \in Nat
  BY <1>0, CountsTyped
<1>p. finished' = finished => Posted' = Posted
  BY <1>t DEF Posted
<1>d. UNCHANGED state => Finalised' = Finalised
  BY <1>t DEF Finalised
<1>q. ASSUME UNCHANGED <<state, sem, finished, cycles>>,
             pc' \in {"waited", "waitFailed"} /\ cycles > 0 => pc \in {"waited", "waitFailed"}
      PROVE  WakeInv'
  <2>1. Posted' = Posted /\ Finalised' = Finalised
    BY <1>d, <1>p, <1>q
  <2> QED BY <1>0, <1>q, <1>t, <1>f, <2>1 DEF WakeInv
<1>1. CASE Load
  BY <1>1, <1>q DEF Load, poolVars
<1>2. CASE Dispatch
  <2>1. finished' = finished
    BY <1>2 DEF Dispatch, Pool!Submit, poolVars
  <2>2. Finalised' = Finalised
    BY <1>t, <1>2 DEF Dispatch, Finalised
  <2>3. UNCHANGED <<sem, cycles>> /\ pc' = pc
    BY <1>2 DEF Dispatch
  <2> QED BY <1>0, <1>t, <1>f, <1>p, <2>1, <2>2, <2>3 DEF WakeInv
<1>3. CASE PumpEnds
  BY <1>3, <1>q DEF PumpEnds, poolVars
<1>4. CASE TakeToken
  <2>1. /\ UNCHANGED <<state, finished>> /\ sem' = sem - 1 /\ cycles' = cycles + 1
        /\ pc' = "test" /\ pc = "head"
    BY <1>4 DEF TakeToken, poolVars
  <2> QED BY <1>0, <1>t, <1>f, <1>p, <1>d, <2>1 DEF WakeInv
<1>5. CASE TimeOut
  BY <1>5, <1>q DEF TimeOut, poolVars
<1>6. CASE TestHead
  <2>1. cur \in Blocks /\ blocks[cur].packed /\ state[cur] # "done" /\ pc = "test"
    BY <1>0, <1>t, <1>6 DEF PlaceInv, BlockInv, TestHead
  <2>2. CASE IsFinished(cur)
    <3>1. Finalised' = Finalised \union {cur} /\ cur \notin Finalised
      BY <1>t, <1>6, <2>1, <2>2 DEF TestHead, Finalised
    <3>2. Cardinality(Finalised') = Cardinality(Finalised) + 1
      BY <1>f, <3>1, FS_AddElement
    <3>3. UNCHANGED <<sem, cycles, finished>>
      BY <1>6 DEF TestHead, poolVars
    <3> QED BY <1>0, <1>t, <1>f, <1>p, <2>1, <3>2, <3>3 DEF WakeInv
  <2>3. CASE ~ IsFinished(cur)
    BY <1>6, <1>q, <2>3 DEF TestHead, poolVars
  <2> QED BY <2>2, <2>3
<1>7. CASE HeadWasReady
  <2>1. ~ (cycles > 0)
    BY <1>0, <1>t, <1>7 DEF HeadWasReady, HeadReady, PlaceInv
  <2> QED BY <1>7, <1>q, <2>1 DEF HeadWasReady, poolVars
<1>8. CASE ReturnTokens
  <2>1. /\ UNCHANGED <<state, finished>> /\ cycles' = 0 /\ pc \in {"waited", "waitFailed"}
        /\ sem' = sem + (IF cycles > 1 THEN cycles - 1 ELSE 0)
        /\ pc' \in {"copy", "failed"}
    BY <1>8 DEF ReturnTokens, poolVars
  <2>2. Posted' = Posted /\ Finalised' = Finalised
    BY <1>p, <1>d, <2>1
  <2>3. sem' + 0 + Cardinality(Finalised) >= Cardinality(Posted)
    BY <1>0, <1>t, <1>f, <2>1 DEF WakeInv
  <2> QED BY <2>1, <2>2, <2>3, <1>t, <1>f DEF WakeInv
<1>9. CASE EndRead \/ Copy
  BY <1>9, <1>q DEF EndRead, Copy, poolVars
<1>11. CASE Advance
  BY <1>11, <1>q DEF Advance, poolVars
<1>12. CASE \E n \in 0 .. MaxRead : BeginRead(n) \/ ReadRaw(n)
  BY <1>12, <1>q DEF BeginRead, ReadRaw, poolVars
<1>13. CASE Close
  BY <1>13, <1>q DEF Close, poolVars
<1>14. ASSUME NEW b \in 1 .. MaxBlocks, WorkerStep(b) PROVE WakeInv'
  <2>1. CASE PostDone(b)
    <3>1. /\ UNCHANGED <<state, cycles, pc>> /\ sem' = sem + 1
          /\ finished' = finished \union {PoolJob(b)}
      BY <2>1 DEF PostDone, Pool!Finish, readerVars
    <3>2. Posted' \subseteq Posted \union {b}
      BY <1>t, <3>1, JobsDistinct DEF Posted
    <3>3. IsFiniteSet(Posted \union {b}) /\ Cardinality(Posted \union {b}) <= Cardinality(Posted) + 1
      <4>1. /\ IsFiniteSet(Posted \union {b})
            /\ Cardinality(Posted \union {b})
                 = IF b \in Posted THEN Cardinality(Posted) ELSE Cardinality(Posted) + 1
        BY <1>f, FS_AddElement
      <4> QED BY <1>f, <4>1
    <3>4. IsFiniteSet(Posted') /\ Cardinality(Posted') <= Cardinality(Posted \union {b})
      BY <3>2, <3>3, FS_Subset
    <3>5. Cardinality(Posted') \in Nat /\ Cardinality(Posted \union {b}) \in Nat
      BY <3>3, <3>4, FS_CardinalityType
    <3>6. Cardinality(Posted') <= Cardinality(Posted) + 1
      BY <1>f, <3>3, <3>4, <3>5
    <3> QED BY <1>0, <1>t, <1>f, <1>d, <3>1, <3>5, <3>6 DEF WakeInv
  <2>2. CASE ~ PostDone(b)
    BY <1>14, <1>q, <2>2 DEF WorkerStep, StartJob, Pool!Start, WriteResult, TouchFreed, readerVars, poolVars
  <2> QED BY <2>1, <2>2
<1>15. CASE UNCHANGED vars
  BY <1>15, <1>q DEF vars, readerVars, poolVars
<1> QED BY <1>1, <1>2, <1>3, <1>4, <1>5, <1>6, <1>7, <1>8, <1>9, <1>11, <1>12, <1>13,
           <1>14, <1>15 DEF Next, ReaderStep

-----------------------------------------------------------------------------
(* The invariant, and what follows from it.                                *)

LEMMA InvInit == Init => IInv
<1> SUFFICES ASSUME Init PROVE IInv
  OBVIOUS
<1>1. TypeOK
  BY TypeInit
<1>2. /\ blocks \in Streams /\ Len(blocks) \in Nat
      /\ Blocks = 1 .. Len(blocks) /\ Null = Len(blocks) + 1
      /\ \A b \in Blocks : blocks[b].size \in Nat /\ blocks[b].packed \in BOOLEAN
  BY <1>1, StreamTyped DEF TypeOK
<1>3. PlaceInv /\ ~ Opened
  BY DEF Init, PlaceInv, Opened
<1>4. BlockInv
  BY <1>2, <1>3 DEF Init, BlockInv
<1>5. OutstandingIsExact
  <2>1. {b \in cur .. pending - 1 : blocks[b].packed} = {} /\ outstanding = 0
    BY <1>2 DEF Init
  <2>2. Cardinality(Bytes(blocks, {})) = 0
    BY FS_EmptySet DEF Bytes
  <2>3. 0 < Window + 0
    BY SizesAssumption
  <2> QED BY <2>1, <2>2, <2>3 DEF OutstandingIsExact
<1>6. DeliveryInv
  <2>1. delivered = <<>> /\ Len(delivered) = 0
    BY DEF Init
  <2>2. Cardinality(Bytes(blocks, Blocks)) \in Nat
    BY <1>2, BytesFinite
  <2>3. \A b \in Blocks : Before(blocks, b) \in Nat
    <3>1. \A b \in 1 .. Len(blocks) : blocks[b].size \in Nat
      BY <1>2
    <3> QED BY <1>2, <3>1, BeforeProperties
  <2>4. \A b \in Blocks : \A k \in 1 .. blocks[b].size : ~ (Before(blocks, b) + k <= Len(delivered))
    BY <1>2, <2>1, <2>3
  <2> QED BY <1>3, <2>1, <2>2, <2>4 DEF DeliveryInv, DeliveredInOrder
<1>7. WakeInv
  <2>1. Finalised = {} /\ Posted = {}
    BY DEF Init, Finalised, Posted, Pool!Init
  <2> QED BY <2>1, FS_EmptySet DEF Init, WakeInv
<1> QED BY <1>1, <1>3, <1>4, <1>5, <1>6, <1>7 DEF IInv

LEMMA InvStep == IInv /\ [Next]_vars => IInv'
BY TypeStep, PlaceStep, BlockStep, WindowStep, DeliveryStep, WakeStep DEF IInv

LEMMA Invariant == Spec => []IInv
<1>1. Init => IInv
  BY InvInit
<1>2. IInv /\ [Next]_vars => IInv'
  BY InvStep
<1> QED BY <1>1, <1>2, PTL DEF Spec

\* For every stream, window and number of threads the variables keep their
\* types: no block is read past its end, and the pump is never behind the reader.
THEOREM TypeCorrect == Spec => []TypeOK
<1>1. IInv => TypeOK
  BY DEF IInv
<1> QED BY <1>1, Invariant, PTL

\* OutstandingBuffers is the space of the blocks between CurJob and PendingInit,
\* and the window is overrun by less than one block.
THEOREM WindowIsKept == Spec => []OutstandingIsExact
<1>1. IInv => OutstandingIsExact
  BY DEF IInv
<1> QED BY <1>1, Invariant, PTL

\* The reader never waits for a job that nobody has been given.
THEOREM HeadDispatched == Spec => []HeadIsDispatched
<1>1. IInv => HeadIsDispatched
  <2> SUFFICES ASSUME IInv, pc \in {"head", "test"}, cur # Null
               PROVE  cur < pending /\ state[cur] # "begin"
    BY DEF HeadIsDispatched
  <2>1. TypeOK /\ PlaceInv /\ BlockInv /\ Null = Len(blocks) + 1 /\ Blocks = 1 .. Len(blocks)
        /\ Len(blocks) \in Nat
    BY StreamTyped DEF IInv, TypeOK
  <2>2. cur < pending /\ cur \in Blocks
    BY <2>1 DEF PlaceInv, TypeOK
  <2> QED BY <2>1, <2>2 DEF BlockInv, PlaceInv, Opened
<1> QED BY <1>1, Invariant, PTL

\* Each byte delivered is the next one of the resource, from a block that was
\* inflated successfully.
THEOREM OrderKept == Spec => []DeliveredInOrder
<1>1. IInv => DeliveredInOrder
  BY DEF IInv, DeliveryInv
<1> QED BY <1>1, Invariant, PTL

\* While the stream is open, a job is freed only after its worker has written.
THEOREM FreedLate == Spec => []FreedAfterWritten
<1>1. IInv => FreedAfterWritten
  BY DEF IInv, BlockInv, FreedAfterWritten, Freed, Opened
<1> QED BY <1>1, Invariant, PTL

\* Every block posted and not yet finalised has a token that will wake the
\* reader, whatever waits timed out and whatever tokens were handed back.
THEOREM WakeupsSuffice == Spec => []WakeupsCoverBlocks
<1>1. IInv => WakeupsCoverBlocks
  <2> SUFFICES ASSUME IInv PROVE WakeupsCoverBlocks
    OBVIOUS
  <2>1. sem \in Nat /\ cycles \in Nat /\ TypeOK /\ WakeInv
    BY DEF IInv, TypeOK
  <2>2. /\ IsFiniteSet(Finalised) /\ Cardinality(Finalised) \in Nat
        /\ IsFiniteSet(Posted) /\ Cardinality(Posted) \in Nat
    BY <2>1, CountsTyped
  <2>3. Cardinality(Finalised \ Posted) = Cardinality(Finalised) - Cardinality(Finalised \intersect Posted)
    BY <2>2, FS_Difference
  <2>4. Cardinality(Posted \ Finalised) = Cardinality(Posted) - Cardinality(Posted \intersect Finalised)
    BY <2>2, FS_Difference
  <2>5. /\ Finalised \intersect Posted = Posted \intersect Finalised
        /\ Cardinality(Finalised \intersect Posted) \in Nat
    BY <2>2, FS_Intersection, FS_CardinalityType
  <2>6. sem + cycles + Cardinality(Finalised) >= Cardinality(Posted)
    BY <2>1, <2>2 DEF WakeInv
  <2> DEFINE f == Cardinality(Finalised)
             p == Cardinality(Posted)
             both == Cardinality(Finalised \intersect Posted)
             fp == Cardinality(Finalised \ Posted)
             pf == Cardinality(Posted \ Finalised)
  <2>7. /\ f \in Nat /\ p \in Nat /\ both \in Nat
        /\ fp = f - both /\ pf = p - both /\ sem + cycles + f >= p
    BY <2>2, <2>3, <2>4, <2>5, <2>6, Zenon
  <2> HIDE DEF f, p, both, fp, pf
  <2>8. sem + cycles + fp >= pf
    BY <2>1, <2>7
  <2> QED BY <2>8 DEF WakeupsCoverBlocks, fp, pf
<1> QED BY <1>1, Invariant, PTL

=============================================================================
