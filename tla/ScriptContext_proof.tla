------------------------ MODULE ScriptContext_proof ------------------------
(***************************************************************************)
(* Proofs about ScriptContext, for any functions, values and size of the   *)
(* working area: the frames of the calls under way nest in it, and the     *)
(* interpreter implements ScriptCalls - each step of it is a step of       *)
(* ScriptCalls, or leaves its variables as they are.                       *)
(***************************************************************************)
EXTENDS ScriptContext, SequenceTheorems, TLAPS

Records == [fn : Functions, pc : Nat, base : Nat, rv : Int]

\* Of a running script.
Typing ==
  /\ records \in Seq(Records)
  /\ pc \in 0 .. Length[fn] - 1

\* Whichever two frames one takes, the later begins behind the earlier.
Apart ==
  \A k, l \in 1 .. Len(records) :
    k < l => records[k].base + Size[records[k].fn] <= records[l].base

NestInv == status = "running" => Typing /\ Apart /\ FramesNest

-----------------------------------------------------------------------------
(* Lemmas.                                                                 *)

LEMMA Constants ==
  \A f \in Functions : Size[f] \in Nat /\ NumArgs[f] \in Nat /\ Length[f] \in Nat
                       /\ NumArgs[f] <= Size[f] /\ Length[f] > 0
  BY ScriptAssumption

\* The record of the function that runs.
LEMMA Innermost ==
  ASSUME status = "running", NestInv
  PROVE  /\ Len(records) \in Nat \ {0} /\ Last(records) = records[Len(records)]
         /\ \A k \in 1 .. Len(records) :
              /\ records[k] \in Records /\ records[k].fn \in Functions /\ records[k].pc \in Nat
              /\ records[k].base \in Nat /\ records[k].rv \in Int
         /\ Last(records) \in Records /\ fn \in Functions /\ fn = Last(records).fn
         /\ storage = Last(records).base /\ storage \in Nat /\ pc \in Nat
<1>1. records \in Seq(Records) /\ records # << >> /\ pc \in 0 .. Length[fn] - 1
      /\ fn = Last(records).fn /\ storage = Last(records).base
  BY DEF NestInv, FramesNest, Typing
<1>2. Len(records) \in Nat \ {0}  BY <1>1
<1>3. \A k \in 1 .. Len(records) : records[k] \in Records  BY <1>1
<1>4. \A r \in Records : r.fn \in Functions /\ r.pc \in Nat /\ r.base \in Nat /\ r.rv \in Int
  BY DEF Records
<1>5. Last(records) = records[Len(records)] /\ Last(records) \in Records
  BY <1>2, <1>3 DEF Last
<1>6. pc \in Nat  BY <1>1, <1>4, <1>5, Constants
<1> QED  BY <1>1, <1>2, <1>3, <1>4, <1>5, <1>6

\* The call under way keeps its place, whatever the instruction did, as long as the records
\* stay and the program counter is within the function.
LEMMA SameFrames ==
  ASSUME status = "running", NestInv,
         UNCHANGED <<records, fn, storage, newArgs>>, pc' \in 0 .. Length[fn] - 1
  PROVE  NestInv'
  BY DEF NestInv, Typing, Apart, FramesNest, Last

LEMMA SavedRecords ==
  ASSUME status = "running", NestInv
  PROVE  /\ Saved \in Seq(Records) /\ Len(Saved) = Len(records)
         /\ \A k \in 1 .. Len(records) :
              /\ Saved[k].fn = records[k].fn /\ Saved[k].base = records[k].base
              /\ Saved[k].rv = records[k].rv
              /\ Saved[k].pc = IF k = Len(records) THEN pc + 1 ELSE records[k].pc
<1>1. records \in Seq(Records)  BY DEF NestInv, Typing
<1>2. DEFINE n == Len(records)
             r == [records[n] EXCEPT !.pc = pc + 1]
<1>3. n \in Nat \ {0} /\ n \in 1 .. n  BY Innermost
<1>4. r \in Records /\ r.fn = records[n].fn /\ r.base = records[n].base
      /\ r.rv = records[n].rv /\ r.pc = pc + 1
  BY <1>3, Innermost DEF Records
<1>5. Saved = [records EXCEPT ![n] = r]  BY DEF Saved
<1> HIDE DEF n, r
<1>6. Saved \in Seq(Records) /\ Len(Saved) = Len(records)  BY <1>1, <1>3, <1>4, <1>5, ExceptSeq DEF n
<1>7. \A k \in 1 .. Len(records) : Saved[k] = IF k = n THEN r ELSE records[k]
  BY <1>1, <1>3, <1>4, <1>5, ExceptSeq DEF n
<1> QED  BY <1>4, <1>6, <1>7 DEF n

-----------------------------------------------------------------------------
(* The invariant.                                                          *)

LEMMA NestInit == Init => NestInv
  BY DEF Init, NestInv

LEMMA EnterStep ==
  ASSUME NEW f \in Functions, Enter(f)
  PROVE  NestInv'
<1>1. records' = <<Record(f, 0, NoAddress)>> /\ Size[f] <= STACK_SIZE  BY DEF Enter
<1>2. fn' = f /\ pc' = 0 /\ storage' = 0 /\ newArgs' = 0 + Size[f]
  BY <1>1 DEF Enter, GetState, Last, Record
<1>3. Record(f, 0, NoAddress) \in Records  BY DEF Record, Records, NoAddress
<1>4. Len(records') = 1 /\ records'[1] = Record(f, 0, NoAddress) /\ records' \in Seq(Records)
  BY <1>1, <1>3
<1>5. Typing'  BY <1>2, <1>4, Constants DEF Typing
<1>6. Apart'  BY <1>4 DEF Apart
<1>7. FramesNest'  BY <1>1, <1>2, <1>4, Constants DEF FramesNest, Last, Record
<1> QED  BY <1>5, <1>6, <1>7 DEF NestInv

\* A call saves the program counter and adds the record of the callee g.
LEMMA CalledRecords ==
  ASSUME status = "running", NestInv, NEW g \in Functions, NEW d \in Locals \union {0}, Call(g, d)
  PROVE  LET n == Len(records)
             rv == IF d = 0 THEN NoAddress ELSE storage + d - 1
         IN
         /\ records' \in Seq(Records) /\ Len(records') = n + 1
         /\ records'[n + 1] \in Records /\ records'[n + 1] = Record(g, storage + Size[fn], rv)
         /\ rv \in {NoAddress} \union (storage .. storage + Size[fn] - 1)
         /\ \A k \in 1 .. n :
              /\ records'[k].fn = records[k].fn /\ records'[k].base = records[k].base
              /\ records'[k].rv = records[k].rv
              /\ records'[k].pc = IF k = n THEN pc + 1 ELSE records[k].pc
         /\ fn' = g /\ pc' = 0 /\ storage' = storage + Size[fn]
         /\ newArgs' = storage + Size[fn] + Size[g] /\ newArgs' <= STACK_SIZE
         /\ pc + 1 < Length[fn]
<1> DEFINE n == Len(records)
           rv == IF d = 0 THEN NoAddress ELSE storage + d - 1
           r == Record(g, storage + Size[fn], rv)
<1>1. n \in Nat \ {0} /\ Saved \in Seq(Records) /\ Len(Saved) = n
  BY Innermost, SavedRecords
<1>2. Last(records) = records[n] /\ fn = records[n].fn /\ storage = records[n].base
      /\ fn \in Functions /\ storage \in Nat /\ pc \in Nat /\ Size[fn] \in Nat /\ Size[g] \in Nat
  BY Innermost, Constants
<1>3. Base(g) = storage + Size[fn] /\ Base(g) \in Nat  BY <1>2 DEF Base
<1>4. rv \in {NoAddress} \union (storage .. storage + Size[fn] - 1)
  BY <1>2, SMT DEF Locals
<1>5. r \in Records /\ r.fn = g /\ r.pc = 0 /\ r.base = storage + Size[fn]
  BY <1>2, <1>4 DEF Records, Record, NoAddress
<1>6. records' = Append(Saved, r) /\ pc + 1 < Length[fn] /\ Base(g) + Size[g] <= STACK_SIZE
  BY <1>2, <1>3 DEF Call, Fits
<1> HIDE DEF n, rv, r
<1>7. records' \in Seq(Records) /\ Len(records') = n + 1 /\ records'[n + 1] = r
      /\ \A k \in 1 .. n : records'[k] = Saved[k]
  BY <1>1, <1>5, <1>6
<1>8. \A k \in 1 .. n :
        /\ records'[k].fn = records[k].fn /\ records'[k].base = records[k].base
        /\ records'[k].rv = records[k].rv
        /\ records'[k].pc = IF k = n THEN pc + 1 ELSE records[k].pc
  BY <1>7, SavedRecords DEF n
<1>9. fn' = g /\ pc' = 0 /\ storage' = storage + Size[fn]
      /\ newArgs' = storage + Size[fn] + Size[g]
  BY <1>1, <1>5, <1>7 DEF Call, GetState, Last
<1> QED  BY <1>3, <1>4, <1>5, <1>6, <1>7, <1>8, <1>9 DEF n, rv, r

LEMMA CallStep ==
  ASSUME status = "running", NestInv, NEW g \in Functions, NEW d \in Locals \union {0}, Call(g, d)
  PROVE  NestInv'
<1> DEFINE n == Len(records)
           rv == IF d = 0 THEN NoAddress ELSE storage + d - 1
           r == Record(g, storage + Size[fn], rv)
<1>1. n \in Nat \ {0}  BY Innermost
<1>2. Last(records) = records[n] /\ fn = records[n].fn /\ storage = records[n].base
      /\ fn \in Functions /\ storage \in Nat /\ pc \in Nat /\ Size[fn] \in Nat /\ Size[g] \in Nat
      /\ Length[g] \in Nat /\ Length[fn] \in Nat /\ Length[g] > 0
  BY Innermost, Constants
<1>3. rv \in {NoAddress} \union (storage .. storage + Size[fn] - 1)
  BY CalledRecords
<1>4. r.fn = g /\ r.pc = 0 /\ r.base = storage + Size[fn] /\ r.rv = rv
  BY DEF Record
<1>5. pc + 1 < Length[fn] /\ newArgs' <= STACK_SIZE
  BY CalledRecords
<1>6. records' \in Seq(Records) /\ Len(records') = n + 1 /\ records'[n + 1] = r
  BY CalledRecords
<1>7. \A k \in 1 .. n :
        /\ records'[k].fn = records[k].fn /\ records'[k].base = records[k].base
        /\ records'[k].rv = records[k].rv
        /\ records'[k].pc = IF k = n THEN pc + 1 ELSE records[k].pc
  BY CalledRecords
<1>8. fn' = g /\ pc' = 0 /\ storage' = storage + Size[fn]
      /\ newArgs' = storage + Size[fn] + Size[g]
  BY CalledRecords
<1> HIDE DEF n, rv, r
<1>9. Typing'  BY <1>2, <1>6, <1>8 DEF Typing
<1>10. Apart'
  <2> SUFFICES ASSUME NEW k \in 1 .. n + 1, NEW l \in 1 .. n + 1, k < l
      PROVE records'[k].base + Size[records'[k].fn] <= records'[l].base
    BY <1>6 DEF Apart
  <2>1. k \in 1 .. n  BY <1>1
  <2>2. CASE l \in 1 .. n
    BY <1>7, <2>1, <2>2 DEF NestInv, Apart, n
  <2>3. CASE l = n + 1
    <3>1. records'[l].base = records[n].base + Size[records[n].fn]  BY <1>2, <1>4, <1>6, <2>3
    <3>2. k # n => records[k].base + Size[records[k].fn] <= records[n].base
      BY <1>1, <2>1 DEF NestInv, Apart, n
    <3>3. records[k].base + Size[records[k].fn] \in Nat /\ records[n].base \in Nat
          /\ Size[records[n].fn] \in Nat
      BY <1>1, <2>1, Innermost, Constants DEF n
    <3> QED  BY <1>7, <2>1, <3>1, <3>2, <3>3
  <2> QED  BY <2>2, <2>3, <1>1
<1>11. FramesNest'
  <2>1. records' # << >> /\ Last(records') = r  BY <1>1, <1>6 DEF Last
  <2>2. records'[1].base = 0 /\ records'[1].rv = NoAddress
    BY <1>1, <1>7 DEF NestInv, FramesNest
  <2>3. newArgs' = storage' + Size[fn'] /\ newArgs' <= STACK_SIZE /\ storage' = r.base /\ fn' = r.fn
    BY <1>4, <1>5, <1>8
  <2>4. ASSUME NEW k \in 2 .. n + 1
        PROVE  /\ records'[k].base = records'[k - 1].base + Size[records'[k - 1].fn]
               /\ records'[k].rv \in {NoAddress} \union (records'[k - 1].base .. records'[k].base - 1)
               /\ records'[k - 1].pc \in 0 .. Length[records'[k - 1].fn] - 1
    <3>1. k - 1 \in 1 .. n  BY <1>1
    <3>2. CASE k = n + 1
      <4>1. records'[k] = r /\ records'[n].base = storage /\ records'[n].fn = fn
            /\ records'[n].pc = pc + 1 /\ k - 1 = n /\ n \in 1 .. n
        BY <1>1, <1>2, <1>6, <1>7, <3>2
      <4>2. pc + 1 \in 0 .. Length[fn] - 1  BY <1>2, <1>5
      <4>3. records'[k].base = storage + Size[fn] /\ records'[k].rv = rv  BY <1>4, <4>1
      <4>4. records'[k - 1] = records'[n]  BY <4>1
      <4>5. records'[k - 1].base = storage /\ records'[k - 1].fn = fn /\ records'[k - 1].pc = pc + 1
        BY <4>1, <4>4
      <4> QED  BY <1>2, <1>3, <4>2, <4>3, <4>5
    <3>3. CASE k # n + 1
      <4>1. k \in 2 .. n /\ k \in 1 .. n /\ k - 1 # n  BY <1>1, <3>3
      <4>2. LET caller == records[k - 1] IN
            /\ records[k].base = caller.base + Size[caller.fn]
            /\ records[k].rv \in {NoAddress} \union (caller.base .. records[k].base - 1)
            /\ caller.pc \in 0 .. Length[caller.fn] - 1
        BY <4>1 DEF NestInv, FramesNest, n
      <4> QED  BY <1>7, <3>1, <4>1, <4>2
    <3> QED  BY <3>2, <3>3
  <2> QED  BY <1>6, <2>1, <2>2, <2>3, <2>4 DEF FramesNest
<1>12. status' = "running"  BY DEF Call
<1> QED  BY <1>9, <1>10, <1>11 DEF NestInv

LEMMA ReturnStep ==
  ASSUME status = "running", NestInv, NEW s \in Locals, Return(s)
  PROVE  NestInv'
<1> SUFFICES ASSUME status' = "running" PROVE NestInv'  BY DEF NestInv
<1> DEFINE n == Len(records)
<1>1. n \in Nat \ {0} /\ records \in Seq(Records)  BY Innermost DEF NestInv, Typing
<1>2. records' = SubSeq(records, 1, n - 1) /\ records' # << >>  BY DEF Return
<1>3. n - 1 \in Nat \ {0} /\ Len(records') = n - 1 /\ records' \in Seq(Records)
      /\ \A k \in 1 .. n - 1 : records'[k] = records[k]
  BY <1>1, <1>2
<1>4. n \in 1 .. n /\ n - 1 \in 1 .. n /\ n \in 2 .. n /\ Last(records') = records[n - 1]
  BY <1>3 DEF Last
<1>5. /\ records[n].base = records[n - 1].base + Size[records[n - 1].fn]
      /\ records[n - 1].pc \in 0 .. Length[records[n - 1].fn] - 1
      /\ records[n].base + Size[records[n].fn] <= STACK_SIZE
  BY <1>1, <1>4 DEF NestInv, FramesNest, Last
<1>6. fn' = records[n - 1].fn /\ pc' = records[n - 1].pc /\ storage' = records[n - 1].base
      /\ newArgs' = records[n - 1].base + Size[records[n - 1].fn]
  BY <1>2, <1>4 DEF Return, GetState
<1>7. Typing'  BY <1>3, <1>5, <1>6 DEF Typing
<1>8. Apart'
  <2> SUFFICES ASSUME NEW k \in 1 .. n - 1, NEW l \in 1 .. n - 1, k < l
      PROVE records'[k].base + Size[records'[k].fn] <= records'[l].base
    BY <1>3 DEF Apart
  <2>1. k \in 1 .. n /\ l \in 1 .. n  BY <1>1
  <2> QED  BY <1>3, <2>1 DEF NestInv, Apart
<1>9. FramesNest'
  <2>1. newArgs' <= STACK_SIZE
    BY <1>4, <1>5, <1>6, Innermost, Constants, ScriptAssumption
  <2>2. records'[1].base = 0 /\ records'[1].rv = NoAddress
    BY <1>3 DEF NestInv, FramesNest
  <2>3. \A k \in 2 .. n - 1 : k \in 2 .. n /\ k - 1 \in 1 .. n - 1 /\ k \in 1 .. n - 1  BY <1>1
  <2> QED  BY <1>2, <1>3, <1>4, <1>6, <2>1, <2>2, <2>3 DEF NestInv, FramesNest
<1> QED  BY <1>7, <1>8, <1>9 DEF NestInv

LEMMA NestStep == NestInv /\ [Next]_vars => NestInv'
<1> SUFFICES ASSUME NestInv, [Next]_vars PROVE NestInv'  OBVIOUS
<1>1. ASSUME NEW f \in Functions, Enter(f) PROVE NestInv'  BY <1>1, EnterStep
<1>2. ASSUME NEW f \in Functions, EnterFails(f) PROVE NestInv'
  BY <1>2 DEF EnterFails, NestInv
<1>3. ASSUME status = "running", Run PROVE NestInv'
  <2>0. fn \in Functions /\ Length[fn] \in Nat /\ pc \in 0 .. Length[fn] - 1
    BY <1>3, Innermost, Constants DEF NestInv, Typing
  <2>1. ASSUME NEW m \in 0 .. Length[fn] - 1, Branch(m) PROVE NestInv'
    BY <1>3, <2>1, SameFrames DEF Branch, GoTo
  <2>2. ASSUME NEW d \in Locals, NEW v \in Values, Assign(d, v) PROVE NestInv'
    BY <1>3, <2>2, SameFrames DEF Assign, GoTo
  <2>3. ASSUME NEW k \in Arguments, NEW s \in Locals, Arg(k, s) PROVE NestInv'
    BY <1>3, <2>3, SameFrames DEF Arg, GoTo
  <2>4. ASSUME NEW k \in Arguments, ArgBeyond(k) PROVE NestInv'
    <3>1. UNCHANGED <<records, fn, storage, newArgs>>  BY <2>4 DEF ArgBeyond
    <3>2. pc' \in 0 .. Length[fn] - 1  BY <2>0, <2>4 DEF ArgBeyond, GoTo
    <3> QED  BY <1>3, <3>1, <3>2, SameFrames
  <2>5. CASE Raise  BY <2>5 DEF Raise, HandleScriptException, NestInv
  <2>6. ASSUME NEW g \in Functions, NEW d \in Locals \union {0}, Call(g, d) PROVE NestInv'
    BY <1>3, <2>6, CallStep
  <2>7. ASSUME NEW g \in Functions, CallBeyond(g) PROVE NestInv'
    BY <2>7 DEF CallBeyond, NestInv
  <2>8. ASSUME NEW g \in Functions, StackOverflow(g) PROVE NestInv'
    BY <2>8 DEF StackOverflow, HandleScriptException, NestInv
  <2>9. ASSUME NEW s \in Locals, Return(s) PROVE NestInv'
    BY <1>3, <2>9, ReturnStep
  <2> QED  BY <1>3, <2>1, <2>2, <2>3, <2>4, <2>5, <2>6, <2>7, <2>8, <2>9 DEF Run
<1>4. CASE UNCHANGED vars
  BY <1>4 DEF vars, stateVars, NestInv, Typing, Apart, FramesNest, Last
<1> QED  BY <1>1, <1>2, <1>3, <1>4 DEF Next

LEMMA NestInvariant == Spec => []NestInv
  BY NestInit, NestStep, PTL DEF Spec

-----------------------------------------------------------------------------
(* Theorems.                                                               *)

\* Whatever functions a script has and however it calls them, the frames lie behind one
\* another inside the working area and the interpreter works on the last (GetState, the
\* cases IT_CALL and IT_RET of Run).
THEOREM Nesting == Spec => []FramesNest
<1>1. NestInv => FramesNest  BY DEF NestInv, FramesNest
<1> QED  BY <1>1, NestInvariant, PTL

-----------------------------------------------------------------------------
(* The refinement.                                                         *)

\* What is in the working area, and where the arguments given are.
DataInv ==
  /\ data \in [Addresses -> Values]
  /\ given \subseteq Arguments
  /\ status = "running" => \A k \in given : newArgs + k - 1 \in Addresses

RefInv == NestInv /\ DataInv

\* The frame of the k-th record of recs, by the working area d and the program counter p.
LocalsIn(recs, d, k) == [a \in 1 .. Size[recs[k].fn] |-> d[recs[k].base + a - 1]]
DestIn(recs, k) == IF recs[k].rv = NoAddress THEN 0 ELSE recs[k].rv - recs[k - 1].base + 1
PCIn(recs, p, k) == IF k = Len(recs) THEN p ELSE recs[k].pc
FrameIn(recs, d, p, k) ==
  [fn |-> recs[k].fn, pc |-> PCIn(recs, p, k), locals |-> LocalsIn(recs, d, k),
   dest |-> DestIn(recs, k)]

Given == [k \in given |-> data[newArgs + k - 1]]

-----------------------------------------------------------------------------
(* Sequences.                                                              *)

\* A sequence that begins with the first m elements of f and has one more.
LEMMA AppendToPrefix ==
  ASSUME NEW S, NEW f \in Seq(S), NEW m \in 0 .. Len(f), NEW e,
         NEW g \in Seq(S), Len(g) = m + 1, g[m + 1] = e, \A k \in 1 .. m : g[k] = f[k]
  PROVE  g = Append(SubSeq(f, 1, m), e)
<1> DEFINE p == SubSeq(f, 1, m)
           q == Append(p, e)
<1>1. m \in Nat /\ m + 1 \in 1 .. Len(g) /\ Len(f) \in Nat  OBVIOUS
<1>2. e \in S  BY <1>1
<1>3. p \in Seq(S) /\ Len(p) = m /\ \A k \in 1 .. m : p[k] = f[k]  BY <1>1
<1> HIDE DEF p
<1>4. q \in Seq(S) /\ Len(q) = m + 1 /\ q[m + 1] = e /\ \A k \in 1 .. m : q[k] = p[k]
  BY <1>1, <1>2, <1>3
<1> HIDE DEF q
<1>5. ASSUME NEW k \in 1 .. m + 1 PROVE g[k] = q[k]
  <2>1. k = m + 1 \/ k \in 1 .. m  BY <1>1
  <2> QED  BY <1>3, <1>4, <2>1
<1>6. g = q  BY <1>4, <1>5, SeqEqual
<1> QED  BY <1>6 DEF p, q

\* The first m elements of f.
LEMMA PrefixOf ==
  ASSUME NEW S, NEW f \in Seq(S), NEW m \in 0 .. Len(f)
  PROVE  /\ SubSeq(f, 1, m) \in Seq(S) /\ Len(SubSeq(f, 1, m)) = m
         /\ \A k \in 1 .. m : SubSeq(f, 1, m)[k] = f[k]
<1>1. m \in Nat /\ Len(f) \in Nat  OBVIOUS
<1> QED  BY <1>1

\* A function on 1 .. n is a sequence.
LEMMA FunctionIsSequence ==
  ASSUME NEW S, NEW n \in Nat, NEW f \in [1 .. n -> S]
  PROVE  f \in Seq(S) /\ Len(f) = n
  OBVIOUS

-----------------------------------------------------------------------------
(* The frames that ScriptCalls sees.                                       *)

LEMMA FramesAre ==
  /\ Frames = [k \in 1 .. Len(records) |-> FrameIn(records, data, pc, k)]
  /\ Frames' = [k \in 1 .. Len(records') |-> FrameIn(records', data', pc', k)]
  BY DEF Frames, FrameIn, LocalsIn, DestIn, PCIn

LEMMA SeenByCalls ==
  ASSUME status = "running", NestInv
  PROVE  /\ Len(Frames) = Len(records) /\ Calls!Depth = Len(records)
         /\ Calls!Top = FrameIn(records, data, pc, Len(records)) /\ Calls!Callers = SubSeq(Frames, 1, Len(records) - 1)
         /\ Calls!Running /\ Calls!Top.fn = fn
         /\ \A k \in 1 .. Len(records) : Frames[k] = FrameIn(records, data, pc, k)
<1>1. Len(records) \in Nat \ {0} /\ fn = records[Len(records)].fn  BY Innermost
<1>2. Len(Frames) = Len(records)  BY <1>1, FramesAre
<1>3. \A k \in 1 .. Len(records) : Frames[k] = FrameIn(records, data, pc, k)  BY FramesAre
<1>4. Calls!Depth = Len(records) /\ Calls!Running  BY <1>2 DEF Calls!Depth, Calls!Running
<1>5. Calls!Top = FrameIn(records, data, pc, Len(records))  BY <1>1, <1>3, <1>4 DEF Calls!Top
<1>6. Calls!Callers = SubSeq(Frames, 1, Len(records) - 1)  BY <1>4 DEF Calls!Callers
<1>7. FrameIn(records, data, pc, Len(records)).fn = fn  BY <1>1 DEF FrameIn
<1> QED  BY <1>2, <1>3, <1>4, <1>5, <1>6, <1>7
\* The variables of the function that runs lie behind those of its callers, and before the
\* arguments given.
LEMMA Places ==
  ASSUME status = "running", NestInv
  PROVE  /\ newArgs = storage + Size[fn] /\ newArgs \in Nat /\ newArgs <= STACK_SIZE
         /\ \A k \in 1 .. Len(records), a \in Nat :
              a \in 1 .. Size[records[k].fn] =>
                /\ records[k].base + a - 1 \in Addresses
                /\ records[k].base + a - 1 < newArgs
                /\ k < Len(records) => records[k].base + a - 1 < storage
<1> DEFINE n == Len(records)
<1>1. /\ n \in Nat \ {0} /\ n \in 1 .. n /\ storage = records[n].base /\ fn = records[n].fn
      /\ storage \in Nat /\ fn \in Functions /\ Size[fn] \in Nat
  BY Innermost, Constants
<1>2. newArgs = storage + Size[fn] /\ newArgs <= STACK_SIZE /\ STACK_SIZE \in Nat
  BY ScriptAssumption DEF NestInv, FramesNest
<1>3. ASSUME NEW k \in 1 .. n, NEW a \in 1 .. Size[records[k].fn]
      PROVE  /\ records[k].base + a - 1 \in Nat
             /\ records[k].base + a - 1 < newArgs
             /\ k < n => records[k].base + a - 1 < storage
  <2>1. records[k].base \in Nat /\ Size[records[k].fn] \in Nat  BY Innermost, Constants
  <2>2. k < n => records[k].base + Size[records[k].fn] <= storage
    BY <1>1 DEF NestInv, Apart
  <2>3. k = n \/ k < n  BY <1>1
  <2> QED  BY <1>1, <1>2, <2>1, <2>2, <2>3, SMTT(60)
<1>4. \A x \in Nat : x < newArgs => x \in Addresses  BY <1>1, <1>2 DEF Addresses
<1> QED  BY <1>1, <1>2, <1>3, <1>4

\* An instruction that keeps the records moves the program counter to m and leaves the
\* function's variables as they are then in the working area.
LEMMA StepSimulated ==
  ASSUME status = "running", status' = status, NestInv, UNCHANGED <<records, fn>>,
         NEW m \in 0 .. Length[fn] - 1, pc' = m,
         \A k \in 1 .. Len(records) - 1 : LocalsIn(records, data', k) = LocalsIn(records, data, k)
  PROVE  Calls!Step(m, LocalsIn(records, data', Len(records)))
<1> DEFINE n == Len(records)
           t == FrameIn(records, data, pc, n)
           loc == LocalsIn(records, data', n)
           x == Calls!Frame(fn, m, loc, DestIn(records, n))
           F == Frames
           G == Frames'
<1>1. n \in Nat /\ n # 0 /\ n - 1 \in 0 .. n /\ n \in 1 .. n /\ n - 1 + 1 = n
      /\ \A k \in 1 .. n - 1 : k \in 1 .. n /\ k # n
  BY Innermost
<1>2. F = [k \in 1 .. n |-> FrameIn(records, data, pc, k)]
      /\ G = [k \in 1 .. n |-> FrameIn(records, data', m, k)]
  BY FramesAre
<1>3. \A k \in 1 .. n - 1 : FrameIn(records, data', m, k) = FrameIn(records, data, pc, k)
  BY <1>1 DEF FrameIn, PCIn
<1>4. FrameIn(records, data', m, n) = x /\ t.dest = DestIn(records, n)
  BY Innermost DEF FrameIn, PCIn, Calls!Frame
<1>5. /\ Calls!Callers = SubSeq(F, 1, n - 1) /\ Calls!Top = t /\ Calls!Running
      /\ Calls!Top.fn = fn
  BY SeenByCalls
<1> HIDE DEF n, t, loc, x, F, G
<1> DEFINE S == {F[k] : k \in 1 .. n} \union {G[k] : k \in 1 .. n}
<1>6. F \in [1 .. n -> S] /\ G \in [1 .. n -> S]  BY <1>2
<1> HIDE DEF S
<1>7. F \in Seq(S) /\ Len(F) = n /\ G \in Seq(S) /\ Len(G) = n - 1 + 1
  BY <1>1, <1>6, FunctionIsSequence
<1>8. G[n] = x /\ \A k \in 1 .. n - 1 : G[k] = F[k]  BY <1>1, <1>2, <1>3, <1>4
<1>9. G = Append(SubSeq(F, 1, n - 1), x)
  BY <1>1, <1>7, <1>8, AppendToPrefix
<1>10. m < Length[fn]  BY Innermost, Constants
<1>11. Calls!Step(m, loc)  BY <1>4, <1>5, <1>9, <1>10 DEF Calls!Step, F, G, x
<1> QED  BY <1>11 DEF loc, n
\* Where a frame's value goes depends on its record and on where its caller's begins.
LEMMA DestStays ==
  ASSUME status = "running", NestInv, NEW recs, NEW k \in 1 .. Len(records),
         recs[k].rv = records[k].rv, k # 1 => recs[k - 1].base = records[k - 1].base
  PROVE  DestIn(recs, k) = DestIn(records, k)
<1>1. k = 1 => records[k].rv = NoAddress  BY DEF NestInv, FramesNest
<1> QED  BY <1>1 DEF DestIn

LEMMA NoneGiven == [k \in {} |-> data[newArgs + k - 1]] = << >>
  OBVIOUS

\* IT_CALL is a call: the new frame begins where the arguments given are.
LEMMA CallSimulated ==
  ASSUME status = "running", RefInv, NEW g \in Functions, NEW d \in Locals \union {0}, Call(g, d)
  PROVE  Calls!Call(g, d)
<1> DEFINE n == Len(records)
           t == FrameIn(records, data, pc, n)
           rv == IF d = 0 THEN NoAddress ELSE storage + d - 1
           loc == LocalsIn(records', data, n + 1)
           x == Calls!Frame(fn, pc + 1, LocalsIn(records, data, n), DestIn(records, n))
           y == Calls!Frame(g, 0, loc, d)
           F == Frames
           G == Frames'
<1>0. NestInv /\ DataInv  BY DEF RefInv
<1>1. /\ n \in Nat /\ n # 0 /\ n - 1 \in 0 .. n /\ n \in 1 .. n /\ n - 1 + 1 = n /\ n + 1 - 1 = n
      /\ \A k \in 1 .. n - 1 : k \in 1 .. n /\ k # n
      /\ \A k \in 1 .. n : (k # 1 => k - 1 \in 1 .. n) /\ k # n + 1
  BY <1>0, Innermost
<1>2. data' = data /\ status' = "running" /\ given' = {}  BY DEF Call
<1>3. Len(records') = n + 1 /\ records'[n + 1] = Record(g, storage + Size[fn], rv)
      /\ pc' = 0 /\ pc + 1 < Length[fn]
  BY <1>0, CalledRecords
<1>4. \A k \in 1 .. n :
        /\ records'[k].fn = records[k].fn /\ records'[k].base = records[k].base
        /\ records'[k].rv = records[k].rv
        /\ records'[k].pc = IF k = n THEN pc + 1 ELSE records[k].pc
  BY <1>0, CalledRecords
<1>5. F = [k \in 1 .. n |-> FrameIn(records, data, pc, k)]
      /\ G = [k \in 1 .. n + 1 |-> FrameIn(records', data, 0, k)]
  BY <1>2, <1>3, FramesAre
<1>6. ASSUME NEW k \in 1 .. n
      PROVE  /\ LocalsIn(records', data, k) = LocalsIn(records, data, k)
             /\ DestIn(records', k) = DestIn(records, k)
             /\ PCIn(records', 0, k) = IF k = n THEN pc + 1 ELSE records[k].pc
  <2>1. k # 1 => k - 1 \in 1 .. n  BY <1>1
  <2>2. DestIn(records', k) = DestIn(records, k)  BY <1>0, <1>4, <2>1, DestStays
  <2>3. k # n + 1  BY <1>1
  <2> QED  BY <1>3, <1>4, <2>2, <2>3 DEF LocalsIn, PCIn
<1>7. \A k \in 1 .. n - 1 : FrameIn(records', data, 0, k) = FrameIn(records, data, pc, k)
  BY <1>1, <1>4, <1>6 DEF FrameIn, PCIn
<1>8. FrameIn(records', data, 0, n) = x
  BY <1>0, <1>1, <1>4, <1>6, Innermost DEF FrameIn, Calls!Frame
<1>9. FrameIn(records', data, 0, n + 1) = y
  <2>1. records'[n + 1].fn = g /\ records'[n + 1].rv = rv  BY <1>3 DEF Record
  <2>2. PCIn(records', 0, n + 1) = 0  BY <1>3 DEF PCIn
  <2>3. DestIn(records', n + 1) = d
    <3>1. records'[n + 1 - 1].base = storage /\ storage \in Nat
      BY <1>0, <1>1, <1>4, Innermost
    <3>2. d = 0 \/ d \in 1 .. Size[fn]  BY DEF Locals
    <3>3. Size[fn] \in Nat  BY <1>0, Innermost, Constants
    <3> QED  BY <2>1, <3>1, <3>2, <3>3 DEF DestIn, NoAddress
  <2> QED  BY <2>1, <2>2, <2>3 DEF FrameIn, Calls!Frame
<1>10. /\ Calls!Callers = SubSeq(F, 1, n - 1) /\ Calls!Running /\ Calls!Top = t
       /\ t.fn = fn /\ t.pc = pc /\ t.locals = LocalsIn(records, data, n)
       /\ t.dest = DestIn(records, n)
  BY <1>0, SeenByCalls, Innermost DEF FrameIn, PCIn
<1>11. loc \in [1 .. Size[g] -> Values]
       /\ \A a \in 1 .. NumArgs[g] : a \in given => loc[a] = data[newArgs + a - 1]
  <2>1. loc = [a \in 1 .. Size[g] |-> data[newArgs + a - 1]]
    BY <1>0, <1>3, Places DEF LocalsIn, Record
  <2>2. ASSUME NEW a \in 1 .. Size[g] PROVE data[newArgs + a - 1] \in Values
    <3>1. newArgs + Size[g] <= STACK_SIZE /\ newArgs \in Nat /\ Size[g] \in Nat /\ STACK_SIZE \in Nat
      BY <1>0, CalledRecords, Places, Constants, ScriptAssumption
    <3>2. newArgs + a - 1 \in Addresses  BY <3>1 DEF Addresses
    <3> QED  BY <1>0, <3>2 DEF DataInv
  <2>3. \A a \in 1 .. NumArgs[g] : a \in 1 .. Size[g]  BY Constants
  <2> QED  BY <2>1, <2>2, <2>3
<1> HIDE DEF n, t, rv, loc, x, y, F, G
<1> DEFINE S == {F[k] : k \in 1 .. n} \union {G[k] : k \in 1 .. n + 1}
           H == SubSeq(G, 1, n)
<1>12. F \in [1 .. n -> S] /\ G \in [1 .. n + 1 -> S]  BY <1>5
<1> HIDE DEF S
<1>13. F \in Seq(S) /\ Len(F) = n /\ G \in Seq(S) /\ Len(G) = n + 1
  BY <1>1, <1>12, FunctionIsSequence
<1>14. n \in 0 .. n + 1 /\ n + 1 \in 1 .. n + 1 /\ \A k \in 1 .. n : k \in 1 .. n + 1  BY <1>1
<1>15. G[n] = x /\ G[n + 1] = y /\ \A k \in 1 .. n - 1 : G[k] = F[k]
  BY <1>1, <1>5, <1>7, <1>8, <1>9, <1>14
<1>16. H \in Seq(S) /\ Len(H) = n - 1 + 1 /\ \A k \in 1 .. n : H[k] = G[k]
  BY <1>1, <1>13
<1>17. G = Append(H, y)  BY <1>13, <1>14, <1>15, AppendToPrefix
<1> HIDE DEF H
<1>18. H = Append(SubSeq(F, 1, n - 1), x)  BY <1>1, <1>13, <1>15, <1>16, AppendToPrefix
<1>19. Frames' = Append(Append(Calls!Callers, x), y)  BY <1>10, <1>17, <1>18 DEF G
<1>20. [k \in given |-> data[newArgs + k - 1]]' = Calls!NoArgs
  BY <1>2 DEF Calls!NoArgs
<1>21. \A a \in 1 .. NumArgs[g] :
         a \in DOMAIN [k \in given |-> data[newArgs + k - 1]]
           => loc[a] = [k \in given |-> data[newArgs + k - 1]][a]
  BY <1>11
<1>22. x = Calls!Frame(Calls!Top.fn, Calls!Top.pc + 1, Calls!Top.locals, Calls!Top.dest)
  BY <1>10 DEF x
<1> QED
  BY <1>2, <1>3, <1>10, <1>11, <1>19, <1>20, <1>21, <1>22 DEF Calls!Call, Calls!Places, y
\* IT_RET is a return: the value goes into the caller's frame and nowhere else.
LEMMA ReturnSimulated ==
  ASSUME status = "running", RefInv, NEW s \in Locals, Return(s)
  PROVE  Calls!Return(s)
<1> DEFINE n == Len(records)
           val == data[Local(s)]
<1>0. NestInv /\ DataInv  BY DEF RefInv
<1>1. n \in Nat /\ n # 0 /\ n \in 1 .. n /\ records \in Seq(Records) /\ storage = records[n].base
      /\ fn = records[n].fn /\ Len(records) = n
  BY <1>0, Innermost DEF NestInv, Typing
<1>2. [k \in given |-> data[newArgs + k - 1]]' = Calls!NoArgs
  BY DEF Return, Calls!NoArgs
<1>3. Calls!Depth = n /\ Calls!Running /\ Calls!Top = FrameIn(records, data, pc, n)
      /\ Calls!Callers = SubSeq(Frames, 1, n - 1)
  BY <1>0, SeenByCalls
<1>4. Calls!Top.locals[s] = val /\ Calls!Top.dest = DestIn(records, n)
  BY <1>1, <1>3 DEF FrameIn, LocalsIn, Local, Locals
<1> HIDE DEF n
<1>5. CASE n = 1
  <2>1. records' = << >> /\ status' = "finished"
    BY <1>1, <1>5 DEF Return, n
  <2>2. Frames' = << >>  BY <2>1 DEF Frames
  <2> QED  BY <1>2, <1>3, <1>5, <2>1, <2>2 DEF Calls!Return
<1>6. CASE n # 1
  <2> DEFINE m == n - 1
             c == records[m]
             loc == LocalsIn(records, data', m)
             old == LocalsIn(records, data, m)
             x == Calls!Frame(c.fn, c.pc, loc, DestIn(records, m))
             F == Frames
             G == Frames'
  <2>1. /\ m \in Nat /\ m \in 1 .. n /\ m \in 1 .. m /\ m - 1 \in 0 .. n /\ m - 1 + 1 = m
        /\ n \in 2 .. n /\ m < n /\ n - 2 = m - 1 /\ m # n
        /\ \A k \in 1 .. m - 1 : k \in 1 .. n /\ k \in 1 .. m /\ k # n /\ k # m /\ k < m
        /\ \A k \in 1 .. m : k \in 1 .. n /\ k # n /\ (k # 1 => k - 1 \in 1 .. m)
    <3>1. n \in Nat /\ n # 0 /\ n # 1  BY <1>1, <1>6
    <3> QED  BY <3>1
  <2>2. records' = SubSeq(records, 1, m)  BY DEF Return, n
  <2>3. Len(records') = m /\ \A k \in 1 .. m : records'[k] = records[k]
    <3>1. m \in 0 .. Len(records)  BY <1>1, <2>1
    <3> HIDE DEF m
    <3> QED  BY <1>1, <2>2, <3>1, PrefixOf
  <2>4. records' # << >> /\ Last(records') = c  BY <2>1, <2>3 DEF Last
  <2>5. status' = status /\ pc' = c.pc  BY <2>4 DEF Return, GetState
  <2>6. /\ c.base \in Nat /\ Size[c.fn] \in Nat /\ records[n].base = c.base + Size[c.fn]
        /\ records[n].rv \in {NoAddress} \union (c.base .. c.base + Size[c.fn] - 1)
    <3>1. /\ records[n].base = records[n - 1].base + Size[records[n - 1].fn]
          /\ records[n].rv \in {NoAddress} \union (records[n - 1].base .. records[n].base - 1)
      BY <1>0, <2>1 DEF NestInv, FramesNest, n
    <3>2. c.base \in Nat /\ Size[c.fn] \in Nat
      BY <1>0, <2>1, Innermost, Constants DEF n
    <3> QED  BY <3>1, <3>2
  <2>7. data' = IF records[n].rv = NoAddress THEN data ELSE [data EXCEPT ![records[n].rv] = val]
    BY <1>0, Innermost DEF Return, n
  <2>8. /\ DestIn(records, n) = 0 => data' = data
        /\ DestIn(records, n) # 0 =>
             /\ DestIn(records, n) \in 1 .. Size[c.fn]
             /\ records[n].rv = c.base + DestIn(records, n) - 1
             /\ data' = [data EXCEPT ![records[n].rv] = val]
    <3>1. CASE records[n].rv = NoAddress  BY <2>7, <3>1 DEF DestIn
    <3>2. CASE records[n].rv # NoAddress
      <4>1. DestIn(records, n) = records[n].rv - c.base + 1  BY <3>2 DEF DestIn
      <4>2. records[n].rv \in c.base .. c.base + Size[c.fn] - 1  BY <2>6, <3>2
      <4>3. c.base + DestIn(records, n) - 1 = records[n].rv /\ DestIn(records, n) \in 1 .. Size[c.fn]
        BY <2>6, <4>1, <4>2
      <4> QED  BY <2>7, <3>2, <4>3
    <3> QED  BY <3>1, <3>2
  <2>9. \A k \in 1 .. m - 1 : LocalsIn(records, data', k) = LocalsIn(records, data, k)
    <3> SUFFICES ASSUME NEW k \in 1 .. m - 1, NEW a \in 1 .. Size[records[k].fn]
        PROVE  data'[records[k].base + a - 1] = data[records[k].base + a - 1]
      BY DEF LocalsIn
    <3>1. records[k].base + Size[records[k].fn] <= c.base
      BY <1>0, <2>1 DEF NestInv, Apart, n
    <3>2. records[k].base \in Nat /\ Size[records[k].fn] \in Nat
      BY <1>0, <2>1, Innermost, Constants DEF n
    <3>3. \A e \in 1 .. Size[c.fn] : records[k].base + a - 1 # c.base + e - 1
      BY <2>6, <3>1, <3>2
    <3>4. records[k].base + a - 1 \in Addresses
      <4>1. a \in Nat /\ k \in 1 .. Len(records)  BY <1>1, <2>1, <3>2
      <4> QED  BY <1>0, <4>1, Places
    <3> QED  BY <1>0, <2>8, <3>3, <3>4 DEF DataInv
  <2>10. loc = IF DestIn(records, n) = 0 THEN old ELSE [old EXCEPT ![DestIn(records, n)] = val]
    <3>1. CASE DestIn(records, n) = 0  BY <2>8, <3>1
    <3>2. CASE DestIn(records, n) # 0
      <4> DEFINE e == DestIn(records, n)
      <4>1. e \in 1 .. Size[c.fn] /\ records[n].rv = c.base + e - 1
            /\ data' = [data EXCEPT ![records[n].rv] = val]
        BY <2>8, <3>2
      <4> HIDE DEF e
      <4>2. ASSUME NEW a \in 1 .. Size[c.fn]
            PROVE  data'[c.base + a - 1] = IF a = e THEN val ELSE data[c.base + a - 1]
        <5>0. a \in Nat /\ m \in 1 .. Len(records)  BY <1>1, <2>1, <2>6
        <5>1. c.base + a - 1 \in Addresses  BY <1>0, <5>0, Places
        <5>2. c.base + a - 1 = c.base + e - 1 <=> a = e  BY <2>6, <4>1
        <5> QED  BY <1>0, <4>1, <5>1, <5>2 DEF DataInv
      <4>3. loc = [a \in 1 .. Size[c.fn] |-> IF a = e THEN val ELSE data[c.base + a - 1]]
        BY <4>2 DEF LocalsIn
      <4>4. [old EXCEPT ![e] = val]
              = [a \in 1 .. Size[c.fn] |-> IF a = e THEN val ELSE data[c.base + a - 1]]
        BY DEF LocalsIn
      <4> QED  BY <3>2, <4>3, <4>4 DEF e
    <3> QED  BY <3>1, <3>2
  <2>11. F = [k \in 1 .. n |-> FrameIn(records, data, pc, k)]
         /\ G = [k \in 1 .. m |-> FrameIn(records', data', c.pc, k)]
    BY <2>3, <2>5, FramesAre DEF n
  <2>12. ASSUME NEW k \in 1 .. m
         PROVE  FrameIn(records', data', c.pc, k)
                  = [fn |-> records[k].fn, pc |-> records[k].pc,
                     locals |-> LocalsIn(records, data', k), dest |-> DestIn(records, k)]
    <3>1. PCIn(records', c.pc, k) = records[k].pc  BY <2>3 DEF PCIn
    <3>2. LocalsIn(records', data', k) = LocalsIn(records, data', k)  BY <2>3 DEF LocalsIn
    <3>3. DestIn(records', k) = DestIn(records, k)
      BY <1>0, <2>1, <2>3, DestStays DEF n
    <3> QED  BY <2>3, <3>1, <3>2, <3>3 DEF FrameIn
  <2>13. ASSUME NEW k \in 1 .. m
         PROVE  FrameIn(records, data, pc, k)
                  = [fn |-> records[k].fn, pc |-> records[k].pc,
                     locals |-> LocalsIn(records, data, k), dest |-> DestIn(records, k)]
    BY <2>1 DEF FrameIn, PCIn, n
  <2>14. Calls!Resumed(val) = x
    <3>1. Calls!Callers[n - 1] = F[m] /\ F[m] = FrameIn(records, data, pc, m)
      <4>1. F = [k \in 1 .. n |-> F[k]]  BY <2>11
      <4> HIDE DEF F
      <4>2. SubSeq(F, 1, m)[m] = F[m]  BY <2>1, <4>1
      <4> QED  BY <1>3, <2>1, <2>11, <4>2 DEF F
    <3>2. FrameIn(records, data, pc, m) = Calls!Frame(c.fn, c.pc, old, DestIn(records, m))
      BY <2>1, <2>13 DEF Calls!Frame
    <3>3. Calls!Callers[Calls!Depth - 1] = Calls!Frame(c.fn, c.pc, old, DestIn(records, m))
      BY <1>3, <3>1, <3>2
    <3>4. \A f, p, l, d : LET fr == Calls!Frame(f, p, l, d)
                          IN fr.fn = f /\ fr.pc = p /\ fr.locals = l /\ fr.dest = d
      BY DEF Calls!Frame
    <3> HIDE DEF loc, old, c
    <3> QED  BY <1>4, <2>10, <3>3, <3>4 DEF Calls!Resumed
  <2> HIDE DEF n, F, G, loc, old
  <2> DEFINE S == {F[k] : k \in 1 .. n} \union {G[k] : k \in 1 .. m}
  <2>15. F \in [1 .. n -> S] /\ G \in [1 .. m -> S]  BY <2>11
  <2> HIDE DEF S
  <2>16. F \in Seq(S) /\ Len(F) = n /\ G \in Seq(S) /\ Len(G) = m - 1 + 1
    BY <1>1, <2>1, <2>15, FunctionIsSequence
  <2>17. G[m] = x  BY <2>1, <2>11, <2>12 DEF Calls!Frame, loc
  <2>18. ASSUME NEW k \in 1 .. m - 1 PROVE G[k] = F[k]
    <3>1. k \in 1 .. m /\ k \in 1 .. n  BY <2>1
    <3>2. LocalsIn(records, data', k) = LocalsIn(records, data, k)  BY <2>9
    <3> QED  BY <2>11, <2>12, <2>13, <3>1, <3>2
  <2> HIDE DEF x, m
  <2>19. G = Append(SubSeq(F, 1, m - 1), x)
    BY <2>1, <2>16, <2>17, <2>18, AppendToPrefix
  <2>20. Frames' = Append(SubSeq(Frames, 1, n - 2), Calls!Resumed(Calls!Top.locals[s]))
    BY <1>4, <2>1, <2>14, <2>19 DEF F, G
  <2> QED  BY <1>2, <1>3, <1>6, <2>5, <2>20 DEF Calls!Return
<1> QED  BY <1>5, <1>6
\* PrepareFunction and the first lines of Run enter a function with zeroed variables.
LEMMA EnterSimulated ==
  ASSUME DataInv, NEW f \in Functions, Enter(f)
  PROVE  Calls!Enter(f) /\ DataInv'
<1> DEFINE loc == LocalsIn(records', data', 1)
           x == Calls!Frame(f, 0, loc, 0)
<1>1. /\ status \notin {"running", "undefined"} /\ status' = "running" /\ given' = {}
      /\ Size[f] <= STACK_SIZE /\ Size[f] \in Nat /\ NumArgs[f] \in Nat /\ STACK_SIZE \in Nat
      /\ NumArgs[f] <= Size[f]
  BY Constants, ScriptAssumption DEF Enter
<1>2. records' = <<Record(f, 0, NoAddress)>> /\ pc' = 0
  BY DEF Enter, GetState, Last, Record
<1>3. Len(records') = 1 /\ records'[1] = Record(f, 0, NoAddress)  BY <1>2
<1>4. PICK args \in [1 .. NumArgs[f] -> Values] :
        data' = [a \in Addresses |-> IF a < NumArgs[f] THEN args[a + 1]
                                     ELSE IF a < Size[f] THEN Zero ELSE data[a]]
  BY DEF Enter
<1>5. data' \in [Addresses -> Values]
  <2> SUFFICES ASSUME NEW a \in Addresses
      PROVE  (IF a < NumArgs[f] THEN args[a + 1] ELSE IF a < Size[f] THEN Zero ELSE data[a]) \in Values
    BY <1>4
  <2>1. a < NumArgs[f] => a + 1 \in 1 .. NumArgs[f]  BY <1>1 DEF Addresses
  <2> QED  BY <1>4, <2>1, ScriptAssumption DEF DataInv
<1>6. loc = [a \in 1 .. Size[f] |-> data'[a - 1]]
  BY <1>3 DEF LocalsIn, Record
<1>7. \A a \in 1 .. Size[f] : a - 1 \in Addresses  BY <1>1 DEF Addresses
<1>8. loc \in [1 .. Size[f] -> Values]  BY <1>5, <1>6, <1>7
<1>9. ASSUME NEW a \in 1 .. Size[f], a > NumArgs[f] PROVE loc[a] = Zero
  <2>1. ~ (a - 1 < NumArgs[f]) /\ a - 1 < Size[f]  BY <1>1, <1>9
  <2> QED  BY <1>4, <1>6, <1>7, <2>1
<1>10. FrameIn(records', data', pc', 1) = x
  BY <1>2, <1>3 DEF FrameIn, PCIn, DestIn, Record, Calls!Frame
<1>11. Frames' = <<x>>
  <2>1. Frames' = [k \in 1 .. 1 |-> FrameIn(records', data', pc', k)]  BY <1>3, FramesAre
  <2>2. \A k \in 1 .. 1 : k = 1  OBVIOUS
  <2> HIDE DEF x
  <2>3. Frames' = [k \in 1 .. 1 |-> x]  BY <1>10, <2>1, <2>2
  <2> QED  BY <2>3
<1>12. [k \in given |-> data[newArgs + k - 1]]' = Calls!NoArgs  BY <1>1 DEF Calls!NoArgs
<1>13. DataInv'  BY <1>1, <1>5 DEF DataInv
<1> HIDE DEF loc
<1> QED  BY <1>1, <1>8, <1>9, <1>11, <1>12, <1>13 DEF Calls!Enter, Calls!Places

\* What is given stays as it is when nothing behind the frame is written.
LEMMA GivenStays ==
  ASSUME UNCHANGED <<given, newArgs>>, \A k \in given : data'[newArgs + k - 1] = data[newArgs + k - 1]
  PROVE  [k \in given |-> data[newArgs + k - 1]]' = [k \in given |-> data[newArgs + k - 1]]
  OBVIOUS

LEMMA BranchSimulated ==
  ASSUME status = "running", NestInv, NEW m \in 0 .. Length[fn] - 1, pc' = m,
         UNCHANGED <<status, records, data, fn, newArgs, given>>
  PROVE  Calls!Branch(m)
<1>1. Calls!Step(m, LocalsIn(records, data, Len(records)))
  <2>1. \A k \in 1 .. Len(records) - 1 : LocalsIn(records, data', k) = LocalsIn(records, data, k)
    OBVIOUS
  <2>2. LocalsIn(records, data', Len(records)) = LocalsIn(records, data, Len(records))  OBVIOUS
  <2> QED  BY <2>1, <2>2, StepSimulated
<1>2. Calls!Top.locals = LocalsIn(records, data, Len(records))
  BY SeenByCalls DEF FrameIn
<1>3. [k \in given |-> data[newArgs + k - 1]]' = [k \in given |-> data[newArgs + k - 1]]
  BY GivenStays
<1> QED  BY <1>1, <1>2, <1>3 DEF Calls!Branch

\* The addresses of the function's own variables, and of the arguments given.
LEMMA OwnAddresses ==
  ASSUME status = "running", NestInv
  PROVE  /\ storage \in Nat /\ Size[fn] \in Nat /\ newArgs = storage + Size[fn] /\ newArgs \in Nat
         /\ \A d \in Locals : Local(d) \in Addresses /\ Local(d) < newArgs /\ Local(d) >= storage
         /\ \A k \in Arguments : k \in Nat /\ k > 0
<1>1. storage \in Nat /\ Size[fn] \in Nat  BY Innermost, Constants
<1>2. newArgs = storage + Size[fn] /\ newArgs <= STACK_SIZE /\ newArgs \in Nat  BY Places
<1>3. \A d \in Locals : Local(d) \in Addresses /\ Local(d) < newArgs /\ Local(d) >= storage
  BY <1>1, <1>2, ScriptAssumption DEF Locals, Local, Addresses
<1>4. \A k \in Arguments : k \in Nat /\ k > 0
  BY Constants DEF Arguments
<1> QED  BY <1>1, <1>2, <1>3, <1>4

LEMMA AssignSimulated ==
  ASSUME status = "running", RefInv, NEW d \in Locals, NEW v \in Values, Assign(d, v)
  PROVE  Calls!Assign(d, v) /\ DataInv'
<1> DEFINE n == Len(records)
           old == LocalsIn(records, data, n)
<1>0. NestInv /\ DataInv  BY DEF RefInv
<1>1. /\ pc' = pc + 1 /\ pc + 1 \in 0 .. Length[fn] - 1 /\ data' = [data EXCEPT ![Local(d)] = v]
      /\ UNCHANGED <<status, records, fn, storage, newArgs, given>>
  BY DEF Assign, GoTo
<1>2. n \in Nat /\ n # 0 /\ n \in 1 .. n /\ records[n].base = storage /\ records[n].fn = fn
      /\ Len(records) = n
  BY <1>0, Innermost
<1>3. \A a \in Addresses : data'[a] = IF a = Local(d) THEN v ELSE data[a]
  BY <1>0, <1>1 DEF DataInv
<1> HIDE DEF n
<1>4. \A k \in 1 .. n - 1 : LocalsIn(records, data', k) = LocalsIn(records, data, k)
  <2> SUFFICES ASSUME NEW k \in 1 .. n - 1, NEW a \in 1 .. Size[records[k].fn]
      PROVE  data'[records[k].base + a - 1] = data[records[k].base + a - 1]
    BY DEF LocalsIn
  <2>1. k \in 1 .. Len(records) /\ k < Len(records)  BY <1>2
  <2>2. a \in Nat  BY <1>0, <2>1, Innermost, Constants
  <2>3. records[k].base + a - 1 \in Addresses /\ records[k].base + a - 1 < storage
    BY <1>0, <2>1, <2>2, Places
  <2>4. records[k].base + a - 1 # Local(d)  BY <1>0, <2>3, OwnAddresses DEF Local, Addresses
  <2> QED  BY <1>3, <2>3, <2>4
<1>5. LocalsIn(records, data', n) = [old EXCEPT ![d] = v]
  <2>1. ASSUME NEW a \in 1 .. Size[fn]
        PROVE  data'[storage + a - 1] = IF a = d THEN v ELSE data[storage + a - 1]
    <3>1. a \in Locals /\ Local(a) = storage + a - 1 /\ Local(a) \in Addresses
      BY <1>0, OwnAddresses DEF Locals, Local
    <3>2. Local(a) = Local(d) <=> a = d  BY <1>0, OwnAddresses DEF Locals, Local
    <3> QED  BY <1>3, <3>1, <3>2
  <2>2. LocalsIn(records, data', n)
          = [a \in 1 .. Size[fn] |-> IF a = d THEN v ELSE data[storage + a - 1]]
    BY <1>2, <2>1 DEF LocalsIn
  <2>3. [old EXCEPT ![d] = v] = [a \in 1 .. Size[fn] |-> IF a = d THEN v ELSE data[storage + a - 1]]
    BY <1>2 DEF LocalsIn
  <2> QED  BY <2>2, <2>3
<1>6. Calls!Step(pc + 1, [old EXCEPT ![d] = v])
  BY <1>0, <1>1, <1>2, <1>4, <1>5, StepSimulated
<1>7. Calls!Top.locals = old /\ Calls!Top.pc = pc
  BY <1>0, <1>2, SeenByCalls DEF FrameIn, PCIn
<1>8. ASSUME NEW k \in given PROVE data'[newArgs + k - 1] = data[newArgs + k - 1]
  <2>1. newArgs + k - 1 \in Addresses /\ k \in Arguments  BY <1>0 DEF DataInv
  <2>2. newArgs + k - 1 # Local(d)  BY <1>0, <2>1, OwnAddresses DEF Addresses
  <2> QED  BY <1>3, <2>1, <2>2
<1>9. [k \in given |-> data[newArgs + k - 1]]' = [k \in given |-> data[newArgs + k - 1]]
  BY <1>1, <1>8, GivenStays
<1>10. DataInv'  BY <1>0, <1>1 DEF DataInv
<1> HIDE DEF old
<1> QED  BY <1>6, <1>7, <1>9, <1>10 DEF Calls!Assign
\* IT_ARG inside the working area gives an argument.
LEMMA ArgSimulated ==
  ASSUME status = "running", RefInv, NEW k \in Arguments, NEW s \in Locals, Arg(k, s)
  PROVE  Calls!Give(k, s) /\ DataInv'
<1> DEFINE n == Len(records)
           own == LocalsIn(records, data, n)
           at == newArgs + k - 1
           before == [e \in given |-> data[newArgs + e - 1]]
<1>0. NestInv /\ DataInv  BY DEF RefInv
<1>1. /\ at \in Addresses /\ data' = [data EXCEPT ![at] = data[Local(s)]]
      /\ pc' = pc + 1 /\ pc + 1 \in 0 .. Length[fn] - 1 /\ given' = given \union {k}
      /\ UNCHANGED <<status, records, fn, storage, newArgs>>
  BY DEF Arg, GoTo
<1>2. n \in Nat /\ n # 0 /\ n \in 1 .. n /\ records[n].base = storage /\ records[n].fn = fn
      /\ Len(records) = n
  BY <1>0, Innermost
<1>3. \A a \in Addresses : data'[a] = IF a = at THEN data[Local(s)] ELSE data[a]
  BY <1>0, <1>1 DEF DataInv
<1>4. at >= newArgs /\ newArgs \in Nat /\ k \in Nat /\ k > 0  BY <1>0, OwnAddresses
<1> HIDE DEF n, at
<1>5. \A j \in 1 .. n : LocalsIn(records, data', j) = LocalsIn(records, data, j)
  <2> SUFFICES ASSUME NEW j \in 1 .. n, NEW a \in 1 .. Size[records[j].fn]
      PROVE  data'[records[j].base + a - 1] = data[records[j].base + a - 1]
    BY DEF LocalsIn
  <2>1. j \in 1 .. Len(records)  BY <1>2
  <2>2. a \in Nat  BY <1>0, <2>1, Innermost, Constants
  <2>3. records[j].base + a - 1 \in Addresses /\ records[j].base + a - 1 < newArgs
    BY <1>0, <2>1, <2>2, Places
  <2>4. records[j].base + a - 1 # at  BY <1>1, <1>4, <2>3 DEF Addresses
  <2> QED  BY <1>3, <2>3, <2>4
<1>6. Calls!Step(pc + 1, own)
  <2>1. \A j \in 1 .. n - 1 : j \in 1 .. n  BY <1>2
  <2>2. LocalsIn(records, data', n) = own  BY <1>2, <1>5
  <2>3. \A j \in 1 .. Len(records) - 1 : LocalsIn(records, data', j) = LocalsIn(records, data, j)
    BY <1>2, <1>5, <2>1
  <2> HIDE DEF own
  <2> QED  BY <1>0, <1>1, <1>2, <2>2, <2>3, StepSimulated
<1>7. Calls!Top.locals = own /\ Calls!Top.pc = pc /\ own[s] = data[Local(s)]
  BY <1>0, <1>2, SeenByCalls DEF FrameIn, PCIn, LocalsIn, Local, Locals
<1>8. ASSUME NEW e \in given \union {k}
      PROVE  data'[newArgs + e - 1] = IF e = k THEN own[s] ELSE before[e]
  <2>1. CASE e = k  BY <1>1, <1>3, <1>7, <2>1 DEF at
  <2>2. CASE e # k
    <3>1. e \in given /\ e \in Arguments /\ newArgs + e - 1 \in Addresses
      BY <1>0, <2>2 DEF DataInv
    <3>2. newArgs + e - 1 # at  BY <1>0, <1>4, <2>2, <3>1, OwnAddresses DEF at
    <3> QED  BY <1>3, <2>2, <3>1, <3>2
  <2> QED  BY <2>1, <2>2
<1>9. [e \in given |-> data[newArgs + e - 1]]'
        = [e \in DOMAIN before \union {k} |-> IF e = k THEN own[s] ELSE before[e]]
  BY <1>1, <1>8
<1>10. DataInv'
  <2>1. data[Local(s)] \in Values  BY <1>0, OwnAddresses DEF DataInv
  <2>2. data' \in [Addresses -> Values]  BY <1>0, <1>1, <2>1 DEF DataInv
  <2>3. \A e \in given' : newArgs' + e - 1 \in Addresses  BY <1>0, <1>1 DEF DataInv, at
  <2> QED  BY <1>0, <1>1, <2>2, <2>3 DEF DataInv
<1> HIDE DEF own
<1> QED  BY <1>6, <1>7, <1>9, <1>10 DEF Calls!Give

\* Nothing of what ScriptCalls sees has changed.
LEMMA SameSeen ==
  ASSUME UNCHANGED <<data, given, newArgs>>, Len(records') = Len(records), pc' = pc,
         \A k \in 1 .. Len(records) :
           /\ records'[k].fn = records[k].fn /\ records'[k].base = records[k].base
           /\ records'[k].rv = records[k].rv
           /\ k # Len(records) => records'[k].pc = records[k].pc,
         \A k \in 1 .. Len(records) : DestIn(records', k) = DestIn(records, k)
  PROVE  Frames' = Frames
         /\ [k \in given |-> data[newArgs + k - 1]]' = [k \in given |-> data[newArgs + k - 1]]
<1>1. \A k \in 1 .. Len(records) : FrameIn(records', data', pc', k) = FrameIn(records, data, pc, k)
  BY DEF FrameIn, LocalsIn, PCIn
<1> QED  BY <1>1, FramesAre

\* What ends a script, or overwrites memory, is a failure.
LEMMA FailSimulated ==
  ASSUME status = "running", RefInv, status' \in {"errored", "undefined"},
         UNCHANGED <<data, stateVars, given>>, records' \in {records, Saved}
  PROVE  Calls!Fail /\ DataInv'
<1>0. NestInv /\ DataInv  BY DEF RefInv
<1>1. Len(records') = Len(records)
      /\ \A k \in 1 .. Len(records) :
           /\ records'[k].fn = records[k].fn /\ records'[k].base = records[k].base
           /\ records'[k].rv = records[k].rv
           /\ k # Len(records) => records'[k].pc = records[k].pc
  BY <1>0, SavedRecords
<1>2. ASSUME NEW k \in 1 .. Len(records) PROVE DestIn(records', k) = DestIn(records, k)
  <2>1. k # 1 => k - 1 \in 1 .. Len(records)  BY <1>0, Innermost
  <2> QED  BY <1>0, <1>1, <2>1, DestStays
<1>3. Frames' = Frames
      /\ [k \in given |-> data[newArgs + k - 1]]' = [k \in given |-> data[newArgs + k - 1]]
  BY <1>1, <1>2, SameSeen DEF stateVars
<1>4. Calls!Running  BY <1>0, SeenByCalls
<1>5. DataInv'  BY <1>0 DEF DataInv, stateVars
<1> QED  BY <1>3, <1>4, <1>5 DEF Calls!Fail

-----------------------------------------------------------------------------
(* The theorem.                                                            *)

\* The state that ScriptCalls sees.
LEMMA SeenStays == UNCHANGED vars => UNCHANGED Calls!vars
  BY DEF vars, stateVars, Calls!vars, Frames

LEMMA RunSimulated ==
  ASSUME RefInv, status = "running", Run
  PROVE  Calls!Next /\ DataInv'
<1>0. NestInv /\ DataInv  BY DEF RefInv
<1>1. /\ Calls!Running /\ Calls!Top.fn = fn /\ fn \in Functions /\ Length[fn] \in Nat
      /\ pc \in 0 .. Length[fn] - 1 /\ Calls!Places(fn) = Locals
      /\ UNION {1 .. NumArgs[f] : f \in Functions} = Arguments
  BY <1>0, SeenByCalls, Innermost, Constants DEF NestInv, Typing, Calls!Places, Locals, Arguments
<1>2. ASSUME NEW m \in 0 .. Length[fn] - 1, pc' = m,
             UNCHANGED <<status, records, data, fn, storage, newArgs, given>>
      PROVE  Calls!Next /\ DataInv'
  <2>1. Calls!Branch(m)  BY <1>0, <1>2, BranchSimulated
  <2>2. DataInv'  BY <1>0, <1>2 DEF DataInv
  <2> QED  BY <1>1, <2>1, <2>2 DEF Calls!Next
<1>3. ASSUME NEW m \in 0 .. Length[fn] - 1, Branch(m) PROVE Calls!Next /\ DataInv'
  BY <1>2, <1>3 DEF Branch, GoTo
<1>4. ASSUME NEW d \in Locals, NEW v \in Values, Assign(d, v) PROVE Calls!Next /\ DataInv'
  BY <1>1, <1>4, AssignSimulated DEF Calls!Next
<1>5. ASSUME NEW k \in Arguments, NEW s \in Locals, Arg(k, s) PROVE Calls!Next /\ DataInv'
  BY <1>1, <1>5, ArgSimulated DEF Calls!Next
<1>6. ASSUME status' \in {"errored", "undefined"}, UNCHANGED <<data, stateVars, given>>,
             records' \in {records, Saved}
      PROVE  Calls!Next /\ DataInv'
  BY <1>1, <1>6, FailSimulated DEF Calls!Next
<1>7. ASSUME NEW k \in Arguments, ArgBeyond(k) PROVE Calls!Next /\ DataInv'
  <2>1. UNCHANGED <<records, data, fn, storage, newArgs, given>>  BY <1>7 DEF ArgBeyond
  <2>2. CASE GoTo(pc + 1) /\ status' = status  BY <1>2, <2>1, <2>2 DEF GoTo
  <2>3. CASE pc' = pc /\ status' = "undefined"  BY <1>6, <2>1, <2>3 DEF stateVars
  <2> QED  BY <1>7, <2>2, <2>3 DEF ArgBeyond
<1>8. CASE Raise  BY <1>6, <1>8 DEF Raise, HandleScriptException
<1>9. ASSUME NEW g \in Functions, NEW d \in Locals \union {0}, Call(g, d)
      PROVE  Calls!Next /\ DataInv'
  <2>1. Calls!Call(g, d)  BY <1>9, CallSimulated
  <2>2. DataInv'  BY <1>0, <1>9 DEF Call, DataInv
  <2> QED  BY <1>1, <2>1, <2>2 DEF Calls!Next
<1>10. ASSUME NEW g \in Functions, CallBeyond(g) \/ StackOverflow(g)
       PROVE  Calls!Next /\ DataInv'
  BY <1>6, <1>10 DEF CallBeyond, StackOverflow, HandleScriptException
<1>11. ASSUME NEW s \in Locals, Return(s) PROVE Calls!Next /\ DataInv'
  <2>1. Calls!Return(s)  BY <1>11, ReturnSimulated
  <2>2. data' \in [Addresses -> Values] /\ given' = {}
    <3>1. data[Local(s)] \in Values  BY <1>0, OwnAddresses DEF DataInv
    <3> QED  BY <1>0, <1>11, <3>1 DEF Return, DataInv
  <2>3. DataInv'  BY <2>2 DEF DataInv
  <2> QED  BY <1>1, <2>1, <2>3 DEF Calls!Next
<1> QED
  BY <1>3, <1>4, <1>5, <1>7, <1>8, <1>9, <1>10, <1>11 DEF Run

\* Whatever functions a script has, each call it makes has variables of its own, gets the
\* arguments it was given and sends its value to the caller's variable, though all lie in
\* one working area (Run's cases IT_ARG, IT_CALL and IT_RET, PushFunction and GetState).
THEOREM CallsImplemented == Spec => ImplementsCalls
<1>1. Init => RefInv /\ Calls!Init
  <2> SUFFICES ASSUME Init PROVE RefInv /\ Calls!Init  OBVIOUS
  <2>1. NestInv  BY NestInit
  <2>2. DataInv  BY ScriptAssumption DEF Init, DataInv
  <2>3. Frames = << >>  BY DEF Init, Frames
  <2>4. [k \in given |-> data[newArgs + k - 1]] = Calls!NoArgs  BY DEF Init, Calls!NoArgs
  <2>5. (IF status = "undefined" THEN "errored" ELSE status) = "idle"  BY DEF Init
  <2> QED  BY <2>1, <2>2, <2>3, <2>4, <2>5 DEF RefInv, Calls!Init
<1>2. RefInv /\ [Next]_vars => RefInv' /\ [Calls!Next]_(Calls!vars)
  <2> SUFFICES ASSUME RefInv, [Next]_vars
      PROVE  DataInv' /\ [Calls!Next]_(Calls!vars)
    BY NestStep DEF RefInv
  <2>0. DataInv  BY DEF RefInv
  <2>1. ASSUME NEW f \in Functions, Enter(f) PROVE DataInv' /\ Calls!Next
    BY <2>0, <2>1, EnterSimulated DEF Calls!Next
  <2>2. ASSUME NEW f \in Functions, EnterFails(f) PROVE DataInv' /\ UNCHANGED Calls!vars
    <3>1. UNCHANGED <<status, records, data, stateVars, given>>  BY <2>2 DEF EnterFails
    <3>2. DataInv'  BY <2>0, <3>1 DEF DataInv, stateVars
    <3> QED  BY <3>1, <3>2 DEF stateVars, Calls!vars, Frames
  <2>3. ASSUME status = "running", Run PROVE DataInv' /\ Calls!Next
    BY <2>3, RunSimulated
  <2>4. CASE UNCHANGED vars
    BY <2>0, <2>4, SeenStays DEF vars, stateVars, DataInv
  <2> QED  BY <2>1, <2>2, <2>3, <2>4 DEF Next
<1> QED  BY <1>1, <1>2, PTL DEF Spec, ImplementsCalls, Calls!Spec

=============================================================================
