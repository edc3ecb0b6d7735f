--------------------------- MODULE ScriptContext ---------------------------
(***************************************************************************)
(* The interpreter of the script virtual machine                           *)
(* (code/CWLib/src/vm/ScriptContext.cpp): the variables of all calls under *)
(* way lie in one working area, a frame behind the other.  Memory is       *)
(* counted in cells of one variable each.                                  *)
(*                                                                         *)
(* Scripts run on the main thread, one at a time, each in a context of its *)
(* own but in the same working area (the pool hands out the one it was     *)
(* given back).  Bytecode is whatever a compiler may have made: any        *)
(* instruction on the function's own variables, any branch inside it, with *)
(* a return or a branch at the end.  Operations yield any value.           *)
(***************************************************************************)
EXTENDS Integers, Sequences

CONSTANTS
  Functions, Size, NumArgs, Length, Values, Zero,
  STACK_SIZE, STACK_RESERVE_SIZE,
  MaxRuns          \* bound: functions entered from outside

ASSUME ScriptAssumption ==
  /\ Size \in [Functions -> Nat] /\ NumArgs \in [Functions -> Nat] /\ Length \in [Functions -> Nat]
  /\ \A f \in Functions : NumArgs[f] <= Size[f] /\ Length[f] > 0
  /\ {STACK_SIZE, STACK_RESERVE_SIZE, MaxRuns} \subseteq Nat /\ Zero \in Values

VARIABLES
  status,          \* State (SES_OK is "running"); "idle" before, "undefined" beyond
  records,         \* ActivationRecords
  data,            \* the working area
  fn, pc, storage, newArgs, \* ExecutionState
  given,           \* history: arguments stored behind the frame since the last call or return
  runs

stateVars == <<fn, pc, storage, newArgs>>
vars == <<status, records, data, stateVars, given, runs>>

Addresses == 0 .. STACK_SIZE - 1
NoAddress == -1
Arguments == UNION {1 .. NumArgs[f] : f \in Functions}

Record(f, base, rv) == [fn |-> f, pc |-> 0, base |-> base, rv |-> rv]
Last(recs) == recs[Len(recs)]

\* GetState, from the last record.
GetState(recs) ==
  /\ fn' = Last(recs).fn /\ pc' = Last(recs).pc
  /\ storage' = Last(recs).base /\ newArgs' = Last(recs).base + Size[Last(recs).fn]

\* What SavedStack has room for, by ResizePolicy, once it holds the entry's frame.
Larger(a, b) == IF a > b THEN a ELSE b
Capacity(f) ==
  IF Size[f] <= STACK_RESERVE_SIZE THEN STACK_RESERVE_SIZE ELSE Larger(2 * STACK_RESERVE_SIZE, Size[f])

\* The instruction at PC is one that goes on to n.
GoTo(n) == n \in 0 .. Length[fn] - 1 /\ pc' = n

Local(i) == storage + i - 1
Locals == 1 .. Size[fn]

Init ==
  /\ status = "idle" /\ records = << >> /\ data = [a \in Addresses |-> Zero]
  /\ fn \in Functions /\ pc = 0 /\ storage = 0 /\ newArgs = 0
  /\ given = {} /\ runs = 0

-----------------------------------------------------------------------------

\* HandleScriptException; Run then breaks before it moves on.
HandleScriptException ==
  status' = "errored" /\ UNCHANGED <<data, stateVars, given>>

\* TryInvokeSync: PrepareFunction, PushFunctionX and the first lines of Run.  The
\* arguments are not copied (the switch of PrepareFunction is empty).
Enter(f) ==
  /\ status \notin {"running", "undefined"} /\ runs < MaxRuns /\ runs' = runs + 1
  /\ Size[f] <= STACK_SIZE
  /\ status' = "running" /\ given' = {}
  /\ records' = <<Record(f, 0, NoAddress)>> /\ GetState(records')
  /\ \E args \in [1 .. NumArgs[f] -> Values] :
       data' = [a \in Addresses |-> IF a < NumArgs[f] THEN args[a + 1]
                                    ELSE IF a < Size[f] THEN Zero ELSE data[a]]

\* A function that does not fit is not entered: its context runs nothing.
EnterFails(f) ==
  /\ status \notin {"running", "undefined"} /\ runs < MaxRuns /\ runs' = runs + 1
  /\ Size[f] > STACK_SIZE
  /\ UNCHANGED <<status, records, data, stateVars, given>>

-----------------------------------------------------------------------------
(* Instructions.                                                           *)

\* IT_B, IT_BEZ, IT_BNEZ, and the instructions that store nothing here (IT_NOP, IT_WRITE,
\* IT_SET_OBJ_MEMBER).
Branch(n) ==
  /\ GoTo(n)
  /\ UNCHANGED <<status, records, data, fn, storage, newArgs, given, runs>>

\* IT_LC_*, IT_MOV_* and the operations; and a call of a native function.
Assign(d, v) ==
  /\ GoTo(pc + 1)
  /\ data' = [data EXCEPT ![Local(d)] = v]
  /\ UNCHANGED <<status, records, fn, storage, newArgs, given, runs>>

\* IT_ARG.  It does not look where the working area ends.
Arg(k, s) ==
  /\ newArgs + k - 1 \in Addresses
  /\ GoTo(pc + 1)
  /\ data' = [data EXCEPT ![newArgs + k - 1] = data[Local(s)]]
  /\ given' = given \union {k}
  /\ UNCHANGED <<status, records, fn, storage, newArgs, runs>>

ArgBeyond(k) ==
  /\ newArgs + k - 1 \notin Addresses
  /\ \/ GoTo(pc + 1) /\ status' = status
     \/ pc' = pc /\ status' = "undefined"
  /\ UNCHANGED <<records, data, fn, storage, newArgs, given, runs>>

\* An unsupported instruction, an object, field or function that is not there.
Raise ==
  /\ HandleScriptException
  /\ UNCHANGED <<records, runs>>

\* Where the frame of a callee g begins.
Base(g) == Last(records).base + Size[Last(records).fn]

\* Broken: only the frame's beginning is looked at.
Fits_Begin(g) == Base(g) <= STACK_SIZE

Fits(g) == Base(g) + Size[g] <= STACK_SIZE

\* IT_CALL of a script function: the record is given the return address even when
\* the frame does not fit.
Saved == [records EXCEPT ![Len(records)].pc = pc + 1]

\* What is meant to be zeroed is SavedStack, where nothing is read and which may end
\* before: the callee's locals stay as the area was.
ZeroesBeyond(g) ==
  Size[g] > NumArgs[g] /\ Base(g) + Size[g] > Capacity(records[1].fn)

Call(g, d) ==
  /\ pc + 1 < Length[fn] /\ Fits(g)
  /\ records' = Append(Saved, Record(g, Base(g), IF d = 0 THEN NoAddress ELSE Last(records).base + d - 1))
  /\ GetState(records')
  /\ given' = {}
  /\ UNCHANGED <<status, data, runs>>

CallBeyond(g) ==
  /\ pc + 1 < Length[fn] /\ Fits(g) /\ ZeroesBeyond(g)
  /\ status' = "undefined"
  /\ UNCHANGED <<records, data, stateVars, given, runs>>

StackOverflow(g) ==
  /\ pc + 1 < Length[fn] /\ ~ Fits(g)
  /\ records' = Saved
  /\ HandleScriptException
  /\ UNCHANGED runs

\* Broken: the record is popped first, and the value read from the caller's frame.
Return_AfterPop(s) ==
  /\ records' = SubSeq(records, 1, Len(records) - 1)
  /\ data' = IF Last(records).rv = NoAddress THEN data
             ELSE [data EXCEPT ![Last(records).rv] = data[Last(records').base + s - 1]]
  /\ given' = {}
  /\ IF records' = << >>
     THEN status' = "finished" /\ UNCHANGED stateVars
     ELSE status' = status /\ GetState(records')
  /\ UNCHANGED runs

\* IT_RET; the last one ends Run.
Return(s) ==
  /\ data' = IF Last(records).rv = NoAddress THEN data
             ELSE [data EXCEPT ![Last(records).rv] = data[Local(s)]]
  /\ records' = SubSeq(records, 1, Len(records) - 1)
  /\ given' = {}
  /\ IF records' = << >>
     THEN status' = "finished" /\ UNCHANGED stateVars
     ELSE status' = status /\ GetState(records')
  /\ UNCHANGED runs

Run ==
  \/ \E n \in 0 .. Length[fn] - 1 : Branch(n)
  \/ \E d \in Locals, v \in Values : Assign(d, v)
  \/ \E k \in Arguments, s \in Locals : Arg(k, s)
  \/ \E k \in Arguments : ArgBeyond(k)
  \/ Raise
  \/ \E g \in Functions, d \in Locals \union {0} : Call(g, d)
  \/ \E g \in Functions : CallBeyond(g) \/ StackOverflow(g)
  \/ \E s \in Locals : Return(s)

Next ==
  \/ \E f \in Functions : Enter(f) \/ EnterFails(f)
  \/ status = "running" /\ Run

Spec == Init /\ [][Next]_vars

-----------------------------------------------------------------------------
(* Properties.                                                             *)

\* While a script runs, through calls, returns and exceptions, the frames lie behind one
\* another inside the working area, the interpreter works on the last, and what a call
\* will return goes into the frame of its caller.
FramesNest ==
  status = "running" =>
    /\ records # << >> /\ fn = Last(records).fn
    /\ storage = Last(records).base /\ newArgs = storage + Size[fn] /\ newArgs <= STACK_SIZE
    /\ records[1].base = 0 /\ records[1].rv = NoAddress
    /\ \A k \in 2 .. Len(records) :
         LET caller == records[k - 1] IN
         /\ records[k].base = caller.base + Size[caller.fn]
         /\ records[k].rv \in {NoAddress} \union (caller.base .. records[k].base - 1)
         /\ caller.pc \in 0 .. Length[caller.fn] - 1

\* The frames, read off the working area.
Frames ==
  [k \in 1 .. Len(records) |->
     LET r == records[k] IN
     [fn |-> r.fn, pc |-> IF k = Len(records) THEN pc ELSE r.pc,
      locals |-> [i \in 1 .. Size[r.fn] |-> data[r.base + i - 1]],
      dest |-> IF r.rv = NoAddress THEN 0 ELSE r.rv - records[k - 1].base + 1]]

Calls == INSTANCE ScriptCalls WITH
  status <- IF status = "undefined" THEN "errored" ELSE status,
  frames <- Frames,
  given <- [k \in given |-> data[newArgs + k - 1]]

\* Whatever the script does, calls nested and recursive, after other scripts have used the
\* area: each call has variables of its own and gets the arguments it was given, and
\* its value goes to the caller's variable.
ImplementsCalls == Calls!Spec

=============================================================================
