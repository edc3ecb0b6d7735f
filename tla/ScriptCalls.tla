---------------------------- MODULE ScriptCalls ----------------------------
(***************************************************************************)
(* What the script virtual machine promises a compiled script              *)
(* (ScriptContext implements it): functions that call one another, each    *)
(* call with variables of its own.  Nothing but the function that runs     *)
(* changes its variables, a callee begins with the arguments it was given, *)
(* and a return changes one variable of the caller at most and goes on     *)
(* behind the call.                                                        *)
(***************************************************************************)
EXTENDS Naturals, Sequences

CONSTANTS
  Functions, Size, \* variables of each function, its arguments first
  NumArgs, Length, \* arguments and instructions of each
  Values, Zero

VARIABLES
  status,          \* "idle", "running", "finished", "errored"
  frames,          \* the calls under way, the innermost last
  given            \* arguments given for the next call, by position

vars == <<status, frames, given>>

Places(f) == 1 .. Size[f]
Depth == Len(frames)
Top == frames[Depth]
NoArgs == << >>

Frame(f, n, locals, d) == [fn |-> f, pc |-> n, locals |-> locals, dest |-> d]

Init == status = "idle" /\ frames = << >> /\ given = NoArgs

\* A function is entered from outside: its other variables are zero.
Enter(f) ==
  /\ status # "running" /\ status' = "running"
  /\ \E locals \in [Places(f) -> Values] :
       /\ \A i \in Places(f) : i > NumArgs[f] => locals[i] = Zero
       /\ frames' = <<Frame(f, 0, locals, 0)>>
  /\ given' = NoArgs

Running == status = "running"
Callers == SubSeq(frames, 1, Depth - 1)

\* The function that runs goes on to its instruction n.
Step(n, locals) ==
  /\ Running /\ status' = status
  /\ n < Length[Top.fn]
  /\ frames' = Append(Callers, Frame(Top.fn, n, locals, Top.dest))

Branch(n) == Step(n, Top.locals) /\ given' = given

Assign(d, v) == Step(Top.pc + 1, [Top.locals EXCEPT ![d] = v]) /\ given' = given

Give(k, s) ==
  /\ Step(Top.pc + 1, Top.locals)
  /\ given' = [i \in DOMAIN given \union {k} |-> IF i = k THEN Top.locals[s] ELSE given[i]]

\* What was not given, and what is no argument, may be anything.
Call(f, d) ==
  /\ Running /\ status' = status
  /\ Top.pc + 1 < Length[Top.fn]
  /\ \E locals \in [Places(f) -> Values] :
       /\ \A i \in 1 .. NumArgs[f] : i \in DOMAIN given => locals[i] = given[i]
       /\ frames' = Append(Append(Callers, Frame(Top.fn, Top.pc + 1, Top.locals, Top.dest)),
                             Frame(f, 0, locals, d))
  /\ given' = NoArgs

\* The caller's frame, with the value that comes back.
Resumed(v) ==
  LET caller == Callers[Depth - 1]
  IN IF Top.dest = 0 THEN caller
     ELSE Frame(caller.fn, caller.pc, [caller.locals EXCEPT ![Top.dest] = v], caller.dest)

Return(s) ==
  /\ Running
  /\ given' = NoArgs
  /\ IF Depth = 1
     THEN status' = "finished" /\ frames' = << >>
     ELSE /\ status' = status
          /\ frames' = Append(SubSeq(frames, 1, Depth - 2), Resumed(Top.locals[s]))

\* An exception: it ends the script.
Fail == Running /\ status' = "errored" /\ UNCHANGED <<frames, given>>

Next ==
  \/ \E f \in Functions : Enter(f)
  \/ /\ Running
     /\ \/ \E n \in 0 .. Length[Top.fn] - 1 : Branch(n)
        \/ \E d \in Places(Top.fn), v \in Values : Assign(d, v)
        \/ \E k \in UNION {1 .. NumArgs[f] : f \in Functions}, s \in Places(Top.fn) : Give(k, s)
        \/ \E f \in Functions, d \in Places(Top.fn) \union {0} : Call(f, d)
        \/ \E s \in Places(Top.fn) : Return(s)
        \/ Fail

Spec == Init /\ [][Next]_vars

=============================================================================
